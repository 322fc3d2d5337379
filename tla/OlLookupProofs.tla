--------------------------- MODULE OlLookupProofs ---------------------------
(***************************************************************************)
(* Proofs about OlLookup: what the recursion of get_analyses leaves behind *)
(* in the members of the Transducer object, and of which paths its results *)
(* are the output, for every set of transducers, every input and any       *)
(* number of lookups; and the same about OlFindLoop, when the object also  *)
(* searches for loops between its lookups.                                 *)
(***************************************************************************)
EXTENDS OlFindLoop, OlConvertProofs

\* An address of the transition table that has an entry, and an address of a
\* state: what find_index and try_epsilon_indices read there is in a table.
Position(c) ==
    c \in Nat /\ IndexesTransitionTable(c) /\ TableAddress(c) < Len(wtransition_table)

StateEntry(a) ==
    /\ a \in Nat
    /\ IndexesTransitionTable(a) => Position(a + 1)
    /\ ~ IndexesTransitionTable(a) => a + 1 < Len(windex_table)

\* Following the tables stays in the tables: a transition leads to a state, it
\* is not the last entry, and an index entry leads to a transition.
Readable ==
    /\ StateEntry(0)
    /\ \A c : Position(c) =>
         /\ At(wtransition_table, c).weight \in Nat
         /\ At(wtransition_table, c).input # NO_SYMBOL_NUMBER =>
              StateEntry(At(wtransition_table, c).target) /\ Position(c + 1)
    /\ \A a \in Nat : a < Len(windex_table) /\ At(windex_table, a).input # NO_SYMBOL_NUMBER =>
         Position(At(windex_table, a).target)

-----------------------------------------------------------------------------
LEMMA Between ==
    \A n, f, l \in Nat : f <= n /\ f # n /\ n <= f + l + 1 /\ n # f + l + 1 =>
      n - f \in 1 .. l /\ n = f + (n - f)
  OBVIOUS

(* Every entry of the transition table that is not a marker is a transition  *)
(* of some state.                                                            *)
LEMMA EntryOfState ==
    ASSUME WrittenInv, pc = "done", NEW n \in 1 .. Len(wtransition_table),
           wtransition_table[n].input # NO_SYMBOL_NUMBER
    PROVE  \E s \in States(graph) : \E k \in 1 .. Len(placeholders[s]) : n = First[s] + k
  <1> DEFINE N == graph.size
             P == placeholders
             S == {s \in 0 .. N - 1 : First[s] <= n}
             wt == wtransition_table
  <1>1. N \in Nat \ {0} /\ States(graph) = 0 .. N - 1
    BY AtTheEnd
  <1>2. /\ \A s \in 0 .. N - 1 : First[s] \in Nat /\ Len(P[s]) \in Nat
        /\ \A s \in 1 .. N - 1 : First[s] = First[s - 1] + 1 + Len(P[s - 1])
        /\ First[0] = 0
        /\ \A s \in 0 .. N - 1 : s # 0 => First[s] >= 1
    BY <1>1, FirstFacts
  <1>3. /\ wt \in Seq(NumberedArc)
        /\ Len(wt) = First[N - 1] + Len(P[N - 1]) + 1
        /\ \A s \in 0 .. N - 1 : s # 0 => wt[First[s]] = StateMarker(s)[1]
        /\ \A s \in 0 .. N - 1 : wt[First[s] + Len(P[s]) + 1].input = NO_SYMBOL_NUMBER
    BY <1>1, TransitionTableFacts
  <1>4. \A s \in 0 .. N - 1 : s # 0 => StateMarker(s)[1].input = NO_SYMBOL_NUMBER
    BY DEF StateMarker, FinalityMarker, Transition
  <1>5. n \in Nat /\ n >= 1 /\ n <= Len(wt) /\ Len(wt) \in Nat /\ wt[n].input # NO_SYMBOL_NUMBER
    BY <1>3
  <1> HIDE DEF N, P, wt, First
  <1>6. PICK s \in S : \A r \in S : s >= r
    <2>1. S \subseteq Nat /\ 0 \in S /\ N - 1 \in Nat /\ \A s \in S : s <= N - 1
      BY <1>1, <1>2, <1>5
    <2> HIDE DEF S
    <2> QED
      BY <2>1, GreatestNumber
  <1>7. s \in 0 .. N - 1 /\ First[s] <= n /\ First[s] \in Nat /\ Len(P[s]) \in Nat
    BY <1>2, <1>6
  <1>8. First[s] # n
    <2>1. CASE s = 0
      BY <1>2, <1>5, <2>1
    <2>2. CASE s # 0
      BY <1>3, <1>4, <1>5, <1>7, <2>2
    <2> QED
      BY <2>1, <2>2
  <1>9. n <= First[s] + Len(P[s]) + 1
    <2>1. CASE s = N - 1
      BY <1>3, <1>5, <2>1
    <2>2. CASE s # N - 1
      <3>1. s + 1 \in 1 .. N - 1 /\ s + 1 \in 0 .. N - 1 /\ s + 1 - 1 = s
        BY <1>1, <1>7, <2>2
      <3>2. s + 1 \notin S
        BY <1>6, <1>7
      <3>3. First[s + 1] = First[s] + 1 + Len(P[s]) /\ First[s + 1] > n
        BY <1>2, <1>5, <3>1, <3>2
      <3> QED
        BY <1>5, <1>7, <3>3
    <2> QED
      BY <2>1, <2>2
  <1>10. n # First[s] + Len(P[s]) + 1
    <2>1. wt[First[s] + Len(P[s]) + 1].input = NO_SYMBOL_NUMBER
      BY <1>3, <1>7
    <2> QED
      BY <1>5, <2>1
  <1>11. n - First[s] \in 1 .. Len(P[s]) /\ n = First[s] + (n - First[s])
    BY <1>5, <1>7, <1>8, <1>9, <1>10, Between
  <1> QED
    BY <1>1, <1>7, <1>11 DEF P
(* The tables that were written can be followed. *)
LEMMA TablesReadable ==
    ASSUME WrittenInv, RootInv, pc = "done", Addressable
    PROVE  Readable
  <1> DEFINE N == graph.size
             wt == wtransition_table
             xt == windex_table
             P == placeholders
             T == TRANSITION_TARGET_TABLE_START
  <1>1. N \in Nat \ {0} /\ States(graph) = 0 .. N - 1
    BY AtTheEnd
  <1>2. /\ \A s \in States(graph) : First[s] \in Nat /\ Len(P[s]) \in Nat
        /\ \A s \in States(graph) : s # 0 => First[s] >= 1
    BY FirstFacts
  <1>3. /\ wt \in Seq(NumberedArc) /\ Len(wt) \in Nat
        /\ \A s \in States(graph) : First[s] + Len(P[s]) < Len(wt)
        /\ \A s \in States(graph) : \A k \in 1 .. Len(P[s]) : wt[First[s] + k] = StateTransitions(s)[k]
    BY TransitionTableFacts
  <1>4. T \in Nat /\ Len(xt) \in Nat /\ Len(xt) <= T
    BY IndexTableFacts, ConstantsAssumption DEF Addressable
  <1>5. ASSUME NEW s \in States(graph) PROVE StateEntry(StateAddress(s))
    <2> DEFINE a == StateAddress(s)
    <2>1. CASE SimpleState(s)
      <3>1. s # 0 /\ a = First[s] + T - 1 /\ First[s] \in Nat /\ First[s] >= 1 /\ Len(P[s]) \in Nat
        BY <1>2, <2>1, AddressType
      <3>2. First[s] < Len(wt)
        BY <1>2, <1>3
      <3> HIDE DEF a, First
      <3>3. IndexesTransitionTable(a) /\ TableAddress(a + 1) = First[s]
        BY <3>1, AddressArithmetic
      <3>4. a \in Nat
        BY AddressType DEF a
      <3>5. IndexesTransitionTable(a + 1)
        BY <1>4, <3>3, <3>4 DEF IndexesTransitionTable
      <3>6. Position(a + 1)
        BY <3>2, <3>3, <3>4, <3>5 DEF Position
      <3> QED
        BY <3>3, <3>4, <3>6 DEF StateEntry, a
    <2>2. CASE ~ SimpleState(s)
      <3>1. s \in DOMAIN start_index /\ a = start_index[s] /\ a \in Nat
        BY <2>2, AddressType
      <3>2. a + seen_input_symbols < Len(xt) /\ seen_input_symbols \in Nat
        BY <3>1, IndexTableFacts
      <3>3. seen_input_symbols >= 1
        BY AtTheEnd DEF NumbersBounded
      <3> HIDE DEF a
      <3>4. a + 1 < Len(xt) /\ ~ (a >= T)
        BY <1>4, <3>1, <3>2, <3>3
      <3> QED
        BY <3>1, <3>4 DEF StateEntry, IndexesTransitionTable, a
    <2> QED
      BY <2>1, <2>2
  <1>6. StateEntry(0)
    <2>1. 0 \in States(graph) /\ ~ SimpleState(0)
      BY <1>1 DEF SimpleState, IsSimple
    <2>2. it = graph.size
      BY DEF WrittenInv
    <2>3. start_index[0] = 0
      BY <1>1, <2>2 DEF RootInv
    <2>4. StateAddress(0) = 0
      BY <2>1, <2>3 DEF StateAddress
    <2> QED
      BY <1>5, <2>1, <2>4
  <1>7. ASSUME NEW c, Position(c)
        PROVE  /\ At(wt, c).weight \in Nat
               /\ At(wt, c).input # NO_SYMBOL_NUMBER => StateEntry(At(wt, c).target) /\ Position(c + 1)
    <2> DEFINE n == TableAddress(c) + 1
    <2>1. c \in Nat /\ c >= T /\ TableAddress(c) = c - T /\ c - T < Len(wt)
      BY <1>7 DEF Position, IndexesTransitionTable, TableAddress
    <2>2. n \in 1 .. Len(wt) /\ At(wt, c) = wt[n] /\ n = c - T + 1
      BY <1>3, <1>4, <2>1 DEF At
    <2> HIDE DEF n
    <2>3. wt[n] \in NumberedArc
      BY <1>3, <2>2
    <2>4. At(wt, c).weight \in Nat
      BY <2>2, <2>3 DEF NumberedArc
    <2>5. ASSUME At(wt, c).input # NO_SYMBOL_NUMBER
          PROVE  StateEntry(At(wt, c).target) /\ Position(c + 1)
      <3>0. PICK s \in States(graph) : \E k \in 1 .. Len(P[s]) : n = First[s] + k
        BY <2>2, <2>5, EntryOfState
      <3>1. PICK k \in 1 .. Len(P[s]) : n = First[s] + k
        BY <3>0
      <3>2. First[s] \in Nat /\ Len(P[s]) \in Nat /\ k \in Nat /\ k <= Len(P[s])
        BY <1>2
      <3>3. n < Len(wt)
        BY <1>3, <3>1, <3>2
      <3>4. Position(c + 1)
        BY <1>3, <1>4, <2>1, <2>2, <3>3 DEF Position, IndexesTransitionTable, TableAddress
      <3>5. wt[n] = StateTransitions(s)[k]
        BY <1>3, <3>1
      <3>6. /\ StateTransitions(s)[k] = TransitionEntry(P[s][WriteOrder(P[s])[k]])
            /\ WriteOrder(P[s])[k] \in DOMAIN P[s]
        BY EntriesType
      <3>7. P[s][WriteOrder(P[s])[k]].target \in States(graph)
        BY <3>6, AtTheEnd
      <3>8. wt[n].target = StateAddress(P[s][WriteOrder(P[s])[k]].target)
        BY <3>5, <3>6 DEF TransitionEntry, Transition
      <3> QED
        BY <1>5, <2>2, <3>4, <3>7, <3>8
    <2> QED
      BY <2>4, <2>5
  <1>8. ASSUME NEW a \in Nat, a < Len(xt), At(xt, a).input # NO_SYMBOL_NUMBER
        PROVE  Position(At(xt, a).target)
    <2>1. At(xt, a) = xt[a + 1] /\ a \in 0 .. Len(xt) - 1
      BY <1>4, <1>8 DEF At, TableAddress, IndexesTransitionTable
    <2>2. At(xt, a) = IndexTableEntry(a)
      BY <2>1, IndexTableFacts
    <2> DEFINE s == used_indices[a][1]
               o == used_indices[a][2]
               off == SymbolOffset(o, P[s], flag_symbols)
    <2>3. a \in DOMAIN used_indices /\ o # NO_SYMBOL_NUMBER
      BY <1>8, <2>2 DEF IndexTableEntry, BlankIndex, FinalIndex, IndexEntry
    <2>4. At(xt, a).target = First[s] + off + T
      BY <2>2, <2>3 DEF IndexTableEntry, IndexEntry, First
    <2>5. s \in States(graph)
      <3>1. IndexInv
        BY AtTheEnd
      <3>2. s \in DOMAIN start_index /\ DOMAIN start_index \subseteq 0 .. it - 1 /\ it \in 0 .. graph.size
        BY <2>3, <3>1 DEF IndexInv, IndexOwnership, TypeOK
      <3> QED
        BY <1>1, <3>2
    <2>6. off \in 0 .. Len(P[s])
      <3> DEFINE K == {k \in DOMAIN P[s] : P[s][k].input = 0 \/ P[s][k].input \in flag_symbols
                                           \/ P[s][k].input < o}
      <3>1. DOMAIN P[s] = 1 .. Len(P[s]) /\ Len(P[s]) \in Nat
        BY <1>1, <2>5, AtTheEnd
      <3>2. IsFiniteSet(1 .. Len(P[s])) /\ Cardinality(1 .. Len(P[s])) = Len(P[s])
        BY <3>1, IntervalSize
      <3>3. K \subseteq 1 .. Len(P[s])
        BY <3>1
      <3> HIDE DEF K
      <3>4. IsFiniteSet(K) /\ Cardinality(K) <= Len(P[s])
        BY <3>2, <3>3, FS_Subset
      <3>5. Cardinality(K) \in Nat
        BY <3>4, FS_CardinalityType
      <3>6. off = 0 \/ off = Cardinality(K)
        BY DEF SymbolOffset, K
      <3> QED
        BY <3>1, <3>4, <3>5, <3>6
    <2>7. First[s] \in Nat /\ Len(P[s]) \in Nat /\ First[s] + Len(P[s]) < Len(wt)
      BY <1>2, <1>3, <2>5
    <2> HIDE DEF s, o, off, First
    <2>8. First[s] + off \in Nat /\ First[s] + off < Len(wt)
      BY <1>3, <2>6, <2>7
    <2> QED
      BY <1>3, <1>4, <2>4, <2>8 DEF Position, IndexesTransitionTable, TableAddress
  <1> QED
    BY <1>6, <1>7, <1>8 DEF Readable
-----------------------------------------------------------------------------
(* Frames and stacks.                                                       *)

\* A frame with these fields.
FrameOf(at, pos, out, stage, cursor, symbols, defaulted, flags) ==
    [at |-> at, pos |-> pos, out |-> out, stage |-> stage, cursor |-> cursor,
     symbols |-> symbols, defaulted |-> defaulted, flags |-> flags]

IsFrame(f) ==
    f = FrameOf(f.at, f.pos, f.out, f.stage, f.cursor, f.symbols, f.defaulted, f.flags)

LEMMA FrameFields ==
    ASSUME NEW a, NEW p, NEW o, NEW s, NEW c, NEW y, NEW d, NEW g
    PROVE  LET f == FrameOf(a, p, o, s, c, y, d, g)
           IN  /\ IsFrame(f) /\ f.at = a /\ f.pos = p /\ f.stage = s /\ f.cursor = c
               /\ f.symbols = y /\ f.flags = g
  BY DEF IsFrame, FrameOf

Fields(g, at, pos, stage, cursor, symbols, flags) ==
    /\ IsFrame(g)
    /\ g.at = at /\ g.pos = pos /\ g.stage = stage /\ g.cursor = cursor
    /\ g.symbols = symbols /\ g.flags = flags

Updated(g, at, pos, out, stage, cursor, symbols, defaulted, flags) ==
    g = FrameOf(at, pos, out, stage, cursor, symbols, defaulted, flags)

(* The ways in which the steps change a frame. *)
FieldsChanged(f, s, c, p, y, d, g) ==
    /\ Fields([f EXCEPT !.stage = s], f.at, f.pos, s, f.cursor, f.symbols, f.flags)
    /\ Fields([f EXCEPT !.stage = s, !.cursor = c], f.at, f.pos, s, c, f.symbols, f.flags)
    /\ Fields([f EXCEPT !.stage = s, !.flags = g], f.at, f.pos, s, f.cursor, f.symbols, g)
    /\ Fields([f EXCEPT !.cursor = c], f.at, f.pos, f.stage, c, f.symbols, f.flags)
    /\ Fields([f EXCEPT !.stage = s, !.pos = p, !.symbols = y],
              f.at, p, s, f.cursor, y, f.flags)
    /\ Fields([f EXCEPT !.symbols = y], f.at, f.pos, f.stage, f.cursor, y, f.flags)
    /\ Fields([f EXCEPT !.symbols = y, !.defaulted = d],
              f.at, f.pos, f.stage, f.cursor, y, f.flags)
    /\ Fields([f EXCEPT !.stage = s, !.symbols = y],
              f.at, f.pos, s, f.cursor, y, f.flags)

Changed(f, s, c, p, y, d, g) ==
    /\ Updated([f EXCEPT !.stage = s],
               f.at, f.pos, f.out, s, f.cursor, f.symbols, f.defaulted, f.flags)
    /\ Updated([f EXCEPT !.stage = s, !.cursor = c],
               f.at, f.pos, f.out, s, c, f.symbols, f.defaulted, f.flags)
    /\ Updated([f EXCEPT !.stage = s, !.flags = g],
               f.at, f.pos, f.out, s, f.cursor, f.symbols, f.defaulted, g)
    /\ Updated([f EXCEPT !.cursor = c],
               f.at, f.pos, f.out, f.stage, c, f.symbols, f.defaulted, f.flags)
    /\ Updated([f EXCEPT !.stage = s, !.pos = p, !.symbols = y],
               f.at, p, f.out, s, f.cursor, y, f.defaulted, f.flags)
    /\ Updated([f EXCEPT !.symbols = y],
               f.at, f.pos, f.out, f.stage, f.cursor, y, f.defaulted, f.flags)
    /\ Updated([f EXCEPT !.symbols = y, !.defaulted = d],
               f.at, f.pos, f.out, f.stage, f.cursor, y, d, f.flags)
    /\ Updated([f EXCEPT !.stage = s, !.symbols = y],
               f.at, f.pos, f.out, s, f.cursor, y, f.defaulted, f.flags)

LEMMA FrameChanges ==
    ASSUME NEW f, IsFrame(f), NEW s, NEW c, NEW p, NEW y, NEW d, NEW g
    PROVE  FieldsChanged(f, s, c, p, y, d, g) /\ Changed(f, s, c, p, y, d, g)
  <1> DEFINE a == f.at
             q == f.pos
             o == f.out
             t == f.stage
             e == f.cursor
             z == f.symbols
             b == f.defaulted
             h == f.flags
  <1>0. f = FrameOf(a, q, o, t, e, z, b, h)
    BY DEF IsFrame
  <1>9. \A a1, q1, o1, t1, e1, z1, b1, h1 :
          Fields(FrameOf(a1, q1, o1, t1, e1, z1, b1, h1), a1, q1, t1, e1, z1, h1)
    BY FrameFields DEF Fields
  <1> HIDE DEF a, q, o, t, e, z, b, h
  <1>1. [f EXCEPT !.stage = s] = FrameOf(a, q, o, s, e, z, b, h)
    BY <1>0 DEF FrameOf
  <1>2. [f EXCEPT !.stage = s, !.cursor = c] = FrameOf(a, q, o, s, c, z, b, h)
    <2>1. [f EXCEPT !.stage = s, !.cursor = c] = [[f EXCEPT !.stage = s] EXCEPT !.cursor = c]
      OBVIOUS
    <2>2. [FrameOf(a, q, o, s, e, z, b, h) EXCEPT !.cursor = c] = FrameOf(a, q, o, s, c, z, b, h)
      BY DEF FrameOf
    <2> QED
      BY <1>1, <2>1, <2>2
  <1>3. [f EXCEPT !.stage = s, !.flags = g] = FrameOf(a, q, o, s, e, z, b, g)
    <2>1. [f EXCEPT !.stage = s, !.flags = g] = [[f EXCEPT !.stage = s] EXCEPT !.flags = g]
      OBVIOUS
    <2>2. [FrameOf(a, q, o, s, e, z, b, h) EXCEPT !.flags = g] = FrameOf(a, q, o, s, e, z, b, g)
      BY DEF FrameOf
    <2> QED
      BY <1>1, <2>1, <2>2
  <1>4. [f EXCEPT !.cursor = c] = FrameOf(a, q, o, t, c, z, b, h)
    BY <1>0 DEF FrameOf
  <1>5. [f EXCEPT !.stage = s, !.pos = p, !.symbols = y] = FrameOf(a, p, o, s, e, y, b, h)
    <2>1. [f EXCEPT !.stage = s, !.pos = p, !.symbols = y]
            = [[[f EXCEPT !.stage = s] EXCEPT !.pos = p] EXCEPT !.symbols = y]
      OBVIOUS
    <2>2. [FrameOf(a, q, o, s, e, z, b, h) EXCEPT !.pos = p] = FrameOf(a, p, o, s, e, z, b, h)
      BY DEF FrameOf
    <2>3. [FrameOf(a, p, o, s, e, z, b, h) EXCEPT !.symbols = y] = FrameOf(a, p, o, s, e, y, b, h)
      BY DEF FrameOf
    <2> QED
      BY <1>1, <2>1, <2>2, <2>3
  <1>6. [f EXCEPT !.symbols = y] = FrameOf(a, q, o, t, e, y, b, h)
    BY <1>0 DEF FrameOf
  <1>7. [f EXCEPT !.symbols = y, !.defaulted = d] = FrameOf(a, q, o, t, e, y, d, h)
    <2>1. [f EXCEPT !.symbols = y, !.defaulted = d] = [[f EXCEPT !.symbols = y] EXCEPT !.defaulted = d]
      OBVIOUS
    <2>2. [FrameOf(a, q, o, t, e, y, b, h) EXCEPT !.defaulted = d] = FrameOf(a, q, o, t, e, y, d, h)
      BY DEF FrameOf
    <2> QED
      BY <1>6, <2>1, <2>2
  <1>8. [f EXCEPT !.stage = s, !.symbols = y] = FrameOf(a, q, o, s, e, y, b, h)
    <2>1. [f EXCEPT !.stage = s, !.symbols = y] = [[f EXCEPT !.stage = s] EXCEPT !.symbols = y]
      OBVIOUS
    <2>2. [FrameOf(a, q, o, s, e, z, b, h) EXCEPT !.symbols = y] = FrameOf(a, q, o, s, e, y, b, h)
      BY DEF FrameOf
    <2> QED
      BY <1>1, <2>1, <2>2
  <1>11. Fields([f EXCEPT !.stage = s], a, q, s, e, z, h)
    BY <1>1, <1>9
  <1>12. Fields([f EXCEPT !.stage = s, !.cursor = c], a, q, s, c, z, h)
    BY <1>2, <1>9
  <1>13. Fields([f EXCEPT !.stage = s, !.flags = g], a, q, s, e, z, g)
    BY <1>3, <1>9
  <1>14. Fields([f EXCEPT !.cursor = c], a, q, t, c, z, h)
    BY <1>4, <1>9
  <1>15. Fields([f EXCEPT !.stage = s, !.pos = p, !.symbols = y], a, p, s, e, y, h)
    BY <1>5, <1>9
  <1>16. Fields([f EXCEPT !.symbols = y], a, q, t, e, y, h)
    BY <1>6, <1>9
  <1>17. Fields([f EXCEPT !.symbols = y, !.defaulted = d], a, q, t, e, y, h)
    BY <1>7, <1>9
  <1>18. Fields([f EXCEPT !.stage = s, !.symbols = y], a, q, s, e, y, h)
    BY <1>8, <1>9
  <1> QED
    <2>1. /\ Fields([f EXCEPT !.stage = s], a, q, s, e, z, h)
          /\ Fields([f EXCEPT !.stage = s, !.cursor = c], a, q, s, c, z, h)
          /\ Fields([f EXCEPT !.stage = s, !.flags = g], a, q, s, e, z, g)
          /\ Fields([f EXCEPT !.cursor = c], a, q, t, c, z, h)
          /\ Fields([f EXCEPT !.stage = s, !.pos = p, !.symbols = y], a, p, s, e, y, h)
          /\ Fields([f EXCEPT !.symbols = y], a, q, t, e, y, h)
          /\ Fields([f EXCEPT !.symbols = y, !.defaulted = d], a, q, t, e, y, h)
          /\ Fields([f EXCEPT !.stage = s, !.symbols = y], a, q, s, e, y, h)
      BY <1>11, <1>12, <1>13, <1>14, <1>15, <1>16, <1>17, <1>18
    <2>2. /\ Updated([f EXCEPT !.stage = s], a, q, o, s, e, z, b, h)
          /\ Updated([f EXCEPT !.stage = s, !.cursor = c], a, q, o, s, c, z, b, h)
          /\ Updated([f EXCEPT !.stage = s, !.flags = g], a, q, o, s, e, z, b, g)
          /\ Updated([f EXCEPT !.cursor = c], a, q, o, t, c, z, b, h)
          /\ Updated([f EXCEPT !.stage = s, !.pos = p, !.symbols = y], a, p, o, s, e, y, b, h)
          /\ Updated([f EXCEPT !.symbols = y], a, q, o, t, e, y, b, h)
          /\ Updated([f EXCEPT !.symbols = y, !.defaulted = d], a, q, o, t, e, y, d, h)
          /\ Updated([f EXCEPT !.stage = s, !.symbols = y], a, q, o, s, e, y, b, h)
      BY <1>1, <1>2, <1>3, <1>4, <1>5, <1>6, <1>7, <1>8 DEF Updated
    <2> QED
      BY <2>1, <2>2 DEF FieldsChanged, Changed, a, q, o, t, e, z, b, h

LEMMA NewFrames ==
    ASSUME NEW f, IsFrame(f), NEW s, NEW c, NEW p, NEW y, NEW d, NEW g
    PROVE  /\ Fields([f EXCEPT !.stage = s], f.at, f.pos, s, f.cursor, f.symbols, f.flags)
           /\ Fields([f EXCEPT !.stage = s, !.cursor = c], f.at, f.pos, s, c, f.symbols, f.flags)
           /\ Fields([f EXCEPT !.stage = s, !.flags = g], f.at, f.pos, s, f.cursor, f.symbols, g)
           /\ Fields([f EXCEPT !.cursor = c], f.at, f.pos, f.stage, c, f.symbols, f.flags)
           /\ Fields([f EXCEPT !.stage = s, !.pos = p, !.symbols = y],
                     f.at, p, s, f.cursor, y, f.flags)
           /\ Fields([f EXCEPT !.symbols = y], f.at, f.pos, f.stage, f.cursor, y, f.flags)
           /\ Fields([f EXCEPT !.symbols = y, !.defaulted = d],
                     f.at, f.pos, f.stage, f.cursor, y, f.flags)
           /\ Fields([f EXCEPT !.stage = s, !.symbols = y],
                     f.at, f.pos, s, f.cursor, y, f.flags)
  <1>1. FieldsChanged(f, s, c, p, y, d, g)
    BY FrameChanges
  <1> QED
    BY <1>1 DEF FieldsChanged

IsStack(st) == \E S : st \in Seq(S)

LEMMA StackTop ==
    ASSUME NEW st, IsStack(st), st # << >>
    PROVE  /\ Len(st) \in Nat \ {0} /\ DOMAIN st = 1 .. Len(st)
           /\ Last(st) = st[Len(st)]
  BY DEF IsStack, Last

TopIs(old, f, new) ==
    /\ IsStack(new) /\ Len(new) = Len(old) /\ new # << >>
    /\ new[Len(old)] = f
    /\ \A k \in 1 .. Len(old) - 1 : new[k] = old[k]

PushedOn(old, f, new) ==
    /\ IsStack(new) /\ Len(new) = Len(old) + 1 /\ new # << >>
    /\ new[Len(old) + 1] = f
    /\ \A k \in 1 .. Len(old) : new[k] = old[k]

LEMMA StackSet ==
    ASSUME NEW st, IsStack(st), st # << >>, NEW f
    PROVE  TopIs(st, f, Append(Front(st), f))
  <1> DEFINE new == Append(Front(st), f)
  <1>1. PICK S : st \in Seq(S)
    BY DEF IsStack
  <1> DEFINE U == S \cup {f}
  <1>2. st \in Seq(U) /\ f \in U
    BY <1>1
  <1> HIDE DEF U
  <1>3. /\ Front(st) \in Seq(U) /\ Len(Front(st)) = Len(st) - 1
        /\ \A k \in 1 .. Len(st) - 1 : Front(st)[k] = st[k]
        /\ Len(st) \in Nat \ {0}
    BY <1>2, FrontFacts
  <1>4. /\ new \in Seq(U) /\ Len(new) = Len(st) /\ new[Len(st)] = f
        /\ \A k \in 1 .. Len(st) - 1 : new[k] = st[k]
    BY <1>2, <1>3
  <1> HIDE DEF new
  <1>5. TopIs(st, f, new)
    BY <1>3, <1>4 DEF IsStack, TopIs
  <1> QED
    BY <1>5 DEF new

LEMMA StackPop ==
    ASSUME NEW st, IsStack(st), st # << >>, NEW new, new = Front(st)
    PROVE  /\ IsStack(new) /\ Len(new) = Len(st) - 1
           /\ \A k \in 1 .. Len(st) - 1 : new[k] = st[k]
           /\ new = << >> <=> Len(st) = 1
  <1>1. PICK S : st \in Seq(S)
    BY DEF IsStack
  <1>3. /\ new \in Seq(S) /\ Len(new) = Len(st) - 1
        /\ \A k \in 1 .. Len(st) - 1 : new[k] = st[k]
        /\ Len(st) \in Nat \ {0}
    BY <1>1, FrontFacts
  <1> QED
    BY <1>3 DEF IsStack

LEMMA StackPush ==
    ASSUME NEW st, IsStack(st), NEW f
    PROVE  PushedOn(st, f, Append(st, f))
  <1> DEFINE new == Append(st, f)
  <1>1. PICK S : st \in Seq(S)
    BY DEF IsStack
  <1> DEFINE U == S \cup {f}
  <1>2. st \in Seq(U) /\ f \in U
    BY <1>1
  <1> HIDE DEF U
  <1>3. /\ new \in Seq(U) /\ Len(new) = Len(st) + 1 /\ new[Len(st) + 1] = f
        /\ \A k \in 1 .. Len(st) : new[k] = st[k]
        /\ Len(st) \in Nat
    BY <1>2
  <1> HIDE DEF new
  <1>4. PushedOn(st, f, new)
    BY <1>3 DEF IsStack, PushedOn
  <1> QED
    BY <1>4 DEF new

-----------------------------------------------------------------------------
(* The weight of a stack, as partial sums from its bottom.                  *)

Contribution(table, f) == IF f.stage \in Calling THEN At(table, f.cursor).weight ELSE 0

SumOf(table, st, total) ==
    \E w \in [0 .. Len(st) -> Int] :
      /\ w[0] = 0
      /\ \A k \in 1 .. Len(st) : w[k] = w[k - 1] + Contribution(table, st[k])
      /\ total = w[Len(st)]

LEMMA SumEmpty == \A table : SumOf(table, << >>, 0)
  <1> SUFFICES ASSUME NEW table PROVE SumOf(table, << >>, 0)
    OBVIOUS
  <1> DEFINE w == [k \in 0 .. 0 |-> 0]
  <1>1. Len(<< >>) = 0
    OBVIOUS
  <1>2. w \in [0 .. 0 -> Int] /\ w[0] = 0
    OBVIOUS
  <1> HIDE DEF w
  <1> QED
    BY <1>1, <1>2 DEF SumOf

LEMMA SumPush ==
    ASSUME NEW table, NEW st, IsStack(st), NEW t \in Int, SumOf(table, st, t),
           NEW f, Contribution(table, f) \in Int
    PROVE  SumOf(table, Append(st, f), t + Contribution(table, f))
  <1> DEFINE n == Len(st)
             new == Append(st, f)
  <1>1. PICK w \in [0 .. n -> Int] :
          /\ w[0] = 0
          /\ \A k \in 1 .. n : w[k] = w[k - 1] + Contribution(table, st[k])
          /\ t = w[n]
    BY DEF SumOf
  <1>2. /\ Len(new) = n + 1 /\ new[n + 1] = f /\ n \in Nat
        /\ \A k \in 1 .. n : new[k] = st[k]
    BY StackPush DEF PushedOn, IsStack
  <1> HIDE DEF n, new
  <1> DEFINE u == t + Contribution(table, f)
             v == [k \in 0 .. n + 1 |-> IF k = n + 1 THEN u ELSE w[k]]
  <1>0. u \in Int
    OBVIOUS
  <1> HIDE DEF u
  <1>3. v \in [0 .. n + 1 -> Int] /\ v[0] = 0 /\ v[n + 1] = u /\ \A k \in 0 .. n : v[k] = w[k]
    BY <1>0, <1>1, <1>2
  <1> HIDE DEF v
  <1>6. \A k \in 1 .. n + 1 : v[k] = v[k - 1] + Contribution(table, new[k])
    <2> SUFFICES ASSUME NEW k \in 1 .. n + 1
                 PROVE  v[k] = v[k - 1] + Contribution(table, new[k])
      OBVIOUS
    <2>1. CASE k = n + 1
      <3>1. k - 1 = n /\ v[n] = t
        BY <1>1, <1>2, <1>3, <2>1
      <3> QED
        BY <1>2, <1>3, <2>1, <3>1 DEF u
    <2>2. CASE k # n + 1
      <3>1. k \in 1 .. n /\ k \in 0 .. n /\ k - 1 \in 0 .. n
        BY <1>2, <2>2
      <3> QED
        BY <1>1, <1>2, <1>3, <3>1
    <2> QED
      BY <2>1, <2>2
  <1>7. SumOf(table, new, u)
    BY <1>2, <1>3, <1>6 DEF SumOf
  <1> QED
    BY <1>7 DEF u, new

LEMMA SumPop ==
    ASSUME NEW table, NEW st, IsStack(st), st # << >>, NEW t, SumOf(table, st, t),
           NEW new, new = Front(st), Contribution(table, st[Len(st)]) \in Int
    PROVE  SumOf(table, new, t - Contribution(table, st[Len(st)])) /\ t \in Int
  <1> DEFINE n == Len(st)
  <1>1. PICK w \in [0 .. n -> Int] :
          /\ w[0] = 0
          /\ \A k \in 1 .. n : w[k] = w[k - 1] + Contribution(table, st[k])
          /\ t = w[n]
    BY DEF SumOf
  <1>2. /\ Len(new) = n - 1 /\ n \in Nat \ {0} /\ Contribution(table, st[n]) \in Int
        /\ \A k \in 1 .. n - 1 : new[k] = st[k]
    BY StackPop, StackTop
  <1> DEFINE v == [k \in 0 .. n - 1 |-> w[k]]
             u == t - Contribution(table, st[n])
  <1> HIDE DEF n
  <1>3. v \in [0 .. n - 1 -> Int] /\ v[0] = 0 /\ \A k \in 0 .. n - 1 : v[k] = w[k]
    BY <1>1, <1>2
  <1>4. v[n - 1] = u /\ t \in Int
    <2>1. w[n] = w[n - 1] + Contribution(table, st[n]) /\ w[n - 1] \in Int /\ n - 1 \in 0 .. n - 1
      BY <1>1, <1>2
    <2>2. v[n - 1] = w[n - 1] /\ t = w[n - 1] + Contribution(table, st[n])
      BY <1>1, <1>3, <2>1
    <2> QED
      BY <1>2, <2>1, <2>2
  <1> HIDE DEF v, u
  <1>6. \A k \in 1 .. n - 1 : v[k] = v[k - 1] + Contribution(table, new[k])
    <2> SUFFICES ASSUME NEW k \in 1 .. n - 1
                 PROVE  v[k] = v[k - 1] + Contribution(table, new[k])
      OBVIOUS
    <2>1. k \in 1 .. n /\ k \in 0 .. n - 1 /\ k - 1 \in 0 .. n - 1
      BY <1>2
    <2> QED
      BY <1>1, <1>2, <1>3, <2>1
  <1>7. SumOf(table, new, u)
    BY <1>2, <1>3, <1>4, <1>6 DEF SumOf
  <1> QED
    BY <1>4, <1>7 DEF u, n
-----------------------------------------------------------------------------
(* What the frames of a running lookup point at.                            *)

\* The state and the input position of a frame are in range, and its cursor is
\* at an entry; a transition that is being followed is no marker.
FrameInv(f) ==
    /\ StateEntry(f.at)
    /\ f.pos \in 0 .. Len(input_tape)
    /\ f.symbols \in Seq(0 .. NO_SYMBOL_NUMBER - 1)
    /\ f.stage \in {"epsilons", "transitions"} \cup Calling => Position(f.cursor)
    /\ f.stage \in Calling => At(wtransition_table, f.cursor).input # NO_SYMBOL_NUMBER
    /\ f.stage \in {"transitions", "after transition"} => f.symbols # << >>

LEMMA FindPosition ==
    ASSUME Readable, NEW a, StateEntry(a), NEW x \in Nat,
           IndexesTransitionTable(a) \/ a + 1 + x < Len(windex_table),
           NEW c \in FindIndex(windex_table, a, x)
    PROVE  Position(c)
  <1>1. CASE IndexesTransitionTable(a)
    BY <1>1 DEF FindIndex, StateEntry
  <1>2. CASE ~ IndexesTransitionTable(a)
    <2>1. /\ c = At(windex_table, a + 1 + x).target
          /\ At(windex_table, a + 1 + x).input # NO_SYMBOL_NUMBER
      BY <1>2 DEF FindIndex, Matches
    <2>2. a + 1 + x \in Nat /\ a + 1 + x < Len(windex_table)
      BY <1>2 DEF StateEntry
    <2> QED
      BY <2>1, <2>2 DEF Readable
  <1> QED
    BY <1>1, <1>2

LEMMA SpecialType ==
    ASSUME WrittenInv, pc = "done", NEW name
    PROVE  SpecialSymbol(name) # NO_SYMBOL_NUMBER =>
             SpecialSymbol(name) \in 0 .. NO_SYMBOL_NUMBER - 1
  <1>1. Len(symbol_table) \in Nat /\ Len(symbol_table) <= NO_SYMBOL_NUMBER
    BY AtTheEnd DEF NumbersBounded
  <1>2. CASE \E i \in 1 .. Len(symbol_table) : symbol_table[i] = name
    <2>1. PICK i \in 1 .. Len(symbol_table) : SpecialSymbol(name) = i - 1
      BY <1>2 DEF SpecialSymbol, SymbolNumberOf
    <2> QED
      BY <1>1, <2>1, ConstantsAssumption
  <1>3. CASE ~ \E i \in 1 .. Len(symbol_table) : symbol_table[i] = name
    BY <1>3 DEF SpecialSymbol
  <1> QED
    BY <1>2, <1>3

LEMMA SymbolsForType ==
    ASSUME WrittenInv, pc = "done", NEW x \in Nat
    PROVE  SymbolsFor(x) \in Seq(0 .. NO_SYMBOL_NUMBER - 1)
  <1> DEFINE S == 0 .. NO_SYMBOL_NUMBER - 1
             present(y) == IF y = NO_SYMBOL_NUMBER THEN << >> ELSE << y >>
  <1>1. Len(symbol_table) \in Nat /\ Len(symbol_table) <= NO_SYMBOL_NUMBER
    BY AtTheEnd DEF NumbersBounded
  <1>2. CASE x < orig_symbol_count
    <2>1. x \in S
      BY <1>1, <1>2, ConstantsAssumption DEF orig_symbol_count
    <2> HIDE DEF S
    <2>2. SymbolsFor(x) = << x >> /\ << x >> \in Seq(S)
      BY <1>2, <2>1 DEF SymbolsFor
    <2> QED
      BY <2>2 DEF S
  <1>3. CASE ~ (x < orig_symbol_count)
    <2>1. \A name : present(SpecialSymbol(name)) \in Seq(S)
      <3> SUFFICES ASSUME NEW name PROVE present(SpecialSymbol(name)) \in Seq(S)
        OBVIOUS
      <3> DEFINE y == SpecialSymbol(name)
      <3>1. y # NO_SYMBOL_NUMBER => y \in S
        BY SpecialType
      <3> HIDE DEF S, y
      <3>2. present(y) \in Seq(S)
        BY <3>1
      <3> QED
        BY <3>2 DEF y
    <2> DEFINE u == present(SpecialSymbol(IdentityName))
               v == present(SpecialSymbol(UnknownName))
    <2>2. SymbolsFor(x) = u \o v
      BY <1>3 DEF SymbolsFor
    <2>3. u \in Seq(S) /\ v \in Seq(S)
      BY <2>1
    <2> HIDE DEF u, v, S
    <2> QED
      BY <2>2, <2>3 DEF S
  <1> QED
    BY <1>2, <1>3

LEMMA FlagNumbers ==
    ASSUME WrittenInv, pc = "done", NEW x \in FlagSymbols
    PROVE  x # NO_SYMBOL_NUMBER
  <1>1. Len(symbol_table) \in Nat /\ Len(symbol_table) <= NO_SYMBOL_NUMBER
    BY AtTheEnd DEF NumbersBounded
  <1> QED
    BY <1>1, ConstantsAssumption DEF FlagSymbols, NumbersOf
-----------------------------------------------------------------------------
(* The steps of get_analyses come in three shapes: a call goes on, and takes *)
(* back what it did for a transition that has been followed; it calls itself *)
(* for the next transition; or it returns.                                   *)

LEMMA FirstFrame ==
    ASSUME NEW a, NEW p, NEW o
    PROVE  Fields(Frame(a, p, o), a, p, "enter", 0, << >>, NoFlags)
  BY FrameFields DEF Frame, Fields, FrameOf, IsFrame

LEMMA EnteredFrame ==
    ASSUME NEW f, FrameInv(f), NEW a, StateEntry(a),
           NEW g, Fields(g, a, f.pos, "enter", 0, << >>, NoFlags)
    PROVE  FrameInv(g)
  <1> DEFINE S == 0 .. NO_SYMBOL_NUMBER - 1
  <1>1. << >> \in Seq(S)
    OBVIOUS
  <1>2. g.at = a /\ g.pos = f.pos /\ g.stage = "enter" /\ g.symbols = << >>
    BY DEF Fields
  <1>3. f.pos \in 0 .. Len(input_tape)
    BY DEF FrameInv
  <1> HIDE DEF S
  <1> QED
    BY <1>1, <1>2, <1>3 DEF FrameInv, Calling, S

InCall ==
    /\ pc = "done" /\ pc' \in {"done", "undefined"}
    /\ stack # << >>
    /\ UNCHANGED << inputVars, symbolVars, packVars, tableVars, input_tape >>

GoesOn ==
    /\ InCall
    /\ \E f : /\ IsFrame(f) /\ SetTop(f)
              /\ f.stage \notin Calling \cup {"enter"}
              /\ Readable /\ FrameInv(Top) => FrameInv(f)
    /\ flag_state' = IF Top.stage = "after flag" THEN Top.flags ELSE flag_state
    /\ current_weight' =
         IF Top.stage \in Calling THEN current_weight - Entry.weight ELSE current_weight
    /\ recursion_depth_left' =
         IF Top.stage = "enter" THEN recursion_depth_left - 1 ELSE recursion_depth_left

CallsItself ==
    /\ InCall
    /\ Top.stage \notin Calling \cup {"enter"}
    /\ \E f, g : /\ IsFrame(f) /\ IsFrame(g)
                 /\ stack' = Append(Append(Front(stack), f), g)
                 /\ f.stage \in Calling /\ g.stage = "enter"
                 /\ current_weight' = current_weight + At(wtransition_table, f.cursor).weight
                 /\ IF f.stage = "after flag" THEN f.flags = flag_state ELSE flag_state' = flag_state
                 /\ Readable /\ FrameInv(Top) => FrameInv(f) /\ FrameInv(g)
    /\ UNCHANGED recursion_depth_left

Returns ==
    /\ InCall
    /\ Top.stage \notin Calling
    /\ Pop
    /\ UNCHANGED << flag_state, current_weight >>
    /\ recursion_depth_left' =
         IF Top.stage = "enter" THEN recursion_depth_left ELSE recursion_depth_left + 1

\* What these shapes need to be known of the state.
Ready ==
    /\ WrittenInv
    /\ IsStack(stack)
    /\ stack # << >> => IsFrame(Top)
    /\ input_tape \in Seq(Nat)

LEMMA ReturnShapes == BackOut \/ NoMoreInput \/ LeaveState => Returns
  BY DEF BackOut, NoMoreInput, LeaveState, Returns, InCall, Running, Calling, pathVars, callVars, vars

LEMMA EpsilonCall == Ready /\ TryEpsilon => CallsItself
  <1> SUFFICES ASSUME Ready, TryEpsilon PROVE CallsItself
    OBVIOUS
  <1> DEFINE f == [Top EXCEPT !.stage = "after epsilon"]
             g == Frame(Entry.target, Top.pos, f.out + 1)
  <1>1. IsFrame(Top) /\ Top.stage = "epsilons" /\ Entry.input = 0
    BY DEF TryEpsilon, Ready, Running
  <1>2. Fields(f, Top.at, Top.pos, "after epsilon", Top.cursor, Top.symbols, Top.flags)
    BY <1>1, NewFrames
  <1>3. Fields(g, Entry.target, Top.pos, "enter", 0, << >>, NoFlags)
    BY FirstFrame
  <1>4. /\ stack' = Append(Append(Front(stack), f), g)
        /\ current_weight' = current_weight + Entry.weight
        /\ flag_state' = flag_state /\ recursion_depth_left' = recursion_depth_left
    BY DEF TryEpsilon, Call
  <1> HIDE DEF f, g
  <1>5. InCall
    BY DEF TryEpsilon, InCall, Running, vars, callVars
  <1>6. Readable /\ FrameInv(Top) => FrameInv(f) /\ FrameInv(g)
    <2> SUFFICES ASSUME Readable, FrameInv(Top) PROVE FrameInv(f) /\ FrameInv(g)
      OBVIOUS
    <2>1. Position(Top.cursor) /\ Entry.input # NO_SYMBOL_NUMBER
      BY <1>1, ConstantsAssumption DEF FrameInv
    <2>2. StateEntry(Entry.target)
      BY <2>1 DEF Readable, Entry
    <2>3. FrameInv(f)
      BY <1>2, <2>1 DEF FrameInv, Fields, Entry
    <2>4. FrameInv(g)
      BY <1>3, <2>2, EnteredFrame
    <2> QED
      BY <2>3, <2>4
  <1> QED
    BY <1>1, <1>2, <1>3, <1>4, <1>5, <1>6 DEF CallsItself, Fields, Calling, Entry

LEMMA FlagCall == Ready /\ TryFlag => CallsItself
  <1> SUFFICES ASSUME Ready, TryFlag PROVE CallsItself
    OBVIOUS
  <1> DEFINE f == [Top EXCEPT !.stage = "after flag", !.flags = flag_state]
             g == Frame(Entry.target, f.pos, f.out + 1)
  <1>1. IsFrame(Top) /\ Top.stage = "epsilons" /\ Entry.input \in FlagSymbols /\ pc = "done"
    BY DEF TryFlag, AtFlag, Ready, Running
  <1>2. Fields(f, Top.at, Top.pos, "after flag", Top.cursor, Top.symbols, flag_state)
    BY <1>1, NewFrames
  <1>3. Fields(g, Entry.target, f.pos, "enter", 0, << >>, NoFlags)
    BY FirstFrame
  <1>4. /\ stack' = Append(Append(Front(stack), f), g)
        /\ current_weight' = current_weight + Entry.weight
        /\ recursion_depth_left' = recursion_depth_left
    BY DEF TryFlag, Call
  <1> HIDE DEF f, g
  <1>5. InCall
    BY DEF TryFlag, AtFlag, InCall, Running, vars, callVars
  <1>6. Readable /\ FrameInv(Top) => FrameInv(f) /\ FrameInv(g)
    <2> SUFFICES ASSUME Readable, FrameInv(Top) PROVE FrameInv(f) /\ FrameInv(g)
      OBVIOUS
    <2>1. Position(Top.cursor) /\ Entry.input # NO_SYMBOL_NUMBER
      BY <1>1, FlagNumbers DEF FrameInv, Ready
    <2>2. StateEntry(Entry.target)
      BY <2>1 DEF Readable, Entry
    <2>3. FrameInv(f)
      BY <1>2, <2>1 DEF FrameInv, Fields, Entry
    <2>4. FrameInv(g)
      <3>1. f.pos = Top.pos
        BY <1>2 DEF Fields
      <3> QED
        BY <1>3, <2>2, <3>1, EnteredFrame
    <2> QED
      BY <2>3, <2>4
  <1> QED
    BY <1>1, <1>2, <1>3, <1>4, <1>5, <1>6 DEF CallsItself, Fields, Calling, Entry

LEMMA TransitionCall == Ready /\ TakeTransition => CallsItself
  <1> SUFFICES ASSUME Ready, TakeTransition PROVE CallsItself
    OBVIOUS
  <1> DEFINE f == [Top EXCEPT !.stage = "after transition"]
             g == Frame(Entry.target, Top.pos, f.out + 1)
  <1>1. IsFrame(Top) /\ Top.stage = "transitions" /\ Entry.input = Head(Top.symbols)
    BY DEF TakeTransition, Ready, Running
  <1>2. Fields(f, Top.at, Top.pos, "after transition", Top.cursor, Top.symbols, Top.flags)
    BY <1>1, NewFrames
  <1>3. Fields(g, Entry.target, Top.pos, "enter", 0, << >>, NoFlags)
    BY FirstFrame
  <1>4. /\ stack' = Append(Append(Front(stack), f), g)
        /\ current_weight' = current_weight + Entry.weight
        /\ flag_state' = flag_state /\ recursion_depth_left' = recursion_depth_left
    BY DEF TakeTransition, Call
  <1> HIDE DEF f, g
  <1>5. InCall
    BY DEF TakeTransition, InCall, Running, vars, callVars
  <1>6. Readable /\ FrameInv(Top) => FrameInv(f) /\ FrameInv(g)
    <2> SUFFICES ASSUME Readable, FrameInv(Top) PROVE FrameInv(f) /\ FrameInv(g)
      OBVIOUS
    <2>0. Head(Top.symbols) \in 0 .. NO_SYMBOL_NUMBER - 1
      <3> DEFINE S == 0 .. NO_SYMBOL_NUMBER - 1
      <3>1. Top.symbols \in Seq(S) /\ Top.symbols # << >>
        BY <1>1 DEF FrameInv
      <3> HIDE DEF S
      <3>2. Head(Top.symbols) \in S
        BY <3>1
      <3> QED
        BY <3>2 DEF S
    <2>1. Position(Top.cursor) /\ Entry.input # NO_SYMBOL_NUMBER
      BY <1>1, <2>0, ConstantsAssumption DEF FrameInv
    <2>2. StateEntry(Entry.target)
      BY <2>1 DEF Readable, Entry
    <2>3. FrameInv(f)
      BY <1>1, <1>2, <2>1 DEF FrameInv, Fields, Entry
    <2>4. FrameInv(g)
      BY <1>3, <2>2, EnteredFrame
    <2> QED
      BY <2>3, <2>4
  <1> QED
    BY <1>1, <1>2, <1>3, <1>4, <1>5, <1>6 DEF CallsItself, Fields, Calling, Entry

\* A frame that moves to another entry or stage of the same state.
LEMMA MovedFrame ==
    ASSUME NEW f, FrameInv(f), NEW s, s \notin Calling, NEW c, NEW y \in Seq(0 .. NO_SYMBOL_NUMBER - 1),
           s \in {"epsilons", "transitions"} => Position(c),
           s = "transitions" => y # << >>,
           NEW h, NEW g, Fields(g, f.at, f.pos, s, c, y, h)
    PROVE  FrameInv(g)
  <1>1. g.at = f.at /\ g.pos = f.pos /\ g.stage = s /\ g.cursor = c /\ g.symbols = y
    BY DEF Fields
  <1>2. "after transition" \in Calling
    BY DEF Calling
  <1> QED
    BY <1>1, <1>2 DEF FrameInv

LEMMA NextPosition ==
    ASSUME Readable, NEW f, FrameInv(f),
           \/ f.stage \in Calling
           \/ /\ f.stage \in {"epsilons", "transitions"}
              /\ At(wtransition_table, f.cursor).input # NO_SYMBOL_NUMBER
    PROVE  Position(f.cursor + 1)
  BY DEF Readable, FrameInv

LEMMA EnterGoesOn == Ready /\ EnterState => GoesOn
  <1> SUFFICES ASSUME Ready, EnterState PROVE GoesOn
    OBVIOUS
  <1> DEFINE start == FindIndex(windex_table, Top.at, 0)
             c == CHOOSE x \in start : TRUE
             f == IF start = {} THEN [Top EXCEPT !.stage = "input"]
                                ELSE [Top EXCEPT !.stage = "epsilons", !.cursor = c]
             s == IF start = {} THEN "input" ELSE "epsilons"
             p == IF start = {} THEN Top.cursor ELSE c
  <1>1. IsFrame(Top) /\ Top.stage = "enter"
    BY DEF EnterState, Ready, Running
  <1>2. Fields(f, Top.at, Top.pos, s, p, Top.symbols, Top.flags)
    <2> HIDE DEF start, c
    <2>1. CASE start = {}
      <3>1. f = [Top EXCEPT !.stage = "input"] /\ s = "input" /\ p = Top.cursor
        BY <2>1
      <3> QED
        BY <1>1, <3>1, NewFrames
    <2>2. CASE start # {}
      <3>1. f = [Top EXCEPT !.stage = "epsilons", !.cursor = c] /\ s = "epsilons" /\ p = c
        BY <2>2
      <3> QED
        BY <1>1, <3>1, NewFrames
    <2> QED
      BY <2>1, <2>2
  <1>3. SetTop(f)
    BY DEF EnterState
  <1>4. /\ flag_state' = flag_state /\ current_weight' = current_weight
        /\ recursion_depth_left' = recursion_depth_left - 1
    BY DEF EnterState
  <1>5. InCall
    BY DEF EnterState, InCall, Running, vars, callVars
  <1>6. s \in {"input", "epsilons"} /\ (s = "epsilons" => start # {} /\ p = c)
    OBVIOUS
  <1>7. start # {} => c \in start
    OBVIOUS
  <1> HIDE DEF f, s, p, c
  <1>8. ASSUME Readable, FrameInv(Top) PROVE FrameInv(f)
    <2>1. s = "epsilons" => Position(p)
      <3>1. IndexesTransitionTable(Top.at) \/ Top.at + 1 + 0 < Len(windex_table)
        <4>1. \A a : StateEntry(a) => IndexesTransitionTable(a) \/ a + 1 + 0 < Len(windex_table)
          BY DEF StateEntry
        <4> QED
          BY <1>8, <4>1 DEF FrameInv
      <3> QED
        BY <1>6, <1>7, <1>8, <3>1, FindPosition DEF FrameInv
    <2>2. Top.symbols \in Seq(0 .. NO_SYMBOL_NUMBER - 1)
      BY <1>8 DEF FrameInv
    <2> QED
      BY <1>2, <1>6, <1>8, <2>1, <2>2, MovedFrame DEF Calling
  <1>9. f.stage = s /\ IsFrame(f)
    BY <1>2 DEF Fields
  <1> QED
    BY <1>1, <1>3, <1>4, <1>5, <1>6, <1>8, <1>9 DEF GoesOn, Calling

LEMMA AfterCallGoesOn == Ready /\ (AfterEpsilon \/ AfterFlag \/ AfterTransition) => GoesOn
  <1> SUFFICES ASSUME Ready, AfterEpsilon \/ AfterFlag \/ AfterTransition PROVE GoesOn
    OBVIOUS
  <1> DEFINE s == IF Top.stage = "after transition" THEN "transitions" ELSE "epsilons"
             f == [Top EXCEPT !.stage = s, !.cursor = Top.cursor + 1]
  <1>1. /\ IsFrame(Top) /\ Top.stage \in Calling
        /\ AfterFlag <=> Top.stage = "after flag"
        /\ s = "transitions" <=> Top.stage = "after transition"
    BY DEF AfterEpsilon, AfterFlag, AfterTransition, Ready, Running, Calling
  <1>2. Fields(f, Top.at, Top.pos, s, Top.cursor + 1, Top.symbols, Top.flags)
    BY <1>1, NewFrames
  <1>3. SetTop(f)
    BY DEF AfterEpsilon, AfterFlag, AfterTransition
  <1>4. /\ current_weight' = current_weight - Entry.weight
        /\ recursion_depth_left' = recursion_depth_left
        /\ flag_state' = IF Top.stage = "after flag" THEN Top.flags ELSE flag_state
    BY DEF AfterEpsilon, AfterFlag, AfterTransition
  <1>5. InCall
    BY DEF AfterEpsilon, AfterFlag, AfterTransition, InCall, Running, vars, callVars
  <1>6. s \in {"transitions", "epsilons"}
    OBVIOUS
  <1> HIDE DEF f, s
  <1>7. ASSUME Readable, FrameInv(Top) PROVE FrameInv(f)
    <2>1. Position(Top.cursor + 1)
      BY <1>1, <1>7, NextPosition
    <2>2. Top.symbols \in Seq(0 .. NO_SYMBOL_NUMBER - 1) /\ (s = "transitions" => Top.symbols # << >>)
      BY <1>1, <1>7 DEF FrameInv
    <2>3. s \notin Calling
      BY <1>6 DEF Calling
    <2> QED
      BY <1>2, <1>7, <2>1, <2>2, <2>3, MovedFrame
  <1>8. f.stage = s /\ IsFrame(f)
    BY <1>2 DEF Fields
  <1> QED
    BY <1>1, <1>3, <1>4, <1>5, <1>6, <1>7, <1>8 DEF GoesOn, Calling

LEMMA EpsilonsGoOn == Ready /\ (SkipFlag \/ EpsilonsDone) => GoesOn
  <1> SUFFICES ASSUME Ready, SkipFlag \/ EpsilonsDone PROVE GoesOn
    OBVIOUS
  <1>1. IsFrame(Top) /\ Top.stage = "epsilons" /\ pc = "done"
    BY DEF SkipFlag, AtFlag, EpsilonsDone, Ready, Running
  <1>2. /\ flag_state' = flag_state /\ current_weight' = current_weight
        /\ recursion_depth_left' = recursion_depth_left
    BY DEF SkipFlag, EpsilonsDone, pathVars
  <1>3. InCall
    BY DEF SkipFlag, AtFlag, EpsilonsDone, InCall, Running, vars, callVars
  <1>4. CASE SkipFlag
    <2> DEFINE f == [Top EXCEPT !.cursor = Top.cursor + 1]
    <2>1. Fields(f, Top.at, Top.pos, "epsilons", Top.cursor + 1, Top.symbols, Top.flags)
      BY <1>1, NewFrames
    <2>2. SetTop(f) /\ Entry.input # NO_SYMBOL_NUMBER
      BY <1>1, <1>4, FlagNumbers DEF SkipFlag, AtFlag, Ready
    <2> HIDE DEF f
    <2>3. ASSUME Readable, FrameInv(Top) PROVE FrameInv(f)
      <3>1. Position(Top.cursor + 1)
        BY <1>1, <2>2, <2>3, NextPosition DEF Entry
      <3>2. Top.symbols \in Seq(0 .. NO_SYMBOL_NUMBER - 1) /\ "epsilons" \notin Calling
        BY <2>3 DEF FrameInv, Calling
      <3> QED
        BY <2>1, <2>3, <3>1, <3>2, MovedFrame
    <2>4. f.stage = "epsilons" /\ IsFrame(f)
      BY <2>1 DEF Fields
    <2> QED
      BY <1>1, <1>2, <1>3, <2>2, <2>3, <2>4 DEF GoesOn, Calling
  <1>5. CASE EpsilonsDone
    <2> DEFINE f == [Top EXCEPT !.stage = "input"]
    <2>1. Fields(f, Top.at, Top.pos, "input", Top.cursor, Top.symbols, Top.flags)
      BY <1>1, NewFrames
    <2>2. SetTop(f)
      BY <1>5 DEF EpsilonsDone
    <2> HIDE DEF f
    <2>3. ASSUME Readable, FrameInv(Top) PROVE FrameInv(f)
      <3>1. Top.symbols \in Seq(0 .. NO_SYMBOL_NUMBER - 1) /\ "input" \notin Calling
        BY <2>3 DEF FrameInv, Calling
      <3> QED
        BY <2>1, <2>3, <3>1, MovedFrame
    <2>4. f.stage = "input" /\ IsFrame(f)
      BY <2>1 DEF Fields
    <2> QED
      BY <1>1, <1>2, <1>3, <2>2, <2>3, <2>4 DEF GoesOn, Calling
  <1> QED
    BY <1>4, <1>5

LEMMA InputGoesOn == Ready /\ ReadInput => GoesOn
  <1> SUFFICES ASSUME Ready, ReadInput PROVE GoesOn
    OBVIOUS
  <1> DEFINE y == SymbolsFor(input_tape[Top.pos + 1])
             f == [Top EXCEPT !.stage = "find", !.pos = Top.pos + 1, !.symbols = y]
  <1>1. /\ IsFrame(Top) /\ Top.stage = "input" /\ Top.pos # Len(input_tape) /\ pc = "done"
        /\ WrittenInv /\ input_tape \in Seq(Nat)
    BY DEF ReadInput, Ready, Running, AtEnd
  <1>2. Fields(f, Top.at, Top.pos + 1, "find", Top.cursor, y, Top.flags)
    BY <1>1, NewFrames
  <1>3. SetTop(f)
    BY DEF ReadInput
  <1>4. /\ current_weight' = current_weight /\ flag_state' = flag_state
        /\ recursion_depth_left' = recursion_depth_left
    BY DEF ReadInput, pathVars
  <1>5. InCall
    BY DEF ReadInput, InCall, Running, vars, callVars
  <1> HIDE DEF f, y
  <1>6. ASSUME Readable, FrameInv(Top) PROVE FrameInv(f)
    <2>1. Top.pos + 1 \in 1 .. Len(input_tape)
      BY <1>1, <1>6 DEF FrameInv
    <2>2. input_tape[Top.pos + 1] \in Nat
      BY <1>1, <2>1
    <2>3. y \in Seq(0 .. NO_SYMBOL_NUMBER - 1)
      BY <1>1, <2>2, SymbolsForType DEF y
    <2>4. f.at = Top.at /\ f.pos = Top.pos + 1 /\ f.stage = "find" /\ f.symbols = y
      BY <1>2 DEF Fields
    <2>5. f.pos \in 0 .. Len(input_tape) /\ StateEntry(f.at)
      <3>1. StateEntry(Top.at)
        BY <1>6 DEF FrameInv
      <3>2. \A n : 1 .. n \subseteq 0 .. n
        OBVIOUS
      <3> QED
        BY <2>1, <2>4, <3>1, <3>2
    <2>6. f.stage \notin {"epsilons", "transitions", "after transition"} \cup Calling
      BY <2>4 DEF Calling
    <2> QED
      BY <2>3, <2>4, <2>5, <2>6 DEF FrameInv
  <1>7. f.stage = "find" /\ IsFrame(f)
    BY <1>2 DEF Fields
  <1> QED
    BY <1>1, <1>3, <1>4, <1>5, <1>6, <1>7 DEF GoesOn, Calling

LEMMA TailType ==
    ASSUME NEW S, NEW y \in Seq(S), y # << >>
    PROVE  Head(y) \in S /\ Tail(y) \in Seq(S)
  OBVIOUS

LEMMA FindGoesOn == Ready /\ FindSymbol => GoesOn
  <1> SUFFICES ASSUME Ready, FindSymbol PROVE GoesOn
    OBVIOUS
  <1> DEFINE x == Head(Top.symbols)
             outside == ~ IndexesTransitionTable(Top.at) /\ Top.at + 1 + x >= Len(windex_table)
             start == IF outside THEN {} ELSE FindIndex(windex_table, Top.at, x)
             c == CHOOSE e \in start : TRUE
  <1>1. IsFrame(Top) /\ Top.stage = "find" /\ Top.symbols # << >>
    BY DEF FindSymbol, Ready, Running
  <1>2. /\ current_weight' = current_weight /\ flag_state' = flag_state
        /\ recursion_depth_left' = recursion_depth_left
    BY DEF FindSymbol, pathVars
  <1>3. InCall
    BY DEF FindSymbol, InCall, Running, callVars
  <1>4. IF start = {} THEN SetTop([Top EXCEPT !.symbols = Tail(Top.symbols)])
        ELSE SetTop([Top EXCEPT !.stage = "transitions", !.cursor = c])
    BY DEF FindSymbol
  <1>5. FrameInv(Top) => /\ x \in 0 .. NO_SYMBOL_NUMBER - 1
                         /\ Tail(Top.symbols) \in Seq(0 .. NO_SYMBOL_NUMBER - 1)
                         /\ Top.symbols \in Seq(0 .. NO_SYMBOL_NUMBER - 1)
    BY <1>1, TailType DEF FrameInv
  <1>6. CASE start = {}
    <2> DEFINE f == [Top EXCEPT !.symbols = Tail(Top.symbols)]
    <2>1. Fields(f, Top.at, Top.pos, "find", Top.cursor, Tail(Top.symbols), Top.flags)
      BY <1>1, NewFrames
    <2>2. SetTop(f)
      BY <1>4, <1>6
    <2> HIDE DEF f
    <2>3. ASSUME Readable, FrameInv(Top) PROVE FrameInv(f)
      <3>1. "find" \notin Calling
        BY DEF Calling
      <3> QED
        BY <1>5, <2>1, <2>3, <3>1, MovedFrame
    <2>4. f.stage = "find" /\ IsFrame(f)
      BY <2>1 DEF Fields
    <2> QED
      BY <1>1, <1>2, <1>3, <2>2, <2>3, <2>4 DEF GoesOn, Calling
  <1>7. CASE start # {}
    <2> DEFINE f == [Top EXCEPT !.stage = "transitions", !.cursor = c]
    <2>1. Fields(f, Top.at, Top.pos, "transitions", c, Top.symbols, Top.flags)
      BY <1>1, NewFrames
    <2>2. SetTop(f)
      BY <1>4, <1>7
    <2>3. c \in FindIndex(windex_table, Top.at, x) /\ ~ outside
      BY <1>7
    <2> HIDE DEF f, c, start
    <2>4. ASSUME Readable, FrameInv(Top) PROVE FrameInv(f)
      <3>1. "transitions" \notin Calling
        BY DEF Calling
      <3>2. x \in Nat /\ StateEntry(Top.at)
        <4>1. x \in 0 .. NO_SYMBOL_NUMBER - 1
          BY <1>5, <2>4
        <4> HIDE DEF x
        <4>2. x \in Nat
          BY <4>1
        <4>3. StateEntry(Top.at)
          BY <2>4 DEF FrameInv
        <4> QED
          BY <4>2, <4>3
      <3> HIDE DEF x
      <3>3. \A a : /\ StateEntry(a) /\ ~ (~ IndexesTransitionTable(a) /\ a + 1 + x >= Len(windex_table))
                   => IndexesTransitionTable(a) \/ a + 1 + x < Len(windex_table)
        <4>1. Len(windex_table) \in Nat
          BY IndexTableFacts, <1>3 DEF Ready, InCall
        <4> QED
          BY <3>2, <4>1 DEF StateEntry
      <3>4. IndexesTransitionTable(Top.at) \/ Top.at + 1 + x < Len(windex_table)
        BY <2>3, <3>2, <3>3
      <3>5. Position(c)
        BY <2>3, <2>4, <3>2, <3>4, FindPosition
      <3> QED
        BY <1>1, <1>5, <2>1, <2>4, <3>1, <3>5, MovedFrame
    <2>5. f.stage = "transitions" /\ IsFrame(f)
      BY <2>1 DEF Fields
    <2> QED
      BY <1>1, <1>2, <1>3, <2>2, <2>4, <2>5 DEF GoesOn, Calling
  <1> QED
    BY <1>6, <1>7

LEMMA DefaultGoesOn == Ready /\ TryDefault => GoesOn
  <1> SUFFICES ASSUME Ready, TryDefault PROVE GoesOn
    OBVIOUS
  <1> DEFINE x == SpecialSymbol(DefaultName)
             f == [Top EXCEPT !.symbols = << x >>, !.defaulted = TRUE]
  <1>1. IsFrame(Top) /\ Top.stage = "find" /\ pc = "done" /\ WrittenInv
    BY DEF TryDefault, Ready, Running
  <1>2. Fields(f, Top.at, Top.pos, "find", Top.cursor, << x >>, Top.flags)
    BY <1>1, NewFrames
  <1>3. SetTop(f)
    BY DEF TryDefault
  <1>4. /\ current_weight' = current_weight /\ flag_state' = flag_state
        /\ recursion_depth_left' = recursion_depth_left
    BY DEF TryDefault, pathVars
  <1>5. InCall
    BY DEF TryDefault, InCall, Running, vars, callVars
  <1>6. x \in 0 .. NO_SYMBOL_NUMBER - 1
    BY <1>1, SpecialType DEF TryDefault
  <1> HIDE DEF f, x
  <1>7. ASSUME Readable, FrameInv(Top) PROVE FrameInv(f)
    <2>1. << x >> \in Seq(0 .. NO_SYMBOL_NUMBER - 1) /\ "find" \notin Calling
      BY <1>6 DEF Calling
    <2> QED
      BY <1>2, <1>7, <2>1, MovedFrame
  <1>8. f.stage = "find" /\ IsFrame(f)
    BY <1>2 DEF Fields
  <1> QED
    BY <1>1, <1>3, <1>4, <1>5, <1>7, <1>8 DEF GoesOn, Calling

LEMMA DoneGoesOn == Ready /\ TransitionsDone => GoesOn
  <1> SUFFICES ASSUME Ready, TransitionsDone PROVE GoesOn
    OBVIOUS
  <1> DEFINE f == [Top EXCEPT !.stage = "find", !.symbols = Tail(Top.symbols)]
  <1>1. IsFrame(Top) /\ Top.stage = "transitions"
    BY DEF TransitionsDone, Ready, Running
  <1>2. Fields(f, Top.at, Top.pos, "find", Top.cursor, Tail(Top.symbols), Top.flags)
    BY <1>1, NewFrames
  <1>3. SetTop(f)
    BY DEF TransitionsDone
  <1>4. /\ current_weight' = current_weight /\ flag_state' = flag_state
        /\ recursion_depth_left' = recursion_depth_left
    BY DEF TransitionsDone, pathVars
  <1>5. InCall
    BY DEF TransitionsDone, InCall, Running, vars, callVars
  <1> HIDE DEF f
  <1>6. ASSUME Readable, FrameInv(Top) PROVE FrameInv(f)
    <2>1. Tail(Top.symbols) \in Seq(0 .. NO_SYMBOL_NUMBER - 1) /\ "find" \notin Calling
      BY <1>1, <1>6, TailType DEF FrameInv, Calling
    <2> QED
      BY <1>2, <1>6, <2>1, MovedFrame
  <1>7. f.stage = "find" /\ IsFrame(f)
    BY <1>2 DEF Fields
  <1> QED
    BY <1>1, <1>3, <1>4, <1>5, <1>6, <1>7 DEF GoesOn, Calling

LEMMA Shapes == Ready /\ GetAnalyses => GoesOn \/ CallsItself \/ Returns
  BY ReturnShapes, EpsilonCall, FlagCall, TransitionCall, EnterGoesOn, AfterCallGoesOn,
     EpsilonsGoOn, InputGoesOn, FindGoesOn, DefaultGoesOn, DoneGoesOn DEF GetAnalyses
-----------------------------------------------------------------------------
(* The calls in progress: all but the innermost are following a transition, *)
(* and the depth counts those that have passed the checks at their start.   *)

CallsInv ==
    /\ IsStack(stack)
    /\ \A k \in 1 .. Len(stack) : IsFrame(stack[k])
    /\ \A k \in 1 .. Len(stack) - 1 : stack[k].stage \in Calling
    /\ recursion_depth_left \in Int
    /\ recursion_depth_left + Len(stack) =
         IF stack # << >> /\ stack[Len(stack)].stage = "enter"
           THEN MAX_RECURSION_DEPTH + 1 ELSE MAX_RECURSION_DEPTH
    /\ input_tape \in Seq(Nat)

(* The flags before the first flag transition on the path were all neutral. *)
FlagsInv ==
    /\ (\A k \in 1 .. Len(stack) : stack[k].stage # "after flag") => flag_state = NoFlags
    /\ \A k \in 1 .. Len(stack) :
         /\ stack[k].stage = "after flag"
         /\ \A j \in 1 .. k - 1 : stack[j].stage # "after flag"
         => stack[k].flags = NoFlags

(* The weight is the sum along the stack, and its frames are in the tables. *)
PathInv ==
    /\ current_weight \in Int
    /\ SumOf(wtransition_table, stack, current_weight)
    /\ \A k \in 1 .. Len(stack) : FrameInv(stack[k])

LEMMA StackFacts ==
    ASSUME IsStack(stack)
    PROVE  /\ Len(stack) \in Nat
           /\ stack # << >> => Len(stack) \in Nat \ {0} /\ Top = stack[Len(stack)]
           /\ stack = << >> <=> Len(stack) = 0
  BY StackTop DEF IsStack, Top

LEMMA GoesOnStack ==
    ASSUME CallsInv, GoesOn
    PROVE  \E f : /\ IsFrame(f) /\ f.stage \notin Calling \cup {"enter"}
                  /\ Readable /\ FrameInv(Top) => FrameInv(f)
                  /\ stack' = Append(Front(stack), f)
                  /\ IsStack(stack') /\ Len(stack') = Len(stack) /\ stack' # << >>
                  /\ stack'[Len(stack)] = f
                  /\ \A k \in 1 .. Len(stack) - 1 : stack'[k] = stack[k]
  <1>1. PICK f : /\ IsFrame(f) /\ SetTop(f)
                 /\ f.stage \notin Calling \cup {"enter"}
                 /\ Readable /\ FrameInv(Top) => FrameInv(f)
    BY DEF GoesOn
  <1>2. stack' = Append(Front(stack), f) /\ stack # << >> /\ IsStack(stack)
    BY <1>1 DEF SetTop, GoesOn, InCall, CallsInv
  <1>3. /\ IsStack(stack') /\ Len(stack') = Len(stack) /\ stack' # << >>
        /\ stack'[Len(stack)] = f
        /\ \A k \in 1 .. Len(stack) - 1 : stack'[k] = stack[k]
    BY <1>2, StackSet DEF TopIs
  <1> QED
    BY <1>1, <1>2, <1>3

LEMMA CallStack ==
    ASSUME CallsInv, CallsItself
    PROVE  \E f, g :
             /\ IsFrame(f) /\ IsFrame(g)
             /\ f.stage \in Calling /\ g.stage = "enter"
             /\ current_weight' = current_weight + At(wtransition_table, f.cursor).weight
             /\ IF f.stage = "after flag" THEN f.flags = flag_state ELSE flag_state' = flag_state
             /\ Readable /\ FrameInv(Top) => FrameInv(f) /\ FrameInv(g)
             /\ stack' = Append(Append(Front(stack), f), g)
             /\ IsStack(stack') /\ Len(stack') = Len(stack) + 1 /\ stack' # << >>
             /\ stack'[Len(stack)] = f /\ stack'[Len(stack) + 1] = g
             /\ \A k \in 1 .. Len(stack) - 1 : stack'[k] = stack[k]
  <1>1. PICK f, g :
          /\ IsFrame(f) /\ IsFrame(g)
          /\ stack' = Append(Append(Front(stack), f), g)
          /\ f.stage \in Calling /\ g.stage = "enter"
          /\ current_weight' = current_weight + At(wtransition_table, f.cursor).weight
          /\ IF f.stage = "after flag" THEN f.flags = flag_state ELSE flag_state' = flag_state
          /\ Readable /\ FrameInv(Top) => FrameInv(f) /\ FrameInv(g)
    BY DEF CallsItself
  <1>2. stack # << >> /\ IsStack(stack) /\ Len(stack) \in Nat \ {0}
    BY StackFacts DEF CallsItself, InCall, CallsInv
  <1> DEFINE m == Append(Front(stack), f)
  <1>3. /\ IsStack(m) /\ Len(m) = Len(stack) /\ m # << >>
        /\ m[Len(stack)] = f
        /\ \A k \in 1 .. Len(stack) - 1 : m[k] = stack[k]
    BY <1>2, StackSet DEF TopIs
  <1>4. stack' = Append(m, g)
    BY <1>1
  <1> HIDE DEF m
  <1>5. /\ IsStack(stack') /\ Len(stack') = Len(m) + 1 /\ stack' # << >>
        /\ stack'[Len(m) + 1] = g
        /\ \A k \in 1 .. Len(m) : stack'[k] = m[k]
    BY <1>3, <1>4, StackPush DEF PushedOn
  <1>6. /\ stack'[Len(stack)] = f
        /\ \A k \in 1 .. Len(stack) - 1 : stack'[k] = stack[k]
    BY <1>2, <1>3, <1>5
  <1> QED
    BY <1>1, <1>3, <1>5, <1>6

LEMMA ReturnStack ==
    ASSUME CallsInv, Returns
    PROVE  /\ stack' = Front(stack)
           /\ IsStack(stack') /\ Len(stack') = Len(stack) - 1
           /\ \A k \in 1 .. Len(stack) - 1 : stack'[k] = stack[k]
           /\ stack' = << >> <=> Len(stack) = 1
  <1>1. IsStack(stack) /\ stack # << >> /\ stack' = Front(stack)
    BY DEF CallsInv, Returns, InCall, Pop
  <1> QED
    BY <1>1, StackPop

LEMMA CallsStep == CallsInv /\ (GoesOn \/ CallsItself \/ Returns) => CallsInv'
  <1> SUFFICES ASSUME CallsInv, GoesOn \/ CallsItself \/ Returns
               PROVE  CallsInv'
    OBVIOUS
  <1> DEFINE n == Len(stack)
  <1>1. /\ n \in Nat \ {0} /\ Top = stack[n] /\ stack # << >>
        /\ input_tape' \in Seq(Nat)
        /\ MAX_RECURSION_DEPTH \in Nat
        /\ recursion_depth_left \in Int
        /\ recursion_depth_left + n =
             IF Top.stage = "enter" THEN MAX_RECURSION_DEPTH + 1 ELSE MAX_RECURSION_DEPTH
        /\ \A k \in 1 .. n : IsFrame(stack[k])
        /\ \A k \in 1 .. n - 1 : stack[k].stage \in Calling
    <2>1. stack # << >> /\ IsStack(stack) /\ input_tape' = input_tape
      BY DEF CallsInv, GoesOn, CallsItself, Returns, InCall
    <2> QED
      BY <2>1, StackFacts, LookupAssumption DEF CallsInv
  <1>2. CASE GoesOn
    <2>1. PICK f : /\ IsFrame(f) /\ f.stage \notin Calling \cup {"enter"}
                   /\ IsStack(stack') /\ Len(stack') = n /\ stack' # << >>
                   /\ stack'[n] = f
                   /\ \A k \in 1 .. n - 1 : stack'[k] = stack[k]
      BY <1>2, GoesOnStack
    <2>2. recursion_depth_left' =
            IF Top.stage = "enter" THEN recursion_depth_left - 1 ELSE recursion_depth_left
      BY <1>2 DEF GoesOn
    <2> HIDE DEF n
    <2>3. \A k \in 1 .. n : IsFrame(stack'[k])
      BY <1>1, <2>1
    <2>4. \A k \in 1 .. n - 1 : stack'[k].stage \in Calling
      BY <1>1, <2>1
    <2>5. recursion_depth_left' \in Int /\ recursion_depth_left' + n = MAX_RECURSION_DEPTH
      BY <1>1, <2>2
    <2>6. stack'[n].stage # "enter"
      BY <2>1
    <2>7. IsStack(stack') /\ Len(stack') = n
      BY <2>1
    <2> QED
      BY <1>1, <2>3, <2>4, <2>5, <2>6, <2>7 DEF CallsInv
  <1>3. CASE CallsItself
    <2>1. PICK f, g : /\ IsFrame(f) /\ IsFrame(g)
                      /\ f.stage \in Calling /\ g.stage = "enter"
                      /\ IsStack(stack') /\ Len(stack') = n + 1 /\ stack' # << >>
                      /\ stack'[n] = f /\ stack'[n + 1] = g
                      /\ \A k \in 1 .. n - 1 : stack'[k] = stack[k]
      BY <1>3, CallStack
    <2>2. recursion_depth_left' = recursion_depth_left /\ Top.stage # "enter"
      BY <1>3 DEF CallsItself
    <2> HIDE DEF n
    <2> DEFINE m == n + 1
    <2>3. /\ \A k \in 1 .. m : IsFrame(stack'[k])
          /\ \A k \in 1 .. m - 1 : stack'[k].stage \in Calling
          /\ stack'[m].stage = "enter"
      BY <1>1, <2>1
    <2>4. recursion_depth_left' \in Int /\ recursion_depth_left' + m = MAX_RECURSION_DEPTH + 1
      BY <1>1, <2>2
    <2>5. IsStack(stack') /\ Len(stack') = m /\ stack' # << >>
      BY <2>1
    <2> HIDE DEF m
    <2> QED
      BY <1>1, <2>3, <2>4, <2>5 DEF CallsInv
  <1>4. CASE Returns
    <2>1. /\ IsStack(stack') /\ Len(stack') = n - 1
          /\ \A k \in 1 .. n - 1 : stack'[k] = stack[k]
          /\ stack' = << >> <=> n = 1
      BY <1>4, ReturnStack
    <2>2. recursion_depth_left' =
            IF Top.stage = "enter" THEN recursion_depth_left ELSE recursion_depth_left + 1
      BY <1>4 DEF Returns
    <2> HIDE DEF n
    <2>3. \A k \in 1 .. n - 1 : IsFrame(stack'[k])
      BY <1>1, <2>1
    <2>4. \A k \in 1 .. n - 1 - 1 : stack'[k].stage \in Calling
      BY <1>1, <2>1
    <2>5. recursion_depth_left' \in Int /\ recursion_depth_left' + (n - 1) = MAX_RECURSION_DEPTH
      BY <1>1, <2>2
    <2>6. stack' # << >> => stack'[n - 1].stage # "enter"
      <3>1. "enter" \notin Calling
        BY DEF Calling
      <3> QED
        BY <1>1, <2>1, <3>1
    <2> QED
      BY <1>1, <2>1, <2>3, <2>4, <2>5, <2>6 DEF CallsInv
  <1> QED
    BY <1>2, <1>3, <1>4

LEMMA FlagsStep ==
    CallsInv /\ FlagsInv /\ (GoesOn \/ CallsItself \/ Returns) => FlagsInv'
  <1> SUFFICES ASSUME CallsInv, FlagsInv, GoesOn \/ CallsItself \/ Returns
               PROVE  FlagsInv'
    OBVIOUS
  <1> DEFINE n == Len(stack)
  <1>1. n \in Nat \ {0} /\ Top = stack[n]
    <2>1. stack # << >> /\ IsStack(stack)
      BY DEF CallsInv, GoesOn, CallsItself, Returns, InCall
    <2> QED
      BY <2>1, StackFacts
  <1>2. /\ (\A k \in 1 .. n : stack[k].stage # "after flag") => flag_state = NoFlags
        /\ \A k \in 1 .. n :
             /\ stack[k].stage = "after flag"
             /\ \A j \in 1 .. k - 1 : stack[j].stage # "after flag"
             => stack[k].flags = NoFlags
    BY DEF FlagsInv
  <1>3. "after flag" \in Calling
    BY DEF Calling
  <1>0. /\ \A k \in 1 .. n : k \in 1 .. n - 1 \/ k = n
        /\ \A k \in 1 .. n - 1 : k \in 1 .. n
        /\ \A k \in 1 .. n - 1 : k \in 1 .. n + 1
        /\ n \in 1 .. n /\ n \in 1 .. n + 1
    <2> HIDE DEF n
    <2> QED
      BY <1>1
  <1>4. CASE GoesOn
    <2>1. PICK f : /\ f.stage \notin Calling \cup {"enter"}
                   /\ Len(stack') = n
                   /\ stack'[n] = f
                   /\ \A k \in 1 .. n - 1 : stack'[k] = stack[k]
      BY <1>4, GoesOnStack
    <2>2. flag_state' = IF stack[n].stage = "after flag" THEN stack[n].flags ELSE flag_state
      BY <1>1, <1>4 DEF GoesOn
    <2> HIDE DEF n
    <2>3. ASSUME \A k \in 1 .. n : stack'[k].stage # "after flag"
          PROVE  flag_state' = NoFlags
      <3>1. \A k \in 1 .. n - 1 : stack[k].stage # "after flag"
        BY <1>0, <2>1, <2>3
      <3>2. n \in 1 .. n
        BY <1>0
      <3>3. CASE stack[n].stage = "after flag"
        BY <1>2, <2>2, <3>1, <3>2, <3>3
      <3>4. CASE stack[n].stage # "after flag"
        <4>1. \A k \in 1 .. n : stack[k].stage # "after flag"
          BY <1>0, <3>1, <3>4
        <4> QED
          BY <1>2, <2>2, <3>4, <4>1
      <3> QED
        BY <3>3, <3>4
    <2>4. ASSUME NEW k \in 1 .. n, stack'[k].stage = "after flag",
                 \A j \in 1 .. k - 1 : stack'[j].stage # "after flag"
          PROVE  stack'[k].flags = NoFlags
      <3>1. k \in 1 .. n - 1
        BY <1>0, <1>3, <2>1, <2>4
      <3>2. \A j \in 1 .. k - 1 : j \in 1 .. n - 1
        BY <1>1, <3>1
      <3>3. stack[k].stage = "after flag" /\ \A j \in 1 .. k - 1 : stack[j].stage # "after flag"
        BY <2>1, <2>4, <3>1, <3>2
      <3> QED
        BY <1>2, <2>1, <3>1, <3>3
    <2> QED
      BY <2>1, <2>3, <2>4 DEF FlagsInv, NoFlags
  <1>5. CASE CallsItself
    <2>1. PICK f, g : /\ f.stage \in Calling /\ g.stage = "enter"
                      /\ IF f.stage = "after flag" THEN f.flags = flag_state
                                                   ELSE flag_state' = flag_state
                      /\ Len(stack') = n + 1
                      /\ stack'[n] = f /\ stack'[n + 1] = g
                      /\ \A k \in 1 .. n - 1 : stack'[k] = stack[k]
      BY <1>5, CallStack
    <2>2. stack[n].stage # "after flag"
      BY <1>1, <1>3, <1>5 DEF CallsItself
    <2> HIDE DEF n
    <2>3. (\A k \in 1 .. n - 1 : stack'[k].stage # "after flag") => flag_state = NoFlags
      <3> SUFFICES ASSUME \A k \in 1 .. n - 1 : stack'[k].stage # "after flag"
                   PROVE  flag_state = NoFlags
        OBVIOUS
      <3>1. \A k \in 1 .. n : stack[k].stage # "after flag"
        BY <1>0, <2>1, <2>2
      <3> QED
        BY <1>2, <3>1
    <2>4. ASSUME \A k \in 1 .. n + 1 : stack'[k].stage # "after flag"
          PROVE  flag_state' = NoFlags
      <3>1. f.stage # "after flag" /\ \A k \in 1 .. n - 1 : stack'[k].stage # "after flag"
        BY <1>0, <2>1, <2>4
      <3> QED
        BY <2>1, <2>3, <3>1
    <2>5. ASSUME NEW k \in 1 .. n + 1, stack'[k].stage = "after flag",
                 \A j \in 1 .. k - 1 : stack'[j].stage # "after flag"
          PROVE  stack'[k].flags = NoFlags
      <3>1. k # n + 1
        BY <2>1, <2>5
      <3>2. CASE k = n
        BY <2>1, <2>3, <2>5, <3>2
      <3>3. CASE k # n
        <4>1. k \in 1 .. n - 1 /\ k \in 1 .. n
          BY <1>1, <3>1, <3>3
        <4>2. \A j \in 1 .. k - 1 : j \in 1 .. n - 1
          BY <1>1, <4>1
        <4>3. stack[k].stage = "after flag" /\ \A j \in 1 .. k - 1 : stack[j].stage # "after flag"
          BY <2>1, <2>5, <4>1, <4>2
        <4> QED
          BY <1>2, <2>1, <4>1, <4>3
      <3> QED
        BY <3>2, <3>3
    <2>6. Len(stack') = n + 1
      BY <2>1
    <2> QED
      BY <2>4, <2>5, <2>6 DEF FlagsInv, NoFlags
  <1>6. CASE Returns
    <2>1. Len(stack') = n - 1 /\ \A k \in 1 .. n - 1 : stack'[k] = stack[k]
      BY <1>6, ReturnStack
    <2>2. flag_state' = flag_state /\ stack[n].stage # "after flag"
      BY <1>1, <1>3, <1>6 DEF Returns
    <2> HIDE DEF n
    <2>3. ASSUME \A k \in 1 .. n - 1 : stack'[k].stage # "after flag"
          PROVE  flag_state' = NoFlags
      <3>1. \A k \in 1 .. n : stack[k].stage # "after flag"
        BY <1>0, <2>1, <2>2, <2>3
      <3> QED
        BY <1>2, <2>2, <3>1
    <2>4. ASSUME NEW k \in 1 .. n - 1, stack'[k].stage = "after flag",
                 \A j \in 1 .. k - 1 : stack'[j].stage # "after flag"
          PROVE  stack'[k].flags = NoFlags
      <3>1. k \in 1 .. n /\ \A j \in 1 .. k - 1 : j \in 1 .. n - 1
        BY <1>1
      <3>3. stack[k].stage = "after flag" /\ \A j \in 1 .. k - 1 : stack[j].stage # "after flag"
        BY <2>1, <2>4, <3>1
      <3> QED
        BY <1>2, <2>1, <3>1, <3>3
    <2> QED
      BY <2>1, <2>3, <2>4 DEF FlagsInv, NoFlags
  <1> QED
    BY <1>4, <1>5, <1>6

LEMMA PathStep ==
    ASSUME CallsInv, PathInv, Readable, GoesOn \/ CallsItself \/ Returns
    PROVE  PathInv'
  <1> DEFINE n == Len(stack)
             wt == wtransition_table
             t == Contribution(wt, Top)
             base == current_weight - t
  <1>1. /\ n \in Nat \ {0} /\ Top = stack[n] /\ IsStack(stack) /\ stack # << >>
        /\ UNCHANGED << wtransition_table, windex_table, input_tape >>
    <2>1. /\ stack # << >> /\ IsStack(stack)
          /\ UNCHANGED << wtransition_table, windex_table, input_tape >>
      BY DEF CallsInv, GoesOn, CallsItself, Returns, InCall, tableVars
    <2> QED
      BY <2>1, StackFacts
  <1>2. /\ current_weight \in Int /\ SumOf(wt, stack, current_weight)
        /\ \A k \in 1 .. n : FrameInv(stack[k])
    BY DEF PathInv
  <1>3. FrameInv(Top)
    BY <1>1, <1>2
  <1>4. \A f : FrameInv(f) => Contribution(wt, f) \in Int
    <2> SUFFICES ASSUME NEW f, FrameInv(f) PROVE Contribution(wt, f) \in Int
      OBVIOUS
    <2>1. CASE f.stage \in Calling
      <3>1. Position(f.cursor)
        BY <2>1 DEF FrameInv
      <3> QED
        BY <2>1, <3>1 DEF Contribution, Readable
    <2>2. CASE f.stage \notin Calling
      BY <2>2 DEF Contribution
    <2> QED
      BY <2>1, <2>2
  <1>5. t \in Int /\ base \in Int /\ SumOf(wt, Front(stack), base)
    <2>1. Contribution(wt, stack[Len(stack)]) \in Int
      BY <1>1, <1>3, <1>4
    <2>2. SumOf(wt, Front(stack), current_weight - Contribution(wt, stack[Len(stack)]))
      BY <1>1, <1>2, <2>1, SumPop
    <2> QED
      BY <1>1, <1>2, <2>1, <2>2
  <1>6. IsStack(Front(stack))
    BY <1>1, StackPop
  <1>7. ASSUME current_weight' \in Int, SumOf(wt, stack', current_weight'),
               \A k \in 1 .. Len(stack') : FrameInv(stack'[k])
        PROVE  PathInv'
    BY <1>1, <1>7 DEF PathInv, FrameInv, StateEntry, Position, At
  <1>8. CASE GoesOn
    <2>1. PICK f : /\ f.stage \notin Calling \cup {"enter"}
                   /\ Readable /\ FrameInv(Top) => FrameInv(f)
                   /\ stack' = Append(Front(stack), f)
                   /\ Len(stack') = n
                   /\ stack'[n] = f
                   /\ \A k \in 1 .. n - 1 : stack'[k] = stack[k]
      BY <1>8, GoesOnStack
    <2>2. current_weight' = IF Top.stage \in Calling THEN current_weight - Entry.weight ELSE current_weight
      BY <1>8 DEF GoesOn
    <2>3. current_weight' = base
      BY <1>2, <2>2 DEF Contribution, Entry
    <2>4. Contribution(wt, f) = 0
      BY <2>1 DEF Contribution
    <2> HIDE DEF n, wt, t, base
    <2>5. SumOf(wt, Append(Front(stack), f), base + Contribution(wt, f))
      BY <1>5, <1>6, <2>4, SumPush
    <2>6. base + Contribution(wt, f) = base
      BY <1>5, <2>4
    <2>7. \A k \in 1 .. n : FrameInv(stack'[k])
      BY <1>1, <1>2, <1>3, <2>1
    <2> QED
      BY <1>5, <1>7, <2>1, <2>3, <2>5, <2>6, <2>7
  <1>9. CASE CallsItself
    <2>1. PICK f, g : /\ f.stage \in Calling /\ g.stage = "enter"
                      /\ current_weight' = current_weight + At(wtransition_table, f.cursor).weight
                      /\ Readable /\ FrameInv(Top) => FrameInv(f) /\ FrameInv(g)
                      /\ stack' = Append(Append(Front(stack), f), g)
                      /\ Len(stack') = n + 1
                      /\ stack'[n] = f /\ stack'[n + 1] = g
                      /\ \A k \in 1 .. n - 1 : stack'[k] = stack[k]
      BY <1>9, CallStack
    <2>2. FrameInv(f) /\ FrameInv(g)
      BY <1>3, <2>1
    <2>3. Top.stage \notin Calling
      BY <1>9 DEF CallsItself
    <2>4. base = current_weight
      BY <1>2, <2>3 DEF Contribution
    <2>5. /\ Contribution(wt, f) \in Int
          /\ Contribution(wt, g) = 0
          /\ current_weight' = base + Contribution(wt, f)
      <3>1. "enter" \notin Calling
        BY DEF Calling
      <3> QED
        BY <1>4, <2>1, <2>2, <2>4, <3>1 DEF Contribution
    <2> DEFINE u == base + Contribution(wt, f)
               m == Append(Front(stack), f)
    <2> HIDE DEF n, wt, t, base
    <2>6. u \in Int /\ SumOf(wt, m, u) /\ u + Contribution(wt, g) = u
      BY <1>5, <1>6, <2>5, SumPush
    <2>7. IsStack(m)
      BY <1>1, StackSet DEF TopIs
    <2> HIDE DEF u, m
    <2>8. SumOf(wt, Append(m, g), u + Contribution(wt, g))
      BY <2>5, <2>6, <2>7, SumPush
    <2>9. \A k \in 1 .. n + 1 : FrameInv(stack'[k])
      BY <1>1, <1>2, <2>1, <2>2
    <2> QED
      BY <1>7, <2>1, <2>5, <2>6, <2>8, <2>9 DEF u, m
  <1>10. CASE Returns
    <2>1. /\ stack' = Front(stack) /\ Len(stack') = n - 1
          /\ \A k \in 1 .. n - 1 : stack'[k] = stack[k]
      BY <1>10, ReturnStack
    <2>2. current_weight' = current_weight /\ Top.stage \notin Calling
      BY <1>10 DEF Returns
    <2>3. base = current_weight
      BY <1>2, <2>2 DEF Contribution
    <2> HIDE DEF n, wt, t, base
    <2>4. \A k \in 1 .. n - 1 : FrameInv(stack'[k])
      BY <1>1, <1>2, <2>1
    <2> QED
      BY <1>5, <1>7, <2>1, <2>2, <2>3, <2>4
  <1> QED
    BY <1>8, <1>9, <1>10

(* A sum along the stack is what the recursion of StackWeight denotes. *)
LEMMA SumIsStackWeight ==
    ASSUME IsStack(stack), NEW t, SumOf(wtransition_table, stack, t)
    PROVE  t = StackWeight
  <1> DEFINE n == Len(stack)
             C(k) == Contribution(wtransition_table, stack[k])
             G(f) == [k \in 0 .. n |-> IF k = 0 THEN 0 ELSE f[k - 1] + C(k)]
             F == CHOOSE g : g = G(g)
  <1>1. n \in Nat
    BY DEF IsStack
  <1>2. StackWeight = F[n]
    BY DEF StackWeight, Contribution
  <1>3. PICK w \in [0 .. n -> Int] :
          w[0] = 0 /\ (\A k \in 1 .. n : w[k] = w[k - 1] + C(k)) /\ t = w[n]
    BY DEF SumOf
  <1> HIDE DEF n, C
  <1>4. \A k \in 0 .. n : k # 0 => k \in 1 .. n /\ k - 1 \in 0 .. n
    BY <1>1
  <1>5. \A k \in 0 .. n : w[k] = IF k = 0 THEN 0 ELSE w[k - 1] + C(k)
    BY <1>3, <1>4
  <1>6. w = G(w)
    <2>1. w = [k \in 0 .. n |-> w[k]]
      BY <1>3
    <2> QED
      BY <1>5, <2>1
  <1>7. F = G(F)
    <2>1. \E g : g = G(g)
      BY <1>6
    <2> HIDE DEF G
    <2> QED
      BY <2>1
  <1>8. \A k \in 0 .. n : F[k] = IF k = 0 THEN 0 ELSE F[k - 1] + C(k)
    <2> HIDE DEF F
    <2> QED
      BY <1>7
  <1> DEFINE bad == {k \in 0 .. n : F[k] # w[k]}
  <1> HIDE DEF F
  <1>9. bad = {}
    <2>1. SUFFICES ASSUME bad # {} PROVE FALSE
      OBVIOUS
    <2>2. PICK k \in bad : \A j \in bad : k <= j
      <3>1. bad \subseteq Nat
        OBVIOUS
      <3> HIDE DEF bad
      <3> QED
        BY <2>1, <3>1, LeastNumber
    <2>3. k \in 0 .. n /\ F[k] # w[k]
      BY <2>2
    <2>4. k # 0
      BY <1>5, <1>8, <2>3
    <2>5. k - 1 \in 0 .. n /\ ~ (k <= k - 1)
      BY <1>4, <2>3, <2>4
    <2>6. F[k - 1] = w[k - 1]
      BY <2>2, <2>5
    <2> QED
      BY <1>5, <1>8, <2>3, <2>4, <2>6
  <1>10. F[n] = w[n]
    <2>1. n \in 0 .. n
      BY <1>1
    <2> QED
      BY <1>9, <2>1
  <1> QED
    BY <1>2, <1>3, <1>10

-----------------------------------------------------------------------------
(* Together.                                                                *)

LookupInv ==
    /\ pc # "undefined" => WrittenInv /\ RootInv
    /\ pc \notin {"done", "undefined"} => stack = << >> /\ current_weight = 0
    /\ CallsInv
    /\ Addressable /\ pc \in {"done", "undefined"} => PathInv

LEMMA InitLookup == LookupInit => LookupInv /\ FlagsInv
  <1> SUFFICES ASSUME LookupInit PROVE LookupInv /\ FlagsInv
    OBVIOUS
  <1>1. WrittenInv /\ RootInv /\ pc = "symbols"
    BY InitWritten, InitRoot DEF LookupInit, Init
  <1>2. stack = << >> /\ IsStack(stack) /\ Len(stack) = 0 /\ input_tape \in Seq(Nat)
    BY DEF LookupInit, IsStack
  <1>3. CallsInv /\ FlagsInv
    BY <1>2, LookupAssumption DEF LookupInit, CallsInv, FlagsInv
  <1> QED
    BY <1>1, <1>2, <1>3 DEF LookupInit, LookupInv

\* The steps in which no call is in progress before or none changes.
Building ==
    /\ [Next]_vars
    /\ pc \notin {"done", "undefined"}
    /\ UNCHANGED lookupVars

Resting ==
    /\ UNCHANGED << vars, stack, flag_state, current_weight, recursion_depth_left >>
    /\ input_tape' = input_tape \/ (stack = << >> /\ input_tape' = << >>)

LEMMA StepKinds ==
    [LookupNext]_lookupAll => Building \/ LookupFd \/ Resting \/ GetAnalyses
  <1>1. Build => Building
    BY DEF Build, Building, Next, GetStatesAndSymbols, SkipSimpleState, PackState, PackingDone,
           WriteIndexTable, WriteTransitionTable
  <1>2. RejectInput \/ TimePasses \/ UNCHANGED lookupAll => Resting
    BY DEF RejectInput, TimePasses, lookupAll, lookupVars, callVars, pathVars, Resting
  <1>3. LookupEnded => Resting
    BY DEF LookupEnded, lookupAll, lookupVars, callVars, pathVars, Resting
  <1> QED
    BY <1>1, <1>2, <1>3 DEF LookupNext

LEMMA TapeType ==
    ASSUME WrittenInv, pc = "done", NEW tape \in InputTapes
    PROVE  tape \in Seq(Nat)
  <1> DEFINE S == {x \in 1 .. seen_input_symbols - 1 :
                     symbol_table[x + 1] \notin {UnknownName, IdentityName, DefaultName}}
                  \cup {orig_symbol_count}
  <1>1. PICK n \in 0 .. MaxInput : tape \in [1 .. n -> S]
    BY DEF InputTapes
  <1>2. S \subseteq Nat
    <2>1. Len(symbol_table) \in Nat
      BY AtTheEnd DEF NumbersBounded
    <2> QED
      BY <2>1 DEF orig_symbol_count
  <1>3. n \in Nat
    BY LookupAssumption
  <1> HIDE DEF S
  <1>4. tape \in [1 .. n -> Nat]
    BY <1>1, <1>2
  <1> QED
    BY <1>3, <1>4

LEMMA StartStep == LookupInv /\ LookupFd => LookupInv'
  <1> SUFFICES ASSUME LookupInv, LookupFd PROVE LookupInv'
    OBVIOUS
  <1> DEFINE f == Frame(0, 0, 0)
  <1>1. /\ pc = "done" /\ stack = << >> /\ Len(stack) = 0 /\ stack' = << f >>
        /\ WrittenInv /\ RootInv
        /\ input_tape' \in InputTapes
        /\ UNCHANGED << vars, current_weight, recursion_depth_left >>
    BY DEF LookupFd, LookupInv
  <1>2. Fields(f, 0, 0, "enter", 0, << >>, NoFlags)
    BY FirstFrame
  <1> HIDE DEF f
  <1>3. /\ stack' \in Seq({f}) /\ Len(stack') = 1 /\ stack'[1] = f /\ stack' # << >>
        /\ stack' = Append(<< >>, f)
    BY <1>1
  <1>4. (WrittenInv /\ RootInv)'
    <2>1. [Next]_vars
      BY <1>1
    <2> QED
      BY <1>1, <2>1, WrittenStep, RootStep
  <1>5. CallsInv'
    <2>1. recursion_depth_left \in Int /\ recursion_depth_left = MAX_RECURSION_DEPTH
      BY <1>1, LookupAssumption DEF LookupInv, CallsInv
    <2>2. input_tape' \in Seq(Nat)
      BY <1>1, TapeType
    <2>3. f.stage = "enter" /\ IsFrame(f)
      BY <1>2 DEF Fields
    <2>4. IsStack(stack')
      BY <1>3 DEF IsStack
    <2> QED
      BY <1>1, <1>3, <2>1, <2>2, <2>3, <2>4, LookupAssumption DEF CallsInv
  <1>6. ASSUME Addressable' PROVE PathInv'
    <2>1. Addressable /\ Readable
      BY <1>1, <1>6, TablesReadable DEF vars, tableVars, Addressable
    <2>2. PathInv
      BY <1>1, <2>1 DEF LookupInv
    <2>3. Contribution(wtransition_table, f) = 0
      BY <1>2 DEF Contribution, Fields, Calling
    <2>4. SumOf(wtransition_table, stack', current_weight + 0)
      <3> DEFINE none == << >>
                 c == Contribution(wtransition_table, f)
      <3>1. IsStack(none) /\ c \in Int
        BY <2>3 DEF IsStack
      <3>2. SumOf(wtransition_table, none, current_weight) /\ current_weight \in Int
        BY <1>1, <2>2 DEF PathInv
      <3> HIDE DEF none
      <3>3. SumOf(wtransition_table, Append(none, f), current_weight + c)
        BY <3>1, <3>2, SumPush
      <3> QED
        BY <1>3, <2>3, <3>3 DEF none
    <2>5. current_weight \in Int
      BY <2>2 DEF PathInv
    <2>6. /\ StateEntry(f.at) /\ f.pos = 0 /\ f.stage = "enter" /\ f.symbols = << >>
      BY <1>2, <2>1 DEF Fields, Readable
    <2>7. Len(input_tape') \in Nat
      BY <1>5 DEF CallsInv
    <2>8. << >> \in Seq(0 .. NO_SYMBOL_NUMBER - 1)
      OBVIOUS
    <2>9. /\ UNCHANGED << wtransition_table, windex_table, current_weight >>
          /\ \A k \in 1 .. Len(stack') : stack'[k] = f
      BY <1>1, <1>3 DEF vars, tableVars
    <2>10. (StateEntry(f.at))'
      BY <2>6, <2>9 DEF StateEntry, Position
    <2>11. f.stage \notin {"epsilons", "transitions", "after transition"} \cup Calling
      BY <2>6 DEF Calling
    <2>12. FrameInv(f)'
      BY <2>6, <2>7, <2>8, <2>10, <2>11 DEF FrameInv, Calling
    <2>13. \A k \in 1 .. Len(stack') : FrameInv(stack[k])'
      BY <2>9, <2>12
    <2>14. current_weight' \in Int /\ SumOf(wtransition_table', stack', current_weight')
      BY <2>4, <2>5, <2>9
    <2> QED
      BY <2>13, <2>14 DEF PathInv
  <1> QED
    BY <1>1, <1>4, <1>5, <1>6 DEF LookupInv, vars

LEMMA RestStep == LookupInv /\ Resting => LookupInv'
  <1> SUFFICES ASSUME LookupInv, Resting PROVE LookupInv'
    OBVIOUS
  <1>1. /\ UNCHANGED << vars, stack, current_weight, recursion_depth_left >>
        /\ input_tape' = input_tape \/ (stack = << >> /\ input_tape' = << >>)
    BY DEF Resting
  <1>2. pc' # "undefined" => (WrittenInv /\ RootInv)'
    <2>1. [Next]_vars /\ pc' = pc
      BY <1>1 DEF vars
    <2> QED
      BY <2>1, WrittenStep, RootStep DEF LookupInv
  <1>3. CallsInv'
    <2>1. input_tape' \in Seq(Nat)
      <3>1. input_tape \in Seq(Nat)
        BY DEF LookupInv, CallsInv
      <3>2. << >> \in Seq(Nat)
        OBVIOUS
      <3> QED
        BY <1>1, <3>1, <3>2
    <2> QED
      BY <1>1, <2>1 DEF LookupInv, CallsInv
  <1>4. PathInv => PathInv'
    <2> SUFFICES ASSUME PathInv PROVE PathInv'
      OBVIOUS
    <2>1. CASE input_tape' = input_tape
      BY <1>1, <2>1 DEF PathInv, FrameInv, StateEntry, Position, At, vars, tableVars
    <2>2. CASE stack = << >>
      <3>1. stack' = << >> /\ 1 .. Len(stack') = {}
        BY <1>1, <2>2
      <3> QED
        BY <1>1, <3>1 DEF PathInv, vars, tableVars
    <2> QED
      BY <1>1, <2>1, <2>2
  <1> QED
    BY <1>1, <1>2, <1>3, <1>4 DEF LookupInv, Addressable, vars, tableVars

LEMMA BuildStep == LookupInv /\ Building => LookupInv'
  <1> SUFFICES ASSUME LookupInv, Building PROVE LookupInv'
    OBVIOUS
  <1>1. /\ stack = << >> /\ current_weight = 0 /\ pc # "undefined"
        /\ UNCHANGED << stack, current_weight, recursion_depth_left, input_tape >>
    BY DEF LookupInv, Building, lookupVars, callVars, pathVars
  <1>2. (WrittenInv /\ RootInv)'
    BY <1>1, WrittenStep, RootStep DEF LookupInv, Building
  <1>3. CallsInv'
    BY <1>1 DEF LookupInv, CallsInv
  <1>4. PathInv'
    <2>1. stack' = << >> /\ 1 .. Len(stack') = {} /\ current_weight' = 0
      BY <1>1
    <2>2. SumOf(wtransition_table', << >>, 0)
      BY SumEmpty
    <2> QED
      BY <2>1, <2>2 DEF PathInv
  <1> QED
    BY <1>1, <1>2, <1>3, <1>4 DEF LookupInv

LEMMA CallStep == LookupInv /\ GetAnalyses => LookupInv' /\ (FlagsInv => FlagsInv')
  <1> SUFFICES ASSUME LookupInv, GetAnalyses PROVE LookupInv' /\ (FlagsInv => FlagsInv')
    OBVIOUS
  <1>1. pc = "done" /\ stack # << >>
    BY DEF GetAnalyses, BackOut, EnterState, TryEpsilon, AfterEpsilon, TryFlag, SkipFlag, AtFlag,
           AfterFlag, EpsilonsDone, NoMoreInput, ReadInput, FindSymbol, TryDefault, LeaveState,
           TakeTransition, AfterTransition, TransitionsDone, Running
  <1>2. WrittenInv /\ RootInv /\ CallsInv
    BY <1>1 DEF LookupInv
  <1>3. Ready
    <2>1. IsFrame(Top)
      BY <1>1, <1>2, StackFacts DEF CallsInv
    <2> QED
      BY <1>2, <2>1 DEF Ready, CallsInv
  <1>4. GoesOn \/ CallsItself \/ Returns
    BY <1>3, Shapes
  <1>5. CallsInv'
    BY <1>2, <1>4, CallsStep
  <1>6. FlagsInv => FlagsInv'
    BY <1>2, <1>4, FlagsStep
  <1>7. InCall
    BY <1>4 DEF GoesOn, CallsItself, Returns
  <1>8. Addressable' => PathInv'
    <2> SUFFICES ASSUME Addressable' PROVE PathInv'
      OBVIOUS
    <2>1. Addressable
      BY <1>7 DEF InCall, Addressable, tableVars
    <2> QED
      BY <1>1, <1>2, <1>4, <2>1, PathStep, TablesReadable DEF LookupInv
  <1>9. pc' # "undefined" => (WrittenInv /\ RootInv)'
    <2> SUFFICES ASSUME pc' # "undefined" PROVE (WrittenInv /\ RootInv)'
      OBVIOUS
    <2>1. [Next]_vars
      BY <1>1, <1>7 DEF InCall, vars
    <2> QED
      BY <1>2, <2>1, WrittenStep, RootStep
  <1> QED
    BY <1>5, <1>6, <1>7, <1>8, <1>9 DEF LookupInv, InCall

LEMMA LookupStepKeeps == LookupInv /\ [LookupNext]_lookupAll => LookupInv'
  BY StepKinds, StartStep, RestStep, BuildStep, CallStep

LEMMA FlagsStepKeeps == LookupInv /\ FlagsInv /\ [LookupNext]_lookupAll => FlagsInv'
  <1> SUFFICES ASSUME LookupInv, FlagsInv, [LookupNext]_lookupAll
               PROVE  FlagsInv'
    OBVIOUS
  <1>1. CASE LookupFd
    <2>1. /\ stack = << >> /\ Len(stack) = 0 /\ stack' = << Frame(0, 0, 0) >>
          /\ flag_state' = flag_state
      BY <1>1 DEF LookupFd
    <2>2. Len(stack') = 1 /\ stack'[1].stage = "enter"
      BY <2>1 DEF Frame
    <2>3. flag_state = NoFlags
      BY <2>1 DEF FlagsInv
    <2>4. \A k \in 1 .. Len(stack') : k = 1
      BY <2>2
    <2> QED
      BY <2>1, <2>2, <2>3, <2>4 DEF FlagsInv, NoFlags
  <1>2. CASE Resting \/ Building
    BY <1>2 DEF Resting, Building, lookupVars, pathVars, FlagsInv, NoFlags
  <1> QED
    BY <1>1, <1>2, StepKinds, CallStep

-----------------------------------------------------------------------------
(* What the runs check.                                                     *)

\* The members a lookup leaves as it found them, from the two invariants.
LEMMA NothingLeft ==
    ASSUME LookupInv, FlagsInv, Addressable
    PROVE  LeavesNoTrace
  <1> SUFFICES ASSUME pc = "done", stack = << >>
               PROVE  /\ flag_state = NoFlags
                      /\ current_weight = 0
                      /\ recursion_depth_left = MAX_RECURSION_DEPTH
    BY DEF LeavesNoTrace, Idle
  <1>1. Len(stack) = 0
    OBVIOUS
  <1>2. flag_state = NoFlags
    BY <1>1 DEF FlagsInv
  <1>3. recursion_depth_left = MAX_RECURSION_DEPTH
    BY <1>1 DEF LookupInv, CallsInv
  <1>4. current_weight = 0
    BY <1>1 DEF LookupInv, PathInv, SumOf
  <1> QED
    BY <1>2, <1>3, <1>4

LEMMA CallsCounted ==
    ASSUME CallsInv
    PROVE  recursion_depth_left + Cardinality({k \in DOMAIN stack : stack[k].stage # "enter"})
             = MAX_RECURSION_DEPTH
  <1> DEFINE n == Len(stack)
             entered == {k \in DOMAIN stack : stack[k].stage # "enter"}
             waiting == stack # << >> /\ stack[n].stage = "enter"
  <1>1. n \in Nat /\ DOMAIN stack = 1 .. n /\ (stack = << >> <=> n = 0)
    BY DEF CallsInv, IsStack
  <1>2. \A k \in 1 .. n - 1 : stack[k].stage # "enter"
    BY DEF CallsInv, Calling
  <1>3. /\ recursion_depth_left \in Int /\ MAX_RECURSION_DEPTH \in Nat
        /\ recursion_depth_left + n = IF waiting THEN MAX_RECURSION_DEPTH + 1 ELSE MAX_RECURSION_DEPTH
    BY LookupAssumption DEF CallsInv
  <1> DEFINE m == IF waiting THEN n - 1 ELSE n
  <1> HIDE DEF n
  <1>4. \A k \in 1 .. n : k \in 1 .. n - 1 \/ k = n
    BY <1>1
  <1>5. entered = 1 .. m
    <2>1. CASE waiting
      <3>1. m = n - 1 /\ stack[n].stage = "enter" /\ n # 0
        BY <1>1, <2>1
      <3>2. 1 .. n - 1 \subseteq 1 .. n /\ n \notin 1 .. n - 1
        BY <1>1
      <3> QED
        BY <1>1, <1>2, <1>4, <3>1, <3>2
    <2>2. CASE ~ waiting
      <3>1. m = n /\ (stack = << >> \/ stack[n].stage # "enter")
        BY <2>2
      <3>2. \A k \in 1 .. n : stack[k].stage # "enter"
        <4>1. stack = << >> => 1 .. n = {}
          BY <1>1
        <4> QED
          BY <1>2, <1>4, <3>1, <4>1
      <3> QED
        BY <1>1, <3>1, <3>2
    <2> QED
      BY <2>1, <2>2
  <1>6. m \in Nat /\ recursion_depth_left + m = MAX_RECURSION_DEPTH
    BY <1>1, <1>3
  <1> HIDE DEF entered, m
  <1>7. Cardinality(entered) = m
    BY <1>5, <1>6, IntervalSize
  <1> QED
    BY <1>6, <1>7 DEF entered

LEMMA StateMatchesStack ==
    ASSUME LookupInv, Addressable
    PROVE  SharedStateMatchesStack
  <1>1. CallsInv
    BY DEF LookupInv
  <1>2. current_weight = StackWeight
    <2>1. SumOf(wtransition_table, stack, current_weight)
      <3>1. CASE pc \in {"done", "undefined"}
        BY <3>1 DEF LookupInv, PathInv
      <3>2. CASE pc \notin {"done", "undefined"}
        BY <3>2, SumEmpty DEF LookupInv
      <3> QED
        BY <3>1, <3>2
    <2> QED
      BY <1>1, <2>1, SumIsStackWeight DEF CallsInv
  <1>3. \A k \in 1 .. Len(stack) - 1 : stack[k].stage \in Calling
    BY <1>1 DEF CallsInv
  <1> QED
    BY <1>1, <1>2, <1>3, CallsCounted DEF SharedStateMatchesStack

(* The invariant of the lookup holds in every state.                        *)
LEMMA LookupInvariant == LookupSpec => [](LookupInv /\ FlagsInv)
  <1>1. LookupInit => LookupInv /\ FlagsInv
    BY InitLookup
  <1>2. LookupInv /\ FlagsInv /\ [LookupNext]_lookupAll => (LookupInv /\ FlagsInv)'
    BY LookupStepKeeps, FlagsStepKeeps
  <1> QED
    BY <1>1, <1>2, PTL DEF LookupSpec

(* Between lookups nothing of an earlier one is left in the flag values, the *)
(* weight and the depth, whichever of its limits it ran into and however     *)
(* deep it was at the time: as long as the addresses of the tables fit.      *)
THEOREM LeavesNoTraceHolds == LookupSpec => [](Addressable => LeavesNoTrace)
  <1>1. LookupInv /\ FlagsInv => (Addressable => LeavesNoTrace)
    BY NothingLeft
  <1> QED
    BY <1>1, LookupInvariant, PTL

(* While get_analyses calls itself, the weight is the sum of the transitions *)
(* being followed and the depth counts the calls, in every interleaving of   *)
(* epsilons, flags, defaults and early returns.                              *)
THEOREM SharedStateMatchesStackHolds ==
    LookupSpec => [](Addressable => SharedStateMatchesStack)
  <1>1. LookupInv /\ FlagsInv => (Addressable => SharedStateMatchesStack)
    BY StateMatchesStack
  <1> QED
    BY <1>1, LookupInvariant, PTL

-----------------------------------------------------------------------------
LimitInv ==
    /\ IsFiniteSet(lookup_paths)
    /\ max_lookups \in Int
    /\ LimitHonoured

LEMMA LimitStep == LimitInv /\ [LookupNext]_lookupAll => LimitInv'
  <1> SUFFICES ASSUME LimitInv, [LookupNext]_lookupAll
               PROVE  LimitInv'
    OBVIOUS
  <1>1. CASE LookupFd \/ RejectInput
    <2>1. lookup_paths' = {} /\ max_lookups' \in Int
      BY <1>1, LookupAssumption DEF LookupFd, RejectInput
    <2>2. IsFiniteSet(lookup_paths') /\ Cardinality(lookup_paths') = 0
      BY <2>1, FS_EmptySet
    <2> QED
      BY <2>1, <2>2 DEF LimitInv, LimitHonoured
  <1>2. CASE EnterState
    <2> DEFINE x == Analysis(Write(output_tape, Top.out, NO_SYMBOL_NUMBER),
                             current_weight + FinalWeight(Top.at))
    <2>1. /\ ~ Enough /\ max_lookups' = max_lookups
          /\ lookup_paths' = lookup_paths \/ lookup_paths' = lookup_paths \cup {x}
      BY <1>2 DEF EnterState, callVars
    <2> HIDE DEF x
    <2>2. /\ IsFiniteSet(lookup_paths \cup {x})
          /\ Cardinality(lookup_paths \cup {x}) =
               IF x \in lookup_paths THEN Cardinality(lookup_paths) ELSE Cardinality(lookup_paths) + 1
      BY FS_AddElement DEF LimitInv
    <2>3. Cardinality(lookup_paths) \in Nat
      BY FS_CardinalityType DEF LimitInv
    <2>4. max_lookups >= 0 => Cardinality(lookup_paths) < max_lookups
      BY <2>1, <2>3 DEF Enough, LimitInv
    <2>5. max_lookups >= 0 => Cardinality(lookup_paths') <= max_lookups
      BY <2>1, <2>2, <2>3, <2>4 DEF LimitInv
    <2> QED
      BY <2>1, <2>2, <2>5 DEF LimitInv, LimitHonoured
  <1>3. CASE ~ (LookupFd \/ RejectInput \/ EnterState)
    <2>1. UNCHANGED << lookup_paths, max_lookups >>
      BY <1>3
      DEF LookupNext, Build, TimePasses, LookupEnded, GetAnalyses, BackOut, TryEpsilon, AfterEpsilon,
          TryFlag, SkipFlag, AfterFlag, EpsilonsDone, NoMoreInput, ReadInput, FindSymbol, TryDefault,
          LeaveState, TakeTransition, AfterTransition, TransitionsDone,
          lookupAll, lookupVars, callVars, pathVars
    <2> QED
      BY <2>1 DEF LimitInv, LimitHonoured
  <1> QED
    BY <1>1, <1>2, <1>3

(* No lookup collects more results than its limit, whichever branches of the *)
(* search they come from.                                                    *)
THEOREM LimitHonouredHolds == LookupSpec => []LimitHonoured
  <1>1. LookupInit => LimitInv
    BY FS_EmptySet DEF LookupInit, LimitInv, LimitHonoured
  <1>2. LimitInv /\ [LookupNext]_lookupAll => LimitInv'
    BY LimitStep
  <1>3. LimitInv => LimitHonoured
    BY DEF LimitInv
  <1> QED
    BY <1>1, <1>2, <1>3, PTL DEF LookupSpec

-----------------------------------------------------------------------------
(* Every result of a lookup is the output of a path of the transducer.  The *)
(* invariant relates each frame of the stack to a path: the one along the   *)
(* transitions that the frames below it follow.                             *)


-----------------------------------------------------------------------------
(* The symbols a lookup asks for.                                           *)

Special == {UnknownName, IdentityName, DefaultName}

Known == {x \in 1 .. seen_input_symbols - 1 : symbol_table[x + 1] \notin Special}
           \cup {orig_symbol_count}

\* A symbol number that is neither epsilon nor a flag diacritic.
Consuming(x) == x \in 1 .. NO_SYMBOL_NUMBER - 1 /\ x \notin FlagSymbols

(* There is a number for a character that is not in the alphabet. *)
LEMMA AlphabetSize ==
    ASSUME WrittenInv, pc = "done"
    PROVE  /\ Len(symbol_table) \in Nat /\ Len(symbol_table) < NO_SYMBOL_NUMBER
           /\ symbol_table[1] = Epsilon
           /\ \A x \in 1 .. seen_input_symbols - 1 : symbol_table[x + 1] \notin FlagNames
           /\ seen_input_symbols \in 1 .. Len(symbol_table)
           /\ NO_SYMBOL_NUMBER \in Nat
  <1>1. symbol_table = CollectSymbols(InputsUsed, OutputsUsed)
    BY DEF WrittenInv, NumberingKept
  <1>2. Len(symbol_table) <= Len(SymbolOrder) + 1 /\ symbol_table[1] = Epsilon
    BY <1>1, SymbolTable
  <1>3. /\ seen_input_symbols \in 1 .. Len(symbol_table)
        /\ Len(symbol_table) \in Nat
        /\ \A x \in 1 .. seen_input_symbols - 1 : symbol_table[x + 1] \notin FlagNames
    BY AtTheEnd DEF NumbersBounded, SymbolsInOrder
  <1>4. Len(SymbolOrder) \in Nat /\ NO_SYMBOL_NUMBER \in Nat
    BY ConstantsAssumption
  <1> QED
    BY <1>2, <1>3, <1>4, AlphabetAssumption

LEMMA SpecialConsuming ==
    ASSUME WrittenInv, pc = "done", NEW name \in Special,
           SpecialSymbol(name) # NO_SYMBOL_NUMBER
    PROVE  Consuming(SpecialSymbol(name))
  <1>1. /\ Len(symbol_table) \in Nat /\ Len(symbol_table) < NO_SYMBOL_NUMBER
        /\ symbol_table[1] = Epsilon /\ NO_SYMBOL_NUMBER \in Nat
    BY AlphabetSize
  <1>2. name \notin FlagNames /\ name # Epsilon
    BY AlphabetAssumption DEF Special
  <1>3. PICK i \in 1 .. Len(symbol_table) : SpecialSymbol(name) = i - 1 /\ symbol_table[i] = name
    BY DEF SpecialSymbol, SymbolNumberOf
  <1>4. i # 1
    BY <1>1, <1>2, <1>3
  <1>5. \A j \in 1 .. Len(symbol_table) : j - 1 = i - 1 => j = i
    OBVIOUS
  <1>6. i - 1 \notin FlagSymbols
    BY <1>2, <1>3, <1>5 DEF FlagSymbols, NumbersOf
  <1>7. i - 1 \in 1 .. NO_SYMBOL_NUMBER - 1
    BY <1>1, <1>4
  <1> QED
    BY <1>3, <1>6, <1>7 DEF Consuming

LEMMA ConcatenatedSet ==
    ASSUME NEW S, NEW u \in Seq(S), NEW v \in Seq(S)
    PROVE  ToSet(u \o v) = ToSet(u) \cup ToSet(v)
  <1> DEFINE w == u \o v
  <1>1. /\ DOMAIN u = 1 .. Len(u) /\ DOMAIN v = 1 .. Len(v) /\ DOMAIN w = 1 .. Len(u) + Len(v)
        /\ Len(u) \in Nat /\ Len(v) \in Nat
        /\ \A i \in 1 .. Len(u) : w[i] = u[i]
        /\ \A i \in 1 .. Len(v) : w[Len(u) + i] = v[i]
    OBVIOUS
  <1> HIDE DEF w
  <1>2. \A i \in 1 .. Len(u) + Len(v) :
          i \in 1 .. Len(u) \/ (i - Len(u) \in 1 .. Len(v) /\ Len(u) + (i - Len(u)) = i)
    BY <1>1
  <1>3. ASSUME NEW z \in ToSet(w) PROVE z \in ToSet(u) \cup ToSet(v)
    <2>1. PICK i \in 1 .. Len(u) + Len(v) : z = w[i]
      BY <1>1, <1>3 DEF ToSet
    <2>2. CASE i \in 1 .. Len(u)
      BY <1>1, <2>1, <2>2 DEF ToSet
    <2>3. CASE i - Len(u) \in 1 .. Len(v) /\ Len(u) + (i - Len(u)) = i
      <3>1. z = v[i - Len(u)]
        BY <1>1, <2>1, <2>3
      <3> QED
        BY <1>1, <2>3, <3>1 DEF ToSet
    <2> QED
      BY <1>2, <2>2, <2>3
  <1>4. ASSUME NEW z \in ToSet(u) \cup ToSet(v) PROVE z \in ToSet(w)
    <2>1. CASE z \in ToSet(u)
      <3>1. PICK i \in 1 .. Len(u) : z = u[i]
        BY <1>1, <2>1 DEF ToSet
      <3>2. i \in DOMAIN w /\ z = w[i]
        BY <1>1, <3>1
      <3> QED
        BY <3>2 DEF ToSet
    <2>2. CASE z \in ToSet(v)
      <3>1. PICK i \in 1 .. Len(v) : z = v[i]
        BY <1>1, <2>2 DEF ToSet
      <3>2. Len(u) + i \in DOMAIN w /\ z = w[Len(u) + i]
        BY <1>1, <3>1
      <3> QED
        BY <3>2 DEF ToSet
    <2> QED
      BY <2>1, <2>2, <1>4
  <1> QED
    BY <1>3, <1>4 DEF w

(* What is asked for is never epsilon, a flag diacritic or no symbol at all. *)
LEMMA SymbolsForConsuming ==
    ASSUME WrittenInv, pc = "done", NEW x \in Known, NEW y \in ToSet(SymbolsFor(x))
    PROVE  Consuming(y)
  <1> DEFINE present(z) == IF z = NO_SYMBOL_NUMBER THEN << >> ELSE << z >>
  <1>1. /\ Len(symbol_table) \in Nat /\ Len(symbol_table) < NO_SYMBOL_NUMBER
        /\ \A z \in 1 .. seen_input_symbols - 1 : symbol_table[z + 1] \notin FlagNames
        /\ seen_input_symbols \in 1 .. Len(symbol_table)
        /\ NO_SYMBOL_NUMBER \in Nat
    BY AlphabetSize
  <1>2. CASE x < orig_symbol_count
    <2>1. x \in 1 .. seen_input_symbols - 1
      BY <1>1, <1>2 DEF Known, orig_symbol_count
    <2>2. y = x
      BY <1>2 DEF SymbolsFor, ToSet
    <2>3. \A j \in 1 .. Len(symbol_table) : j - 1 = x => j = x + 1
      OBVIOUS
    <2>4. x \notin FlagSymbols
      BY <1>1, <2>1, <2>3 DEF FlagSymbols, NumbersOf
    <2>5. x \in 1 .. NO_SYMBOL_NUMBER - 1
      BY <1>1, <2>1
    <2> QED
      BY <2>2, <2>4, <2>5 DEF Consuming
  <1>3. CASE ~ (x < orig_symbol_count)
    <2> DEFINE u == present(SpecialSymbol(IdentityName))
               v == present(SpecialSymbol(UnknownName))
    <2>1. SymbolsFor(x) = u \o v
      BY <1>3 DEF SymbolsFor
    <2>2. \A z : present(z) \in Seq({z})
      <3> SUFFICES ASSUME NEW z PROVE present(z) \in Seq({z})
        OBVIOUS
      <3>1. << >> \in Seq({z}) /\ << z >> \in Seq({z})
        OBVIOUS
      <3> QED
        BY <3>1
    <2>3. ToSet(u \o v) = ToSet(u) \cup ToSet(v)
      <3>1. PICK S : u \in Seq(S)
        BY <2>2
      <3>2. PICK R : v \in Seq(R)
        BY <2>2
      <3> HIDE DEF u, v
      <3>3. u \in Seq(S \cup R) /\ v \in Seq(S \cup R)
        BY <3>1, <3>2
      <3> QED
        BY <3>3, ConcatenatedSet
    <2>4. \A z : ToSet(present(z)) = {z} \ {NO_SYMBOL_NUMBER}
      BY DEF ToSet
    <2>5. \/ y = SpecialSymbol(IdentityName) /\ y # NO_SYMBOL_NUMBER
          \/ y = SpecialSymbol(UnknownName) /\ y # NO_SYMBOL_NUMBER
      BY <2>1, <2>3, <2>4
    <2> QED
      BY <2>5, SpecialConsuming DEF Special
  <1> QED
    BY <1>2, <1>3

LEMMA FlagsAreFlags ==
    ASSUME WrittenInv, pc = "done"
    PROVE  flag_symbols \subseteq FlagSymbols
  BY DEF WrittenInv, NumberingKept, FlagSymbols, NumbersOf

LEMMA KnownTape ==
    ASSUME WrittenInv, pc = "done", input_tape \in InputTapes
    PROVE  input_tape \in Seq(Known)
  <1>1. MaxInput \in Nat
    BY LookupAssumption
  <1>2. PICK n \in 0 .. MaxInput : input_tape \in [1 .. n -> Known]
    BY DEF InputTapes, Known, Special
  <1> HIDE DEF Known
  <1> QED
    BY <1>1, <1>2
-----------------------------------------------------------------------------
(* What find_index finds at a state.                                        *)

\* c is the address of an entry of state s, or of the one behind them.
InBlock(s, c) ==
    \E j \in 1 .. Len(placeholders[s]) + 1 :
      c = First[s] + j - 1 + TRANSITION_TARGET_TABLE_START

LEMMA BlockEntries ==
    ASSUME WrittenInv, pc = "done", Addressable, NEW s \in States(graph), NEW c, InBlock(s, c)
    PROVE  /\ c \in Nat
           /\ At(wtransition_table, c).input # NO_SYMBOL_NUMBER =>
                /\ InBlock(s, c + 1)
                /\ \E k \in DOMAIN placeholders[s] :
                     At(wtransition_table, c) = TransitionEntry(placeholders[s][k])
  <1> DEFINE P == placeholders[s]
  <1>1. PICK j \in 1 .. Len(P) + 1 : c = First[s] + j - 1 + TRANSITION_TARGET_TABLE_START
    BY DEF InBlock
  <1>2. /\ First[s] \in Nat /\ Len(P) \in Nat /\ TRANSITION_TARGET_TABLE_START \in Nat
        /\ \A k \in 1 .. Len(P) : wtransition_table[First[s] + k] = StateTransitions(s)[k]
        /\ wtransition_table[First[s] + Len(P) + 1].input = NO_SYMBOL_NUMBER
    BY FirstFacts, TransitionTableFacts, ConstantsAssumption
  <1> DEFINE m == First[s] + j - 1
  <1>3. m \in Nat /\ c = m + TRANSITION_TARGET_TABLE_START /\ m + 1 = First[s] + j
    BY <1>1, <1>2
  <1>4. At(wtransition_table, c) = wtransition_table[First[s] + j]
    <2>1. TableAddress(c) = m
      BY <1>3, AddressArithmetic
    <2> QED
      BY <1>3, <2>1 DEF At
  <1>5. ASSUME At(wtransition_table, c).input # NO_SYMBOL_NUMBER
        PROVE  /\ InBlock(s, c + 1)
               /\ \E k \in DOMAIN P : At(wtransition_table, c) = TransitionEntry(P[k])
    <2>1. j # Len(P) + 1
      <3> SUFFICES ASSUME j = Len(P) + 1 PROVE FALSE
        OBVIOUS
      <3>1. First[s] + j = First[s] + Len(P) + 1
        BY <1>2
      <3>2. At(wtransition_table, c) = wtransition_table[First[s] + Len(P) + 1]
        BY <1>4, <3>1
      <3> QED
        BY <1>2, <1>5, <3>2
    <2>2. j \in 1 .. Len(P) /\ j + 1 \in 1 .. Len(P) + 1
      <3>1. j \in 1 .. Len(P) + 1 /\ Len(P) \in Nat
        BY <1>1, <1>2
      <3> HIDE DEF P
      <3> QED
        BY <2>1, <3>1
    <2>3. c + 1 = First[s] + (j + 1) - 1 + TRANSITION_TARGET_TABLE_START
      BY <1>1, <1>2
    <2>4. InBlock(s, c + 1)
      BY <2>2, <2>3 DEF InBlock
    <2>5. /\ WriteOrder(P)[j] \in DOMAIN P
          /\ StateTransitions(s)[j] = TransitionEntry(P[WriteOrder(P)[j]])
      BY <2>2, EntriesType
    <2> QED
      BY <1>2, <1>4, <2>2, <2>4, <2>5
  <1>6. c \in Nat
    BY <1>2, <1>3
  <1> QED
    BY <1>5, <1>6

LEMMA OffsetBound ==
    ASSUME WrittenInv, pc = "done", NEW s \in States(graph), NEW x
    PROVE  SymbolOffset(x, placeholders[s], flag_symbols) \in 0 .. Len(placeholders[s])
  <1> DEFINE P == placeholders[s]
             K == {k \in DOMAIN P : P[k].input = 0 \/ P[k].input \in flag_symbols \/ P[k].input < x}
  <1>1. DOMAIN P = 1 .. Len(P) /\ Len(P) \in Nat
    BY AtTheEnd
  <1>2. IsFiniteSet(1 .. Len(P)) /\ Cardinality(1 .. Len(P)) = Len(P)
    BY <1>1, IntervalSize
  <1>3. K \subseteq 1 .. Len(P)
    BY <1>1
  <1>4. SymbolOffset(x, P, flag_symbols) \in {0, Cardinality(K)}
    BY DEF SymbolOffset
  <1> HIDE DEF K
  <1>5. IsFiniteSet(K) /\ Cardinality(K) <= Len(P)
    BY <1>2, <1>3, FS_Subset
  <1>6. Cardinality(K) \in Nat
    BY <1>5, FS_CardinalityType
  <1> QED
    BY <1>1, <1>4, <1>5, <1>6

\* An input symbol of a state that is no flag is one of its offsets.
LEMMA InputOffset ==
    ASSUME NEW s, NEW x \in Inputs(placeholders[s]), x \notin flag_symbols
    PROVE  x \in StateOffsets(s)
  BY DEF StateOffsets, Offsets, IndexOffset

LEMMA AddressKind ==
    ASSUME WrittenInv, pc = "done", Addressable, NEW s \in States(graph)
    PROVE  SimpleState(s) <=> IndexesTransitionTable(StateAddress(s))
  <1> DEFINE a == StateAddress(s)
  <1>1. CASE SimpleState(s)
    <2>1. a = First[s] + TRANSITION_TARGET_TABLE_START - 1 /\ First[s] \in Nat /\ First[s] >= 1
      BY <1>1, AddressType, FirstFacts
    <2> QED
      BY <1>1, <2>1, AddressArithmetic
  <1>2. CASE ~ SimpleState(s)
    <2>1. s \in DOMAIN start_index /\ a = start_index[s] /\ a \in Nat
      BY <1>2, AddressType
    <2>2. a + seen_input_symbols < Len(windex_table) /\ seen_input_symbols \in Nat
      BY <2>1, IndexTableFacts
    <2>3. Len(windex_table) \in Nat /\ TRANSITION_TARGET_TABLE_START \in Nat
      BY IndexTableFacts, ConstantsAssumption
    <2> QED
      BY <1>2, <2>1, <2>2, <2>3 DEF IndexesTransitionTable, Addressable
  <1> QED
    BY <1>1, <1>2
(* An index entry that is not found, or that would be behind the table, is    *)
(* the entry of no transition of the state; one that is found leads to the    *)
(* state's own entries.                                                       *)
LEMMA FindSound ==
    ASSUME WrittenInv, pc = "done", Addressable, NEW s \in States(graph),
           NEW x \in 0 .. NO_SYMBOL_NUMBER - 1, x \notin flag_symbols,
           NEW a, a = StateAddress(s)
    PROVE  /\ IndexesTransitionTable(a) \/ a + 1 + x < Len(windex_table) =>
                /\ \A c \in FindIndex(windex_table, a, x) : InBlock(s, c)
                /\ FindIndex(windex_table, a, x) = {} => x \notin Inputs(placeholders[s])
           /\ ~ IndexesTransitionTable(a) /\ a + 1 + x >= Len(windex_table) =>
                x \notin Inputs(placeholders[s])
  <1> DEFINE P == placeholders[s]
             T == TRANSITION_TARGET_TABLE_START
             xt == windex_table
             off == SymbolOffset(x, P, flag_symbols)
  <1>1. /\ First[s] \in Nat /\ Len(P) \in Nat /\ T \in Nat /\ Len(xt) \in Nat /\ Len(xt) <= T
        /\ x \in Nat /\ x # NO_SYMBOL_NUMBER /\ off \in 0 .. Len(P)
    <2>1. x \in Nat /\ x # NO_SYMBOL_NUMBER
      BY ConstantsAssumption
    <2>2. First[s] \in Nat /\ Len(P) \in Nat /\ off \in 0 .. Len(P)
      BY FirstFacts, OffsetBound
    <2>3. T \in Nat /\ Len(xt) \in Nat /\ Len(xt) <= T
      BY IndexTableFacts, ConstantsAssumption DEF Addressable
    <2> QED
      BY <2>1, <2>2, <2>3
  <1>2. CASE SimpleState(s)
    <2>1. a = First[s] + T - 1 /\ First[s] >= 1 /\ IndexesTransitionTable(a)
      BY <1>2, AddressType, FirstFacts, AddressKind
    <2>2. a + 1 = First[s] + 1 - 1 + T /\ 1 \in 1 .. Len(P) + 1
      BY <1>1, <2>1
    <2>3. FindIndex(xt, a, x) = {a + 1}
      BY <2>1 DEF FindIndex
    <2>4. InBlock(s, a + 1)
      BY <2>2 DEF InBlock
    <2> QED
      BY <2>1, <2>3, <2>4
  <1>3. CASE ~ SimpleState(s)
    <2>1. /\ s \in DOMAIN start_index /\ a = start_index[s] /\ a \in Nat
          /\ ~ IndexesTransitionTable(a)
      BY <1>3, AddressType, AddressKind
    <2> DEFINE p == a + 1 + x
    <2>2. IndexInv /\ NoFalseHit
      BY AtTheEnd, OwnershipGivesNoFalseHit
    <2>3. /\ (p \in DOMAIN used_indices /\ used_indices[p][2] = x) <=> x \in StateOffsets(s)
          /\ x \in StateOffsets(s) => used_indices[p][1] = s
      BY <2>1, <2>2 DEF NoFalseHit
    <2>4. x \in Inputs(P) => x \in StateOffsets(s)
      BY InputOffset
    <2>5. ASSUME p < Len(xt)
          PROVE  /\ \A c \in FindIndex(xt, a, x) : InBlock(s, c)
                 /\ FindIndex(xt, a, x) = {} => x \notin Inputs(P)
      <3>1. At(xt, p) = IndexTableEntry(p)
        <4>1. p \in Nat /\ p < T /\ p \in 0 .. Len(xt) - 1
          BY <1>1, <2>1, <2>5
        <4>2. TableAddress(p) = p
          BY <4>1, AddressArithmetic
        <4> QED
          BY <4>1, <4>2, IndexTableFacts DEF At
      <3>2. FindIndex(xt, a, x) = {At(xt, p).target : e \in {z \in {x} : Matches(At(xt, p), z)}}
        BY <2>1 DEF FindIndex
      <3> HIDE DEF p
      <3>3. CASE x \in StateOffsets(s)
        <4>1. p \in DOMAIN used_indices /\ used_indices[p][2] = x /\ used_indices[p][1] = s
          BY <2>3, <3>3
        <4>2. At(xt, p).input = x /\ At(xt, p).target = First[s] + off + T
          BY <1>1, <3>1, <4>1 DEF IndexTableEntry, IndexEntry, First
        <4>3. FindIndex(xt, a, x) = {First[s] + off + T}
          BY <1>1, <3>2, <4>2 DEF Matches
        <4>4. First[s] + off + T = First[s] + (off + 1) - 1 + T /\ off + 1 \in 1 .. Len(P) + 1
          BY <1>1
        <4>5. InBlock(s, First[s] + off + T)
          BY <4>4 DEF InBlock
        <4> QED
          BY <4>3, <4>5
      <3>4. CASE x \notin StateOffsets(s)
        <4>1. ~ (p \in DOMAIN used_indices /\ used_indices[p][2] = x)
          BY <2>3, <3>4
        <4>2. ~ Matches(At(xt, p), x)
          <5>1. CASE p \notin DOMAIN used_indices
            BY <3>1, <5>1 DEF IndexTableEntry, BlankIndex, IndexEntry, Matches
          <5>2. CASE p \in DOMAIN used_indices /\ used_indices[p][2] = NO_SYMBOL_NUMBER
            BY <3>1, <5>2 DEF IndexTableEntry, BlankIndex, FinalIndex, IndexEntry, Matches
          <5>3. CASE p \in DOMAIN used_indices /\ used_indices[p][2] # NO_SYMBOL_NUMBER
            <6>1. At(xt, p).input = used_indices[p][2]
              BY <3>1, <5>3 DEF IndexTableEntry, IndexEntry
            <6> QED
              BY <4>1, <5>3, <6>1 DEF Matches
          <5> QED
            BY <5>1, <5>2, <5>3
        <4>3. FindIndex(xt, a, x) = {}
          BY <3>2, <4>2
        <4> QED
          BY <2>4, <3>4, <4>3
      <3> QED
        BY <3>3, <3>4
    <2>6. ASSUME p >= Len(xt) PROVE x \notin Inputs(P)
      <3>1. x \in StateOffsets(s) => x <= seen_input_symbols - 1
        BY AtTheEnd DEF SymbolsInOrder, StateOffsets
      <3>2. a + seen_input_symbols < Len(xt) /\ seen_input_symbols \in Nat
        BY <2>1, IndexTableFacts
      <3>3. ~ (x <= seen_input_symbols - 1)
        BY <1>1, <2>1, <2>6, <3>2
      <3> QED
        BY <2>4, <3>1, <3>3
    <2> QED
      BY <2>1, <2>5, <2>6
  <1> QED
    BY <1>2, <1>3

(* All transitions of a simple state are indexed together: when the first one *)
(* has another symbol, none has x.                                            *)
LEMMA SimpleSound ==
    ASSUME WrittenInv, pc = "done", Addressable, NEW s \in States(graph), SimpleState(s),
           NEW x, x # 0, x \notin flag_symbols,
           NEW c \in FindIndex(windex_table, StateAddress(s), x),
           At(wtransition_table, c).input # x
    PROVE  x \notin Inputs(placeholders[s])
  <1> DEFINE P == placeholders[s]
             a == StateAddress(s)
  <1>1. /\ First[s] \in Nat /\ Len(P) \in Nat /\ DOMAIN P = 1 .. Len(P)
        /\ \A k \in 1 .. Len(P) : wtransition_table[First[s] + k] = StateTransitions(s)[k]
    BY FirstFacts, TransitionTableFacts, AtTheEnd
  <1>2. a = First[s] + TRANSITION_TARGET_TABLE_START - 1 /\ First[s] >= 1 /\ IndexesTransitionTable(a)
    BY AddressType, FirstFacts, AddressKind
  <1>3. c = a + 1
    BY <1>2 DEF FindIndex
  <1>4. At(wtransition_table, c) = wtransition_table[First[s] + 1]
    BY <1>1, <1>2, <1>3, AddressArithmetic DEF At
  <1>5. CASE Len(P) = 0
    BY <1>1, <1>5 DEF Inputs
  <1>6. CASE Len(P) # 0
    <2>1. 1 \in 1 .. Len(P)
      BY <1>1, <1>6
    <2>2. /\ WriteOrder(P)[1] \in DOMAIN P
          /\ StateTransitions(s)[1] = TransitionEntry(P[WriteOrder(P)[1]])
      BY <2>1, EntriesType
    <2>3. P[WriteOrder(P)[1]].input # x
      BY <1>1, <1>4, <2>1, <2>2 DEF TransitionEntry, Transition
    <2>4. SUFFICES ASSUME x \in Inputs(P) PROVE FALSE
      OBVIOUS
    <2>5. x \in StateOffsets(s)
      BY <2>4, InputOffset
    <2>6. WithSymbols(s, SymbolsUnder(x)) = DOMAIN P
      BY <2>5, UnderOffset
    <2> QED
      BY <2>2, <2>3, <2>6 DEF WithSymbols, SymbolsUnder
  <1> QED
    BY <1>5, <1>6
-----------------------------------------------------------------------------
(* The paths of the transducer, by the number of their transitions.         *)

StartPath == Path(0, 0, NoFlags, << >>, 0, {})

NextPaths(S) ==
    {q \in UNION {UNION {Extend(p, placeholders[p.s][k]) : k \in DOMAIN placeholders[p.s]} :
                    p \in S} : TRUE}

\* The paths with at most i transitions.
PathsBy[i \in 0 .. MAX_RECURSION_DEPTH - 1] ==
    IF i = 0 THEN {StartPath} ELSE PathsBy[i - 1] \cup NextPaths(PathsBy[i - 1])

LEMMA AnalysesByPaths == AllAnalyses = AnalysesOf(PathsBy[MAX_RECURSION_DEPTH - 1])
  BY DEF AllAnalyses, PathsUpTo, PathsBy, NextPaths, StartPath

(* The recursion has a solution, so PathsBy is one. *)
LEMMA PathsUnfold ==
    ASSUME MAX_RECURSION_DEPTH # 0
    PROVE  /\ PathsBy[0] = {StartPath}
           /\ \A i \in 1 .. MAX_RECURSION_DEPTH - 1 :
                PathsBy[i] = PathsBy[i - 1] \cup NextPaths(PathsBy[i - 1])
  <1> DEFINE N == MAX_RECURSION_DEPTH - 1
             G(n, g) == [i \in 0 .. n |-> IF i = 0 THEN {StartPath}
                                          ELSE g[i - 1] \cup NextPaths(g[i - 1])]
             bad == {m \in 0 .. N : ~ \E g : g = G(m, g)}
  <1>1. N \in Nat
    BY LookupAssumption
  <1>2. PathsBy = CHOOSE g : g = G(N, g)
    BY DEF PathsBy
  <1> HIDE DEF N
  <1>3. bad = {}
    <2>1. SUFFICES ASSUME bad # {} PROVE FALSE
      OBVIOUS
    <2>2. PICK m \in bad : \A y \in bad : m <= y
      <3>1. bad \subseteq Nat
        OBVIOUS
      <3> HIDE DEF bad
      <3> QED
        BY <2>1, <3>1, LeastNumber
    <2>3. m \in 0 .. N /\ ~ \E g : g = G(m, g)
      BY <2>2
    <2>4. CASE m = 0
      <3> DEFINE f == [i \in 0 .. 0 |-> {StartPath}]
      <3>1. f = G(0, f)
        <4>1. \A i \in 0 .. 0 : i = 0
          OBVIOUS
        <4> QED
          BY <4>1
      <3> QED
        BY <2>3, <2>4, <3>1
    <2>5. CASE m # 0
      <3>1. m - 1 \in 0 .. N /\ m - 1 \notin bad
        <4>1. m - 1 \in 0 .. N /\ ~ (m <= m - 1)
          BY <1>1, <2>3, <2>5
        <4> QED
          BY <2>2, <4>1
      <3>2. PICK g : g = G(m - 1, g)
        BY <3>1
      <3> DEFINE last == g[m - 1] \cup NextPaths(g[m - 1])
                 f == [i \in 0 .. m |-> IF i = m THEN last ELSE g[i]]
      <3>3. \A i \in 0 .. m : i = m \/ i \in 0 .. m - 1
        BY <2>3
      <3>4. \A i \in 0 .. m - 1 : g[i] = IF i = 0 THEN {StartPath}
                                         ELSE g[i - 1] \cup NextPaths(g[i - 1])
        <4> HIDE DEF f, last
        <4> QED
          BY <3>2
      <3>5. m \in 0 .. m /\ \A i \in 0 .. m - 1 : i # m /\ i \in 0 .. m
        BY <2>3
      <3>6. \A i \in 0 .. m : i # 0 => i - 1 \in 0 .. m - 1
        BY <2>3
      <3>7. f[m] = last /\ \A i \in 0 .. m - 1 : f[i] = g[i]
        <4> HIDE DEF last
        <4> QED
          BY <3>5
      <3>8. f = [i \in 0 .. m |-> f[i]]
        <4> HIDE DEF last
        <4> QED
          OBVIOUS
      <3> HIDE DEF f
      <3>9. \A i \in 0 .. m : f[i] = IF i = 0 THEN {StartPath} ELSE f[i - 1] \cup NextPaths(f[i - 1])
        <4> SUFFICES ASSUME NEW i \in 0 .. m
                     PROVE  f[i] = IF i = 0 THEN {StartPath} ELSE f[i - 1] \cup NextPaths(f[i - 1])
          OBVIOUS
        <4>1. CASE i = m
          <5>1. i # 0 /\ f[i - 1] = g[m - 1]
            BY <2>5, <3>5, <3>6, <3>7, <4>1
          <5> QED
            BY <3>7, <4>1, <5>1
        <4>2. CASE i # m
          <5>1. i \in 0 .. m - 1 /\ f[i] = g[i]
            BY <3>3, <3>7, <4>2
          <5>2. i # 0 => f[i - 1] = g[i - 1]
            BY <3>6, <3>7
          <5> QED
            BY <3>4, <5>1, <5>2
        <4> QED
          BY <4>1, <4>2
      <3>10. f = G(m, f)
        BY <3>8, <3>9
      <3> QED
        BY <2>3, <3>10
    <2> QED
      BY <2>4, <2>5
  <1>4. PathsBy = G(N, PathsBy)
    <2>1. N \in 0 .. N
      BY <1>1
    <2>2. \E g : g = G(N, g)
      BY <1>3, <2>1
    <2> HIDE DEF G
    <2> QED
      BY <1>2, <2>2
  <1>5. \A i \in 0 .. N : PathsBy[i] = IF i = 0 THEN {StartPath}
                                       ELSE PathsBy[i - 1] \cup NextPaths(PathsBy[i - 1])
    BY <1>4
  <1>6. 0 \in 0 .. N /\ \A i \in 1 .. N : i \in 0 .. N /\ i # 0
    BY <1>1
  <1> QED
    BY <1>5, <1>6 DEF N

(* One transition more. *)
LEMMA PathExtended ==
    ASSUME NEW i \in Nat, i + 1 < MAX_RECURSION_DEPTH, NEW p \in PathsBy[i],
           NEW k \in DOMAIN placeholders[p.s], NEW q \in Extend(p, placeholders[p.s][k])
    PROVE  q \in PathsBy[i + 1]
  <1>1. i + 1 \in 1 .. MAX_RECURSION_DEPTH - 1 /\ (i + 1) - 1 = i /\ MAX_RECURSION_DEPTH # 0
    BY LookupAssumption
  <1>2. PathsBy[i + 1] = PathsBy[i] \cup NextPaths(PathsBy[i])
    BY <1>1, PathsUnfold
  <1> DEFINE S == PathsBy[i]
             following(r) == UNION {Extend(r, placeholders[r.s][j]) : j \in DOMAIN placeholders[r.s]}
  <1>3. q \in following(p)
    OBVIOUS
  <1> HIDE DEF following
  <1>4. q \in UNION {following(r) : r \in S}
    BY <1>3
  <1>5. q \in NextPaths(S)
    BY <1>4 DEF NextPaths, following
  <1> QED
    BY <1>2, <1>5

(* A path within a smaller depth is one within the greater depth. *)
LEMMA PathsGrow ==
    ASSUME MAX_RECURSION_DEPTH # 0, NEW i \in 0 .. MAX_RECURSION_DEPTH - 1
    PROVE  PathsBy[i] \subseteq PathsBy[MAX_RECURSION_DEPTH - 1]
  <1> DEFINE N == MAX_RECURSION_DEPTH - 1
             bad == {m \in 0 .. N : ~ (PathsBy[m] \subseteq PathsBy[N])}
  <1>1. N \in Nat
    BY LookupAssumption
  <1>2. \A m \in 1 .. N : PathsBy[m - 1] \subseteq PathsBy[m]
    BY PathsUnfold
  <1> HIDE DEF N
  <1>3. bad = {}
    <2>1. SUFFICES ASSUME bad # {} PROVE FALSE
      OBVIOUS
    <2>2. PICK m \in bad : \A y \in bad : m >= y
      <3>1. bad \subseteq Nat /\ \A y \in bad : y <= N
        OBVIOUS
      <3> HIDE DEF bad
      <3> QED
        BY <1>1, <2>1, <3>1, GreatestNumber
    <2>3. m \in 0 .. N /\ ~ (PathsBy[m] \subseteq PathsBy[N])
      BY <2>2
    <2>4. m # N
      BY <2>3
    <2>5. m + 1 \in 1 .. N /\ m + 1 \in 0 .. N /\ ~ (m >= m + 1) /\ (m + 1) - 1 = m
      BY <1>1, <2>3, <2>4
    <2>6. PathsBy[m] \subseteq PathsBy[m + 1] /\ PathsBy[m + 1] \subseteq PathsBy[N]
      <3>1. m + 1 \notin bad
        BY <2>2, <2>5
      <3> QED
        BY <1>2, <2>5, <3>1
    <2> QED
      BY <2>3, <2>6
  <1> QED
    BY <1>3 DEF N
-----------------------------------------------------------------------------
(* The stack of frames and the path that it follows.                        *)

Reading == {"find", "transitions", "after transition"}

\* The symbols still to be tried are those of the symbol that was read, or the
\* default symbol when the state has none of those.
SymbolsRead(f, p) ==
    LET wanted == ToSet(SymbolsFor(input_tape[p.pos + 1]))
    IN  /\ p.pos < Len(input_tape)
        /\ \A y \in ToSet(f.symbols) : y \in wanted \/ (f.defaulted /\ y = SpecialSymbol(DefaultName))
        /\ f.defaulted => Inputs(placeholders[p.s]) \cap wanted = {}

\* The k-th frame is at the end of the path p.
FrameSound(f, k, p) ==
    /\ f.at = StateAddress(p.s)
    /\ f.pos = IF f.stage \in Reading THEN p.pos + 1 ELSE p.pos
    /\ f.out = k - 1
    /\ f.stage \in {"epsilons", "transitions"} \cup Calling => InBlock(p.s, f.cursor)
    /\ f.stage \in Reading => SymbolsRead(f, p)
    /\ f.stage \notin Reading => ~ f.defaulted
    /\ f.stage = "after flag" => f.flags = p.flags

\* p has k - 1 transitions; at most the depth of the recursion when a call has
\* passed the check at its beginning.
PathSound(k, p) ==
    /\ p.s \in States(graph) /\ p.pos \in Nat /\ p.weight \in Nat
    /\ p.out \in Seq(0 .. NO_SYMBOL_NUMBER - 1) /\ Len(p.out) = k - 1
    /\ k <= MAX_RECURSION_DEPTH => p \in PathsBy[k - 1]

\* The output tape begins with the output of p.
OutputKept(tape, p) ==
    Len(tape) >= Len(p.out) /\ \A j \in 1 .. Len(p.out) : tape[j] = p.out[j]

Level(f, k, p, tape) == PathSound(k, p) /\ FrameSound(f, k, p) /\ OutputKept(tape, p)

\* The path q goes on from p by the transition that f follows.
GoesOnBy(f, p, q) ==
    /\ q.weight = p.weight + At(wtransition_table, f.cursor).weight
    /\ f.stage # "after flag" => q.flags = p.flags

\* As long as nothing was found, the symbols that are no longer to be tried are
\* not among the inputs of the state.
Untried(f, p, found) ==
    f.stage \in {"find", "transitions"} /\ ~ found /\ ~ f.defaulted =>
      /\ \A y \in ToSet(SymbolsFor(input_tape[p.pos + 1])) :
           y \in ToSet(f.symbols) \/ y \notin Inputs(placeholders[p.s])
      /\ f.stage = "transitions" => f.cursor \in FindIndex(windex_table, f.at, Head(f.symbols))

\* The members of the object at the innermost call.
TopSound(f, p, weight, flags, found) ==
    /\ weight = p.weight + Contribution(wtransition_table, f)
    /\ f.stage # "after flag" => flags = p.flags
    /\ Untried(f, p, found)

Sound(st, ps, tape, weight, flags, found) ==
    /\ \A k \in 1 .. Len(st) : Level(st[k], k, ps[k], tape)
    /\ \A k \in 1 .. Len(st) - 1 : GoesOnBy(st[k], ps[k], ps[k + 1])
    /\ TopSound(st[Len(st)], ps[Len(st)], weight, flags, found)

OnPath(st, tape, weight, flags, found) ==
    \E ps : Sound(st, ps, tape, weight, flags, found)

SoundInv ==
    /\ pc \notin {"done", "undefined"} => calls = 0 /\ output_tape = << >>
    /\ calls \in Nat
    /\ pc = "done" /\ Addressable =>
         /\ output_tape \in Seq(Nat)
         /\ calls > 0 => lookup_paths \subseteq AllAnalyses
         /\ stack # << >> =>
              /\ calls > 0 /\ input_tape \in InputTapes
              /\ OnPath(stack, output_tape, current_weight, flag_state, found_transition)

\* What these notions are about does not change while a lookup runs.
SameObject ==
    UNCHANGED << graph, placeholders, symbol_table, flag_symbols, start_index,
                 windex_table, wtransition_table, seen_input_symbols, input_tape >>

LEMMA SamePaths ==
    ASSUME SameObject
    PROVE  (PathsBy' = PathsBy) /\ (AllAnalyses' = AllAnalyses)
  <1> USE DEF SameObject
  <1>1. \A name : SpecialSymbol(name)' = SpecialSymbol(name)
    BY DEF SpecialSymbol
  <1>2. \A x : SymbolsFor(x)' = SymbolsFor(x)
    BY <1>1 DEF SymbolsFor, orig_symbol_count
  <1>3. \A output, pos : OutputFor(output, pos)' = OutputFor(output, pos)
    BY <1>1 DEF OutputFor, Wildcards
  <1>4. FlagSymbols' = FlagSymbols /\ \A x : OperationOf(x)' = OperationOf(x)
    BY DEF FlagSymbols, OperationOf
  <1>5. \A s, arc, x : MatchesInput(s, arc, x)' <=> MatchesInput(s, arc, x)
    BY <1>1, <1>2 DEF MatchesInput
  <1>6. \A p, arc : Extend(p, arc)' = Extend(p, arc)
    <2> SUFFICES ASSUME NEW p, NEW arc PROVE Extend(p, arc)' = Extend(p, arc)
      OBVIOUS
    <2> DEFINE x == input_tape[p.pos + 1]
               A == {y \in {arc} : y.input = 0 \/ Allowed(p.flags, OperationOf(arc.input))}
               B == {y \in {arc} : p.pos < Len(input_tape) /\ MatchesInput(p.s, y, x)}
    <2>1. A' = A
      BY <1>4
    <2>2. B' = B
      BY <1>5
    <2>3. OutputFor(arc.output, p.pos + 1)' = OutputFor(arc.output, p.pos + 1)
      BY <1>3
    <2>4. OperationOf(arc.input)' = OperationOf(arc.input) /\ FlagSymbols' = FlagSymbols
      BY <1>4
    <2> QED
      BY <2>1, <2>2, <2>3, <2>4 DEF Extend
  <1>7. \A S : NextPaths(S)' = NextPaths(S)
    BY <1>6 DEF NextPaths
  <1>8. PathsBy' = PathsBy
    BY <1>7 DEF PathsBy, StartPath
  <1>9. \A S : AnalysesOf(S)' = AnalysesOf(S)
    BY DEF AnalysesOf
  <1>10. AllAnalyses' = AllAnalyses
    BY <1>8, <1>9 DEF AllAnalyses, PathsUpTo, PathsBy, NextPaths, StartPath
  <1> QED
    BY <1>8, <1>10

LEMMA SameSound ==
    ASSUME SameObject
    PROVE  \A st, tape, weight, flags, found :
             OnPath(st, tape, weight, flags, found)' <=> OnPath(st, tape, weight, flags, found)
  <1> USE DEF SameObject
  <1>1. PathsBy' = PathsBy
    BY SamePaths
  <1>2. \A name : SpecialSymbol(name)' = SpecialSymbol(name)
    BY DEF SpecialSymbol
  <1>3. \A x : SymbolsFor(x)' = SymbolsFor(x)
    BY <1>2 DEF SymbolsFor, orig_symbol_count
  <1>4. First' = First
    BY DEF First
  <1>5. \A s : StateAddress(s)' = StateAddress(s)
    BY DEF StateAddress, SimpleState
  <1>6. \A s, c : InBlock(s, c)' <=> InBlock(s, c)
    BY <1>4 DEF InBlock
  <1>7. \A f, p : SymbolsRead(f, p)' <=> SymbolsRead(f, p)
    BY <1>2, <1>3 DEF SymbolsRead
  <1>8. \A f, k, p : FrameSound(f, k, p)' <=> FrameSound(f, k, p)
    BY <1>5, <1>6, <1>7 DEF FrameSound
  <1>9. \A k, p : PathSound(k, p)' <=> PathSound(k, p)
    BY <1>1 DEF PathSound
  <1>10. \A f, k, p, tape : Level(f, k, p, tape)' <=> Level(f, k, p, tape)
    BY <1>8, <1>9 DEF Level
  <1>11. \A f, p, q : GoesOnBy(f, p, q)' <=> GoesOnBy(f, p, q)
    BY DEF GoesOnBy
  <1>12. \A f, p, weight, flags, found :
           TopSound(f, p, weight, flags, found)' <=> TopSound(f, p, weight, flags, found)
    <2>1. \A f, p, found : Untried(f, p, found)' <=> Untried(f, p, found)
      BY <1>3 DEF Untried
    <2>2. \A f : Contribution(wtransition_table, f)' = Contribution(wtransition_table, f)
      BY DEF Contribution
    <2> QED
      BY <2>1, <2>2 DEF TopSound
  <1>13. \A st, ps, tape, weight, flags, found :
           Sound(st, ps, tape, weight, flags, found)' <=> Sound(st, ps, tape, weight, flags, found)
    BY <1>10, <1>11, <1>12 DEF Sound
  <1> QED
    BY <1>13 DEF OnPath

-----------------------------------------------------------------------------
(* The three shapes of the steps, on the path.                              *)

\* The tape is changed from position n on only.
Kept(tape, new, n) ==
    Len(tape) <= Len(new) /\ \A j \in 1 .. n - 1 : j <= Len(tape) => new[j] = tape[j]

LEMMA LevelKept ==
    ASSUME NEW n \in Nat, NEW k \in 1 .. n, NEW f, NEW p,
           NEW tape \in Seq(Nat), NEW new \in Seq(Nat),
           Level(f, k, p, tape), Kept(tape, new, n)
    PROVE  Level(f, k, p, new)
  <1>1. Len(p.out) = k - 1 /\ Len(tape) \in Nat /\ Len(new) \in Nat
    BY DEF Level, PathSound
  <1>2. OutputKept(tape, p)
    BY DEF Level
  <1>3. Len(new) >= Len(p.out)
    BY <1>1, <1>2 DEF OutputKept, Kept
  <1>4. ASSUME NEW j \in 1 .. Len(p.out) PROVE new[j] = p.out[j]
    <2>1. j \in 1 .. n - 1 /\ j <= Len(tape)
      BY <1>1, <1>2 DEF OutputKept
    <2> QED
      BY <1>2, <2>1 DEF OutputKept, Kept
  <1>5. OutputKept(new, p)
    BY <1>3, <1>4 DEF OutputKept
  <1> QED
    BY <1>5 DEF Level

LEMMA SoundGoesOn ==
    ASSUME NEW st, IsStack(st), st # << >>, NEW ps, NEW tape \in Seq(Nat), NEW tape2 \in Seq(Nat),
           NEW w, NEW fl, NEW fo, NEW w2, NEW fl2, NEW fo2, NEW f, NEW new,
           Sound(st, ps, tape, w, fl, fo), TopIs(st, f, new), Kept(tape, tape2, Len(st)),
           FrameSound(f, Len(st), ps[Len(st)]), TopSound(f, ps[Len(st)], w2, fl2, fo2)
    PROVE  OnPath(new, tape2, w2, fl2, fo2)
  <1> DEFINE n == Len(st)
  <1>1. n \in Nat \ {0}
    BY StackTop
  <1>2. Len(new) = n /\ new[n] = f /\ \A k \in 1 .. n - 1 : new[k] = st[k]
    BY DEF TopIs
  <1>3. \A k \in 1 .. n : Level(st[k], k, ps[k], tape)
    BY DEF Sound
  <1>4. \A k \in 1 .. n : Level(st[k], k, ps[k], tape2)
    BY <1>1, <1>3, LevelKept
  <1>5. \A k \in 1 .. n - 1 : GoesOnBy(st[k], ps[k], ps[k + 1])
    BY DEF Sound
  <1>6. FrameSound(f, n, ps[n]) /\ TopSound(f, ps[n], w2, fl2, fo2)
    OBVIOUS
  <1> HIDE DEF n
  <1>7. n \in 1 .. n /\ \A k \in 1 .. n : k = n \/ k \in 1 .. n - 1
    BY <1>1
  <1>8. Level(f, n, ps[n], tape2)
    BY <1>4, <1>6, <1>7 DEF Level
  <1>9. \A k \in 1 .. n : Level(new[k], k, ps[k], tape2)
    BY <1>2, <1>4, <1>7, <1>8
  <1>10. \A k \in 1 .. n - 1 : GoesOnBy(new[k], ps[k], ps[k + 1])
    BY <1>2, <1>5
  <1>11. Sound(new, ps, tape2, w2, fl2, fo2)
    BY <1>2, <1>6, <1>9, <1>10 DEF Sound
  <1> QED
    BY <1>11 DEF OnPath

LEMMA SoundCall ==
    ASSUME NEW st, IsStack(st), st # << >>, NEW ps, NEW tape \in Seq(Nat), NEW tape2 \in Seq(Nat),
           NEW w, NEW fl, NEW fo, NEW w2, NEW fl2, NEW fo2, NEW f, NEW g, NEW q, NEW new,
           Sound(st, ps, tape, w, fl, fo), Kept(tape, tape2, Len(st)),
           Len(new) = Len(st) + 1, new[Len(st)] = f, new[Len(st) + 1] = g,
           \A k \in 1 .. Len(st) - 1 : new[k] = st[k],
           FrameSound(f, Len(st), ps[Len(st)]), GoesOnBy(f, ps[Len(st)], q),
           Level(g, Len(st) + 1, q, tape2), TopSound(g, q, w2, fl2, fo2)
    PROVE  OnPath(new, tape2, w2, fl2, fo2)
  <1> DEFINE n == Len(st)
             qs == [k \in 1 .. n + 1 |-> IF k = n + 1 THEN q ELSE ps[k]]
  <1>1. n \in Nat \ {0}
    BY StackTop
  <1>2. Len(new) = n + 1 /\ new[n] = f /\ new[n + 1] = g /\ \A k \in 1 .. n - 1 : new[k] = st[k]
    OBVIOUS
  <1>3. \A k \in 1 .. n : Level(st[k], k, ps[k], tape)
    BY DEF Sound
  <1>4. \A k \in 1 .. n : Level(st[k], k, ps[k], tape2)
    BY <1>1, <1>3, LevelKept
  <1>5. \A k \in 1 .. n - 1 : GoesOnBy(st[k], ps[k], ps[k + 1])
    BY DEF Sound
  <1>6. /\ FrameSound(f, n, ps[n]) /\ GoesOnBy(f, ps[n], q)
        /\ Level(g, n + 1, q, tape2) /\ TopSound(g, q, w2, fl2, fo2)
    OBVIOUS
  <1> HIDE DEF n
  <1>7. /\ n \in 1 .. n /\ \A k \in 1 .. n : k = n \/ k \in 1 .. n - 1
        /\ \A k \in 1 .. n + 1 : k = n + 1 \/ k \in 1 .. n
        /\ \A k \in 1 .. n : k # n + 1 /\ k \in 1 .. n + 1
        /\ n + 1 \in 1 .. n + 1 /\ (n + 1) - 1 = n
        /\ \A k \in 1 .. n - 1 : k \in 1 .. n /\ k + 1 \in 1 .. n
    BY <1>1
  <1>8. qs[n + 1] = q /\ \A k \in 1 .. n : qs[k] = ps[k]
    BY <1>7
  <1> HIDE DEF qs
  <1>9. Level(f, n, ps[n], tape2)
    BY <1>4, <1>6, <1>7 DEF Level
  <1>10. \A k \in 1 .. n + 1 : Level(new[k], k, qs[k], tape2)
    <2>1. \A k \in 1 .. n : Level(new[k], k, qs[k], tape2)
      BY <1>2, <1>4, <1>7, <1>8, <1>9
    <2> QED
      BY <1>2, <1>6, <1>7, <1>8, <2>1
  <1>11. \A k \in 1 .. n : GoesOnBy(new[k], qs[k], qs[k + 1])
    BY <1>2, <1>5, <1>6, <1>7, <1>8
  <1>12. Sound(new, qs, tape2, w2, fl2, fo2)
    BY <1>2, <1>6, <1>7, <1>8, <1>10, <1>11 DEF Sound
  <1> QED
    BY <1>12 DEF OnPath

LEMMA SoundReturn ==
    ASSUME NEW st, IsStack(st), st # << >>, NEW ps, NEW tape \in Seq(Nat), NEW tape2 \in Seq(Nat),
           NEW w, NEW fl, NEW fo, NEW fo2, NEW new,
           Sound(st, ps, tape, w, fl, fo), Kept(tape, tape2, Len(st)),
           Len(new) = Len(st) - 1, \A k \in 1 .. Len(st) - 1 : new[k] = st[k],
           Len(st) # 1, st[Len(st)].stage \notin Calling, st[Len(st) - 1].stage \in Calling,
           ps[Len(st)].weight \in Int
    PROVE  OnPath(new, tape2, w, fl, fo2)
  <1> DEFINE n == Len(st)
             f == st[n - 1]
  <1>1. n \in Nat \ {0, 1}
    BY StackTop
  <1>2. Len(new) = n - 1 /\ \A k \in 1 .. n - 1 : new[k] = st[k]
    OBVIOUS
  <1>3. \A k \in 1 .. n : Level(st[k], k, ps[k], tape)
    BY DEF Sound
  <1>4. \A k \in 1 .. n : Level(st[k], k, ps[k], tape2)
    BY <1>1, <1>3, LevelKept
  <1>5. \A k \in 1 .. n - 1 : GoesOnBy(st[k], ps[k], ps[k + 1])
    BY DEF Sound
  <1>6. TopSound(st[n], ps[n], w, fl, fo) /\ st[n].stage \notin Calling /\ f.stage \in Calling
        /\ ps[n].weight \in Int
    BY DEF Sound
  <1> HIDE DEF n
  <1>7. /\ n - 1 \in 1 .. n - 1 /\ (n - 1) + 1 = n
        /\ \A k \in 1 .. n - 1 : k \in 1 .. n
        /\ \A k \in 1 .. (n - 1) - 1 : k \in 1 .. n - 1
    BY <1>1
  <1>8. GoesOnBy(f, ps[n - 1], ps[n])
    BY <1>5, <1>7
  <1>9. w = ps[n].weight /\ fl = ps[n].flags
    <2>1. "after flag" \in Calling
      BY DEF Calling
    <2>2. Contribution(wtransition_table, st[n]) = 0
      BY <1>6 DEF Contribution
    <2>3. w = ps[n].weight + 0 /\ fl = ps[n].flags
      BY <1>6, <2>1, <2>2 DEF TopSound
    <2> QED
      BY <1>6, <2>3
  <1>10. w = ps[n - 1].weight + Contribution(wtransition_table, f)
    BY <1>6, <1>8, <1>9 DEF GoesOnBy, Contribution
  <1>11. f.stage # "after flag" => fl = ps[n - 1].flags
    BY <1>8, <1>9 DEF GoesOnBy
  <1>12. Untried(f, ps[n - 1], fo2)
    BY <1>6 DEF Untried, Calling
  <1>13. TopSound(f, ps[n - 1], w, fl, fo2)
    BY <1>10, <1>11, <1>12 DEF TopSound
  <1>14. Sound(new, ps, tape2, w, fl, fo2)
    <2>1. \A k \in 1 .. n - 1 : Level(new[k], k, ps[k], tape2)
      BY <1>2, <1>4, <1>7
    <2>2. \A k \in 1 .. (n - 1) - 1 : GoesOnBy(new[k], ps[k], ps[k + 1])
      BY <1>2, <1>5, <1>7
    <2>3. new[n - 1] = f
      BY <1>2, <1>7
    <2> QED
      BY <1>2, <1>13, <2>1, <2>2, <2>3 DEF Sound
  <1> QED
    BY <1>14 DEF OnPath

-----------------------------------------------------------------------------
(* The output tape and the symbol numbers on it.                            *)

LEMMA WriteFacts ==
    ASSUME NEW tape \in Seq(Nat), NEW i \in Nat, NEW x \in Nat, NEW new, new = Write(tape, i, x)
    PROVE  /\ new \in Seq(Nat) /\ Kept(tape, new, i + 1)
           /\ Len(new) >= i + 1 /\ new[i + 1] = x
  <1> DEFINE l == Len(tape)
             m == Max({l, i + 1})
             entry(k) == IF k = i + 1 THEN x ELSE IF k <= l THEN tape[k] ELSE NO_SYMBOL_NUMBER
  <1>1. l \in Nat /\ NO_SYMBOL_NUMBER \in Nat /\ \A k \in 1 .. l : tape[k] \in Nat
    BY ConstantsAssumption
  <1> HIDE DEF l
  <1>2. m \in {l, i + 1} /\ m >= l /\ m >= i + 1
    <2>1. \E y \in {l, i + 1} : \A z \in {l, i + 1} : y >= z
      <3>1. CASE l >= i + 1
        BY <1>1, <3>1
      <3>2. CASE i + 1 >= l
        BY <1>1, <3>2
      <3> QED
        BY <1>1, <3>1, <3>2
    <2>2. m \in {l, i + 1} /\ \A z \in {l, i + 1} : m >= z
      BY <2>1 DEF Max
    <2> QED
      BY <2>2
  <1>3. new = [k \in 1 .. m |-> entry(k)]
    BY DEF Write, l
  <1> HIDE DEF m
  <1>4. m \in Nat
    BY <1>1, <1>2
  <1>5. \A k \in 1 .. m : entry(k) \in Nat
    BY <1>1
  <1> HIDE DEF entry
  <1>6. new \in Seq(Nat) /\ Len(new) = m /\ \A k \in 1 .. m : new[k] = entry(k)
    BY <1>3, <1>4, <1>5
  <1>7. i + 1 \in 1 .. m /\ \A j \in 1 .. (i + 1) - 1 : j <= l => j \in 1 .. m /\ j # i + 1
    BY <1>1, <1>2, <1>4
  <1>8. Kept(tape, new, i + 1)
    BY <1>2, <1>6, <1>7 DEF Kept, entry, l
  <1>9. new[i + 1] = x
    BY <1>6, <1>7 DEF entry
  <1> QED
    BY <1>2, <1>6, <1>8, <1>9

\* note_analysis reads the output that the path has written.
LEMMA AnalysisFacts ==
    ASSUME NEW p, p.out \in Seq(0 .. NO_SYMBOL_NUMBER - 1), NEW tape \in Seq(Nat), NEW w,
           OutputKept(tape, p)
    PROVE  Analysis(Write(tape, Len(p.out), NO_SYMBOL_NUMBER), w) = << p.out, w >>
  <1> DEFINE N == NO_SYMBOL_NUMBER
             out == p.out
             n == Len(out)
             new == Write(tape, n, N)
             K == {k \in 1 .. Len(new) : new[k] = N}
  <1>1. n \in Nat /\ N \in Nat /\ \A j \in 1 .. n : out[j] \in 0 .. N - 1
    BY ConstantsAssumption
  <1>2. /\ new \in Seq(Nat) /\ Kept(tape, new, n + 1) /\ Len(new) >= n + 1 /\ new[n + 1] = N
    BY <1>1, WriteFacts
  <1>3. Len(tape) >= n /\ \A j \in 1 .. n : tape[j] = out[j]
    BY DEF OutputKept
  <1>4. Len(tape) \in Nat
    OBVIOUS
  <1> HIDE DEF out, n, new
  <1>5. \A j \in 1 .. n : new[j] = out[j]
    <2>1. \A j \in 1 .. n : j \in 1 .. (n + 1) - 1 /\ j <= Len(tape)
      BY <1>1, <1>3, <1>4
    <2> QED
      BY <1>2, <1>3, <2>1 DEF Kept
  <1>6. Len(new) \in Nat
    BY <1>2
  <1>7. n + 1 \in K /\ \A k \in K : n + 1 <= k
    <2>1. n + 1 \in K
      BY <1>1, <1>2, <1>6
    <2>2. ASSUME NEW k \in K PROVE n + 1 <= k
      <3>1. k \in Nat /\ (n + 1 <= k \/ k \in 1 .. n)
        BY <1>1, <1>6
      <3>2. k \notin 1 .. n
        <4>1. k \in 1 .. n => new[k] \in 0 .. N - 1
          BY <1>1, <1>5
        <4>2. new[k] = N
          OBVIOUS
        <4> QED
          BY <1>1, <4>1, <4>2
      <3> QED
        BY <3>1, <3>2
    <2> QED
      BY <2>1, <2>2
  <1>8. K \subseteq Nat
    BY <1>6
  <1>9. Min(K) = n + 1
    <2> HIDE DEF K
    <2>1. Min(K) \in K /\ \A k \in K : Min(K) <= k
      BY <1>7 DEF Min
    <2>2. Min(K) <= n + 1 /\ n + 1 <= Min(K) /\ Min(K) \in Nat
      BY <1>7, <1>8, <2>1
    <2> QED
      BY <1>1, <2>2
  <1>10. SubSeq(new, 1, n) = out
    <2>1. SubSeq(new, 1, n) = [k \in 1 .. n |-> new[k]]
      BY <1>1, <1>2
    <2>2. out = [k \in 1 .. n |-> out[k]]
      BY DEF n, out
    <2> QED
      BY <1>5, <2>1, <2>2
  <1>11. Min({k \in 1 .. Len(new) : new[k] = N}) - 1 = n
    BY <1>1, <1>9
  <1>12. Analysis(new, w) = << out, w >>
    BY <1>10, <1>11 DEF Analysis
  <1> QED
    BY <1>12 DEF out, n, new

LEMMA ArcNumbers ==
    ASSUME WrittenInv, pc = "done", NEW s \in States(graph), NEW k \in DOMAIN placeholders[s]
    PROVE  LET arc == placeholders[s][k]
           IN  /\ arc.input \in 0 .. NO_SYMBOL_NUMBER - 1
               /\ arc.output \in 0 .. NO_SYMBOL_NUMBER - 1
               /\ arc.target \in States(graph) /\ arc.weight \in Nat
  <1> DEFINE arc == placeholders[s][k]
  <1>1. arc \in NumberedArc /\ arc.target \in States(graph) /\ arc.input < NO_SYMBOL_NUMBER
    BY AtTheEnd
  <1>2. /\ Len(symbol_table) \in Nat /\ Len(symbol_table) < NO_SYMBOL_NUMBER
        /\ NO_SYMBOL_NUMBER \in Nat
    BY AlphabetSize
  <1>3. \E x : arc.output = SymbolNumberOf(symbol_table, x)
    <2>1. placeholders = NumberedArcs(graph, symbol_table)
      BY DEF WrittenInv, NumberingKept
    <2>2. placeholders[s] = [j \in 1 .. Len(graph.arcs[s]) |->
                              [input  |-> SymbolNumberOf(symbol_table, graph.arcs[s][j].in),
                               output |-> SymbolNumberOf(symbol_table, graph.arcs[s][j].out),
                               target |-> graph.arcs[s][j].target,
                               weight |-> graph.arcs[s][j].weight]]
      BY <2>1 DEF NumberedArcs
    <2> QED
      BY <2>2
  <1>4. \A x : SymbolNumberOf(symbol_table, x) \in 0 .. NO_SYMBOL_NUMBER - 1
    <2> SUFFICES ASSUME NEW x PROVE SymbolNumberOf(symbol_table, x) \in 0 .. NO_SYMBOL_NUMBER - 1
      OBVIOUS
    <2>1. CASE \E i \in 1 .. Len(symbol_table) : symbol_table[i] = x
      <3>1. PICK i \in 1 .. Len(symbol_table) : SymbolNumberOf(symbol_table, x) = i - 1
        BY <2>1 DEF SymbolNumberOf
      <3> QED
        BY <1>2, <3>1
    <2>2. CASE ~ \E i \in 1 .. Len(symbol_table) : symbol_table[i] = x
      BY <1>2, <2>2 DEF SymbolNumberOf
    <2> QED
      BY <2>1, <2>2
  <1> HIDE DEF arc
  <1>5. arc.input \in 0 .. NO_SYMBOL_NUMBER - 1 /\ arc.weight \in Nat
    BY <1>1, <1>2 DEF NumberedArc
  <1> QED
    BY <1>1, <1>3, <1>4, <1>5 DEF arc

LEMMA TapeSymbol ==
    ASSUME WrittenInv, pc = "done", input_tape \in InputTapes, NEW j \in 1 .. Len(input_tape)
    PROVE  input_tape[j] \in Known /\ input_tape[j] \in 0 .. NO_SYMBOL_NUMBER - 1
  <1>1. input_tape[j] \in Known
    <2>1. input_tape \in Seq(Known)
      BY KnownTape
    <2> QED
      BY <2>1
  <1>2. /\ Len(symbol_table) \in Nat /\ Len(symbol_table) < NO_SYMBOL_NUMBER
        /\ seen_input_symbols \in 1 .. Len(symbol_table) /\ NO_SYMBOL_NUMBER \in Nat
    BY AlphabetSize
  <1>3. Known \subseteq 0 .. NO_SYMBOL_NUMBER - 1
    BY <1>2 DEF Known, orig_symbol_count
  <1> QED
    BY <1>1, <1>3

LEMMA OutputNumber ==
    ASSUME WrittenInv, pc = "done", input_tape \in InputTapes, NEW j \in 1 .. Len(input_tape),
           NEW x \in 0 .. NO_SYMBOL_NUMBER - 1
    PROVE  OutputFor(x, j) \in 0 .. NO_SYMBOL_NUMBER - 1
  BY TapeSymbol DEF OutputFor

-----------------------------------------------------------------------------
(* Steps within one call.                                                   *)

\* What is known of the state when a step is taken.
InLookup ==
    /\ WrittenInv /\ Readable /\ CallsInv
    /\ pc = "done" /\ Addressable
    /\ stack # << >> /\ Len(stack) \in Nat \ {0} /\ Top = stack[Len(stack)]
    /\ IsFrame(Top) /\ FrameInv(Top)
    /\ input_tape \in InputTapes
    /\ output_tape \in Seq(Nat)

\* The innermost call is at the end of the path p.
AtPath(p) ==
    /\ Level(Top, Len(stack), p, output_tape)
    /\ TopSound(Top, p, current_weight, flag_state, found_transition)

TapeKept == output_tape' \in Seq(Nat) /\ Kept(output_tape, output_tape', Len(stack))

\* The step leaves the innermost call at the end of p.
StaysAt(p) ==
    /\ TapeKept
    /\ \E f : /\ SetTop(f) /\ FrameSound(f, Len(stack), p)
              /\ TopSound(f, p, current_weight', flag_state', found_transition')

HasFields(f, at, pos, out, stage, cursor, symbols, defaulted, flags) ==
    /\ f.at = at /\ f.pos = pos /\ f.out = out /\ f.stage = stage /\ f.cursor = cursor
    /\ f.symbols = symbols /\ f.defaulted = defaulted /\ f.flags = flags

LEMMA FrameHasFields ==
    ASSUME NEW f, NEW a, NEW p, NEW o, NEW s, NEW c, NEW y, NEW d, NEW g,
           Updated(f, a, p, o, s, c, y, d, g)
    PROVE  HasFields(f, a, p, o, s, c, y, d, g)
  BY DEF HasFields, Updated, FrameOf

LEMMA UpdatedFields ==
    ASSUME NEW f, IsFrame(f), NEW s, NEW c, NEW p, NEW y, NEW d, NEW g
    PROVE  /\ HasFields([f EXCEPT !.stage = s],
                        f.at, f.pos, f.out, s, f.cursor, f.symbols, f.defaulted, f.flags)
           /\ HasFields([f EXCEPT !.stage = s, !.cursor = c],
                        f.at, f.pos, f.out, s, c, f.symbols, f.defaulted, f.flags)
           /\ HasFields([f EXCEPT !.stage = s, !.flags = g],
                        f.at, f.pos, f.out, s, f.cursor, f.symbols, f.defaulted, g)
           /\ HasFields([f EXCEPT !.cursor = c],
                        f.at, f.pos, f.out, f.stage, c, f.symbols, f.defaulted, f.flags)
           /\ HasFields([f EXCEPT !.stage = s, !.pos = p, !.symbols = y],
                        f.at, p, f.out, s, f.cursor, y, f.defaulted, f.flags)
           /\ HasFields([f EXCEPT !.symbols = y],
                        f.at, f.pos, f.out, f.stage, f.cursor, y, f.defaulted, f.flags)
           /\ HasFields([f EXCEPT !.symbols = y, !.defaulted = d],
                        f.at, f.pos, f.out, f.stage, f.cursor, y, d, f.flags)
           /\ HasFields([f EXCEPT !.stage = s, !.symbols = y],
                        f.at, f.pos, f.out, s, f.cursor, y, f.defaulted, f.flags)
  <1>1. \A h, a1, q1, o1, t1, e1, z1, b1, h1 :
          Updated(h, a1, q1, o1, t1, e1, z1, b1, h1) => HasFields(h, a1, q1, o1, t1, e1, z1, b1, h1)
    BY FrameHasFields
  <1>2. Changed(f, s, c, p, y, d, g)
    BY FrameChanges
  <1> QED
    BY <1>1, <1>2 DEF Changed

LEMMA TapeUnchanged ==
    ASSUME InLookup, output_tape' = output_tape
    PROVE  TapeKept
  BY DEF InLookup, TapeKept, Kept

LEMMA SamePathMembers ==
    ASSUME NEW p, InLookup, AtPath(p), Top.stage \notin Calling
    PROVE  current_weight = p.weight /\ flag_state = p.flags
  <1>1. Contribution(wtransition_table, Top) = 0 /\ Top.stage # "after flag"
    BY DEF Contribution, Calling
  <1>2. p.weight \in Nat
    BY DEF AtPath, Level, PathSound
  <1>3. current_weight = p.weight + 0 /\ flag_state = p.flags
    BY <1>1 DEF AtPath, TopSound
  <1> QED
    BY <1>2, <1>3

\* A frame that is not calling, with the members of its path.
LEMMA RestingTop ==
    ASSUME NEW p, p.weight \in Nat, NEW f, f.stage \notin Calling, NEW found, Untried(f, p, found),
           NEW w, w = p.weight, NEW fl, fl = p.flags
    PROVE  TopSound(f, p, w, fl, found)
  BY DEF TopSound, Contribution

\* try_epsilon_... and find_transitions, back from a call for a transition.
LEMMA AfterCallStays ==
    ASSUME NEW p, InLookup, AtPath(p), AfterEpsilon \/ AfterFlag \/ AfterTransition
    PROVE  StaysAt(p)
  <1> DEFINE n == Len(stack)
             s == IF Top.stage = "after transition" THEN "transitions" ELSE "epsilons"
             f == [Top EXCEPT !.stage = s, !.cursor = Top.cursor + 1]
  <1>1. /\ Top.stage \in Calling /\ SetTop(f) /\ output_tape' = output_tape
        /\ current_weight' = current_weight - Entry.weight /\ found_transition' = TRUE
        /\ flag_state' = IF Top.stage = "after flag" THEN Top.flags ELSE flag_state
    BY DEF AfterEpsilon, AfterFlag, AfterTransition, Calling, pathVars
  <1>2. HasFields(f, Top.at, Top.pos, Top.out, s, Top.cursor + 1, Top.symbols, Top.defaulted, Top.flags)
    <2>1. IsFrame(Top)
      BY DEF InLookup
    <2> HIDE DEF s
    <2> QED
      BY <2>1, UpdatedFields
  <1>3. s \in {"transitions", "epsilons"} /\ (s = "transitions" <=> Top.stage = "after transition")
    OBVIOUS
  <1> HIDE DEF s, f, n
  <1>4. PathSound(n, p) /\ FrameSound(Top, n, p) /\ p.weight \in Nat /\ p.s \in States(graph)
    BY DEF AtPath, Level, PathSound, n
  <1>5. InBlock(p.s, Top.cursor + 1)
    <2>1. InBlock(p.s, Top.cursor)
      BY <1>1, <1>4 DEF FrameSound
    <2>2. At(wtransition_table, Top.cursor).input # NO_SYMBOL_NUMBER
      BY <1>1 DEF InLookup, FrameInv
    <2> QED
      BY <1>4, <2>1, <2>2, BlockEntries DEF InLookup
  <1>6. Entry.weight \in Nat
    BY <1>1 DEF InLookup, FrameInv, Readable, Entry
  <1>7. current_weight' = p.weight
    <2>1. current_weight = p.weight + Entry.weight
      BY <1>1 DEF AtPath, TopSound, Contribution, Entry
    <2>2. \A w, e \in Nat : (w + e) - e = w
      OBVIOUS
    <2>3. current_weight' = (p.weight + Entry.weight) - Entry.weight
      BY <1>1, <2>1
    <2> QED
      BY <1>4, <1>6, <2>2, <2>3
  <1>8. flag_state' = p.flags
    BY <1>1, <1>4 DEF AtPath, TopSound, FrameSound
  <1>9. FrameSound(f, n, p)
    <2>1. s \in Reading <=> Top.stage \in Reading
      BY <1>1, <1>3 DEF Reading, Calling
    <2>2. f.at = StateAddress(p.s) /\ f.out = n - 1
      BY <1>2, <1>4 DEF FrameSound, HasFields
    <2>3. f.pos = IF f.stage \in Reading THEN p.pos + 1 ELSE p.pos
      BY <1>2, <1>4, <2>1 DEF FrameSound, HasFields
    <2>4. f.stage \in Reading => SymbolsRead(f, p)
      BY <1>2, <1>4, <2>1 DEF FrameSound, HasFields, SymbolsRead
    <2>5. f.stage \notin Reading => ~ f.defaulted
      BY <1>2, <1>4, <2>1 DEF FrameSound, HasFields
    <2>6. InBlock(p.s, f.cursor) /\ f.stage # "after flag"
      BY <1>2, <1>3, <1>5 DEF HasFields
    <2> QED
      BY <2>2, <2>3, <2>4, <2>5, <2>6 DEF FrameSound
  <1>10. TopSound(f, p, current_weight', flag_state', found_transition')
    <2>1. f.stage \notin Calling
      BY <1>2, <1>3 DEF HasFields, Calling
    <2>2. Untried(f, p, found_transition')
      BY <1>1 DEF Untried
    <2> QED
      BY <1>4, <1>7, <1>8, <2>1, <2>2, RestingTop
  <1>11. TapeKept
    BY <1>1, TapeUnchanged
  <1> QED
    BY <1>1, <1>9, <1>10, <1>11 DEF StaysAt, n

\* try_epsilon_transitions skips a flag or reaches the end of the epsilons.
LEMMA EpsilonsStay ==
    ASSUME NEW p, InLookup, AtPath(p), SkipFlag \/ EpsilonsDone
    PROVE  StaysAt(p)
  <1> DEFINE n == Len(stack)
  <1>1. /\ Top.stage = "epsilons" /\ IsFrame(Top) /\ output_tape' = output_tape
        /\ current_weight' = current_weight /\ flag_state' = flag_state
    BY DEF SkipFlag, EpsilonsDone, AtFlag, InLookup, pathVars
  <1>2. /\ PathSound(n, p) /\ FrameSound(Top, n, p) /\ p.weight \in Nat /\ p.s \in States(graph)
        /\ current_weight = p.weight /\ flag_state = p.flags
    BY <1>1, SamePathMembers DEF AtPath, Level, PathSound, Calling
  <1>3. Top.at = StateAddress(p.s) /\ Top.out = n - 1 /\ Top.pos = p.pos /\ ~ Top.defaulted
    BY <1>1, <1>2 DEF FrameSound, Reading
  <1>4. TapeKept
    BY <1>1, TapeUnchanged
  <1>5. CASE SkipFlag
    <2> DEFINE f == [Top EXCEPT !.cursor = Top.cursor + 1]
    <2>1. SetTop(f) /\ Entry.input \in FlagSymbols
      BY <1>5 DEF SkipFlag, AtFlag
    <2>2. HasFields(f, Top.at, Top.pos, Top.out, "epsilons", Top.cursor + 1, Top.symbols,
                    Top.defaulted, Top.flags)
      BY <1>1, UpdatedFields
    <2> HIDE DEF f, n
    <2>3. InBlock(p.s, Top.cursor)
      BY <1>1, <1>2 DEF FrameSound
    <2>4. Entry.input # NO_SYMBOL_NUMBER
      BY <2>1, FlagNumbers DEF InLookup
    <2>5. InBlock(p.s, Top.cursor + 1)
      BY <1>2, <2>3, <2>4, BlockEntries DEF InLookup, Entry
    <2>6. FrameSound(f, n, p)
      BY <1>3, <2>2, <2>5 DEF FrameSound, HasFields, Reading
    <2>7. TopSound(f, p, current_weight', flag_state', found_transition')
      <3>1. f.stage \notin Calling /\ Untried(f, p, found_transition')
        BY <2>2 DEF HasFields, Calling, Untried
      <3> QED
        BY <1>1, <1>2, <3>1, RestingTop
    <2> QED
      BY <1>4, <2>1, <2>6, <2>7 DEF StaysAt, n
  <1>6. CASE EpsilonsDone
    <2> DEFINE f == [Top EXCEPT !.stage = "input"]
    <2>1. SetTop(f)
      BY <1>6 DEF EpsilonsDone
    <2>2. HasFields(f, Top.at, Top.pos, Top.out, "input", Top.cursor, Top.symbols,
                    Top.defaulted, Top.flags)
      BY <1>1, UpdatedFields
    <2> HIDE DEF f, n
    <2>3. FrameSound(f, n, p)
      BY <1>3, <2>2 DEF FrameSound, HasFields, Reading, Calling
    <2>4. TopSound(f, p, current_weight', flag_state', found_transition')
      <3>1. f.stage \notin Calling /\ Untried(f, p, found_transition')
        BY <2>2 DEF HasFields, Calling, Untried
      <3> QED
        BY <1>1, <1>2, <3>1, RestingTop
    <2> QED
      BY <1>4, <2>1, <2>3, <2>4 DEF StaysAt, n
  <1> QED
    BY <1>5, <1>6

LEMMA HeadTailSet ==
    ASSUME NEW S, NEW y \in Seq(S), y # << >>
    PROVE  ToSet(y) = {Head(y)} \cup ToSet(Tail(y)) /\ ToSet(y) \subseteq S
  <1>1. /\ Len(y) \in Nat \ {0} /\ DOMAIN y = 1 .. Len(y) /\ Head(y) = y[1]
        /\ DOMAIN Tail(y) = 1 .. Len(y) - 1 /\ \A i \in 1 .. Len(y) - 1 : Tail(y)[i] = y[i + 1]
        /\ \A i \in 1 .. Len(y) : y[i] \in S
    OBVIOUS
  <1>2. \A i \in 1 .. Len(y) : i = 1 \/ (i - 1 \in 1 .. Len(y) - 1 /\ (i - 1) + 1 = i)
    BY <1>1
  <1>3. 1 \in 1 .. Len(y) /\ \A i \in 1 .. Len(y) - 1 : i + 1 \in 1 .. Len(y)
    BY <1>1
  <1>4. ASSUME NEW z \in ToSet(y) PROVE z \in {Head(y)} \cup ToSet(Tail(y)) /\ z \in S
    <2>1. PICK i \in 1 .. Len(y) : z = y[i]
      BY <1>1 DEF ToSet
    <2>2. CASE i = 1
      BY <1>1, <2>1, <2>2
    <2>3. CASE i - 1 \in 1 .. Len(y) - 1 /\ (i - 1) + 1 = i
      <3>1. z = Tail(y)[i - 1]
        BY <1>1, <2>1, <2>3
      <3> QED
        BY <1>1, <2>1, <2>3, <3>1 DEF ToSet
    <2> QED
      BY <1>2, <2>2, <2>3
  <1>5. Head(y) \in ToSet(y)
    BY <1>1, <1>3 DEF ToSet
  <1>6. ASSUME NEW z \in ToSet(Tail(y)) PROVE z \in ToSet(y)
    <2>1. PICK i \in 1 .. Len(y) - 1 : z = Tail(y)[i]
      BY <1>1 DEF ToSet
    <2>2. i + 1 \in 1 .. Len(y) /\ z = y[i + 1]
      BY <1>1, <1>3, <2>1
    <2> QED
      BY <1>1, <2>2 DEF ToSet
  <1> QED
    BY <1>4, <1>5, <1>6

\* The next symbol to be tried is one that reads input.
LEMMA HeadConsuming ==
    ASSUME NEW p, InLookup, AtPath(p), Top.stage \in {"find", "transitions"}, Top.symbols # << >>
    PROVE  LET x == Head(Top.symbols)
           IN  /\ ToSet(Top.symbols) = {x} \cup ToSet(Tail(Top.symbols))
               /\ Consuming(x)
               /\ x \in 0 .. NO_SYMBOL_NUMBER - 1 /\ x # 0 /\ x \notin flag_symbols
  <1> DEFINE x == Head(Top.symbols)
  <1>1. ToSet(Top.symbols) = {x} \cup ToSet(Tail(Top.symbols))
        /\ ToSet(Top.symbols) \subseteq 0 .. NO_SYMBOL_NUMBER - 1
    BY HeadTailSet DEF InLookup, FrameInv
  <1>2. x \in ToSet(Top.symbols) /\ x \in 0 .. NO_SYMBOL_NUMBER - 1
    BY <1>1
  <1>3. x # NO_SYMBOL_NUMBER /\ NO_SYMBOL_NUMBER \in Nat
    BY <1>2, ConstantsAssumption
  <1> HIDE DEF x
  <1>4. SymbolsRead(Top, p) /\ p.pos \in Nat
    BY DEF AtPath, Level, PathSound, FrameSound, Reading
  <1>5. CASE x \in ToSet(SymbolsFor(input_tape[p.pos + 1]))
    <2>1. p.pos + 1 \in 1 .. Len(input_tape)
      <3>1. Len(input_tape) \in Nat
        BY KnownTape DEF InLookup
      <3> QED
        BY <1>4, <3>1 DEF SymbolsRead
    <2>2. Consuming(x)
      BY <1>5, <2>1, TapeSymbol, SymbolsForConsuming DEF InLookup
    <2> QED
      BY <1>1, <1>2, <1>3, <2>2, FlagsAreFlags DEF Consuming, InLookup, x
  <1>6. CASE x = SpecialSymbol(DefaultName)
    <2>1. Consuming(x)
      BY <1>3, <1>6, SpecialConsuming DEF Special, InLookup
    <2> QED
      BY <1>1, <1>2, <1>3, <2>1, FlagsAreFlags DEF Consuming, InLookup, x
  <1> QED
    BY <1>2, <1>4, <1>5, <1>6 DEF SymbolsRead

LEMMA ReadStays ==
    ASSUME NEW p, InLookup, AtPath(p), ReadInput
    PROVE  StaysAt(p)
  <1> DEFINE n == Len(stack)
             f == [Top EXCEPT !.stage = "find", !.pos = Top.pos + 1,
                              !.symbols = SymbolsFor(input_tape[Top.pos + 1])]
  <1>1. /\ Top.stage = "input" /\ IsFrame(Top) /\ output_tape' = output_tape
        /\ current_weight' = current_weight /\ flag_state' = flag_state
        /\ SetTop(f) /\ Top.pos # Len(input_tape) /\ Top.pos \in 0 .. Len(input_tape)
    BY DEF ReadInput, InLookup, pathVars, FrameInv, AtEnd
  <1>2. HasFields(f, Top.at, Top.pos + 1, Top.out, "find", Top.cursor,
                  SymbolsFor(input_tape[Top.pos + 1]), Top.defaulted, Top.flags)
    BY <1>1, UpdatedFields
  <1> HIDE DEF f, n
  <1>3. /\ PathSound(n, p) /\ FrameSound(Top, n, p) /\ p.weight \in Nat /\ p.s \in States(graph)
        /\ current_weight = p.weight /\ flag_state = p.flags
    BY <1>1, SamePathMembers DEF AtPath, Level, PathSound, Calling, n
  <1>4. Top.at = StateAddress(p.s) /\ Top.out = n - 1 /\ Top.pos = p.pos /\ ~ Top.defaulted
    BY <1>1, <1>3 DEF FrameSound, Reading
  <1>5. p.pos < Len(input_tape)
    <2>1. Len(input_tape) \in Nat
      BY KnownTape DEF InLookup
    <2> QED
      BY <1>1, <1>4, <2>1
  <1>6. FrameSound(f, n, p)
    <2>1. SymbolsRead(f, p)
      BY <1>2, <1>4, <1>5 DEF SymbolsRead, HasFields
    <2> QED
      BY <1>2, <1>4, <2>1 DEF FrameSound, HasFields, Reading, Calling
  <1>7. TopSound(f, p, current_weight', flag_state', found_transition')
    <2>1. f.stage \notin Calling /\ Untried(f, p, found_transition')
      BY <1>2, <1>4 DEF HasFields, Calling, Untried
    <2> QED
      BY <1>1, <1>3, <2>1, RestingTop
  <1>8. TapeKept
    BY <1>1, TapeUnchanged
  <1> QED
    BY <1>1, <1>6, <1>7, <1>8 DEF StaysAt, n

LEMMA DefaultStays ==
    ASSUME NEW p, InLookup, AtPath(p), TryDefault
    PROVE  StaysAt(p)
  <1> DEFINE n == Len(stack)
             y == << SpecialSymbol(DefaultName) >>
             f == [Top EXCEPT !.symbols = y, !.defaulted = TRUE]
  <1>1. /\ Top.stage = "find" /\ IsFrame(Top) /\ output_tape' = output_tape
        /\ current_weight' = current_weight /\ flag_state' = flag_state
        /\ SetTop(f) /\ Top.symbols = << >> /\ ~ Top.defaulted /\ ~ found_transition
    BY DEF TryDefault, InLookup, pathVars
  <1>2. HasFields(f, Top.at, Top.pos, Top.out, "find", Top.cursor, y, TRUE, Top.flags)
    BY <1>1, UpdatedFields
  <1> HIDE DEF f, n
  <1>3. /\ PathSound(n, p) /\ FrameSound(Top, n, p) /\ p.weight \in Nat /\ p.s \in States(graph)
        /\ current_weight = p.weight /\ flag_state = p.flags
    BY <1>1, SamePathMembers DEF AtPath, Level, PathSound, Calling, n
  <1>4. Top.at = StateAddress(p.s) /\ Top.out = n - 1 /\ Top.pos = p.pos + 1 /\ SymbolsRead(Top, p)
    BY <1>1, <1>3 DEF FrameSound, Reading
  <1>5. Inputs(placeholders[p.s]) \cap ToSet(SymbolsFor(input_tape[p.pos + 1])) = {}
    <2>1. Untried(Top, p, found_transition)
      BY DEF AtPath, TopSound
    <2>2. ToSet(Top.symbols) = {}
      BY <1>1 DEF ToSet
    <2> QED
      BY <1>1, <2>1, <2>2 DEF Untried
  <1>6. SymbolsRead(f, p)
    <2>1. ToSet(y) = {SpecialSymbol(DefaultName)}
      BY DEF ToSet
    <2> QED
      BY <1>2, <1>4, <1>5, <2>1 DEF SymbolsRead, HasFields
  <1>7. FrameSound(f, n, p)
    BY <1>2, <1>4, <1>6 DEF FrameSound, HasFields, Reading, Calling
  <1>8. TopSound(f, p, current_weight', flag_state', found_transition')
    <2>1. f.stage \notin Calling /\ Untried(f, p, found_transition')
      BY <1>2 DEF HasFields, Calling, Untried
    <2> QED
      BY <1>1, <1>3, <2>1, RestingTop
  <1>9. TapeKept
    BY <1>1, TapeUnchanged
  <1> QED
    BY <1>1, <1>7, <1>8, <1>9 DEF StaysAt, n

\* A symbol that is not found is given up.
LEMMA GivenUp ==
    ASSUME NEW p, InLookup, AtPath(p), Top.stage \in {"find", "transitions"}, Top.symbols # << >>,
           ~ found_transition /\ ~ Top.defaulted => Head(Top.symbols) \notin Inputs(placeholders[p.s]),
           NEW f, HasFields(f, Top.at, Top.pos, Top.out, "find", Top.cursor, Tail(Top.symbols),
                            Top.defaulted, Top.flags),
           NEW found, ~ found => ~ found_transition
    PROVE  FrameSound(f, Len(stack), p) /\ TopSound(f, p, current_weight, flag_state, found)
  <1> DEFINE n == Len(stack)
             x == Head(Top.symbols)
             rest == Tail(Top.symbols)
             wanted == ToSet(SymbolsFor(input_tape[p.pos + 1]))
  <1>1. ToSet(Top.symbols) = {x} \cup ToSet(rest)
    BY HeadConsuming
  <1>2. /\ PathSound(n, p) /\ FrameSound(Top, n, p) /\ p.weight \in Nat
        /\ current_weight = p.weight /\ flag_state = p.flags
    BY SamePathMembers DEF AtPath, Level, PathSound, Calling
  <1>3. Top.at = StateAddress(p.s) /\ Top.out = n - 1 /\ Top.pos = p.pos + 1 /\ SymbolsRead(Top, p)
    BY <1>2 DEF FrameSound, Reading
  <1>4. /\ f.at = Top.at /\ f.pos = Top.pos /\ f.out = Top.out /\ f.stage = "find"
        /\ f.symbols = rest /\ f.defaulted = Top.defaulted
    BY DEF HasFields
  <1>5. Untried(Top, p, found_transition)
    BY DEF AtPath, TopSound
  <1> HIDE DEF n, rest, x
  <1>6. SymbolsRead(f, p)
    BY <1>1, <1>3, <1>4 DEF SymbolsRead
  <1>7. FrameSound(f, n, p)
    BY <1>3, <1>4, <1>6 DEF FrameSound, Reading, Calling
  <1>8. Untried(f, p, found)
    <2>1. ASSUME ~ found, ~ f.defaulted, NEW y \in wanted
          PROVE  y \in ToSet(f.symbols) \/ y \notin Inputs(placeholders[p.s])
      <3>1. y \in ToSet(Top.symbols) \/ y \notin Inputs(placeholders[p.s])
        BY <1>4, <1>5, <2>1 DEF Untried
      <3>2. x \notin Inputs(placeholders[p.s])
        BY <1>4, <2>1 DEF x
      <3> QED
        BY <1>1, <1>4, <3>1, <3>2
    <2> QED
      BY <1>4, <2>1 DEF Untried
  <1>9. TopSound(f, p, current_weight, flag_state, found)
    <2>1. f.stage \notin Calling
      BY <1>4 DEF Calling
    <2> QED
      BY <1>2, <1>8, <2>1, RestingTop
  <1> QED
    BY <1>7, <1>9 DEF n

LEMMA FindStays ==
    ASSUME NEW p, InLookup, AtPath(p), FindSymbol
    PROVE  StaysAt(p)
  <1> DEFINE n == Len(stack)
             x == Head(Top.symbols)
             outside == ~ IndexesTransitionTable(Top.at) /\ Top.at + 1 + x >= Len(windex_table)
             found == FindIndex(windex_table, Top.at, x)
             start == IF outside THEN {} ELSE found
  <1>1. /\ Top.stage = "find" /\ IsFrame(Top) /\ output_tape' = output_tape
        /\ current_weight' = current_weight /\ flag_state' = flag_state
        /\ found_transition' = found_transition /\ Top.symbols # << >>
    BY DEF FindSymbol, InLookup, pathVars
  <1>2. /\ PathSound(n, p) /\ FrameSound(Top, n, p) /\ p.weight \in Nat /\ p.s \in States(graph)
        /\ current_weight = p.weight /\ flag_state = p.flags
    BY <1>1, SamePathMembers DEF AtPath, Level, PathSound, Calling
  <1>3. /\ Top.at = StateAddress(p.s) /\ Top.out = n - 1 /\ Top.pos = p.pos + 1 /\ SymbolsRead(Top, p)
        /\ Top.at \in Nat
    <2>1. Top.at = StateAddress(p.s) /\ Top.out = n - 1 /\ Top.pos = p.pos + 1 /\ SymbolsRead(Top, p)
      BY <1>1, <1>2 DEF FrameSound, Reading
    <2> QED
      BY <1>2, <2>1, AddressType DEF InLookup
  <1>4. x \in 0 .. NO_SYMBOL_NUMBER - 1 /\ x \notin flag_symbols
    BY <1>1, HeadConsuming
  <1>5. /\ ~ outside => (\A c \in found : InBlock(p.s, c))
                        /\ (found = {} => x \notin Inputs(placeholders[p.s]))
        /\ outside => x \notin Inputs(placeholders[p.s])
    <2>1. WrittenInv /\ pc = "done" /\ Addressable /\ Len(windex_table) \in Nat
      BY IndexTableFacts DEF InLookup
    <2> DEFINE a == Top.at
               l == Len(windex_table)
    <2>2. a = StateAddress(p.s) /\ a \in Nat /\ x \in Nat
      BY <1>3, <1>4, ConstantsAssumption
    <2>3. /\ IndexesTransitionTable(a) \/ a + 1 + x < l =>
               (\A c \in FindIndex(windex_table, a, x) : InBlock(p.s, c))
               /\ (FindIndex(windex_table, a, x) = {} => x \notin Inputs(placeholders[p.s]))
          /\ ~ IndexesTransitionTable(a) /\ a + 1 + x >= l => x \notin Inputs(placeholders[p.s])
      <3> HIDE DEF x, a
      <3> QED
        BY <1>2, <1>4, <2>1, <2>2, FindSound
    <2>4. a + 1 + x < l \/ a + 1 + x >= l
      BY <2>1, <2>2
    <2> QED
      BY <2>3, <2>4
  <1>6. /\ start = {} => SetTop([Top EXCEPT !.symbols = Tail(Top.symbols)])
        /\ start # {} => SetTop([Top EXCEPT !.stage = "transitions",
                                           !.cursor = CHOOSE c \in start : TRUE])
    BY DEF FindSymbol
  <1>7. TapeKept
    BY <1>1, TapeUnchanged
  <1>8. CASE start = {}
    <2> DEFINE f == [Top EXCEPT !.symbols = Tail(Top.symbols)]
    <2>1. HasFields(f, Top.at, Top.pos, Top.out, "find", Top.cursor, Tail(Top.symbols),
                    Top.defaulted, Top.flags)
      BY <1>1, UpdatedFields
    <2>2. x \notin Inputs(placeholders[p.s])
      BY <1>5, <1>8
    <2>3. SetTop(f)
      BY <1>6, <1>8
    <2> HIDE DEF f, start
    <2>4. FrameSound(f, n, p) /\ TopSound(f, p, current_weight, flag_state, found_transition)
      BY <1>1, <2>1, <2>2, GivenUp
    <2> QED
      BY <1>1, <1>7, <2>3, <2>4 DEF StaysAt
  <1>9. CASE start # {}
    <2> DEFINE c == CHOOSE e \in start : TRUE
               f == [Top EXCEPT !.stage = "transitions", !.cursor = c]
    <2>1. HasFields(f, Top.at, Top.pos, Top.out, "transitions", c, Top.symbols,
                    Top.defaulted, Top.flags)
      <3> HIDE DEF c
      <3> QED
        BY <1>1, UpdatedFields
    <2>2. SetTop(f)
      BY <1>6, <1>9
    <2>3. c \in found /\ ~ outside
      <3>1. c \in start
        BY <1>9
      <3> HIDE DEF c
      <3> QED
        BY <3>1
    <2>4. InBlock(p.s, c)
      BY <1>5, <2>3
    <2> HIDE DEF f, c, n, outside
    <2>5. SymbolsRead(f, p)
      BY <1>3, <2>1 DEF SymbolsRead, HasFields
    <2>6. FrameSound(f, n, p)
      BY <1>3, <2>1, <2>4, <2>5 DEF FrameSound, HasFields, Reading, Calling
    <2>7. Untried(f, p, found_transition)
      <3>1. Untried(Top, p, found_transition)
        BY DEF AtPath, TopSound
      <3>2. /\ f.at = Top.at /\ f.stage = "transitions" /\ f.cursor = c /\ f.symbols = Top.symbols
            /\ f.defaulted = Top.defaulted
        BY <2>1 DEF HasFields
      <3> QED
        BY <1>1, <2>3, <3>1, <3>2 DEF Untried
    <2>8. f.stage \notin Calling
      BY <2>1 DEF HasFields, Calling
    <2>9. TopSound(f, p, current_weight', flag_state', found_transition')
      BY <1>1, <1>2, <2>7, <2>8, RestingTop
    <2> QED
      BY <1>7, <2>2, <2>6, <2>9 DEF StaysAt, n
  <1> QED
    BY <1>8, <1>9

LEMMA TransitionsDoneStays ==
    ASSUME NEW p, InLookup, AtPath(p), TransitionsDone
    PROVE  StaysAt(p)
  <1> DEFINE f == [Top EXCEPT !.stage = "find", !.symbols = Tail(Top.symbols)]
             x == Head(Top.symbols)
  <1>1. /\ Top.stage = "transitions" /\ IsFrame(Top) /\ output_tape' = output_tape
        /\ current_weight' = current_weight /\ flag_state' = flag_state
        /\ found_transition' = (found_transition \/ ~ IndexesTransitionTable(Top.at))
        /\ Top.symbols # << >> /\ SetTop(f) /\ Entry.input # x
    BY DEF TransitionsDone, InLookup, FrameInv, pathVars
  <1>2. HasFields(f, Top.at, Top.pos, Top.out, "find", Top.cursor, Tail(Top.symbols),
                  Top.defaulted, Top.flags)
    BY <1>1, UpdatedFields
  <1> HIDE DEF f
  <1>3. p.s \in States(graph) /\ Top.at = StateAddress(p.s)
    BY DEF AtPath, Level, PathSound, FrameSound
  <1>4. TapeKept
    BY <1>1, TapeUnchanged
  <1>5. x # 0 /\ x \notin flag_symbols
    BY <1>1, HeadConsuming
  <1>6. CASE ~ IndexesTransitionTable(Top.at)
    <2>1. PathSound(Len(stack), p)
      BY DEF AtPath, Level
    <2>2. found_transition' = TRUE
      BY <1>1, <1>6
    <2>3. /\ FrameSound(f, Len(stack), p)
          /\ TopSound(f, p, current_weight', flag_state', found_transition')
      <3> DEFINE n == Len(stack)
      <3>1. /\ FrameSound(Top, n, p) /\ p.weight \in Nat
            /\ current_weight = p.weight /\ flag_state = p.flags
        BY <1>1, SamePathMembers DEF AtPath, Level, PathSound, Calling
      <3>2. Top.at = StateAddress(p.s) /\ Top.out = n - 1 /\ Top.pos = p.pos + 1 /\ SymbolsRead(Top, p)
        BY <1>1, <3>1 DEF FrameSound, Reading
      <3>3. ToSet(Top.symbols) = {x} \cup ToSet(Tail(Top.symbols))
        BY <1>1, HeadConsuming
      <3> HIDE DEF n, x
      <3>4. SymbolsRead(f, p)
        BY <1>2, <3>2, <3>3 DEF SymbolsRead, HasFields
      <3>5. FrameSound(f, n, p)
        BY <1>2, <3>2, <3>4 DEF FrameSound, HasFields, Reading, Calling
      <3>6. f.stage \notin Calling /\ Untried(f, p, found_transition')
        BY <1>2, <2>2 DEF HasFields, Calling, Untried
      <3> QED
        BY <1>1, <3>1, <3>5, <3>6, RestingTop DEF n
    <2> QED
      BY <1>1, <1>4, <2>3 DEF StaysAt
  <1>7. CASE IndexesTransitionTable(Top.at)
    <2>1. ~ found_transition /\ ~ Top.defaulted => x \notin Inputs(placeholders[p.s])
      <3> SUFFICES ASSUME ~ found_transition, ~ Top.defaulted
                   PROVE  x \notin Inputs(placeholders[p.s])
        OBVIOUS
      <3>1. Top.cursor \in FindIndex(windex_table, Top.at, x)
        BY <1>1 DEF AtPath, TopSound, Untried
      <3>2. SimpleState(p.s)
        BY <1>3, <1>7, AddressKind DEF InLookup
      <3> QED
        BY <1>1, <1>3, <1>5, <3>1, <3>2, SimpleSound DEF InLookup, Entry
    <2>2. ~ found_transition' => ~ found_transition
      BY <1>1
    <2>3. FrameSound(f, Len(stack), p) /\ TopSound(f, p, current_weight, flag_state, found_transition')
      BY <1>1, <1>2, <2>1, <2>2, GivenUp
    <2> QED
      BY <1>1, <1>4, <2>3 DEF StaysAt
  <1> QED
    BY <1>6, <1>7

-----------------------------------------------------------------------------
(* A call begins: the result at the end of the input is that of the path.   *)

LEMMA FinalWeightOfState ==
    ASSUME WrittenInv, pc = "done", Addressable, NEW s \in States(graph), NEW a, a = StateAddress(s),
           IsFinalAddress(windex_table, wtransition_table, a)
    PROVE  FinalWeight(a) \in graph.final[s]
  <1>1. FinalityFaithful
    BY FinalityRead
  <1>2. /\ graph.final[s] # {}
        /\ {IF SimpleState(s) THEN At(wtransition_table, a).weight
                              ELSE At(windex_table, a).target} = graph.final[s]
    BY <1>1 DEF FinalityFaithful
  <1>3. SimpleState(s) <=> IndexesTransitionTable(a)
    BY AddressKind
  <1> QED
    BY <1>2, <1>3 DEF FinalWeight

LEMMA ResultOfPath ==
    ASSUME NEW p, NEW i \in 0 .. MAX_RECURSION_DEPTH - 1, p \in PathsBy[i],
           p.pos = Len(input_tape), NEW w \in graph.final[p.s]
    PROVE  << p.out, p.weight + w >> \in AllAnalyses
  <1>1. MAX_RECURSION_DEPTH # 0
    BY LookupAssumption
  <1> DEFINE S == PathsBy[MAX_RECURSION_DEPTH - 1]
  <1>2. p \in S
    BY <1>1, PathsGrow
  <1> HIDE DEF S
  <1>3. p \in {q \in S : q.pos = Len(input_tape)}
    BY <1>2
  <1>4. << p.out, p.weight + w >> \in {<< p.out, p.weight + v >> : v \in graph.final[p.s]}
    OBVIOUS
  <1>5. << p.out, p.weight + w >> \in AnalysesOf(S)
    BY <1>3, <1>4 DEF AnalysesOf
  <1> QED
    BY <1>5, AnalysesByPaths DEF S

LEMMA EnterStays ==
    ASSUME NEW p, InLookup, AtPath(p), EnterState
    PROVE  StaysAt(p) /\ lookup_paths' \subseteq lookup_paths \cup AllAnalyses
  <1> DEFINE n == Len(stack)
             tape == Write(output_tape, Top.out, NO_SYMBOL_NUMBER)
             start == FindIndex(windex_table, Top.at, 0)
  <1>1. /\ Top.stage = "enter" /\ IsFrame(Top) /\ recursion_depth_left > 0
        /\ current_weight' = current_weight /\ flag_state' = flag_state
        /\ output_tape' = IF AtEnd(Top) THEN tape ELSE output_tape
    BY DEF EnterState, InLookup
  <1>2. /\ PathSound(n, p) /\ FrameSound(Top, n, p) /\ p.weight \in Nat /\ p.s \in States(graph)
        /\ current_weight = p.weight /\ flag_state = p.flags /\ OutputKept(output_tape, p)
        /\ p.out \in Seq(0 .. NO_SYMBOL_NUMBER - 1) /\ Len(p.out) = n - 1
    BY <1>1, SamePathMembers DEF AtPath, Level, PathSound, Calling
  <1>3. Top.at = StateAddress(p.s) /\ Top.out = n - 1 /\ Top.pos = p.pos /\ ~ Top.defaulted
    BY <1>1, <1>2 DEF FrameSound, Reading
  <1>4. n \in Nat \ {0} /\ n - 1 \in Nat /\ (n - 1) + 1 = n /\ output_tape \in Seq(Nat)
    BY DEF InLookup
  <1>5. TapeKept
    <2>1. tape \in Seq(Nat) /\ Kept(output_tape, tape, n)
      <3>1. Top.out \in Nat /\ Top.out + 1 = n /\ NO_SYMBOL_NUMBER \in Nat
        BY <1>3, <1>4, ConstantsAssumption
      <3>2. tape \in Seq(Nat) /\ Kept(output_tape, tape, Top.out + 1)
        BY <1>4, <3>1, WriteFacts
      <3> QED
        BY <3>1, <3>2
    <2>2. CASE AtEnd(Top)
      BY <1>1, <2>1, <2>2 DEF TapeKept
    <2>3. CASE ~ AtEnd(Top)
      <3>1. output_tape' = output_tape
        BY <1>1, <2>3
      <3> QED
        BY <3>1, TapeUnchanged
    <2> QED
      BY <2>2, <2>3
  <1>6. lookup_paths' \subseteq lookup_paths \cup AllAnalyses
    <2>1. CASE AtEnd(Top) /\ IsFinalAddress(windex_table, wtransition_table, Top.at)
      <3> DEFINE w == FinalWeight(Top.at)
                 r == Analysis(tape, current_weight + w)
      <3>1. lookup_paths' = lookup_paths \cup {r}
        BY <2>1 DEF EnterState
      <3>2. w \in graph.final[p.s]
        BY <1>2, <1>3, <2>1, FinalWeightOfState DEF InLookup
      <3>3. r = << p.out, p.weight + w >>
        <4> HIDE DEF w
        <4>1. Top.out = Len(p.out)
          BY <1>2, <1>3
        <4>2. Analysis(Write(output_tape, Len(p.out), NO_SYMBOL_NUMBER), p.weight + w)
                = << p.out, p.weight + w >>
          BY <1>2, <1>4, AnalysisFacts
        <4> QED
          BY <1>2, <4>1, <4>2
      <3>4. p.pos = Len(input_tape)
        BY <1>3, <2>1 DEF AtEnd
      <3>5. n - 1 \in 0 .. MAX_RECURSION_DEPTH - 1 /\ p \in PathsBy[n - 1]
        <4>1. recursion_depth_left + n = MAX_RECURSION_DEPTH + 1 /\ recursion_depth_left \in Int
          BY <1>1 DEF InLookup, CallsInv
        <4>2. n <= MAX_RECURSION_DEPTH
          <5> HIDE DEF n
          <5> QED
            BY <1>1, <1>4, <4>1, LookupAssumption
        <4>3. p \in PathsBy[n - 1]
          BY <1>2, <4>2 DEF PathSound
        <4> QED
          BY <1>4, <4>2, <4>3, LookupAssumption
      <3>6. r \in AllAnalyses
        <4> HIDE DEF w, r, n
        <4> QED
          BY <3>2, <3>3, <3>4, <3>5, ResultOfPath
      <3> QED
        BY <3>1, <3>6
    <2>2. CASE ~ (AtEnd(Top) /\ IsFinalAddress(windex_table, wtransition_table, Top.at))
      <3>1. lookup_paths' = lookup_paths
        BY <2>2 DEF EnterState
      <3> QED
        BY <3>1
    <2> QED
      BY <2>1, <2>2
  <1>7. /\ start = {} => SetTop([Top EXCEPT !.stage = "input"])
        /\ start # {} => SetTop([Top EXCEPT !.stage = "epsilons",
                                           !.cursor = CHOOSE c \in start : TRUE])
    BY DEF EnterState
  <1>8. CASE start = {}
    <2> DEFINE f == [Top EXCEPT !.stage = "input"]
    <2>1. HasFields(f, Top.at, Top.pos, Top.out, "input", Top.cursor, Top.symbols,
                    Top.defaulted, Top.flags)
      BY <1>1, UpdatedFields
    <2>2. SetTop(f)
      BY <1>7, <1>8
    <2> HIDE DEF f, n
    <2>3. FrameSound(f, n, p)
      BY <1>3, <2>1 DEF FrameSound, HasFields, Reading, Calling
    <2>4. TopSound(f, p, current_weight', flag_state', found_transition')
      <3>1. f.stage \notin Calling /\ Untried(f, p, found_transition')
        BY <2>1 DEF HasFields, Calling, Untried
      <3> QED
        BY <1>1, <1>2, <3>1, RestingTop
    <2> QED
      BY <1>5, <1>6, <2>2, <2>3, <2>4 DEF StaysAt, n
  <1>9. CASE start # {}
    <2> DEFINE c == CHOOSE e \in start : TRUE
               f == [Top EXCEPT !.stage = "epsilons", !.cursor = c]
    <2>1. HasFields(f, Top.at, Top.pos, Top.out, "epsilons", c, Top.symbols,
                    Top.defaulted, Top.flags)
      <3> HIDE DEF c
      <3> QED
        BY <1>1, UpdatedFields
    <2>2. SetTop(f)
      BY <1>7, <1>9
    <2>3. c \in start
      BY <1>9
    <2>4. InBlock(p.s, c)
      <3>1. IndexesTransitionTable(Top.at) \/ Top.at + 1 + 0 < Len(windex_table)
        <4>1. \A a : StateEntry(a) => IndexesTransitionTable(a) \/ a + 1 + 0 < Len(windex_table)
          BY DEF StateEntry
        <4> QED
          BY <4>1 DEF InLookup, FrameInv
      <3>2. 0 \in 0 .. NO_SYMBOL_NUMBER - 1 /\ 0 \notin flag_symbols
        <4>1. NumbersBounded
          BY AtTheEnd DEF InLookup
        <4>2. NO_SYMBOL_NUMBER \in Nat /\ NO_SYMBOL_NUMBER # 0
          BY AlphabetSize DEF InLookup
        <4> QED
          BY <4>1, <4>2 DEF NumbersBounded
      <3> HIDE DEF c
      <3> QED
        BY <1>2, <1>3, <2>3, <3>1, <3>2, FindSound DEF InLookup
    <2> HIDE DEF f, c, n
    <2>5. FrameSound(f, n, p)
      BY <1>3, <2>1, <2>4 DEF FrameSound, HasFields, Reading, Calling
    <2>6. TopSound(f, p, current_weight', flag_state', found_transition')
      <3>1. f.stage \notin Calling /\ Untried(f, p, found_transition')
        BY <2>1 DEF HasFields, Calling, Untried
      <3> QED
        BY <1>1, <1>2, <3>1, RestingTop
    <2> QED
      BY <1>5, <1>6, <2>2, <2>5, <2>6 DEF StaysAt, n
  <1> QED
    BY <1>8, <1>9

-----------------------------------------------------------------------------
(* A call for a transition extends the path by it.                          *)

CallsFrom(p) ==
    /\ TapeKept
    /\ \E f, g, q :
         /\ stack' = Append(Append(Front(stack), f), g)
         /\ f.stage \in Calling
         /\ FrameSound(f, Len(stack), p) /\ GoesOnBy(f, p, q)
         /\ Level(g, Len(stack) + 1, q, output_tape')
         /\ TopSound(g, q, current_weight', flag_state', found_transition')

LEMMA NewFrameFields ==
    ASSUME NEW a, NEW p, NEW o
    PROVE  HasFields(Frame(a, p, o), a, p, o, "enter", 0, << >>, FALSE, NoFlags)
  BY DEF HasFields, Frame

LEMMA EntryArc ==
    ASSUME NEW p, InLookup, AtPath(p), Top.stage \in {"epsilons", "transitions"},
           Entry.input # NO_SYMBOL_NUMBER
    PROVE  \E k \in DOMAIN placeholders[p.s] : Entry = TransitionEntry(placeholders[p.s][k])
  <1>1. p.s \in States(graph) /\ InBlock(p.s, Top.cursor)
    BY DEF AtPath, Level, PathSound, FrameSound
  <1> QED
    BY <1>1, BlockEntries DEF InLookup, Entry

LEMMA Predecessor ==
    \A n \in Nat \ {0} :
      /\ n - 1 \in Nat /\ (n - 1) + 1 = n /\ (n + 1) - 1 = n
      /\ \A j \in 1 .. n : j = n \/ (j \in 1 .. n - 1 /\ j # n)
      /\ \A l \in Nat : l >= n - 1 => \A j \in 1 .. n - 1 : j <= l
  OBVIOUS

LEMMA AppendedOutput ==
    ASSUME NEW S, NEW u \in Seq(S), NEW o \in S, NEW n \in Nat \ {0}, Len(u) = n - 1
    PROVE  /\ Append(u, o) \in Seq(S) /\ Len(Append(u, o)) = n
           /\ \A j \in 1 .. n : Append(u, o)[j] = IF j = n THEN o ELSE u[j]
  OBVIOUS

LEMMA LenInNat == \A S : \A u \in Seq(S) : Len(u) \in Nat
  OBVIOUS

LEMMA SumType == \A v, w \in Nat : v + w \in Nat
  OBVIOUS

LEMMA PathGoesOn ==
    ASSUME NEW p, InLookup, PathSound(Len(stack), p), NEW k \in DOMAIN placeholders[p.s],
           NEW arc, arc = placeholders[p.s][k], NEW q \in Extend(p, arc),
           NEW pos \in Nat, NEW flags, NEW o \in 0 .. NO_SYMBOL_NUMBER - 1, NEW seen,
           q = Path(arc.target, pos, flags, Append(p.out, o), p.weight + arc.weight, seen)
    PROVE  PathSound(Len(stack) + 1, q)
  <1> DEFINE n == Len(stack)
             S == 0 .. NO_SYMBOL_NUMBER - 1
  <1>1. n \in Nat \ {0}
    BY DEF InLookup
  <1>2. /\ p.s \in States(graph) /\ p.weight \in Nat /\ p.out \in Seq(S) /\ Len(p.out) = n - 1
        /\ n <= MAX_RECURSION_DEPTH => p \in PathsBy[n - 1]
    BY DEF PathSound
  <1>3. arc.target \in States(graph) /\ arc.weight \in Nat
    BY <1>2, ArcNumbers DEF InLookup
  <1>4. /\ q.s = arc.target /\ q.pos = pos /\ q.out = Append(p.out, o)
        /\ q.weight = p.weight + arc.weight
    BY DEF Path
  <1> HIDE DEF n, S
  <1>5. q.out \in Seq(S) /\ Len(q.out) = (n + 1) - 1
    <2>1. o \in S
      BY DEF S
    <2>2. /\ Append(p.out, o) \in Seq(S) /\ Len(Append(p.out, o)) = n
      BY <1>1, <1>2, <2>1, AppendedOutput
    <2> QED
      BY <1>1, <1>4, <2>2, Predecessor
  <1>6. ASSUME n + 1 <= MAX_RECURSION_DEPTH PROVE q \in PathsBy[(n + 1) - 1]
    <2>1. /\ n - 1 \in Nat /\ (n - 1) + 1 = n /\ (n + 1) - 1 = n
          /\ (n - 1) + 1 < MAX_RECURSION_DEPTH /\ n <= MAX_RECURSION_DEPTH
      BY <1>1, <1>6, LookupAssumption
    <2>2. p \in PathsBy[n - 1]
      BY <1>2, <2>1
    <2>3. q \in PathsBy[(n - 1) + 1]
      BY <2>1, <2>2, PathExtended
    <2> QED
      BY <2>1, <2>3
  <1>7. q.weight \in Nat
    BY <1>2, <1>3, <1>4
  <1> QED
    BY <1>3, <1>4, <1>5, <1>6, <1>7 DEF PathSound, n, S

LEMMA NumbersAreNat == 0 .. NO_SYMBOL_NUMBER - 1 \subseteq Nat
  BY ConstantsAssumption

\* The output of the path is on the tape again when one symbol is appended.
LEMMA TapeExtended ==
    ASSUME NEW n \in Nat \ {0}, NEW tape \in Seq(Nat), NEW S, S \subseteq Nat, NEW o \in S,
           NEW p, OutputKept(tape, p), p.out \in Seq(S), Len(p.out) = n - 1
    PROVE  /\ Write(tape, n - 1, o) \in Seq(Nat) /\ Kept(tape, Write(tape, n - 1, o), n)
           /\ \A q : q.out = Append(p.out, o) => OutputKept(Write(tape, n - 1, o), q)
  <1> DEFINE i == n - 1
             new == Write(tape, i, o)
  <1>0. i = n - 1 /\ new = Write(tape, i, o)
    OBVIOUS
  <1> SUFFICES ASSUME NEW q, q.out = Append(p.out, o)
               PROVE  new \in Seq(Nat) /\ Kept(tape, new, n) /\ OutputKept(new, q)
    <2>1. \E q : q.out = Append(p.out, o)
      <3>1. [out |-> Append(p.out, o)].out = Append(p.out, o)
        OBVIOUS
      <3> QED
        BY <3>1
    <2> QED
      BY <2>1
  <1> HIDE DEF i, new
  <1>1. i \in Nat /\ i + 1 = n /\ o \in Nat
    BY <1>0, Predecessor
  <1>2. /\ new \in Seq(Nat) /\ Kept(tape, new, i + 1)
        /\ Len(new) >= i + 1 /\ new[i + 1] = o
    BY <1>0, <1>1, WriteFacts
  <1>3. /\ new \in Seq(Nat) /\ Kept(tape, new, n)
        /\ Len(new) >= n /\ new[n] = o
    BY <1>1, <1>2
  <1>4. /\ Len(Append(p.out, o)) = n
        /\ \A j \in 1 .. n : Append(p.out, o)[j] = IF j = n THEN o ELSE p.out[j]
    BY AppendedOutput
  <1>5. Len(q.out) = n /\ \A j \in 1 .. n : q.out[j] = IF j = n THEN o ELSE p.out[j]
    BY <1>4
  <1>6. \A j \in 1 .. n : j = n \/ (j \in 1 .. n - 1 /\ j # n)
    BY Predecessor
  <1>7. \A j \in 1 .. n - 1 : new[j] = p.out[j]
    <2>1. Len(tape) >= n - 1 /\ \A j \in 1 .. n - 1 : tape[j] = p.out[j]
      BY DEF OutputKept
    <2>2. Len(tape) \in Nat
      BY LenInNat
    <2>3. \A j \in 1 .. n - 1 : j <= Len(tape)
      BY <2>1, <2>2, Predecessor
    <2> QED
      BY <1>3, <2>1, <2>3 DEF Kept
  <1>8. \A j \in 1 .. n : new[j] = q.out[j]
    BY <1>3, <1>5, <1>6, <1>7
  <1> QED
    BY <1>3, <1>5, <1>8 DEF OutputKept

LEMMA CalledSound ==
    ASSUME NEW p, InLookup, AtPath(p), Top.stage \notin Calling,
           NEW k \in DOMAIN placeholders[p.s], NEW arc, arc = placeholders[p.s][k],
           Entry = TransitionEntry(arc), NEW q \in Extend(p, arc),
           NEW pos \in Nat, NEW flags, NEW o \in 0 .. NO_SYMBOL_NUMBER - 1, NEW seen,
           q = Path(arc.target, pos, flags, Append(p.out, o), p.weight + arc.weight, seen),
           NEW f, FrameSound(f, Len(stack), p), f.cursor = Top.cursor, f.stage \in Calling,
           f.stage # "after flag" => flags = p.flags,
           stack' = Append(Append(Front(stack), f), Frame(Entry.target, pos, f.out + 1)),
           output_tape' = Write(output_tape, f.out, o),
           current_weight' = current_weight + Entry.weight, flag_state' = flags
    PROVE  CallsFrom(p)
  <1> DEFINE n == Len(stack)
             g == Frame(Entry.target, pos, f.out + 1)
             tape == output_tape'
  <1>1. n \in Nat \ {0} /\ output_tape \in Seq(Nat) /\ n - 1 \in Nat /\ (n - 1) + 1 = n
    BY Predecessor DEF InLookup
  <1>2. /\ PathSound(n, p) /\ OutputKept(output_tape, p) /\ current_weight = p.weight
        /\ p.weight \in Nat /\ p.s \in States(graph)
        /\ p.out \in Seq(0 .. NO_SYMBOL_NUMBER - 1) /\ Len(p.out) = n - 1
    BY SamePathMembers DEF AtPath, Level, PathSound
  <1>3. PathSound(n + 1, q)
    BY <1>2, PathGoesOn
  <1>4. /\ q.s = arc.target /\ q.pos = pos /\ q.out = Append(p.out, o) /\ q.flags = flags
        /\ q.weight = p.weight + arc.weight
    BY DEF Path
  <1>5. Entry.target = StateAddress(arc.target) /\ Entry.weight = arc.weight
    BY DEF TransitionEntry, Transition
  <1>6. f.out = n - 1
    BY DEF FrameSound
  <1>7. tape \in Seq(Nat) /\ Kept(output_tape, tape, n) /\ OutputKept(tape, q)
    <2> DEFINE S == 0 .. NO_SYMBOL_NUMBER - 1
    <2>1. /\ n \in Nat \ {0} /\ output_tape \in Seq(Nat) /\ S \subseteq Nat /\ o \in S
          /\ tape = Write(output_tape, n - 1, o)
      BY <1>1, <1>6, NumbersAreNat
    <2>2. /\ OutputKept(output_tape, p) /\ p.out \in Seq(S) /\ Len(p.out) = n - 1
          /\ q.out = Append(p.out, o)
      BY <1>2, <1>4
    <2> HIDE DEF S, n, tape
    <2> QED
      BY <2>1, <2>2, TapeExtended
  <1>8. HasFields(g, Entry.target, pos, f.out + 1, "enter", 0, << >>, FALSE, NoFlags)
    BY NewFrameFields
  <1>9. stack' = Append(Append(Front(stack), f), g)
    OBVIOUS
  <1>10. p.weight + arc.weight \in Nat /\ arc.weight \in Nat
    <2>1. arc.weight \in Nat
      BY <1>2, ArcNumbers DEF InLookup
    <2> QED
      BY <1>2, <2>1, SumType
  <1> HIDE DEF n, g, tape
  <1>11. FrameSound(g, n + 1, q)
    <2>1. f.out + 1 = (n + 1) - 1
      BY <1>1, <1>6, Predecessor
    <2> QED
      BY <1>4, <1>5, <1>8, <2>1 DEF FrameSound, HasFields, Reading, Calling
  <1>13. Level(g, n + 1, q, tape)
    BY <1>3, <1>7, <1>11 DEF Level
  <1>14. GoesOnBy(f, p, q)
    BY <1>4, <1>5 DEF GoesOnBy, Entry
  <1>15. TopSound(g, q, current_weight', flag_state', found_transition')
    <2>1. g.stage \notin Calling /\ Untried(g, q, found_transition')
      BY <1>8 DEF HasFields, Calling, Untried
    <2>2. current_weight' = q.weight /\ flag_state' = q.flags /\ q.weight \in Nat
      BY <1>2, <1>4, <1>5, <1>10
    <2> QED
      BY <2>1, <2>2, RestingTop
  <1>16. TapeKept
    BY <1>7 DEF TapeKept, n, tape
  <1> QED
    BY <1>9, <1>13, <1>14, <1>15, <1>16 DEF CallsFrom, n, tape

LEMMA EpsilonCalls ==
    ASSUME NEW p, InLookup, AtPath(p), TryEpsilon
    PROVE  CallsFrom(p)
  <1> DEFINE n == Len(stack)
             f == [Top EXCEPT !.stage = "after epsilon"]
  <1>1. /\ Top.stage = "epsilons" /\ IsFrame(Top) /\ Entry.input = 0 /\ flag_state' = flag_state
        /\ stack' = Append(Append(Front(stack), f), Frame(Entry.target, Top.pos, f.out + 1))
        /\ output_tape' = Write(output_tape, f.out, Entry.output)
        /\ current_weight' = current_weight + Entry.weight
    BY DEF TryEpsilon, Call, InLookup
  <1>2. HasFields(f, Top.at, Top.pos, Top.out, "after epsilon", Top.cursor, Top.symbols,
                  Top.defaulted, Top.flags)
    BY <1>1, UpdatedFields
  <1> HIDE DEF f
  <1>3. /\ PathSound(n, p) /\ FrameSound(Top, n, p) /\ p.s \in States(graph) /\ p.pos \in Nat
        /\ flag_state = p.flags
    BY <1>1, SamePathMembers DEF AtPath, Level, PathSound, Calling
  <1>4. /\ Top.at = StateAddress(p.s) /\ Top.out = n - 1 /\ Top.pos = p.pos /\ ~ Top.defaulted
        /\ InBlock(p.s, Top.cursor)
    BY <1>1, <1>3 DEF FrameSound, Reading
  <1>5. 0 # NO_SYMBOL_NUMBER
    BY AlphabetSize DEF InLookup
  <1>6. PICK k \in DOMAIN placeholders[p.s] : Entry = TransitionEntry(placeholders[p.s][k])
    BY <1>1, <1>5, EntryArc
  <1> DEFINE arc == placeholders[p.s][k]
             q == Path(arc.target, p.pos, p.flags, Append(p.out, arc.output), p.weight + arc.weight,
                       p.seen \cup {<< p.s, p.flags >>})
  <1>7. arc.input = 0 /\ Entry.output = arc.output /\ arc.output \in 0 .. NO_SYMBOL_NUMBER - 1
    BY <1>1, <1>3, <1>6, ArcNumbers DEF TransitionEntry, Transition, InLookup
  <1> HIDE DEF arc
  <1>8. q \in Extend(p, arc)
    BY <1>7 DEF Extend
  <1>9. FrameSound(f, n, p)
    BY <1>2, <1>4 DEF FrameSound, HasFields, Reading, Calling
  <1>10. f.cursor = Top.cursor /\ f.stage = "after epsilon"
    BY <1>2 DEF HasFields
  <1> QED
    BY <1>1, <1>3, <1>4, <1>6, <1>7, <1>8, <1>9, <1>10, CalledSound DEF Calling, arc
LEMMA EpsilonNoFlag ==
    ASSUME WrittenInv, pc = "done"
    PROVE  0 \notin FlagSymbols
  <1>1. symbol_table[1] = Epsilon /\ Epsilon \notin FlagNames
    BY AlphabetSize, ConstantsAssumption
  <1>2. \A i \in 1 .. Len(symbol_table) : i - 1 = 0 => i = 1
    OBVIOUS
  <1> QED
    BY <1>1, <1>2 DEF FlagSymbols, NumbersOf

LEMMA FlagCalls ==
    ASSUME NEW p, InLookup, AtPath(p), TryFlag
    PROVE  CallsFrom(p)
  <1> DEFINE n == Len(stack)
             f == [Top EXCEPT !.stage = "after flag", !.flags = flag_state]
             op == OperationOf(Entry.input)
  <1>1. /\ Top.stage = "epsilons" /\ IsFrame(Top) /\ Entry.input \in FlagSymbols
        /\ Allowed(flag_state, op) /\ flag_state' = Apply(flag_state, op)
        /\ stack' = Append(Append(Front(stack), f), Frame(Entry.target, f.pos, f.out + 1))
        /\ output_tape' = Write(output_tape, f.out, Entry.output)
        /\ current_weight' = current_weight + Entry.weight
    BY DEF TryFlag, AtFlag, Call, InLookup
  <1>2. HasFields(f, Top.at, Top.pos, Top.out, "after flag", Top.cursor, Top.symbols,
                  Top.defaulted, flag_state)
    BY <1>1, UpdatedFields
  <1> HIDE DEF f
  <1>3. /\ PathSound(n, p) /\ FrameSound(Top, n, p) /\ p.s \in States(graph) /\ p.pos \in Nat
        /\ flag_state = p.flags
    BY <1>1, SamePathMembers DEF AtPath, Level, PathSound, Calling
  <1>4. /\ Top.at = StateAddress(p.s) /\ Top.out = n - 1 /\ Top.pos = p.pos /\ ~ Top.defaulted
        /\ InBlock(p.s, Top.cursor)
    BY <1>1, <1>3 DEF FrameSound, Reading
  <1>5. Entry.input # NO_SYMBOL_NUMBER /\ Entry.input # 0
    BY <1>1, FlagNumbers, EpsilonNoFlag DEF InLookup
  <1>6. PICK k \in DOMAIN placeholders[p.s] : Entry = TransitionEntry(placeholders[p.s][k])
    BY <1>1, <1>5, EntryArc
  <1> DEFINE arc == placeholders[p.s][k]
             flags == Apply(p.flags, op)
             seen == p.seen \cup {<< p.s, p.flags >>}
             q == Path(arc.target, p.pos, flags, Append(p.out, arc.output), p.weight + arc.weight, seen)
  <1>7. /\ arc.input = Entry.input /\ Entry.output = arc.output
        /\ arc.output \in 0 .. NO_SYMBOL_NUMBER - 1
    BY <1>1, <1>3, <1>6, ArcNumbers DEF TransitionEntry, Transition, InLookup
  <1> HIDE DEF arc
  <1>8. q \in Extend(p, arc)
    BY <1>1, <1>3, <1>5, <1>7 DEF Extend
  <1>9. FrameSound(f, n, p)
    BY <1>2, <1>3, <1>4 DEF FrameSound, HasFields, Reading, Calling
  <1>10. f.cursor = Top.cursor /\ f.stage = "after flag" /\ f.pos = p.pos
    BY <1>2, <1>4 DEF HasFields
  <1>11. /\ stack' = Append(Append(Front(stack), f), Frame(Entry.target, p.pos, f.out + 1))
         /\ flag_state' = flags /\ output_tape' = Write(output_tape, f.out, arc.output)
    BY <1>1, <1>3, <1>7, <1>10
  <1> HIDE DEF op, flags, seen
  <1> QED
    BY <1>1, <1>3, <1>6, <1>7, <1>8, <1>9, <1>10, <1>11, CalledSound DEF Calling, arc

\* The symbol that is tried at the transitions matches the input that was read.
LEMMA ReadMatches ==
    ASSUME NEW p, SymbolsRead(Top, p), NEW x \in ToSet(Top.symbols), NEW arc, arc.input = x
    PROVE  p.pos < Len(input_tape) /\ MatchesInput(p.s, arc, input_tape[p.pos + 1])
  BY DEF SymbolsRead, MatchesInput

LEMMA TransitionCalls ==
    ASSUME NEW p, InLookup, AtPath(p), TakeTransition
    PROVE  CallsFrom(p)
  <1> DEFINE n == Len(stack)
             f == [Top EXCEPT !.stage = "after transition"]
             x == Head(Top.symbols)
             out == OutputFor(Entry.output, Top.pos)
  <1>1. /\ Top.stage = "transitions" /\ IsFrame(Top) /\ Entry.input = x /\ flag_state' = flag_state
        /\ stack' = Append(Append(Front(stack), f), Frame(Entry.target, Top.pos, f.out + 1))
        /\ output_tape' = Write(output_tape, f.out, out)
        /\ current_weight' = current_weight + Entry.weight
        /\ Top.symbols # << >>
    BY DEF TakeTransition, Call, InLookup, FrameInv
  <1>2. HasFields(f, Top.at, Top.pos, Top.out, "after transition", Top.cursor, Top.symbols,
                  Top.defaulted, Top.flags)
    BY <1>1, UpdatedFields
  <1> HIDE DEF f
  <1>3. /\ PathSound(n, p) /\ FrameSound(Top, n, p) /\ p.s \in States(graph) /\ p.pos \in Nat
        /\ flag_state = p.flags
    BY <1>1, SamePathMembers DEF AtPath, Level, PathSound, Calling
  <1>4. /\ Top.at = StateAddress(p.s) /\ Top.out = n - 1 /\ Top.pos = p.pos + 1
        /\ InBlock(p.s, Top.cursor) /\ SymbolsRead(Top, p)
    BY <1>1, <1>3 DEF FrameSound, Reading
  <1>5. /\ x \in ToSet(Top.symbols) /\ x # 0 /\ x \notin FlagSymbols /\ x # NO_SYMBOL_NUMBER
    <2>1. /\ ToSet(Top.symbols) = {x} \cup ToSet(Tail(Top.symbols)) /\ Consuming(x)
          /\ x \in 0 .. NO_SYMBOL_NUMBER - 1 /\ x # 0
      BY <1>1, HeadConsuming
    <2>2. NO_SYMBOL_NUMBER \notin 0 .. NO_SYMBOL_NUMBER - 1
      BY ConstantsAssumption
    <2> QED
      BY <2>1, <2>2 DEF Consuming
  <1> HIDE DEF x
  <1>6. PICK k \in DOMAIN placeholders[p.s] : Entry = TransitionEntry(placeholders[p.s][k])
    BY <1>1, <1>5, EntryArc
  <1> DEFINE arc == placeholders[p.s][k]
             q == Path(arc.target, p.pos + 1, p.flags, Append(p.out, out), p.weight + arc.weight, {})
  <1>7. /\ arc.input = x /\ Entry.output = arc.output
        /\ arc.output \in 0 .. NO_SYMBOL_NUMBER - 1
    BY <1>1, <1>3, <1>6, ArcNumbers DEF TransitionEntry, Transition, InLookup
  <1>8. out = OutputFor(arc.output, p.pos + 1) /\ out \in 0 .. NO_SYMBOL_NUMBER - 1
    <2>1. p.pos + 1 \in 1 .. Len(input_tape)
      <3>1. Len(input_tape) \in Nat
        BY KnownTape DEF InLookup
      <3> QED
        BY <1>3, <1>4, <3>1 DEF SymbolsRead
    <2>2. OutputFor(arc.output, p.pos + 1) \in 0 .. NO_SYMBOL_NUMBER - 1
      BY <1>7, <2>1, OutputNumber DEF InLookup
    <2> QED
      BY <1>4, <1>7, <2>2
  <1> HIDE DEF arc, out
  <1>9. q \in Extend(p, arc)
    <2>1. p.pos < Len(input_tape) /\ MatchesInput(p.s, arc, input_tape[p.pos + 1])
      BY <1>4, <1>5, <1>7, ReadMatches
    <2>2. ~ (arc.input = 0 \/ arc.input \in FlagSymbols)
      BY <1>5, <1>7
    <2> QED
      BY <1>8, <2>1, <2>2 DEF Extend
  <1>10. FrameSound(f, n, p)
    BY <1>2, <1>4 DEF FrameSound, HasFields, Reading, Calling, SymbolsRead
  <1>11. f.cursor = Top.cursor /\ f.stage = "after transition" /\ p.pos + 1 \in Nat
    <2>1. p.pos + 1 \in Nat
      BY <1>3, SumType
    <2> QED
      BY <1>2, <2>1 DEF HasFields
  <1>12. stack' = Append(Append(Front(stack), f), Frame(Entry.target, p.pos + 1, f.out + 1))
    BY <1>1, <1>4
  <1>13. Top.stage \notin Calling
    BY <1>1 DEF Calling
  <1> QED
    BY <1>1, <1>3, <1>6, <1>8, <1>9, <1>10, <1>11, <1>12, <1>13, CalledSound DEF Calling, arc
-----------------------------------------------------------------------------
(* Every step of a lookup keeps the stack on a path.                        *)

LEMMA ReturnsKeepTape ==
    ASSUME NEW p, InLookup, AtPath(p), BackOut \/ NoMoreInput \/ LeaveState
    PROVE  TapeKept
  <1>1. CASE BackOut \/ NoMoreInput
    BY <1>1, TapeUnchanged DEF BackOut, NoMoreInput, pathVars
  <1>2. CASE LeaveState
    <2> DEFINE n == Len(stack)
    <2>1. Top.out = n - 1
      BY DEF AtPath, Level, FrameSound
    <2>2. n \in Nat \ {0} /\ output_tape \in Seq(Nat) /\ NO_SYMBOL_NUMBER \in Nat
      BY ConstantsAssumption DEF InLookup
    <2>3. output_tape' = Write(output_tape, n - 1, NO_SYMBOL_NUMBER)
      BY <1>2, <2>1 DEF LeaveState
    <2> HIDE DEF n
    <2>4. n - 1 \in Nat /\ (n - 1) + 1 = n
      BY <2>2, Predecessor
    <2>5. output_tape' \in Seq(Nat) /\ Kept(output_tape, output_tape', n)
      BY <2>2, <2>3, <2>4, WriteFacts
    <2> QED
      BY <2>5 DEF TapeKept, n
  <1> QED
    BY <1>1, <1>2

\* What a step does to the innermost call.
LEMMA StepAt ==
    ASSUME NEW p, InLookup, AtPath(p), GetAnalyses
    PROVE  /\ StaysAt(p) \/ CallsFrom(p) \/ (TapeKept /\ (BackOut \/ NoMoreInput \/ LeaveState))
           /\ lookup_paths' \subseteq lookup_paths \cup AllAnalyses
  <1>1. CASE EnterState
    BY <1>1, EnterStays
  <1>2. CASE ~ EnterState
    <2>1. lookup_paths' = lookup_paths
      BY <1>2 DEF GetAnalyses, BackOut, TryEpsilon, AfterEpsilon, TryFlag, SkipFlag,
           AfterFlag, EpsilonsDone, NoMoreInput, ReadInput, FindSymbol, TryDefault, LeaveState,
           TakeTransition, AfterTransition, TransitionsDone
    <2>2. StaysAt(p) \/ CallsFrom(p) \/ (TapeKept /\ (BackOut \/ NoMoreInput \/ LeaveState))
      BY <1>2, EpsilonCalls, FlagCalls, TransitionCalls, AfterCallStays, EpsilonsStay, ReadStays,
         FindStays, DefaultStays, TransitionsDoneStays, ReturnsKeepTape DEF GetAnalyses
    <2> QED
      BY <2>1, <2>2
  <1> QED
    BY <1>1, <1>2

LookupGoesOn ==
    /\ output_tape' \in Seq(Nat)
    /\ stack' # << >> => OnPath(stack', output_tape', current_weight', flag_state', found_transition')

LEMMA OnPathStays ==
    ASSUME NEW ps, InLookup,
           Sound(stack, ps, output_tape, current_weight, flag_state, found_transition),
           StaysAt(ps[Len(stack)])
    PROVE  LookupGoesOn
  <1>1. IsStack(stack) /\ stack # << >> /\ output_tape \in Seq(Nat)
    BY DEF InLookup, CallsInv
  <1>2. PICK f : /\ SetTop(f) /\ FrameSound(f, Len(stack), ps[Len(stack)])
                 /\ TopSound(f, ps[Len(stack)], current_weight', flag_state', found_transition')
    BY DEF StaysAt
  <1>3. output_tape' \in Seq(Nat) /\ Kept(output_tape, output_tape', Len(stack))
    BY DEF StaysAt, TapeKept
  <1>4. TopIs(stack, f, stack')
    BY <1>1, <1>2, StackSet DEF SetTop
  <1>5. OnPath(stack', output_tape', current_weight', flag_state', found_transition')
    BY <1>1, <1>2, <1>3, <1>4, SoundGoesOn
  <1> QED
    BY <1>3, <1>5 DEF LookupGoesOn

LEMMA OnPathCalls ==
    ASSUME NEW ps, InLookup,
           Sound(stack, ps, output_tape, current_weight, flag_state, found_transition),
           CallsFrom(ps[Len(stack)])
    PROVE  LookupGoesOn
  <1> DEFINE n == Len(stack)
  <1>1. IsStack(stack) /\ stack # << >> /\ output_tape \in Seq(Nat)
    BY DEF InLookup, CallsInv
  <1>2. PICK f, g, q :
          /\ stack' = Append(Append(Front(stack), f), g)
          /\ FrameSound(f, Len(stack), ps[Len(stack)]) /\ GoesOnBy(f, ps[Len(stack)], q)
          /\ Level(g, Len(stack) + 1, q, output_tape')
          /\ TopSound(g, q, current_weight', flag_state', found_transition')
    BY DEF CallsFrom
  <1>3. output_tape' \in Seq(Nat) /\ Kept(output_tape, output_tape', Len(stack))
    BY DEF CallsFrom, TapeKept
  <1>4. /\ Len(stack') = Len(stack) + 1 /\ stack'[Len(stack)] = f /\ stack'[Len(stack) + 1] = g
        /\ \A k \in 1 .. Len(stack) - 1 : stack'[k] = stack[k]
    <2> DEFINE m == Append(Front(stack), f)
    <2>1. TopIs(stack, f, m)
      BY <1>1, StackSet
    <2>2. stack' = Append(m, g)
      BY <1>2
    <2> HIDE DEF m
    <2>3. PushedOn(m, g, stack')
      BY <2>1, <2>2, StackPush DEF TopIs
    <2>4. n \in Nat \ {0}
      BY DEF InLookup
    <2>5. n \in 1 .. n /\ \A k \in 1 .. n - 1 : k \in 1 .. n
      BY <2>4
    <2> QED
      BY <2>1, <2>3, <2>5 DEF TopIs, PushedOn
  <1>5. OnPath(stack', output_tape', current_weight', flag_state', found_transition')
    BY <1>1, <1>2, <1>3, <1>4, SoundCall
  <1> QED
    BY <1>3, <1>5 DEF LookupGoesOn

LEMMA OnPathReturns ==
    ASSUME NEW ps, InLookup,
           Sound(stack, ps, output_tape, current_weight, flag_state, found_transition),
           TapeKept, BackOut \/ NoMoreInput \/ LeaveState
    PROVE  LookupGoesOn
  <1> DEFINE n == Len(stack)
  <1>1. /\ IsStack(stack) /\ stack # << >> /\ output_tape \in Seq(Nat) /\ Top = stack[n]
        /\ \A k \in 1 .. n - 1 : stack[k].stage \in Calling
        /\ n \in Nat \ {0}
    BY DEF InLookup, CallsInv
  <1>2. /\ Top.stage \notin Calling /\ stack' = Front(stack)
        /\ current_weight' = current_weight /\ flag_state' = flag_state
    BY ReturnShapes DEF Returns, Pop
  <1>3. output_tape' \in Seq(Nat) /\ Kept(output_tape, output_tape', n)
    BY DEF TapeKept
  <1>4. /\ Len(stack') = n - 1 /\ \A k \in 1 .. n - 1 : stack'[k] = stack[k]
        /\ stack' = << >> <=> n = 1
    BY <1>1, <1>2, StackPop
  <1>5. ASSUME stack' # << >>
        PROVE  OnPath(stack', output_tape', current_weight', flag_state', found_transition')
    <2>1. n # 1
      BY <1>4, <1>5
    <2>2. n - 1 \in 1 .. n - 1
      <3> HIDE DEF n
      <3> QED
        BY <1>1, <2>1
    <2>3. stack[n - 1].stage \in Calling
      BY <1>1, <2>2
    <2>4. ps[n].weight \in Int
      <3>1. n \in 1 .. n
        BY <1>1
      <3>2. Level(stack[n], n, ps[n], output_tape)
        BY <3>1 DEF Sound
      <3> QED
        BY <3>2 DEF Level, PathSound
    <2> DEFINE new == stack'
               tape == output_tape'
               found == found_transition'
    <2>5. OnPath(new, tape, current_weight, flag_state, found)
      <3>1. /\ Len(new) = n - 1 /\ \A k \in 1 .. n - 1 : new[k] = stack[k]
            /\ tape \in Seq(Nat) /\ Kept(output_tape, tape, n)
            /\ stack[n].stage \notin Calling
        BY <1>1, <1>2, <1>3, <1>4
      <3> HIDE DEF new, tape, found
      <3> QED
        BY <1>1, <2>1, <2>3, <2>4, <3>1, SoundReturn
    <2> QED
      BY <1>2, <2>5
  <1> QED
    BY <1>3, <1>5 DEF LookupGoesOn

LEMMA LookupSearchStep ==
    ASSUME InLookup, GetAnalyses,
           OnPath(stack, output_tape, current_weight, flag_state, found_transition)
    PROVE  LookupGoesOn /\ lookup_paths' \subseteq lookup_paths \cup AllAnalyses
  <1>1. PICK ps : Sound(stack, ps, output_tape, current_weight, flag_state, found_transition)
    BY DEF OnPath
  <1> DEFINE p == ps[Len(stack)]
  <1>2. AtPath(p)
    <2>1. Len(stack) \in 1 .. Len(stack) /\ Top = stack[Len(stack)]
      BY DEF InLookup
    <2> QED
      BY <1>1, <2>1 DEF Sound, AtPath
  <1> HIDE DEF p
  <1>3. /\ StaysAt(p) \/ CallsFrom(p) \/ (TapeKept /\ (BackOut \/ NoMoreInput \/ LeaveState))
        /\ lookup_paths' \subseteq lookup_paths \cup AllAnalyses
    BY <1>2, StepAt
  <1>4. LookupGoesOn
    BY <1>1, <1>3, OnPathStays, OnPathCalls, OnPathReturns DEF p
  <1> QED
    BY <1>3, <1>4
-----------------------------------------------------------------------------
(* A lookup begins at the start of all paths.                               *)

LEMMA StartKnown == MAX_RECURSION_DEPTH # 0 => StartPath \in PathsBy[0]
  BY PathsUnfold

LEMMA NoOutput == << >> \in Seq(0 .. NO_SYMBOL_NUMBER - 1) /\ Len(<< >>) = 0
  OBVIOUS

LEMMA StartSound ==
    ASSUME WrittenInv, RootInv, pc = "done",
           MAX_RECURSION_DEPTH # 0 => StartPath \in PathsBy[0],
           NEW f, f = Frame(0, 0, 0), NEW st, st = << f >>, NEW tape \in Seq(Nat), NEW found
    PROVE  OnPath(st, tape, 0, NoFlags, found)
  <1> DEFINE p == StartPath
             ps == [k \in 1 .. 1 |-> p]
  <1>1. HasFields(f, 0, 0, 0, "enter", 0, << >>, FALSE, NoFlags)
    BY NewFrameFields
  <1>2. p.s = 0 /\ p.pos = 0 /\ p.flags = NoFlags /\ p.out = << >> /\ p.weight = 0
    BY DEF StartPath, Path
  <1>3. 0 \in States(graph) /\ StateAddress(0) = 0
    <2>1. graph.size \in Nat \ {0} /\ States(graph) = 0 .. graph.size - 1
      BY AtTheEnd DEF States
    <2>2. it = graph.size
      BY DEF WrittenInv
    <2>3. ~ SimpleState(0) /\ start_index[0] = 0
      BY <2>1, <2>2 DEF RootInv, SimpleState, IsSimple
    <2> QED
      BY <2>1, <2>3 DEF StateAddress
  <1> HIDE DEF p
  <1>4. PathSound(1, p)
    <2>1. 1 - 1 = 0 /\ (1 <= MAX_RECURSION_DEPTH => MAX_RECURSION_DEPTH # 0)
      BY LookupAssumption
    <2>2. 1 <= MAX_RECURSION_DEPTH => p \in PathsBy[1 - 1]
      BY <2>1 DEF p
    <2> QED
      BY <1>2, <1>3, <2>1, <2>2, NoOutput DEF PathSound
  <1>5. FrameSound(f, 1, p)
    <2>1. 0 = 1 - 1
      OBVIOUS
    <2> QED
      BY <1>1, <1>2, <1>3, <2>1 DEF FrameSound, HasFields, Reading, Calling
  <1>6. OutputKept(tape, p)
    <2>1. Len(tape) \in Nat /\ Len(p.out) = 0
      BY <1>2, LenInNat
    <2> QED
      BY <2>1 DEF OutputKept
  <1>7. TopSound(f, p, 0, NoFlags, found)
    <2>1. f.stage \notin Calling /\ Untried(f, p, found)
      BY <1>1, <1>2 DEF HasFields, Calling, Untried
    <2>2. 0 \in Nat
      OBVIOUS
    <2> QED
      BY <1>2, <2>1, <2>2, RestingTop
  <1>8. /\ Len(st) = 1 /\ st[1] = f /\ ps[1] = p
        /\ (\A k \in 1 .. 1 : k = 1) /\ 1 .. 1 - 1 = {}
    OBVIOUS
  <1> HIDE DEF ps
  <1>9. Level(f, 1, p, tape)
    BY <1>4, <1>5, <1>6 DEF Level
  <1>10. Sound(st, ps, tape, 0, NoFlags, found)
    BY <1>7, <1>8, <1>9 DEF Sound
  <1> QED
    BY <1>10 DEF OnPath

Starting ==
    /\ WrittenInv /\ RootInv /\ pc = "done"
    /\ stack = << Frame(0, 0, 0) >> /\ output_tape \in Seq(Nat)
    /\ current_weight = 0 /\ flag_state = NoFlags

LEMMA StartsSound ==
    Starting => OnPath(stack, output_tape, current_weight, flag_state, found_transition)
  BY StartKnown, StartSound DEF Starting

LEMMA NextStartsSound ==
    (Starting => OnPath(stack, output_tape, current_weight, flag_state, found_transition))'
  BY StartsSound, PTL
-----------------------------------------------------------------------------
(* The invariant holds in every state of the lookup.                        *)

LEMMA InitSound == LookupInit => SoundInv
  BY DEF LookupInit, Init, SoundInv

LEMMA BuildSound == LookupInv /\ SoundInv /\ Building => SoundInv'
  <1> SUFFICES ASSUME LookupInv, SoundInv, Building PROVE SoundInv'
    OBVIOUS
  <1>1. /\ pc \notin {"done", "undefined"} /\ stack = << >>
        /\ UNCHANGED << calls, output_tape, stack >>
    BY DEF LookupInv, Building, lookupVars, callVars, pathVars
  <1>2. calls = 0 /\ output_tape = << >>
    BY <1>1 DEF SoundInv
  <1>3. << >> \in Seq(Nat) /\ 0 \in Nat /\ ~ (0 > 0)
    OBVIOUS
  <1> QED
    BY <1>1, <1>2, <1>3 DEF SoundInv

LEMMA StartKeepsSound == LookupInv /\ FlagsInv /\ SoundInv /\ LookupFd => SoundInv'
  <1> SUFFICES ASSUME LookupInv, FlagsInv, SoundInv, LookupFd PROVE SoundInv'
    OBVIOUS
  <1>1. /\ pc = "done" /\ stack = << >> /\ stack' = << Frame(0, 0, 0) >>
        /\ calls' = calls + 1 /\ input_tape' \in InputTapes /\ lookup_paths' = {}
        /\ UNCHANGED << vars, current_weight, flag_state, output_tape >>
        /\ WrittenInv /\ RootInv
    BY DEF LookupFd, LookupInv
  <1>2. calls' \in Nat /\ calls' > 0
    BY <1>1 DEF SoundInv
  <1>3. pc' = "done"
    BY <1>1 DEF vars
  <1>4. ASSUME Addressable'
        PROVE  /\ output_tape' \in Seq(Nat) /\ (input_tape \in InputTapes)'
               /\ OnPath(stack, output_tape, current_weight, flag_state, found_transition)'
    <2>1. Addressable
      BY <1>1, <1>4 DEF vars, tableVars, Addressable
    <2>2. current_weight = 0 /\ flag_state = NoFlags
      BY <1>1, <2>1, NothingLeft DEF LeavesNoTrace, Idle
    <2>3. output_tape' \in Seq(Nat)
      BY <1>1, <2>1 DEF SoundInv
    <2>4. (WrittenInv /\ RootInv)'
      <3>1. [Next]_vars
        BY <1>1
      <3> QED
        BY <1>1, <3>1, WrittenStep, RootStep
    <2>5. Starting'
      BY <1>1, <1>3, <2>2, <2>3, <2>4 DEF Starting, NoFlags, Frame
    <2>6. (input_tape \in InputTapes)'
      <3>1. InputTapes' = InputTapes
        BY <1>1 DEF InputTapes, orig_symbol_count, vars, symbolVars
      <3> QED
        BY <1>1, <3>1
    <2> QED
      BY <2>3, <2>5, <2>6, NextStartsSound
  <1> QED
    BY <1>1, <1>2, <1>3, <1>4 DEF SoundInv

\* The clock, a rejected input, the end.
Waiting ==
    /\ UNCHANGED << vars, stack, output_tape >>
    /\ \/ pc = "done" /\ stack = << >> /\ calls' = calls + 1 /\ lookup_paths' = {}
       \/ UNCHANGED << callVars, flag_state, current_weight, found_transition, lookup_paths >>

LEMMA WaitKeepsSound == SoundInv /\ Waiting => SoundInv'
  <1> SUFFICES ASSUME SoundInv, Waiting PROVE SoundInv'
    OBVIOUS
  <1>1. UNCHANGED << vars, stack, output_tape >> /\ (Addressable' <=> Addressable) /\ pc' = pc
    BY DEF Waiting, Addressable, vars, tableVars
  <1>2. CASE pc = "done" /\ stack = << >> /\ calls' = calls + 1 /\ lookup_paths' = {}
    BY <1>1, <1>2 DEF SoundInv
  <1>3. CASE UNCHANGED << callVars, flag_state, current_weight, found_transition, lookup_paths >>
    <2>1. SameObject
      BY <1>1, <1>3 DEF SameObject, vars, inputVars, symbolVars, packVars, tableVars, callVars
    <2>2. /\ AllAnalyses' = AllAnalyses
          /\ OnPath(stack, output_tape, current_weight, flag_state, found_transition)'
               <=> OnPath(stack, output_tape, current_weight, flag_state, found_transition)
      BY <1>1, <1>3, <2>1, SamePaths, SameSound
    <2>3. InputTapes' = InputTapes
      BY <1>1 DEF InputTapes, orig_symbol_count, vars, symbolVars
    <2> QED
      BY <1>1, <1>3, <2>2, <2>3 DEF SoundInv, callVars
  <1> QED
    BY <1>2, <1>3 DEF Waiting
LEMMA SearchKeepsSound == LookupInv /\ SoundInv /\ GetAnalyses => SoundInv'
  <1> SUFFICES ASSUME LookupInv, SoundInv, GetAnalyses PROVE SoundInv'
    OBVIOUS
  <1>1. /\ pc = "done" /\ stack # << >> /\ calls' = calls
        /\ pc' \in {"done", "undefined"}
        /\ UNCHANGED << inputVars, symbolVars, packVars, tableVars, input_tape >>
    BY DEF GetAnalyses, BackOut, EnterState, TryEpsilon, AfterEpsilon, TryFlag, SkipFlag, AtFlag,
           AfterFlag, EpsilonsDone, NoMoreInput, ReadInput, FindSymbol, TryDefault, LeaveState,
           TakeTransition, AfterTransition, TransitionsDone, Running, vars, callVars
  <1>2. calls \in Nat
    BY DEF SoundInv
  <1>3. ASSUME pc' = "done", Addressable'
        PROVE  /\ output_tape' \in Seq(Nat) /\ (lookup_paths \subseteq AllAnalyses)'
               /\ stack' # << >> =>
                    /\ calls > 0 /\ (input_tape \in InputTapes)'
                    /\ OnPath(stack, output_tape, current_weight, flag_state, found_transition)'
    <2>1. Addressable
      BY <1>1, <1>3 DEF tableVars, Addressable
    <2>2. /\ output_tape \in Seq(Nat) /\ calls > 0 /\ input_tape \in InputTapes
          /\ lookup_paths \subseteq AllAnalyses
          /\ OnPath(stack, output_tape, current_weight, flag_state, found_transition)
      BY <1>1, <2>1 DEF SoundInv
    <2>3. InLookup
      <3>1. WrittenInv /\ RootInv /\ CallsInv /\ PathInv
        BY <1>1, <2>1 DEF LookupInv
      <3>2. Readable
        BY <1>1, <2>1, <3>1, TablesReadable
      <3>3. Len(stack) \in Nat \ {0} /\ Top = stack[Len(stack)]
        BY <1>1, <3>1, StackFacts DEF CallsInv
      <3>4. IsFrame(Top) /\ FrameInv(Top)
        <4>1. Len(stack) \in 1 .. Len(stack)
          BY <3>3
        <4> QED
          BY <3>1, <3>3, <4>1 DEF CallsInv, PathInv
      <3> QED
        BY <1>1, <2>1, <2>2, <3>1, <3>2, <3>3, <3>4 DEF InLookup
    <2>4. LookupGoesOn /\ lookup_paths' \subseteq lookup_paths \cup AllAnalyses
      BY <2>2, <2>3, LookupSearchStep
    <2>5. SameObject
      BY <1>1 DEF SameObject, inputVars, symbolVars, packVars, tableVars
    <2>6. AllAnalyses' = AllAnalyses
      BY <2>5, SamePaths
    <2>7. InputTapes' = InputTapes /\ input_tape' = input_tape
      BY <1>1 DEF InputTapes, orig_symbol_count, symbolVars
    <2>8. stack' # << >> =>
            OnPath(stack, output_tape, current_weight, flag_state, found_transition)'
      BY <2>4, <2>5, SameSound DEF LookupGoesOn
    <2> QED
      BY <2>2, <2>4, <2>6, <2>7, <2>8 DEF LookupGoesOn
  <1> QED
    BY <1>1, <1>2, <1>3 DEF SoundInv

LEMMA SoundStep == LookupInv /\ FlagsInv /\ SoundInv /\ [LookupNext]_lookupAll => SoundInv'
  <1>1. Build => Building
    BY DEF Build, Building, Next, GetStatesAndSymbols, SkipSimpleState, PackState, PackingDone,
           WriteIndexTable, WriteTransitionTable
  <1>2. RejectInput \/ TimePasses \/ LookupEnded \/ UNCHANGED lookupAll => Waiting
    BY DEF RejectInput, TimePasses, LookupEnded, lookupAll, lookupVars, pathVars, Waiting
  <1> QED
    BY <1>1, <1>2, BuildSound, StartKeepsSound, WaitKeepsSound, SearchKeepsSound DEF LookupNext

LEMMA SoundInvariant == LookupSpec => []SoundInv
  <1>1. LookupInit => SoundInv
    BY InitSound
  <1>2. LookupInv /\ FlagsInv /\ SoundInv /\ [LookupNext]_lookupAll => SoundInv'
    BY SoundStep
  <1> QED
    BY <1>1, <1>2, LookupInvariant, PTL DEF LookupSpec

(* Every result of a lookup is the output and the weight of a path of the   *)
(* transducer that reads the whole input, with its flag diacritics applied, *)
(* whatever the tables, the recursion and its early returns, and whichever  *)
(* branches of the search wrote the output tape before: as long as the      *)
(* addresses of the tables fit.                                             *)
THEOREM ResultsSoundHolds == LookupSpec => [](Addressable => ResultsSound)
  <1>1. SoundInv => (Addressable => ResultsSound)
    BY DEF SoundInv, ResultsSound, Finished, Idle
  <1> QED
    BY <1>1, SoundInvariant, PTL

-----------------------------------------------------------------------------
(* A search for loops and the lookups before and after it on one Transducer *)
(* object leave nothing of their paths behind, also when the search ends by *)
(* its exception.                                                           *)

\* A frame that follows a flag transition.
IsFlagged(f) == f.stage = "after epsilon" /\ At(wtransition_table, f.cursor).input # 0

\* While no flag transition is being followed, the flag values are neutral, and
\* so are those a frame remembers for the transitions it follows.
SearchInv ==
    /\ IsStack(loop_stack)
    /\ \A k \in 1 .. Len(loop_stack) : IsFrame(loop_stack[k])
    /\ (\A k \in 1 .. Len(loop_stack) : ~ IsFlagged(loop_stack[k])) => flag_state = NoFlags
    /\ \A k \in 1 .. Len(loop_stack) :
         /\ loop_stack[k].stage \in {"epsilons", "after epsilon"}
         /\ \A j \in 1 .. k - 1 : ~ IsFlagged(loop_stack[j])
         => loop_stack[k].flags = NoFlags

LoopInv ==
    /\ LookupInv
    /\ loop_stack = << >> => FlagsInv
    /\ loop_stack # << >> => stack = << >> /\ SearchInv

-----------------------------------------------------------------------------
(* Steps of the search, as seen by the lookup.                              *)

Apart ==
    /\ pc = "done" /\ pc' \in {"done", "undefined"}
    /\ stack = << >>
    /\ UNCHANGED << inputVars, symbolVars, packVars, tableVars, stack, recursion_depth_left >>
    /\ current_weight' \in {current_weight, 0}
    /\ input_tape' \in Seq(Nat)

LEMMA ApartStep == LookupInv /\ Apart => LookupInv'
  <1> SUFFICES ASSUME LookupInv, Apart PROVE LookupInv'
    OBVIOUS
  <1>1. /\ pc = "done" /\ WrittenInv /\ RootInv /\ CallsInv
        /\ stack = << >> /\ stack' = << >> /\ Len(stack') = 0 /\ 1 .. Len(stack') = {}
    BY DEF Apart, LookupInv
  <1>2. pc' # "undefined" => (WrittenInv /\ RootInv)'
    <2> SUFFICES ASSUME pc' # "undefined" PROVE (WrittenInv /\ RootInv)'
      OBVIOUS
    <2>1. [Next]_vars
      BY DEF Apart, vars
    <2> QED
      BY <1>1, <2>1, WrittenStep, RootStep
  <1>3. CallsInv'
    BY <1>1 DEF Apart, CallsInv
  <1>4. Addressable' => PathInv'
    <2> SUFFICES ASSUME Addressable' PROVE PathInv'
      OBVIOUS
    <2>1. Addressable
      BY DEF Apart, Addressable, tableVars
    <2>2. PathInv
      BY <1>1, <2>1 DEF LookupInv
    <2>3. current_weight = 0
      BY <1>1, <2>2 DEF PathInv, SumOf
    <2>4. current_weight' = 0
      BY <2>3 DEF Apart
    <2>5. SumOf(wtransition_table', << >>, 0)
      BY SumEmpty
    <2> QED
      BY <1>1, <2>4, <2>5 DEF PathInv
  <1>5. pc' \in {"done", "undefined"}
    BY DEF Apart
  <1> QED
    BY <1>2, <1>3, <1>4, <1>5 DEF LookupInv

-----------------------------------------------------------------------------
(* The shapes of the steps of find_loop.                                    *)

SearchStep == Apart /\ loop_stack # << >>

SearchGoesOn ==
    /\ SearchStep
    /\ \E f : /\ IsFrame(f) /\ SetLoop(f)
              /\ f.stage # "after epsilon"
              /\ f.stage = "epsilons" =>
                   /\ Loop.stage \in {"enter", "epsilons", "after epsilon"}
                   /\ f.flags = IF Loop.stage = "enter" THEN flag_state ELSE Loop.flags
    /\ flag_state' = IF IsFlagged(Loop) THEN Loop.flags ELSE flag_state

SearchCalls ==
    /\ SearchStep
    /\ Loop.stage # "after epsilon"
    /\ \E f, g : /\ IsFrame(f) /\ IsFrame(g)
                 /\ loop_stack' = Append(Append(Front(loop_stack), f), g)
                 /\ g.stage = "enter"
                 /\ f.stage # "epsilons"
                 /\ f.stage = "after epsilon" => Loop.stage = "epsilons" /\ f.flags = Loop.flags
                 /\ ~ IsFlagged(f) => flag_state' = flag_state

SearchLeaves ==
    /\ SearchStep
    /\ Loop.stage # "after epsilon"
    /\ loop_stack' = Front(loop_stack)
    /\ flag_state' = flag_state

SearchEnds ==
    /\ SearchStep
    /\ loop_stack' = << >>
    /\ flag_state' = NoFlags

\* What these shapes need to be known of the state.
SearchReady ==
    /\ Searching => stack = << >> /\ IsStack(loop_stack) /\ IsFrame(Loop)
    /\ input_tape \in Seq(Nat)

LEMMA StepsApart == SearchReady /\ FindLoop => SearchStep
  BY DEF FindLoop, EnterLoopState, FoundLoop, FollowEpsilon, AfterLoopEpsilon, DisallowedFlag,
         LoopEpsilonsDone, LoopInputEnded, LoopReadInput, LoopFindSymbol, LoopTryDefault,
         LeaveLoopState, LoopTakeTransition, AfterLoopTransition, LoopTransitionsDone, Follows,
         SearchReady, Searching, SearchStep, Apart, vars, lookupOnly

LEMMA LeaveShapes == SearchReady /\ (LoopInputEnded \/ LeaveLoopState) => SearchLeaves
  BY StepsApart DEF FindLoop, LoopInputEnded, LeaveLoopState, ReturnFromLoop, SearchLeaves

LEMMA FoundShape == SearchReady /\ FoundLoop => SearchEnds
  BY StepsApart DEF FindLoop, FoundLoop, SearchEnds

LEMMA FollowShape == SearchReady /\ FollowEpsilon => SearchCalls
  <1> SUFFICES ASSUME SearchReady, FollowEpsilon PROVE SearchCalls
    OBVIOUS
  <1> DEFINE f == [Loop EXCEPT !.stage = "after epsilon"]
             g == Frame(LoopEntry.target, Loop.pos, 0)
  <1>1. IsFrame(Loop) /\ Loop.stage = "epsilons"
    BY DEF SearchReady, FollowEpsilon, Follows
  <1>2. Fields(f, Loop.at, Loop.pos, "after epsilon", Loop.cursor, Loop.symbols, Loop.flags)
    BY <1>1, NewFrames
  <1>3. Fields(g, LoopEntry.target, Loop.pos, "enter", 0, << >>, NoFlags)
    BY FirstFrame
  <1>4. /\ loop_stack' = Append(Append(Front(loop_stack), f), g)
        /\ LoopEntry.input = 0 => flag_state' = flag_state
    BY DEF FollowEpsilon
  <1>5. SearchStep
    BY StepsApart DEF FindLoop
  <1> HIDE DEF f, g
  <1> QED
    BY <1>1, <1>2, <1>3, <1>4, <1>5 DEF SearchCalls, Fields, IsFlagged, LoopEntry

LEMMA TakeShape == SearchReady /\ LoopTakeTransition => SearchCalls
  <1> SUFFICES ASSUME SearchReady, LoopTakeTransition PROVE SearchCalls
    OBVIOUS
  <1> DEFINE f == [Loop EXCEPT !.stage = "after transition"]
             g == Frame(LoopEntry.target, Loop.pos, 0)
  <1>1. IsFrame(Loop) /\ Loop.stage = "transitions"
    BY DEF SearchReady, LoopTakeTransition
  <1>2. Fields(f, Loop.at, Loop.pos, "after transition", Loop.cursor, Loop.symbols, Loop.flags)
    BY <1>1, NewFrames
  <1>3. Fields(g, LoopEntry.target, Loop.pos, "enter", 0, << >>, NoFlags)
    BY FirstFrame
  <1>4. loop_stack' = Append(Append(Front(loop_stack), f), g) /\ flag_state' = flag_state
    BY DEF LoopTakeTransition
  <1>5. SearchStep
    BY StepsApart DEF FindLoop
  <1> HIDE DEF f, g
  <1> QED
    BY <1>1, <1>2, <1>3, <1>4, <1>5 DEF SearchCalls, Fields

LEMMA EnterShape == SearchReady /\ EnterLoopState => SearchGoesOn
  <1> SUFFICES ASSUME SearchReady, EnterLoopState PROVE SearchGoesOn
    OBVIOUS
  <1> DEFINE start == FindIndex(windex_table, Loop.at, 0)
             c == CHOOSE x \in start : TRUE
  <1>1. IsFrame(Loop) /\ Loop.stage = "enter" /\ ~ IsFlagged(Loop) /\ flag_state' = flag_state
    BY DEF SearchReady, EnterLoopState, IsFlagged
  <1>2. SearchStep
    BY StepsApart DEF FindLoop
  <1>3. IF start = {} THEN SetLoop([Loop EXCEPT !.stage = "input"])
        ELSE SetLoop([Loop EXCEPT !.stage = "epsilons", !.flags = flag_state, !.cursor = c])
    BY DEF EnterLoopState
  <1> HIDE DEF start, c
  <1>4. CASE start = {}
    <2> DEFINE f == [Loop EXCEPT !.stage = "input"]
    <2>1. Fields(f, Loop.at, Loop.pos, "input", Loop.cursor, Loop.symbols, Loop.flags)
      BY <1>1, NewFrames
    <2>2. SetLoop(f)
      BY <1>3, <1>4
    <2> HIDE DEF f
    <2> QED
      BY <1>1, <1>2, <2>1, <2>2 DEF SearchGoesOn, Fields
  <1>5. CASE start # {}
    <2> DEFINE h == [Loop EXCEPT !.stage = "epsilons", !.flags = flag_state]
               f == [h EXCEPT !.cursor = c]
    <2>1. Fields(h, Loop.at, Loop.pos, "epsilons", Loop.cursor, Loop.symbols, flag_state)
      BY <1>1, NewFrames
    <2>2. [Loop EXCEPT !.stage = "epsilons", !.flags = flag_state, !.cursor = c] = f
      OBVIOUS
    <2> HIDE DEF h
    <2>3. Fields(f, h.at, h.pos, h.stage, c, h.symbols, h.flags)
      <3>1. IsFrame(h)
        BY <2>1 DEF Fields
      <3> QED
        BY <3>1, NewFrames
    <2> HIDE DEF f
    <2>4. SetLoop(f)
      BY <1>3, <1>5, <2>2
    <2>5. IsFrame(f) /\ f.stage = "epsilons" /\ f.flags = flag_state
      BY <2>1, <2>3 DEF Fields
    <2> QED
      BY <1>1, <1>2, <2>4, <2>5 DEF SearchGoesOn
  <1> QED
    BY <1>4, <1>5

LEMMA AfterFollowShape == SearchReady /\ AfterLoopEpsilon => SearchGoesOn
  <1> SUFFICES ASSUME SearchReady, AfterLoopEpsilon PROVE SearchGoesOn
    OBVIOUS
  <1> DEFINE f == [Loop EXCEPT !.stage = "epsilons", !.cursor = Loop.cursor + 1]
  <1>1. IsFrame(Loop) /\ Loop.stage = "after epsilon"
    BY DEF SearchReady, AfterLoopEpsilon
  <1>2. Fields(f, Loop.at, Loop.pos, "epsilons", Loop.cursor + 1, Loop.symbols, Loop.flags)
    BY <1>1, NewFrames
  <1>3. SetLoop(f) /\ flag_state' = IF LoopEntry.input = 0 THEN flag_state ELSE Loop.flags
    BY DEF AfterLoopEpsilon
  <1>4. SearchStep
    BY StepsApart DEF FindLoop
  <1> HIDE DEF f
  <1> QED
    BY <1>1, <1>2, <1>3, <1>4 DEF SearchGoesOn, Fields, IsFlagged, LoopEntry

LEMMA DisallowedShape == SearchReady /\ DisallowedFlag => SearchGoesOn
  <1> SUFFICES ASSUME SearchReady, DisallowedFlag PROVE SearchGoesOn
    OBVIOUS
  <1> DEFINE f == [Loop EXCEPT !.cursor = Loop.cursor + 1]
  <1>1. IsFrame(Loop) /\ Loop.stage = "epsilons"
    BY DEF SearchReady, DisallowedFlag
  <1>2. Fields(f, Loop.at, Loop.pos, "epsilons", Loop.cursor + 1, Loop.symbols, Loop.flags)
    BY <1>1, NewFrames
  <1>3. SetLoop(f) /\ flag_state' = flag_state
    BY DEF DisallowedFlag
  <1>4. SearchStep
    BY StepsApart DEF FindLoop
  <1> HIDE DEF f
  <1> QED
    BY <1>1, <1>2, <1>3, <1>4 DEF SearchGoesOn, Fields, IsFlagged

\* The other steps leave the flags alone and go to a later part of find_loop.
LEMMA LaterShape ==
    ASSUME SearchStep, IsFrame(Loop), Loop.stage # "after epsilon", flag_state' = flag_state,
           NEW f, SetLoop(f), NEW a, NEW p, NEW s, s \notin {"epsilons", "after epsilon"},
           NEW c, NEW y, NEW h, Fields(f, a, p, s, c, y, h)
    PROVE  SearchGoesOn
  BY DEF SearchGoesOn, Fields, IsFlagged

LEMMA LaterShapes ==
    SearchReady /\ (LoopEpsilonsDone \/ LoopReadInput \/ LoopFindSymbol \/ LoopTryDefault
                    \/ AfterLoopTransition \/ LoopTransitionsDone) => SearchGoesOn
  <1> SUFFICES ASSUME SearchReady,
                      LoopEpsilonsDone \/ LoopReadInput \/ LoopFindSymbol \/ LoopTryDefault
                      \/ AfterLoopTransition \/ LoopTransitionsDone
               PROVE  SearchGoesOn
    OBVIOUS
  <1>1. /\ IsFrame(Loop) /\ Loop.stage # "after epsilon" /\ flag_state' = flag_state
    BY DEF SearchReady, LoopEpsilonsDone, LoopReadInput, LoopFindSymbol, LoopTryDefault,
           AfterLoopTransition, LoopTransitionsDone, Searching
  <1>2. SearchStep
    BY StepsApart DEF FindLoop
  <1>3. CASE LoopEpsilonsDone
    <2> DEFINE f == [Loop EXCEPT !.stage = "input"]
    <2>1. SetLoop(f) /\ Fields(f, Loop.at, Loop.pos, "input", Loop.cursor, Loop.symbols, Loop.flags)
      BY <1>1, <1>3, NewFrames DEF LoopEpsilonsDone
    <2> HIDE DEF f
    <2> QED
      BY <1>1, <1>2, <2>1, LaterShape
  <1>4. CASE LoopReadInput
    <2> DEFINE y == << input_tape[Loop.pos + 1] >>
               f == [Loop EXCEPT !.stage = "find", !.pos = Loop.pos + 1, !.symbols = y]
    <2>1. SetLoop(f)
      BY <1>4 DEF LoopReadInput
    <2> HIDE DEF y
    <2>2. Fields(f, Loop.at, Loop.pos + 1, "find", Loop.cursor, y, Loop.flags)
      BY <1>1, NewFrames
    <2> HIDE DEF f
    <2> QED
      BY <1>1, <1>2, <2>1, <2>2, LaterShape
  <1>5. CASE LoopFindSymbol
    <2> DEFINE x == Head(Loop.symbols)
               outside == ~ IndexesTransitionTable(Loop.at) /\ Loop.at + 1 + x >= Len(windex_table)
               start == IF outside THEN {} ELSE FindIndex(windex_table, Loop.at, x)
               c == CHOOSE e \in start : TRUE
    <2>1. /\ Loop.stage = "find"
          /\ IF start = {} THEN SetLoop([Loop EXCEPT !.symbols = Tail(Loop.symbols)])
             ELSE SetLoop([Loop EXCEPT !.stage = "transitions", !.cursor = c])
      BY <1>5 DEF LoopFindSymbol
    <2> HIDE DEF start, c
    <2>2. CASE start = {}
      <3> DEFINE f == [Loop EXCEPT !.symbols = Tail(Loop.symbols)]
      <3>1. SetLoop(f)
        BY <2>1, <2>2
      <3>2. Fields(f, Loop.at, Loop.pos, Loop.stage, Loop.cursor, Tail(Loop.symbols), Loop.flags)
        BY <1>1, NewFrames
      <3> HIDE DEF f
      <3>3. Loop.stage \notin {"epsilons", "after epsilon"}
        BY <2>1
      <3> QED
        BY <1>1, <1>2, <3>1, <3>2, <3>3, LaterShape
    <2>3. CASE start # {}
      <3> DEFINE f == [Loop EXCEPT !.stage = "transitions", !.cursor = c]
      <3>1. SetLoop(f)
        BY <2>1, <2>3
      <3>2. Fields(f, Loop.at, Loop.pos, "transitions", c, Loop.symbols, Loop.flags)
        BY <1>1, NewFrames
      <3> HIDE DEF f
      <3> QED
        BY <1>1, <1>2, <3>1, <3>2, LaterShape
    <2> QED
      BY <2>2, <2>3
  <1>6. CASE LoopTryDefault
    <2> DEFINE y == << SpecialSymbol(DefaultName) >>
               f == [Loop EXCEPT !.symbols = y, !.defaulted = TRUE]
    <2>1. SetLoop(f) /\ Loop.stage \notin {"epsilons", "after epsilon"}
      BY <1>6 DEF LoopTryDefault
    <2> HIDE DEF y
    <2>2. Fields(f, Loop.at, Loop.pos, Loop.stage, Loop.cursor, y, Loop.flags)
      BY <1>1, NewFrames
    <2> HIDE DEF f
    <2> QED
      BY <1>1, <1>2, <2>1, <2>2, LaterShape
  <1>7. CASE AfterLoopTransition
    <2> DEFINE f == [Loop EXCEPT !.stage = "transitions", !.cursor = Loop.cursor + 1]
    <2>1. SetLoop(f)
      BY <1>7 DEF AfterLoopTransition
    <2>2. Fields(f, Loop.at, Loop.pos, "transitions", Loop.cursor + 1, Loop.symbols, Loop.flags)
      BY <1>1, NewFrames
    <2> HIDE DEF f
    <2> QED
      BY <1>1, <1>2, <2>1, <2>2, LaterShape
  <1>8. CASE LoopTransitionsDone
    <2> DEFINE f == [Loop EXCEPT !.stage = "find", !.symbols = Tail(Loop.symbols)]
    <2>1. SetLoop(f)
      BY <1>8 DEF LoopTransitionsDone
    <2>2. Fields(f, Loop.at, Loop.pos, "find", Loop.cursor, Tail(Loop.symbols), Loop.flags)
      BY <1>1, NewFrames
    <2> HIDE DEF f
    <2> QED
      BY <1>1, <1>2, <2>1, <2>2, LaterShape
  <1> QED
    BY <1>3, <1>4, <1>5, <1>6, <1>7, <1>8

LEMMA SearchShapes ==
    SearchReady /\ FindLoop => SearchGoesOn \/ SearchCalls \/ SearchLeaves \/ SearchEnds
  BY LeaveShapes, FoundShape, FollowShape, TakeShape, EnterShape, AfterFollowShape,
     DisallowedShape, LaterShapes DEF FindLoop

-----------------------------------------------------------------------------
(* The flags of the search.                                                 *)

LEMMA SearchFlags ==
    ASSUME SearchInv, SearchGoesOn \/ SearchCalls \/ SearchLeaves
    PROVE  SearchInv' /\ (loop_stack' = << >> => flag_state' = NoFlags)
  <1> DEFINE n == Len(loop_stack)
             wt == wtransition_table
             Flagged(f) == f.stage = "after epsilon" /\ At(wt, f.cursor).input # 0
             Neutral(f) == f.stage \in {"epsilons", "after epsilon"} => f.flags = NoFlags
             old == loop_stack
             new == loop_stack'
  <1>1. /\ IsStack(old) /\ old # << >> /\ wtransition_table' = wt /\ NoFlags' = NoFlags
        /\ \A k \in 1 .. n : IsFrame(old[k])
    BY DEF SearchInv, SearchGoesOn, SearchCalls, SearchLeaves, SearchStep, Apart, tableVars, NoFlags
  <1>2. n \in Nat \ {0} /\ Loop = old[n]
    BY <1>1, StackTop DEF Loop
  <1>3. /\ (\A k \in 1 .. n : ~ Flagged(old[k])) => flag_state = NoFlags
        /\ \A k \in 1 .. n : (\A j \in 1 .. k - 1 : ~ Flagged(old[j])) => Neutral(old[k])
    BY DEF SearchInv, IsFlagged
  <1>4. Flagged(Loop) <=> IsFlagged(Loop)
    BY DEF IsFlagged
  <1>5. ASSUME IsStack(new), \A k \in 1 .. Len(new) : IsFrame(new[k]),
               (\A k \in 1 .. Len(new) : ~ Flagged(new[k])) => flag_state' = NoFlags,
               \A k \in 1 .. Len(new) : (\A j \in 1 .. k - 1 : ~ Flagged(new[j])) => Neutral(new[k])
        PROVE  SearchInv'
    BY <1>1, <1>5 DEF SearchInv, IsFlagged, At
  <1> HIDE DEF n
  <1>6. /\ \A k \in 1 .. n : k \in 1 .. n - 1 \/ k = n
        /\ \A k \in 1 .. n - 1 : k \in 1 .. n /\ \A j \in 1 .. k - 1 : j \in 1 .. n - 1
        /\ \A k \in 1 .. n - 1 : k \in 1 .. n + 1
        /\ \A k \in 1 .. n + 1 : k \in 1 .. n - 1 \/ k = n \/ k = n + 1
        /\ n \in 1 .. n /\ n \in 1 .. n + 1 /\ n + 1 - 1 = n
    BY <1>2
  <1> DEFINE clear == \A k \in 1 .. n - 1 : ~ Flagged(old[k])
  <1>7. /\ clear => Neutral(Loop)
        /\ clear /\ ~ Flagged(Loop) => flag_state = NoFlags
    <2> HIDE DEF Flagged, Neutral
    <2>1. clear => Neutral(Loop)
      BY <1>2, <1>3, <1>6
    <2>2. clear /\ ~ Flagged(Loop) => \A k \in 1 .. n : ~ Flagged(old[k])
      BY <1>2, <1>6
    <2> QED
      BY <1>3, <2>1, <2>2
  <1>8. ASSUME \A k \in 1 .. n - 1 : new[k] = old[k]
        PROVE  /\ (\A k \in 1 .. n - 1 : ~ Flagged(new[k])) => clear
               /\ \A k \in 1 .. n - 1 :
                    (\A j \in 1 .. k - 1 : ~ Flagged(new[j])) => Neutral(new[k])
    <2> HIDE DEF Flagged, Neutral
    <2>1. (\A k \in 1 .. n - 1 : ~ Flagged(new[k])) => clear
      BY <1>8
    <2>2. ASSUME NEW k \in 1 .. n - 1, \A j \in 1 .. k - 1 : ~ Flagged(new[j])
          PROVE  Neutral(new[k])
      <3>1. \A j \in 1 .. k - 1 : ~ Flagged(old[j])
        BY <1>6, <1>8, <2>2
      <3> QED
        BY <1>3, <1>6, <1>8, <3>1
    <2> QED
      BY <2>1, <2>2
  <1>9. CASE SearchGoesOn
    <2>1. PICK f : /\ IsFrame(f) /\ SetLoop(f)
                   /\ f.stage # "after epsilon"
                   /\ f.stage = "epsilons" =>
                        /\ Loop.stage \in {"enter", "epsilons", "after epsilon"}
                        /\ f.flags = IF Loop.stage = "enter" THEN flag_state ELSE Loop.flags
      BY <1>9 DEF SearchGoesOn
    <2>2. TopIs(old, f, new)
      BY <1>1, <2>1, StackSet DEF SetLoop
    <2>3. /\ IsStack(new) /\ Len(new) = n /\ new # << >> /\ new[n] = f
          /\ \A k \in 1 .. n - 1 : new[k] = old[k]
      BY <2>2 DEF TopIs, n
    <2>4. flag_state' = IF Flagged(Loop) THEN Loop.flags ELSE flag_state
      BY <1>4, <1>9 DEF SearchGoesOn
    <2>5. clear => flag_state' = NoFlags /\ Neutral(f)
      BY <1>7, <2>1, <2>4
    <2> HIDE DEF Flagged, Neutral, clear, new, old
    <2>6. \A k \in 1 .. n : IsFrame(new[k])
      BY <1>1, <1>6, <2>1, <2>3
    <2>7. (\A k \in 1 .. n : ~ Flagged(new[k])) => clear
      BY <1>6, <1>8, <2>3
    <2>8. ASSUME NEW k \in 1 .. n, \A j \in 1 .. k - 1 : ~ Flagged(new[j])
          PROVE  Neutral(new[k])
      <3>1. CASE k = n
        BY <1>8, <2>3, <2>5, <2>8, <3>1
      <3>2. CASE k # n
        BY <1>6, <1>8, <2>3, <2>8, <3>2
      <3> QED
        BY <3>1, <3>2
    <2>9. SearchInv'
      BY <1>5, <2>3, <2>5, <2>6, <2>7, <2>8
    <2> QED
      BY <2>3, <2>9 DEF new
  <1>10. CASE SearchCalls
    <2>1. PICK f, g : /\ IsFrame(f) /\ IsFrame(g)
                      /\ new = Append(Append(Front(old), f), g)
                      /\ g.stage = "enter"
                      /\ f.stage # "epsilons"
                      /\ f.stage = "after epsilon" => Loop.stage = "epsilons" /\ f.flags = Loop.flags
                      /\ ~ Flagged(f) => flag_state' = flag_state
      BY <1>10 DEF SearchCalls, IsFlagged
    <2> DEFINE m == Append(Front(old), f)
    <2>2. TopIs(old, f, m)
      BY <1>1, StackSet
    <2>3. IsStack(m) /\ Len(m) = n /\ m[n] = f /\ \A k \in 1 .. n - 1 : m[k] = old[k]
      BY <2>2 DEF TopIs, n
    <2>4. new = Append(m, g)
      BY <2>1
    <2> HIDE DEF m
    <2>5. PushedOn(m, g, new)
      BY <2>3, <2>4, StackPush
    <2>6. /\ IsStack(new) /\ Len(new) = n + 1 /\ new # << >> /\ new[n] = f /\ new[n + 1] = g
          /\ \A k \in 1 .. n - 1 : new[k] = old[k]
      BY <1>6, <2>3, <2>5 DEF PushedOn
    <2>7. Loop.stage # "after epsilon"
      BY <1>10 DEF SearchCalls
    <2>8. /\ clear => Neutral(f)
          /\ clear /\ ~ Flagged(f) => flag_state' = NoFlags
          /\ Neutral(g) /\ ~ Flagged(g)
      BY <1>7, <2>1, <2>7
    <2> HIDE DEF Flagged, Neutral, clear, new, old
    <2>9. \A k \in 1 .. n + 1 : IsFrame(new[k])
      BY <1>1, <1>6, <2>1, <2>6
    <2>10. (\A k \in 1 .. n + 1 : ~ Flagged(new[k])) => clear /\ ~ Flagged(f)
      BY <1>6, <1>8, <2>6
    <2>11. ASSUME NEW k \in 1 .. n + 1, \A j \in 1 .. k - 1 : ~ Flagged(new[j])
           PROVE  Neutral(new[k])
      <3>1. CASE k = n
        BY <1>8, <2>6, <2>8, <2>11, <3>1
      <3>2. CASE k = n + 1
        BY <2>6, <2>8, <3>2
      <3>3. CASE k \in 1 .. n - 1
        BY <1>8, <2>6, <2>11, <3>3
      <3> QED
        BY <1>6, <3>1, <3>2, <3>3
    <2>12. SearchInv'
      BY <1>5, <2>6, <2>8, <2>9, <2>10, <2>11
    <2> QED
      BY <2>6, <2>12 DEF new
  <1>11. CASE SearchLeaves
    <2>1. /\ Loop.stage # "after epsilon" /\ new = Front(old) /\ flag_state' = flag_state
      BY <1>11 DEF SearchLeaves
    <2>2. /\ IsStack(new) /\ Len(new) = n - 1 /\ \A k \in 1 .. n - 1 : new[k] = old[k]
          /\ new = << >> <=> n = 1
      <3>1. /\ IsStack(loop_stack) /\ loop_stack # << >>
            /\ loop_stack' = Front(loop_stack)
        BY <1>1, <2>1
      <3>2. /\ IsStack(loop_stack') /\ Len(loop_stack') = Len(loop_stack) - 1
            /\ \A k \in 1 .. Len(loop_stack) - 1 : loop_stack'[k] = loop_stack[k]
            /\ loop_stack' = << >> <=> Len(loop_stack) = 1
        BY <3>1, StackPop
      <3> QED
        BY <3>2 DEF n
    <2>3. clear => flag_state' = NoFlags
      BY <1>7, <2>1
    <2> HIDE DEF Flagged, Neutral, clear, old
    <2>4. \A k \in 1 .. n - 1 : IsFrame(new[k])
      BY <1>1, <1>6, <2>2
    <2>5. (\A k \in 1 .. n - 1 : ~ Flagged(new[k])) => flag_state' = NoFlags
      BY <1>8, <2>2, <2>3
    <2>6. SearchInv'
      BY <1>5, <1>8, <2>2, <2>4, <2>5
    <2>7. new = << >> => flag_state' = NoFlags
      <3>1. n = 1 => 1 .. n - 1 = {}
        OBVIOUS
      <3> QED
        BY <2>2, <2>5, <3>1
    <2> QED
      BY <2>6, <2>7
  <1> QED
    BY <1>9, <1>10, <1>11

-----------------------------------------------------------------------------
(* Together.                                                                *)

LEMMA FlagsBetween ==
    ASSUME stack = << >>
    PROVE  FlagsInv <=> flag_state = NoFlags
  <1>1. Len(stack) = 0
    OBVIOUS
  <1> QED
    BY <1>1 DEF FlagsInv

LEMMA SearchKeeps == LoopInv /\ FindLoop => LoopInv'
  <1> SUFFICES ASSUME LoopInv, FindLoop PROVE LoopInv'
    OBVIOUS
  <1>1. Searching
    BY DEF FindLoop, EnterLoopState, FoundLoop, FollowEpsilon, AfterLoopEpsilon, DisallowedFlag,
           LoopEpsilonsDone, LoopInputEnded, LoopReadInput, LoopFindSymbol, LoopTryDefault,
           LeaveLoopState, LoopTakeTransition, AfterLoopTransition, LoopTransitionsDone, Follows
  <1>2. stack = << >> /\ SearchInv /\ LookupInv
    BY <1>1 DEF LoopInv, Searching
  <1>3. SearchReady
    <2>1. loop_stack # << >> /\ IsStack(loop_stack)
      BY <1>1, <1>2 DEF Searching, SearchInv
    <2>2. Len(loop_stack) \in Nat \ {0} /\ Loop = loop_stack[Len(loop_stack)]
      BY <2>1, StackTop DEF Loop
    <2>3. IsFrame(Loop)
      <3>1. Len(loop_stack) \in 1 .. Len(loop_stack)
        BY <2>2
      <3>2. \A k \in 1 .. Len(loop_stack) : IsFrame(loop_stack[k])
        BY <1>2 DEF SearchInv
      <3> QED
        BY <2>2, <3>1, <3>2
    <2> QED
      BY <1>2, <2>1, <2>3 DEF SearchReady, LookupInv, CallsInv
  <1>4. SearchGoesOn \/ SearchCalls \/ SearchLeaves \/ SearchEnds
    BY <1>3, SearchShapes
  <1>5. Apart
    BY <1>4 DEF SearchGoesOn, SearchCalls, SearchLeaves, SearchEnds, SearchStep
  <1>6. LookupInv'
    BY <1>2, <1>5, ApartStep
  <1>7. stack' = << >>
    BY <1>5 DEF Apart
  <1>8. loop_stack' = << >> => flag_state' = NoFlags
    BY <1>2, <1>4, SearchFlags DEF SearchEnds
  <1>9. loop_stack' # << >> => SearchInv'
    BY <1>2, <1>4, SearchFlags DEF SearchEnds
  <1>10. loop_stack' = << >> => FlagsInv'
    <2>1. Len(stack') = 0
      BY <1>7
    <2> QED
      BY <1>8, <2>1 DEF FlagsInv, NoFlags
  <1> QED
    BY <1>6, <1>7, <1>9, <1>10 DEF LoopInv

LEMMA StartSearchKeeps == LoopInv /\ (IsLookupInfinitelyAmbiguous \/ RejectSearch) => LoopInv'
  <1> SUFFICES ASSUME LoopInv, IsLookupInfinitelyAmbiguous \/ RejectSearch
               PROVE  LoopInv'
    OBVIOUS
  <1>1. /\ pc = "done" /\ stack = << >> /\ loop_stack = << >>
        /\ LookupInv /\ FlagsInv /\ WrittenInv
        /\ UNCHANGED << vars, stack, flag_state, current_weight, recursion_depth_left >>
    BY DEF IsLookupInfinitelyAmbiguous, RejectSearch, Idle, LoopInv, LookupInv, pathVars
  <1>2. input_tape' \in Seq(Nat)
    <2>1. CASE IsLookupInfinitelyAmbiguous
      BY <1>1, <2>1, TapeType DEF IsLookupInfinitelyAmbiguous
    <2>2. CASE RejectSearch
      BY <2>2, ConstantsAssumption DEF RejectSearch, Untokenizable
    <2> QED
      BY <2>1, <2>2
  <1>3. Apart
    BY <1>1, <1>2 DEF Apart, vars
  <1>4. LookupInv'
    BY <1>1, <1>3, ApartStep
  <1>5. flag_state = NoFlags
    BY <1>1, FlagsBetween
  <1>6. FlagsInv'
    BY <1>1 DEF FlagsInv, NoFlags
  <1>7. CASE IsLookupInfinitelyAmbiguous
    <2> DEFINE f == Frame(0, 0, 0)
    <2>1. loop_stack' = << f >>
      BY <1>7 DEF IsLookupInfinitelyAmbiguous
    <2>2. f.stage = "enter" /\ IsFrame(f)
      BY FirstFrame DEF Fields
    <2> HIDE DEF f
    <2>3. loop_stack' \in Seq({f}) /\ Len(loop_stack') = 1 /\ loop_stack'[1] = f /\ loop_stack' # << >>
      BY <2>1
    <2>4. \A k \in 1 .. Len(loop_stack') : loop_stack'[k] = f
      BY <2>3
    <2>5. flag_state' = NoFlags'
      BY <1>1, <1>5 DEF NoFlags
    <2>6. SearchInv'
      BY <2>2, <2>3, <2>4, <2>5 DEF SearchInv, IsStack
    <2> QED
      BY <1>1, <1>4, <2>3, <2>6 DEF LoopInv
  <1>8. CASE RejectSearch
    BY <1>1, <1>4, <1>6, <1>8 DEF LoopInv, RejectSearch
  <1> QED
    BY <1>7, <1>8

LEMMA LoopStep == LoopInv /\ [LoopNext]_loopAll => LoopInv'
  <1> SUFFICES ASSUME LoopInv, [LoopNext]_loopAll
               PROVE  LoopInv'
    OBVIOUS
  <1>1. CASE LookupStep
    <2>1. loop_stack = << >> /\ loop_stack' = << >> /\ [LookupNext]_lookupAll /\ LookupInv /\ FlagsInv
      BY <1>1 DEF LookupStep, LoopInv
    <2> QED
      BY <2>1, LookupStepKeeps, FlagsStepKeeps DEF LoopInv
  <1>2. CASE IsLookupInfinitelyAmbiguous \/ RejectSearch
    BY <1>2, StartSearchKeeps
  <1>3. CASE FindLoop
    BY <1>3, SearchKeeps
  <1>4. CASE LoopUndefined \/ UNCHANGED loopAll
    <2>1. UNCHANGED << lookupAll, loop_stack >>
      BY <1>4 DEF LoopUndefined, loopAll, loopVars
    <2>2. [LookupNext]_lookupAll
      BY <2>1
    <2>3. LookupInv' /\ (loop_stack' = << >> => FlagsInv')
      BY <2>1, <2>2, LookupStepKeeps, FlagsStepKeeps DEF LoopInv
    <2>4. loop_stack' # << >> => stack' = << >> /\ SearchInv'
      BY <2>1 DEF LoopInv, SearchInv, IsFlagged, At, NoFlags, lookupAll, lookupVars, pathVars,
                  vars, tableVars
    <2> QED
      BY <2>3, <2>4 DEF LoopInv
  <1> QED
    BY <1>1, <1>2, <1>3, <1>4 DEF LoopNext

LEMMA LoopInvariant == LoopSpec => []LoopInv
  <1>1. LoopInit => LoopInv
    BY InitLookup DEF LoopInit, LoopInv
  <1> QED
    BY <1>1, LoopStep, PTL DEF LoopSpec

(* Between calls on one Transducer object, lookups and searches for loops in *)
(* any order, the flag values, the weight and the depth are those of a new   *)
(* object: also when the search threw its way out of a path with flags set.  *)
THEOREM SearchLeavesNoTraceHolds == LoopSpec => [](Addressable => SearchLeavesNoTrace)
  <1>1. LoopInv => (Addressable => SearchLeavesNoTrace)
    BY NothingLeft DEF LoopInv, SearchLeavesNoTrace
  <1> QED
    BY <1>1, LoopInvariant, PTL

-----------------------------------------------------------------------------
(* What a search leaves of the results and of the members they are made of. *)

LEMMA FindLoopKeepsSound == SoundInv /\ stack = << >> /\ FindLoop => SoundInv'
  <1> SUFFICES ASSUME SoundInv, stack = << >>, FindLoop PROVE SoundInv'
    OBVIOUS
  <1>1. /\ pc = "done" /\ pc' \in {"done", "undefined"}
        /\ UNCHANGED << inputVars, symbolVars, packVars, tableVars, lookupOnly >>
    BY DEF FindLoop, EnterLoopState, FoundLoop, FollowEpsilon, AfterLoopEpsilon, DisallowedFlag,
           LoopEpsilonsDone, LoopInputEnded, LoopReadInput, LoopFindSymbol, LoopTryDefault,
           LeaveLoopState, LoopTakeTransition, AfterLoopTransition, LoopTransitionsDone, Follows,
           Searching, vars
  <1>2. /\ UNCHANGED << calls, input_tape, stack, output_tape, lookup_paths >>
        /\ (Addressable' <=> Addressable)
    BY <1>1 DEF lookupOnly, tableVars, Addressable
  <1>3. SameObject
    BY <1>1, <1>2 DEF SameObject, inputVars, symbolVars, packVars, tableVars
  <1>4. AllAnalyses' = AllAnalyses
    BY <1>3, SamePaths
  <1> QED
    BY <1>1, <1>2, <1>4 DEF SoundInv

\* A new call of either kind forgets the results of the one before.
LEMMA StartSearchKeepsSound ==
    SoundInv /\ (IsLookupInfinitelyAmbiguous \/ RejectSearch) => SoundInv'
  <1> SUFFICES ASSUME SoundInv, IsLookupInfinitelyAmbiguous \/ RejectSearch PROVE SoundInv'
    OBVIOUS
  <1>1. /\ pc = "done" /\ stack = << >> /\ calls' = calls + 1 /\ lookup_paths' = {}
        /\ UNCHANGED << vars, stack, output_tape >>
    BY DEF IsLookupInfinitelyAmbiguous, RejectSearch, Idle, pathVars
  <1>2. pc' = pc /\ (Addressable' <=> Addressable)
    BY <1>1 DEF vars, tableVars, Addressable
  <1> QED
    BY <1>1, <1>2 DEF SoundInv

LEMMA LoopSoundStep == LoopInv /\ SoundInv /\ [LoopNext]_loopAll => SoundInv'
  <1> SUFFICES ASSUME LoopInv, SoundInv, [LoopNext]_loopAll PROVE SoundInv'
    OBVIOUS
  <1>1. CASE LookupStep
    <2>1. [LookupNext]_lookupAll /\ LookupInv /\ FlagsInv
      BY <1>1 DEF LookupStep, LoopInv
    <2> QED
      BY <2>1, SoundStep
  <1>2. CASE IsLookupInfinitelyAmbiguous \/ RejectSearch
    BY <1>2, StartSearchKeepsSound
  <1>3. CASE FindLoop
    <2>1. loop_stack # << >>
      BY <1>3 DEF FindLoop, EnterLoopState, FoundLoop, FollowEpsilon, AfterLoopEpsilon,
           DisallowedFlag, LoopEpsilonsDone, LoopInputEnded, LoopReadInput, LoopFindSymbol,
           LoopTryDefault, LeaveLoopState, LoopTakeTransition, AfterLoopTransition,
           LoopTransitionsDone, Follows, Searching
    <2> QED
      BY <1>3, <2>1, FindLoopKeepsSound DEF LoopInv
  <1>4. CASE LoopUndefined \/ UNCHANGED loopAll
    <2>1. UNCHANGED lookupAll
      BY <1>4 DEF LoopUndefined, loopAll
    <2>2. Waiting
      BY <2>1 DEF Waiting, lookupAll, lookupVars, pathVars
    <2> QED
      BY <2>2, WaitKeepsSound
  <1> QED
    BY <1>1, <1>2, <1>3, <1>4 DEF LoopNext

(* Also with searches for loops between the lookups, on the same object and *)
(* with the same members, every result is the output and the weight of a    *)
(* path of the transducer.                                                  *)
THEOREM SoundAfterSearch == LoopSpec => [](Addressable => ResultsSound)
  <1>1. LoopInit => SoundInv
    BY InitSound DEF LoopInit
  <1>2. SoundInv => (Addressable => ResultsSound)
    BY DEF SoundInv, ResultsSound, Finished, Idle
  <1> QED
    BY <1>1, <1>2, LoopSoundStep, LoopInvariant, PTL DEF LoopSpec

=============================================================================

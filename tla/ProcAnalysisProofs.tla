------------------------- MODULE ProcAnalysisProofs -------------------------
(***************************************************************************)
(* Proofs about the analysis loop of hfst-proc: what the stream that moves *)
(* back and forth leaves of the input, and which word the remembered       *)
(* analyses belong to.                                                     *)
(***************************************************************************)
EXTENDS ProcAnalysis, SequenceTheorems, NaturalsInduction, WellFoundedInduction, TLAPS

-----------------------------------------------------------------------------
(* Concatenating the sequences of a sequence.                               *)

LEMMA LeastNumber ==
    ASSUME NEW T, T \subseteq Nat, T # {}
    PROVE  \E x \in T : \A y \in T : x <= y
  <1> DEFINE R == {ss \in Nat \X Nat : ss[1] < ss[2]}
  <1>1. IsWellFoundedOn(R, Nat)
    BY NatLessThanWellFounded DEF OpToRel
  <1> HIDE DEF R
  <1>2. PICK x \in T : \A y \in T : ~ (<< y, x >> \in R)
    BY <1>1, WFMin
  <1>3. \A y, z \in Nat : y < z => << y, z >> \in R
    BY DEF R
  <1>4. x \in Nat /\ \A y \in T : y \in Nat /\ ~ (y < x)
    BY <1>2, <1>3
  <1>5. \A y \in T : x <= y
    BY <1>4
  <1> QED
    BY <1>5

\* f lists what the first i sequences of s make together.
Joins(f, s) ==
    f = [i \in 1 .. Len(s) |-> IF i = 1 THEN s[i] ELSE f[i - 1] \o s[i]]

LEMMA FlattenIsChosen ==
    ASSUME NEW s
    PROVE  FlattenSeq(s) = IF Len(s) = 0 THEN s ELSE (CHOOSE f : Joins(f, s))[Len(s)]
  BY DEF FlattenSeq, Joins

LEMMA JoinsExist ==
    ASSUME NEW T, NEW s \in Seq(Seq(T))
    PROVE  \E f \in [1 .. Len(s) -> Seq(T)] : Joins(f, s)
  <1> DEFINE Good(m) == \E f \in [1 .. m -> Seq(T)] :
                          \A i \in 1 .. m : f[i] = IF i = 1 THEN s[i] ELSE f[i - 1] \o s[i]
             bad == {m \in 0 .. Len(s) : ~ Good(m)}
  <1>1. Good(0)
    <2> DEFINE e == [i \in 1 .. 0 |-> << >>]
    <2>1. e \in [1 .. 0 -> Seq(T)] /\ 1 .. 0 = {}
      OBVIOUS
    <2> HIDE DEF e
    <2> QED
      BY <2>1
  <1>2. SUFFICES Good(Len(s))
    <2>1. PICK f \in [1 .. Len(s) -> Seq(T)] :
            \A i \in 1 .. Len(s) : f[i] = IF i = 1 THEN s[i] ELSE f[i - 1] \o s[i]
      BY <1>2
    <2>2. f = [i \in 1 .. Len(s) |-> IF i = 1 THEN s[i] ELSE f[i - 1] \o s[i]]
      BY <2>1
    <2> QED
      BY <2>2 DEF Joins
  <1> HIDE DEF Good
  <1>3. SUFFICES ASSUME bad # {}
                 PROVE  FALSE
    OBVIOUS
  <1>4. PICK m \in bad : \A k \in bad : m <= k
    <2>1. bad \subseteq Nat
      OBVIOUS
    <2> HIDE DEF bad
    <2> QED
      BY <1>3, <2>1, LeastNumber
  <1>5. m \in 1 .. Len(s) /\ ~ Good(m) /\ m - 1 \in 0 .. Len(s)
    BY <1>1, <1>4
  <1>6. Good(m - 1)
    <2>1. m - 1 \notin bad
      BY <1>4, <1>5
    <2> QED
      BY <1>5, <2>1
  <1>7. PICK f \in [1 .. m - 1 -> Seq(T)] :
          \A i \in 1 .. m - 1 : f[i] = IF i = 1 THEN s[i] ELSE f[i - 1] \o s[i]
    BY <1>6 DEF Good
  <1> DEFINE last == IF m = 1 THEN s[m] ELSE f[m - 1] \o s[m]
             g == [i \in 1 .. m |-> IF i = m THEN last ELSE f[i]]
  <1>8. last \in Seq(T)
    <2>1. s[m] \in Seq(T)
      BY <1>5
    <2>2. m # 1 => f[m - 1] \in Seq(T)
      BY <1>5
    <2> QED
      BY <2>1, <2>2
  <1> HIDE DEF last
  <1>9. g \in [1 .. m -> Seq(T)] /\ g[m] = last
    BY <1>5, <1>8
  <1>10. \A i \in 1 .. m - 1 : i \in 1 .. m /\ i # m /\ g[i] = f[i]
    BY <1>5
  <1> HIDE DEF g
  <1>11. \A i \in 1 .. m : g[i] = IF i = 1 THEN s[i] ELSE g[i - 1] \o s[i]
    <2> TAKE i \in 1 .. m
    <2>1. CASE i = m
      <3>1. m # 1 => m - 1 \in 1 .. m - 1
        BY <1>5
      <3> QED
        BY <1>9, <1>10, <2>1, <3>1 DEF last
    <2>2. CASE i # m
      <3>1. i \in 1 .. m - 1 /\ (i # 1 => i - 1 \in 1 .. m - 1)
        BY <1>5, <2>2
      <3> QED
        BY <1>7, <1>10, <3>1
    <2> QED
      BY <2>1, <2>2
  <1> QED
    BY <1>5, <1>9, <1>11 DEF Good

SameStart(s, t) == Len(s) <= Len(t) /\ \A i \in 1 .. Len(s) : s[i] = t[i]

LEMMA JoinsUnique ==
    ASSUME NEW s, NEW t, NEW f, NEW g, Len(s) \in Nat, Len(t) \in Nat, SameStart(s, t),
           Joins(f, s), Joins(g, t)
    PROVE  \A i \in 1 .. Len(s) : f[i] = g[i]
  <1> DEFINE bad == {i \in 1 .. Len(s) : f[i] # g[i]}
  <1>1. SUFFICES ASSUME bad # {}
                 PROVE  FALSE
    OBVIOUS
  <1>2. PICK m \in bad : \A k \in bad : m <= k
    <2>1. bad \subseteq Nat
      OBVIOUS
    <2> HIDE DEF bad
    <2> QED
      BY <1>1, <2>1, LeastNumber
  <1>3. m \in 1 .. Len(s) /\ m \in 1 .. Len(t) /\ f[m] # g[m] /\ s[m] = t[m]
    BY <1>2 DEF SameStart
  <1>4. /\ f[m] = IF m = 1 THEN s[m] ELSE f[m - 1] \o s[m]
        /\ g[m] = IF m = 1 THEN t[m] ELSE g[m - 1] \o t[m]
    BY <1>3 DEF Joins
  <1>5. m # 1 => f[m - 1] = g[m - 1]
    BY <1>2, <1>3
  <1> QED
    BY <1>3, <1>4, <1>5

LEMMA FlattenAppend ==
    ASSUME NEW T, NEW s \in Seq(Seq(T)), NEW x \in Seq(T)
    PROVE  /\ FlattenSeq(s) \in Seq(T)
           /\ FlattenSeq(Append(s, x)) = FlattenSeq(s) \o x
  <1> DEFINE t == Append(s, x)
             f == CHOOSE h : Joins(h, s)
             g == CHOOSE h : Joins(h, t)
  <1>1. /\ t \in Seq(Seq(T)) /\ Len(t) = Len(s) + 1 /\ t[Len(t)] = x
        /\ Len(s) \in Nat /\ Len(t) \in Nat /\ SameStart(s, t) /\ SameStart(s, s)
        /\ \A i \in 1 .. Len(s) : s[i] = t[i]
    BY DEF SameStart
  <1> HIDE DEF t
  <1>2. Joins(f, s) /\ Joins(g, t)
    BY <1>1, JoinsExist
  <1>4. FlattenSeq(t) = g[Len(t)]
    BY <1>1, FlattenIsChosen
  <1>7. Len(s) # 0 => FlattenSeq(s) = f[Len(s)]
    BY FlattenIsChosen
  <1> HIDE DEF f, g
  <1>3. \A i \in 1 .. Len(s) : f[i] = g[i]
    <2>1. Len(s) \in Nat /\ Len(t) \in Nat /\ SameStart(s, t)
      BY <1>1
    <2> QED
      BY <1>2, <2>1, JoinsUnique
  <1>5. g[Len(t)] = IF Len(t) = 1 THEN t[1] ELSE g[Len(t) - 1] \o t[Len(t)]
    <2>1. Len(t) \in 1 .. Len(t)
      BY <1>1
    <2> QED
      BY <1>2, <2>1 DEF Joins
  <1>6. FlattenSeq(s) \in Seq(T) /\ FlattenSeq(t) = FlattenSeq(s) \o x
    <2>1. CASE Len(s) = 0
      <3>1. s = << >> /\ FlattenSeq(s) = s
        BY <2>1, FlattenIsChosen
      <3>2. Len(t) = 1 /\ FlattenSeq(t) = x
        BY <1>1, <1>4, <1>5, <2>1
      <3>3. x = << >> \o x /\ << >> \in Seq(T)
        OBVIOUS
      <3> QED
        BY <3>1, <3>2, <3>3
    <2>2. CASE Len(s) # 0
      <3>1. Len(s) \in 1 .. Len(s) /\ Len(t) # 1 /\ Len(t) - 1 = Len(s)
        BY <1>1, <2>2
      <3>2. PICK h \in [1 .. Len(s) -> Seq(T)] : Joins(h, s)
        BY JoinsExist
      <3>3. \A i \in 1 .. Len(s) : f[i] = h[i]
        BY <1>1, <1>2, <3>2, JoinsUnique
      <3>4. f[Len(s)] \in Seq(T)
        BY <3>1, <3>2, <3>3
      <3> QED
        BY <1>1, <1>3, <1>4, <1>5, <1>7, <2>2, <3>1, <3>4
    <2> QED
      BY <2>1, <2>2
  <1> QED
    BY <1>6 DEF t

-----------------------------------------------------------------------------
(* The token buffer.  In what follows n tokens of the text s were added.    *)

\* How many tokens will be read before anything is added.
Left(b) ==
    IF b.currentpos <= b.lastpos THEN b.lastpos - b.currentpos
                                 ELSE b.lastpos - b.currentpos + BufferSize

\* Where the token number j is, when it is among the last ones.
Slot(b, n, j) ==
    IF j > n - b.lastpos THEN j - 1 - (n - b.lastpos)
                         ELSE j - 1 - (n - b.lastpos) + BufferSize

BufferHolds(b, s, n) ==
    /\ b \in [buf : [0 .. BufferSize - 1 -> ToSet(s) \cup {NoToken}],
              currentpos : 0 .. BufferSize, lastpos : 0 .. BufferSize]
    /\ n \in 0 .. Len(s)
    /\ b.currentpos = 0 <=> n = 0
    /\ b.lastpos = 0 <=> n = 0
    /\ b.lastpos <= n
    /\ \A j \in 1 .. n : j > n - BufferSize => b.buf[Slot(b, n, j)] = s[j]

LEMMA EmptyHolds ==
    ASSUME NEW s, Len(s) \in Nat
    PROVE  BufferHolds(EmptyBuffer, s, 0) /\ Left(EmptyBuffer) = 0
  BY BufferSizeAssumption DEF BufferHolds, EmptyBuffer, Left

LEMMA LeftRange ==
    ASSUME NEW b, NEW s, NEW n, BufferHolds(b, s, n)
    PROVE  /\ Left(b) \in 0 .. BufferSize - 1
           /\ Left(b) = 0 <=> IsEmpty(b)
           /\ n # 0 => b.currentpos \in 1 .. BufferSize
  BY BufferSizeAssumption DEF BufferHolds, Left, IsEmpty

LEMMA AddHolds ==
    ASSUME NEW s, s \in Seq(ToSet(s)), NEW b, NEW n, BufferHolds(b, s, n), IsEmpty(b), n < Len(s)
    PROVE  LET c == Add(b, s[n + 1])
           IN  /\ BufferHolds(c, s, n + 1)
               /\ Left(c) = 0
               /\ c.currentpos = Index(b.currentpos) + 1
  <1> DEFINE c == Add(b, s[n + 1])
             i == Index(b.lastpos)
  <1>1. /\ b.buf \in [0 .. BufferSize - 1 -> ToSet(s) \cup {NoToken}]
        /\ b.currentpos \in 0 .. BufferSize /\ b.lastpos \in 0 .. BufferSize
        /\ n \in 0 .. Len(s) /\ b.lastpos <= n /\ (b.lastpos = 0 <=> n = 0)
        /\ BufferSize \in Nat \ {0} /\ b.currentpos = b.lastpos
    BY BufferSizeAssumption DEF BufferHolds, IsEmpty
  <1>2. i \in 0 .. BufferSize - 1 /\ i = IF b.lastpos = BufferSize THEN 0 ELSE b.lastpos
    BY <1>1 DEF Index
  <1>3. s[n + 1] \in ToSet(s) /\ n + 1 \in 0 .. Len(s)
    BY <1>1 DEF ToSet
  <1>4. /\ c.buf = [b.buf EXCEPT ![i] = s[n + 1]]
        /\ c.currentpos = i + 1 /\ c.lastpos = i + 1
        /\ c = [buf |-> c.buf, currentpos |-> c.currentpos, lastpos |-> c.lastpos]
    BY DEF Add
  <1> HIDE DEF c, i
  <1>5. c.buf \in [0 .. BufferSize - 1 -> ToSet(s) \cup {NoToken}]
    BY <1>1, <1>2, <1>3, <1>4
  <1>6. c \in [buf : [0 .. BufferSize - 1 -> ToSet(s) \cup {NoToken}],
               currentpos : 0 .. BufferSize, lastpos : 0 .. BufferSize]
    <2>1. c.currentpos \in 0 .. BufferSize /\ c.lastpos \in 0 .. BufferSize
      BY <1>1, <1>2, <1>4
    <2> QED
      BY <1>4, <1>5, <2>1
  <1>7. ASSUME NEW j \in 1 .. n + 1, j > n + 1 - BufferSize
        PROVE  c.buf[Slot(c, n + 1, j)] = s[j]
    <2>1. CASE j = n + 1
      <3>1. Slot(c, n + 1, j) = i
        BY <1>1, <1>2, <1>4, <2>1 DEF Slot
      <3> QED
        BY <1>1, <1>2, <1>4, <2>1, <3>1
    <2>2. CASE j # n + 1
      <3>1. j \in 1 .. n /\ j > n - BufferSize
        BY <1>1, <1>7, <2>2
      <3>2. b.buf[Slot(b, n, j)] = s[j]
        BY <3>1 DEF BufferHolds
      <3>3. Slot(c, n + 1, j) = Slot(b, n, j) /\ Slot(b, n, j) \in 0 .. BufferSize - 1 /\ Slot(b, n, j) # i
        <4>1. CASE b.lastpos = BufferSize
          <5>1. i = 0 /\ c.lastpos = 1 /\ n + 1 - c.lastpos = n /\ ~ (j > n) /\ j > n - b.lastpos
            BY <1>1, <1>2, <1>4, <1>7, <3>1, <4>1
          <5>2. Slot(c, n + 1, j) = j - 1 - n + BufferSize /\ Slot(b, n, j) = j - 1 - (n - BufferSize)
            BY <1>1, <3>1, <4>1, <5>1 DEF Slot
          <5> QED
            BY <1>1, <1>7, <3>1, <5>1, <5>2
        <4>2. CASE b.lastpos # BufferSize
          <5>1. i = b.lastpos /\ c.lastpos = b.lastpos + 1 /\ n + 1 - c.lastpos = n - b.lastpos
            BY <1>1, <1>2, <1>4, <4>2
          <5>2. Slot(c, n + 1, j) = Slot(b, n, j)
            BY <1>1, <3>1, <5>1 DEF Slot
          <5>3. CASE j > n - b.lastpos
            BY <1>1, <1>7, <3>1, <5>1, <5>2, <5>3 DEF Slot
          <5>4. CASE ~ (j > n - b.lastpos)
            BY <1>1, <1>7, <3>1, <4>2, <5>1, <5>2, <5>4 DEF Slot
          <5> QED
            BY <5>3, <5>4
        <4> QED
          BY <4>1, <4>2
      <3> QED
        BY <1>1, <1>4, <3>2, <3>3
    <2> QED
      BY <2>1, <2>2
  <1>8. BufferHolds(c, s, n + 1)
    BY <1>1, <1>2, <1>3, <1>4, <1>6, <1>7 DEF BufferHolds
  <1>9. Left(c) = 0 /\ c.currentpos = Index(b.currentpos) + 1
    BY <1>1, <1>2, <1>4 DEF Left, i
  <1> QED
    BY <1>8, <1>9 DEF c

\* The position moves, the tokens stay.
LEMMA MoveHolds ==
    ASSUME NEW s, NEW b, NEW n, BufferHolds(b, s, n), n # 0, NEW p \in 1 .. BufferSize
    PROVE  BufferHolds([b EXCEPT !.currentpos = p], s, n)
  <1> DEFINE c == [b EXCEPT !.currentpos = p]
  <1>1. /\ c.buf = b.buf /\ c.currentpos = p /\ c.lastpos = b.lastpos
        /\ c \in [buf : [0 .. BufferSize - 1 -> ToSet(s) \cup {NoToken}],
                  currentpos : 0 .. BufferSize, lastpos : 0 .. BufferSize]
    BY BufferSizeAssumption DEF BufferHolds
  <1>2. \A j : Slot(c, n, j) = Slot(b, n, j)
    BY <1>1 DEF Slot
  <1> HIDE DEF c
  <1>3. p # 0
    BY BufferSizeAssumption
  <1>4. BufferHolds(c, s, n)
    BY <1>1, <1>2, <1>3 DEF BufferHolds
  <1> QED
    BY <1>4 DEF c

LEMMA NextHolds ==
    ASSUME NEW s, s \in Seq(ToSet(s)), NEW b, NEW n, BufferHolds(b, s, n), ~ IsEmpty(b), Left(b) <= n
    PROVE  LET c == AfterNext(b)
           IN  /\ BufferHolds(c, s, n)
               /\ Left(c) = Left(b) - 1
               /\ NextElement(b) = s[n - Left(b) + 1]
               /\ c.currentpos = Index(b.currentpos) + 1
  <1> DEFINE c == AfterNext(b)
  <1>1. /\ b.currentpos \in 0 .. BufferSize /\ b.lastpos \in 0 .. BufferSize
        /\ n \in 0 .. Len(s) /\ b.lastpos <= n /\ (b.lastpos = 0 <=> n = 0)
        /\ (b.currentpos = 0 <=> n = 0)
        /\ BufferSize \in Nat \ {0} /\ b.currentpos # b.lastpos
    BY BufferSizeAssumption DEF BufferHolds, IsEmpty
  <1>2. /\ Index(b.currentpos) \in 0 .. BufferSize - 1
        /\ Index(b.currentpos) = IF b.currentpos = BufferSize THEN 0 ELSE b.currentpos
    BY <1>1 DEF Index
  <1>3. c = [b EXCEPT !.currentpos = Index(b.currentpos) + 1]
    BY DEF AfterNext
  <1>4. c.currentpos = Index(b.currentpos) + 1 /\ c.lastpos = b.lastpos
    BY <1>3 DEF BufferHolds
  <1>5. n # 0
    BY <1>1
  <1>6. BufferHolds(c, s, n)
    BY <1>1, <1>2, <1>3, <1>5, MoveHolds
  <1> HIDE DEF c
  <1>7. Left(c) = Left(b) - 1
    BY <1>1, <1>2, <1>4, <1>5 DEF Left
  <1> DEFINE j == n - Left(b) + 1
  <1>8. j \in 1 .. n /\ j > n - BufferSize
    BY <1>1, <1>5 DEF Left
  <1>9. Slot(b, n, j) = Index(b.currentpos)
    BY <1>1, <1>2, <1>5 DEF Left, Slot
  <1>10. NextElement(b) = s[j]
    BY <1>8, <1>9 DEF NextElement, BufferHolds
  <1> QED
    BY <1>4, <1>6, <1>7, <1>10 DEF c

LEMMA BackHolds ==
    ASSUME NEW s, NEW b, NEW n, BufferHolds(b, s, n), n # 0,
           NEW p \in Nat, Left(b) + p < BufferSize
    PROVE  BufferHolds(Back(b, p), s, n) /\ Left(Back(b, p)) = Left(b) + p
  <1> DEFINE c == Back(b, p)
             q == IF b.currentpos > p THEN b.currentpos - p ELSE BufferSize - (p - b.currentpos)
  <1>1. /\ b.currentpos \in 1 .. BufferSize /\ b.lastpos \in 1 .. BufferSize
        /\ BufferSize \in Nat \ {0}
    BY BufferSizeAssumption DEF BufferHolds
  <1>2. q \in 1 .. BufferSize
    BY <1>1 DEF Left
  <1>3. c = [b EXCEPT !.currentpos = q]
    BY DEF Back
  <1>4. BufferHolds(c, s, n)
    BY <1>2, <1>3, MoveHolds
  <1>5. c.currentpos = q /\ c.lastpos = b.lastpos
    BY <1>3 DEF BufferHolds
  <1>6. Left(c) = Left(b) + p
    BY <1>1, <1>2, <1>5 DEF Left
  <1> QED
    BY <1>4, <1>6

LEMMA ModuloSize ==
    ASSUME NEW x \in 0 .. BufferSize - 1
    PROVE  x % BufferSize = x /\ (x + BufferSize) % BufferSize = x /\ (x - BufferSize) % BufferSize = x
  BY BufferSizeAssumption

LEMMA UnreadIs ==
    ASSUME NEW s, s \in Seq(ToSet(s)), NEW b, NEW n, BufferHolds(b, s, n), Left(b) <= n
    PROVE  /\ Unread(b) \in Seq(ToSet(s)) /\ Len(Unread(b)) = Left(b)
           /\ \A k \in 1 .. Left(b) : Unread(b)[k] = s[n - Left(b) + k]
  <1>1. /\ b.currentpos \in 0 .. BufferSize /\ b.lastpos \in 0 .. BufferSize
        /\ n \in 0 .. Len(s) /\ b.lastpos <= n /\ (b.lastpos = 0 <=> n = 0)
        /\ (b.currentpos = 0 <=> n = 0)
        /\ BufferSize \in Nat \ {0}
    BY BufferSizeAssumption DEF BufferHolds
  <1>2. (b.lastpos - b.currentpos) % BufferSize = Left(b)
    <2>1. Left(b) \in 0 .. BufferSize - 1
      BY LeftRange
    <2>2. b.lastpos - b.currentpos = Left(b) \/ b.lastpos - b.currentpos = Left(b) - BufferSize
      BY <1>1 DEF Left
    <2> QED
      BY <2>1, <2>2, ModuloSize
  <1>3. ASSUME NEW k \in 1 .. Left(b)
        PROVE  b.buf[(b.currentpos + k - 1) % BufferSize] = s[n - Left(b) + k]
    <2> DEFINE j == n - Left(b) + k
    <2>1. j \in 1 .. n /\ j > n - BufferSize
      BY <1>1, LeftRange
    <2>2. Slot(b, n, j) \in 0 .. BufferSize - 1
      BY <1>1, <2>1 DEF Slot
    <2>3. \/ b.currentpos + k - 1 = Slot(b, n, j)
          \/ b.currentpos + k - 1 = Slot(b, n, j) + BufferSize
      <3>1. CASE b.currentpos <= b.lastpos
        <4>1. j = n - b.lastpos + b.currentpos + k /\ j > n - b.lastpos
          BY <1>1, <2>1, <3>1 DEF Left
        <4> QED
          BY <1>1, <4>1 DEF Slot
      <3>2. CASE ~ (b.currentpos <= b.lastpos)
        <4>1. j = n - b.lastpos + b.currentpos - BufferSize + k
          BY <1>1, <2>1, <3>2 DEF Left
        <4> QED
          BY <1>1, <4>1 DEF Slot
      <3> QED
        BY <3>1, <3>2
    <2>4. (b.currentpos + k - 1) % BufferSize = Slot(b, n, j)
      BY <2>2, <2>3, ModuloSize
    <2> QED
      BY <2>1, <2>4 DEF BufferHolds
  <1>4. \A k \in 1 .. Left(b) : n - Left(b) + k \in 1 .. Len(s)
    BY <1>1, LeftRange
  <1>5. Left(b) \in Nat
    BY LeftRange
  <1>6. Unread(b) = [k \in 1 .. Left(b) |-> b.buf[(b.currentpos + k - 1) % BufferSize]]
    BY <1>2 DEF Unread
  <1>7. Unread(b) = [k \in 1 .. Left(b) |-> s[n - Left(b) + k]]
    BY <1>3, <1>6
  <1>8. \A k \in 1 .. Left(b) : s[n - Left(b) + k] \in ToSet(s)
    BY <1>4
  <1> QED
    BY <1>5, <1>7, <1>8

-----------------------------------------------------------------------------
(* What the loop needs of the input in order to lose nothing.               *)

\* No word of the transducer is as long as the buffer.
WordsFit == BufferSize > 1 /\ \A w \in lexicon : Len(w) < BufferSize

\* Without -z nothing is read behind a NUL.
NulIsLast == null_flush \/ \A k \in 1 .. Len(stream) - 1 : stream[k] # Nul

\* The cases in which the code goes wrong do not come up: something that begins with a
\* mark, is no word, and does not go on with a few letters; and input that ends
\* within a word, known or not.
Harmless ==
    /\ WordsFit
    /\ NulIsLast
    /\ stage = "unknown" /\ ~ IsAlphabetic(Head(surface_form)) =>
         part_of_word /\ Len(surface_form) < BufferSize
    /\ stage = "gather" => Upcoming # NoToken
    /\ stage = "eof" => surface_form = << >>

\* A token that is no letter and that no word of the transducer can read.
Separates(t) ==
    /\ ~ IsAlphabetic(t)
    /\ \A w \in lexicon : \A k \in DOMAIN w : w[k] \notin Alternatives(t)

\* With -z a NUL does not end a word: a separator does before it.
NulsOutsideWords ==
    null_flush => \A k \in 2 .. Len(stream) : stream[k] = Nul => Separates(stream[k - 1])

\* Enough for Harmless, and said of the transducer and of the text alone: words begin
\* with letters, and the text ends with a separator, as a line does with a newline.
SafeInput ==
    /\ WordsFit
    /\ NulIsLast
    /\ \A w \in lexicon : w # << >> => \A t \in ToSet(stream) : w[1] \in Alternatives(t) => IsAlphabetic(t)
    /\ stream # << >> => Separates(stream[Len(stream)])

-----------------------------------------------------------------------------
(* The invariant.                                                           *)

Tokens == ToSet(stream)
Kinds == {"word", "unknown", "token", "dropped", "flush"}
Items == [kind : Kinds, tokens : Seq(Tokens), forms : SUBSET lexicon]

\* How many tokens were read from the input, and how many of these the loop took.
Taken == Len(stream) - Len(input)
Handled == Taken - Left(token_buffer)

\* The tokens taken since the last one that was written.
Held ==
    IF stage \in {"token", "stepped", "error"} \/ (stage = "unknown" /\ ~ part_of_word)
      THEN << next_token >> ELSE << >>
Word == surface_form \o Held

InputInv ==
    /\ stream \in Seq(Tokens) /\ NoToken \notin Tokens
    /\ input \in Seq(Tokens)
    /\ Len(input) <= Len(stream)
    /\ \A k \in 1 .. Len(input) : input[k] = stream[Taken + k]
    /\ BufferHolds(token_buffer, stream, Taken)

PlaceInv ==
    /\ surface_form \in Seq(Tokens) /\ Held \in Seq(Tokens)
    /\ output \in Seq(Items)
    /\ \A k \in 1 .. Len(Written) : Written[k] = stream[k]
    /\ Handled = Len(Written) + Len(Word)
    /\ \A k \in 1 .. Len(Word) : Word[k] = stream[Len(Written) + k]
    /\ \/ Taken - Len(Written) < BufferSize
       \/ Taken - Len(Written) <= Len(surface_form) + 1
    /\ stage = "gather" => part_of_word
    /\ stage \in {"eof", "done"} => Left(token_buffer) = 0 /\ input = << >>
    /\ stage = "done" => surface_form = << >>

\* The sequence begins with what lookup makes of the tokens.
Follows(w, tokens) ==
    /\ Len(tokens) <= Len(w)
    /\ \A k \in 1 .. Len(tokens) : w[k] \in Alternatives(tokens[k])

PathsOf(tokens) == {<< w, Len(tokens) >> : w \in {v \in lexicon : Follows(v, tokens)}}

PathInv ==
    /\ \A w \in lexicon : w \in Seq(Symbols)
    /\ stage \in {"get", "token"} => paths = PathsOf(surface_form)
    /\ stage = "stepped" => paths = PathsOf(Append(surface_form, next_token))
    /\ stage \in {"get", "token", "stepped", "eof"} /\ surface_form # << >> =>
         \E w \in lexicon : Follows(w, surface_form)
    /\ stage \in {"gather", "unknown"} =>
         /\ surface_form # << >>
         /\ \/ IsAlphabetic(surface_form[1])
            \/ \E w \in lexicon : w # << >> /\ w[1] \in Alternatives(surface_form[1])
    /\ stage = "gather" => IsAlphabetic(surface_form[Len(surface_form)])
    /\ stage = "unknown" /\ ~ part_of_word => Len(surface_form) < BufferSize

\* The remembered analyses are the ones of the first n tokens, and as many
\* tokens as follow these were taken since.
Remembers(n) ==
    /\ analyzed_forms = {w \in lexicon : Reads(w, SubSeq(surface_form, 1, n))}
    /\ LET since == DiffPrevPos(token_buffer, last_stream_location + 1)
       IN  /\ stage \in {"get", "eof"} => n + since + 1 = Len(surface_form)
           /\ stage \notin {"get", "eof"} => n + since = Len(surface_form)

FormsInv ==
    stage \in {"get", "token", "stepped", "eof"} /\ analyzed_forms # {} =>
      /\ last_stream_location \in 0 .. BufferSize - 1
      /\ \E n \in 1 .. Len(surface_form) : Remembers(n)

AnalysisInv == InputInv /\ PlaceInv /\ PathInv /\ FormsInv /\ AnalysesBelong

-----------------------------------------------------------------------------
(* Taking the next token.                                                   *)

SameSettings == UNCHANGED settings

LEMMA HandledRange ==
    ASSUME InputInv
    PROVE  /\ Taken \in 0 .. Len(stream) /\ Len(input) = Len(stream) - Taken
           /\ Left(token_buffer) \in 0 .. BufferSize - 1
           /\ Left(token_buffer) = 0 <=> IsEmpty(token_buffer)
           /\ Handled \in Int
           /\ input = << >> <=> Taken = Len(stream)
  <1>1. Len(input) \in Nat /\ Len(stream) \in Nat /\ Len(input) <= Len(stream)
    BY DEF InputInv
  <1>2. /\ Left(token_buffer) \in 0 .. BufferSize - 1
        /\ Left(token_buffer) = 0 <=> IsEmpty(token_buffer)
    BY LeftRange DEF InputInv
  <1>3. input = << >> <=> Len(input) = 0
    BY DEF InputInv
  <1> QED
    BY <1>1, <1>2, <1>3, BufferSizeAssumption DEF Taken, Handled

\* The token comes from the buffer or, when that is empty, from the input; then a NUL
\* is answered by a flush.
LEMMA TokenTaken ==
    ASSUME InputInv, NulIsLast, SameSettings, Handled \in Nat,
           Upcoming # NoToken, ReadToken
    PROVE  /\ Upcoming = stream[Handled + 1] /\ Upcoming \in Tokens
           /\ Handled + 1 \in 1 .. Len(stream)
           /\ BufferHolds(AfterUpcoming, stream, Taken')
           /\ Taken' - Left(AfterUpcoming) = Handled + 1
           /\ AfterUpcoming.currentpos = Index(token_buffer.currentpos) + 1
           /\ \/ Taken' = Taken /\ Left(token_buffer) # 0 /\ output' = output
              \/ /\ Taken' = Taken + 1 /\ Taken = Handled /\ Left(AfterUpcoming) = 0
                 /\ \/ output' = output
                    \/ /\ output' = Append(output, Item("flush", << >>, {}))
                       /\ stream[Handled + 1] = Nul
           /\ input' \in Seq(Tokens) /\ Len(input') <= Len(stream)
           /\ \A k \in 1 .. Len(input') : input'[k] = stream[Taken' + k]
  <1>0. /\ stream' = stream /\ null_flush' = null_flush
        /\ stream \in Seq(Tokens) /\ input \in Seq(Tokens) /\ Len(input) <= Len(stream)
        /\ BufferHolds(token_buffer, stream, Taken)
        /\ \A k \in 1 .. Len(input) : input[k] = stream[Taken + k]
    BY DEF SameSettings, settings, InputInv
  <1>1. /\ Taken \in 0 .. Len(stream) /\ Len(input) = Len(stream) - Taken
        /\ Left(token_buffer) \in 0 .. BufferSize - 1
        /\ Left(token_buffer) = 0 <=> IsEmpty(token_buffer)
        /\ Handled = Taken - Left(token_buffer)
        /\ Len(stream) \in Nat
    BY <1>0, HandledRange DEF Handled
  <1>2. CASE ~ IsEmpty(token_buffer)
    <2>1. input' = input /\ output' = output
      BY <1>2 DEF ReadToken
    <2>2. Taken' = Taken
      BY <1>0, <2>1 DEF Taken
    <2>3. Upcoming = NextElement(token_buffer) /\ AfterUpcoming = AfterNext(token_buffer)
      BY <1>2 DEF Upcoming, AfterUpcoming
    <2>4. Left(token_buffer) <= Taken
      BY <1>1
    <2>5. stream \in Seq(ToSet(stream))
      BY <1>0 DEF Tokens
    <2>6. /\ BufferHolds(AfterUpcoming, stream, Taken)
          /\ Left(AfterUpcoming) = Left(token_buffer) - 1
          /\ Upcoming = stream[Taken - Left(token_buffer) + 1]
          /\ AfterUpcoming.currentpos = Index(token_buffer.currentpos) + 1
      BY <1>0, <1>2, <2>3, <2>4, <2>5, NextHolds
    <2>7. Handled + 1 \in 1 .. Len(stream) /\ Upcoming = stream[Handled + 1]
          /\ Taken - Left(AfterUpcoming) = Handled + 1
      BY <1>1, <1>2, <2>6
    <2>8. Upcoming \in Tokens
      BY <1>0, <2>7
    <2> QED
      BY <1>0, <1>1, <1>2, <2>1, <2>2, <2>6, <2>7, <2>8
  <1>3. CASE IsEmpty(token_buffer)
    <2>1. input # << >> /\ Upcoming = input[1] /\ AfterUpcoming = Add(token_buffer, input[1])
      BY <1>0, <1>3 DEF Upcoming, AfterUpcoming
    <2>2. Len(input) >= 1 /\ Taken < Len(stream) /\ input[1] = stream[Taken + 1] /\ Handled = Taken
      BY <1>0, <1>1, <1>3, <2>1
    <2>3. input' = Tail(input)
      <3>1. CASE Head(input) = Nul /\ ~ null_flush
        <4>1. input' = << >>
          BY <1>3, <2>1, <3>1 DEF ReadToken
        <4>2. stream[Taken + 1] = Nul
          BY <1>0, <2>2, <3>1
        <4>3. ~ (Taken + 1 \in 1 .. Len(stream) - 1)
          BY <3>1, <4>2 DEF NulIsLast
        <4>4. Len(input) = 1
          BY <1>1, <2>2, <4>3
        <4>5. Tail(input) \in Seq(Tokens) /\ Len(Tail(input)) = 0
          BY <1>0, <2>1, <4>4, HeadTailProperties
        <4>6. Tail(input) = << >>
          BY <4>5, EmptySeq
        <4> QED
          BY <4>1, <4>6
      <3>2. CASE ~ (Head(input) = Nul /\ ~ null_flush)
        BY <1>3, <2>1, <3>2 DEF ReadToken
      <3> QED
        BY <3>1, <3>2
    <2>4. /\ input' \in Seq(Tokens) /\ Len(input') = Len(input) - 1
          /\ \A k \in 1 .. Len(input') : input'[k] = input[k + 1]
      BY <1>0, <2>2, <2>3
    <2>5. Taken' = Taken + 1
      BY <1>0, <1>1, <2>4 DEF Taken
    <2>6. \A k \in 1 .. Len(input') : input'[k] = stream[Taken' + k]
      BY <1>0, <1>1, <2>4, <2>5
    <2>7. stream \in Seq(ToSet(stream))
      BY <1>0 DEF Tokens
    <2>8. /\ BufferHolds(AfterUpcoming, stream, Taken + 1)
          /\ Left(AfterUpcoming) = 0
          /\ AfterUpcoming.currentpos = Index(token_buffer.currentpos) + 1
      BY <1>0, <1>3, <2>1, <2>2, <2>7, AddHolds
    <2>9. \/ output' = output
          \/ output' = Append(output, Item("flush", << >>, {})) /\ stream[Taken + 1] = Nul
      BY <1>0, <2>2 DEF ReadToken
    <2>10. Upcoming \in Tokens
      BY <1>0, <2>1, <2>2
    <2> QED
      BY <1>1, <2>1, <2>2, <2>4, <2>5, <2>6, <2>8, <2>9, <2>10
  <1> QED
    BY <1>2, <1>3

\* Only at the end of the input there is no token.
LEMMA EndReached ==
    ASSUME InputInv, Handled \in Nat, Upcoming = NoToken
    PROVE  IsEmpty(token_buffer) /\ Left(token_buffer) = 0 /\ input = << >>
  <1>1. stream \in Seq(Tokens) /\ NoToken \notin Tokens /\ input \in Seq(Tokens)
        /\ BufferHolds(token_buffer, stream, Taken)
    BY DEF InputInv
  <1>2. ASSUME ~ IsEmpty(token_buffer)
        PROVE  FALSE
    <2>1. Left(token_buffer) <= Taken /\ Left(token_buffer) # 0
          /\ Taken \in 0 .. Len(stream) /\ Left(token_buffer) \in 0 .. BufferSize - 1
      BY <1>2, HandledRange DEF Handled
    <2>2. stream \in Seq(ToSet(stream))
      BY <1>1 DEF Tokens
    <2>3. NextElement(token_buffer) = stream[Taken - Left(token_buffer) + 1]
      BY <1>1, <1>2, <2>1, <2>2, NextHolds
    <2>4. Taken - Left(token_buffer) + 1 \in 1 .. Len(stream)
      BY <2>1, <1>1, BufferSizeAssumption
    <2>5. Upcoming \in Tokens
      BY <1>1, <1>2, <2>3, <2>4 DEF Upcoming
    <2> QED
      BY <1>1, <2>5
  <1>3. input = << >>
    <2>1. input # << >> => Head(input) \in Tokens
      BY <1>1
    <2> QED
      BY <1>1, <1>2, <2>1 DEF Upcoming
  <1> QED
    BY <1>2, <1>3, HandledRange

LEMMA NothingTaken ==
    ASSUME InputInv, Handled \in Nat, Upcoming = NoToken, ReadToken
    PROVE  /\ Left(token_buffer) = 0 /\ input = << >>
           /\ AfterUpcoming = token_buffer /\ input' = input /\ output' = output
  BY EndReached DEF AfterUpcoming, ReadToken

-----------------------------------------------------------------------------
(* Writing.                                                                 *)

LEMMA ItemIsItem ==
    ASSUME NEW kind \in Kinds, NEW tokens \in Seq(Tokens), NEW forms \in SUBSET lexicon
    PROVE  Item(kind, tokens, forms) \in Items /\ Item(kind, tokens, forms).tokens = tokens
  BY DEF Item, Items

LEMMA ItemParts ==
    ASSUME NEW item \in Items
    PROVE  item.kind \in Kinds /\ item.tokens \in Seq(Tokens) /\ item.forms \subseteq lexicon
  BY DEF Items

LEMMA WrittenType ==
    ASSUME output \in Seq(Items)
    PROVE  Written \in Seq(Tokens) /\ Len(Written) \in Nat
  <1> DEFINE parts == [k \in DOMAIN output |-> output[k].tokens]
  <1>1. parts \in Seq(Seq(Tokens))
    <2>1. \A k \in 1 .. Len(output) : output[k].tokens \in Seq(Tokens)
      BY ElementOfSeq, ItemParts
    <2> QED
      BY <2>1
  <1>2. FlattenSeq(parts) \in Seq(Tokens)
    <2>1. << >> \in Seq(Tokens)
      OBVIOUS
    <2> HIDE DEF parts
    <2> QED
      BY <1>1, <2>1, FlattenAppend
  <1> QED
    BY <1>2 DEF Written

LEMMA WrittenGrows ==
    ASSUME output \in Seq(Items), NEW item \in Items, output' = Append(output, item)
    PROVE  Written' = Written \o item.tokens
  <1> DEFINE parts == [k \in DOMAIN output |-> output[k].tokens]
             more == [k \in DOMAIN Append(output, item) |-> Append(output, item)[k].tokens]
  <1>1. parts \in Seq(Seq(Tokens)) /\ item.tokens \in Seq(Tokens)
    <2>1. \A k \in 1 .. Len(output) : output[k].tokens \in Seq(Tokens)
      BY ElementOfSeq, ItemParts
    <2>2. item.tokens \in Seq(Tokens)
      BY ItemParts
    <2> QED
      BY <2>1, <2>2
  <1>2. more = Append(parts, item.tokens)
    <2>1. /\ DOMAIN Append(output, item) = 1 .. Len(output) + 1
          /\ \A k \in 1 .. Len(output) : Append(output, item)[k] = output[k]
          /\ Append(output, item)[Len(output) + 1] = item
          /\ Len(output) \in Nat /\ DOMAIN output = 1 .. Len(output)
      OBVIOUS
    <2>2. more = [k \in 1 .. Len(output) + 1 |-> IF k = Len(output) + 1 THEN item.tokens ELSE output[k].tokens]
      BY <2>1
    <2>3. parts = [k \in 1 .. Len(output) |-> output[k].tokens] /\ Len(parts) = Len(output)
      BY <2>1
    <2>4. /\ Append(parts, item.tokens) \in Seq(Seq(Tokens))
          /\ Len(Append(parts, item.tokens)) = Len(output) + 1
          /\ \A k \in 1 .. Len(output) : Append(parts, item.tokens)[k] = output[k].tokens
          /\ Append(parts, item.tokens)[Len(output) + 1] = item.tokens
      <3>1. \A k \in 1 .. Len(output) : parts[k] = output[k].tokens
        BY <2>3
      <3> HIDE DEF parts
      <3> QED
        BY <1>1, <2>3, <3>1, AppendProperties
    <2>5. more \in Seq(Seq(Tokens)) /\ Len(more) = Len(output) + 1
      <3>1. \A k \in 1 .. Len(output) + 1 :
              (IF k = Len(output) + 1 THEN item.tokens ELSE output[k].tokens) \in Seq(Tokens)
        BY <1>1, <2>1, ElementOfSeq, ItemParts
      <3> QED
        BY <2>1, <2>2, <3>1
    <2>6. \A k \in 1 .. Len(output) + 1 : more[k] = Append(parts, item.tokens)[k]
      BY <2>1, <2>2, <2>4
    <2>7. Len(more) = Len(Append(parts, item.tokens))
          /\ \A k \in 1 .. Len(more) : more[k] = Append(parts, item.tokens)[k]
      BY <2>4, <2>5, <2>6
    <2> HIDE DEF more, parts
    <2> QED
      BY <2>4, <2>5, <2>7, SeqEqual
  <1>3. Written' = FlattenSeq(more)
    BY DEF Written
  <1> HIDE DEF parts, more
  <1>4. FlattenSeq(more) = FlattenSeq(parts) \o item.tokens
    BY <1>1, <1>2, FlattenAppend
  <1> QED
    BY <1>3, <1>4 DEF Written, parts

\* A flush writes no token.
LEMMA FlushWritesNothing ==
    ASSUME output \in Seq(Items),
           output' = output \/ output' = Append(output, Item("flush", << >>, {}))
    PROVE  Written' = Written /\ output' \in Seq(Items)
  <1>1. CASE output' = output
    BY <1>1 DEF Written
  <1>2. CASE output' = Append(output, Item("flush", << >>, {}))
    <2>1. Item("flush", << >>, {}) \in Items /\ Item("flush", << >>, {}).tokens = << >>
      <3>1. << >> \in Seq(Tokens)
        BY EmptySeq
      <3>2. {} \in SUBSET lexicon
        OBVIOUS
      <3>3. "flush" \in Kinds
        BY DEF Kinds
      <3> QED
        BY <3>1, <3>2, <3>3, ItemIsItem
    <2>2. Written' = Written \o << >>
      BY <1>2, <2>1, WrittenGrows
    <2>3. Written \o << >> = Written
      BY WrittenType, ConcatEmptySeq
    <2> QED
      BY <1>2, <2>1, <2>2, <2>3, AppendProperties
  <1> QED
    BY <1>1, <1>2

-----------------------------------------------------------------------------
(* The steps that keep the word: only the stage changes, or a token moves   *)
(* from next_token into surface_form.                                       *)

LEMMA WordType ==
    ASSUME PlaceInv
    PROVE  /\ Word \in Seq(Tokens) /\ Len(Word) = Len(surface_form) + Len(Held)
           /\ \A k \in 1 .. Len(surface_form) : Word[k] = surface_form[k]
           /\ Len(Held) \in {0, 1}
           /\ Len(Held) = 1 => Word[Len(surface_form) + 1] = next_token
  BY DEF PlaceInv, Word, Held

LEMMA HandledNat ==
    ASSUME PlaceInv
    PROVE  Handled \in Nat /\ Len(Written) \in Nat /\ Len(surface_form) \in Nat
  BY WordType, WrittenType DEF PlaceInv

LEMMA KeepsWord ==
    ASSUME InputInv, PlaceInv, SameSettings, UNCHANGED streamVars,
           surface_form' \in Seq(Tokens), Held' \in Seq(Tokens), Word' = Word,
           Len(surface_form) <= Len(surface_form'),
           stage' = "gather" => part_of_word', stage' \notin {"eof", "done"}
    PROVE  InputInv' /\ PlaceInv'
  <1>1. /\ stream' = stream /\ input' = input /\ token_buffer' = token_buffer /\ output' = output
        /\ lexicon' = lexicon
    BY DEF SameSettings, settings, streamVars
  <1>2. Tokens' = Tokens /\ Items' = Items /\ Taken' = Taken /\ Handled' = Handled /\ Written' = Written
    BY <1>1 DEF Tokens, Items, Taken, Handled, Written
  <1>3. InputInv'
    BY <1>1, <1>2 DEF InputInv
  <1>4. \/ Taken - Len(Written) < BufferSize
        \/ Taken - Len(Written) <= Len(surface_form') + 1
    <2>1. Len(surface_form) \in Nat /\ Len(surface_form') \in Nat /\ Taken \in Nat /\ Len(Written) \in Nat
      BY HandledRange, HandledNat
    <2> QED
      BY <2>1 DEF PlaceInv
  <1>5. PlaceInv'
    BY <1>1, <1>2, <1>4 DEF PlaceInv
  <1> QED
    BY <1>3, <1>5

-----------------------------------------------------------------------------
(* The steps that take a token.                                             *)

\* Either the token becomes the held one, or it becomes a part of the word.
LEMMA TakesToken ==
    ASSUME InputInv, PlaceInv, NulIsLast, SameSettings, Upcoming # NoToken, ReadToken,
           token_buffer' = AfterUpcoming,
           Held = << >>,
           \/ surface_form' = surface_form /\ Held' = << Upcoming >>
           \/ surface_form' = Append(surface_form, Upcoming) /\ Held' = << >>,
           stage' = "gather" => part_of_word', stage' \notin {"eof", "done"}
    PROVE  InputInv' /\ PlaceInv'
  <1>1. stream' = stream /\ lexicon' = lexicon
    BY DEF SameSettings, settings
  <1>2. Handled \in Nat /\ Len(Written) \in Nat /\ Len(surface_form) \in Nat
    BY HandledNat
  <1>3. /\ Upcoming = stream[Handled + 1] /\ Upcoming \in Tokens
        /\ Handled + 1 \in 1 .. Len(stream)
        /\ BufferHolds(AfterUpcoming, stream, Taken')
        /\ Taken' - Left(AfterUpcoming) = Handled + 1
        /\ \/ Taken' = Taken /\ Left(token_buffer) # 0 /\ output' = output
           \/ /\ Taken' = Taken + 1 /\ Taken = Handled
              /\ output' = output \/ output' = Append(output, Item("flush", << >>, {}))
        /\ input' \in Seq(Tokens) /\ Len(input') <= Len(stream)
        /\ \A k \in 1 .. Len(input') : input'[k] = stream[Taken' + k]
    BY <1>2, TokenTaken
  <1>4. Tokens' = Tokens /\ Items' = Items
    BY <1>1 DEF Tokens, Items
  <1>5. Handled' = Handled + 1
    BY <1>3 DEF Handled
  <1>6. Written' = Written /\ output' \in Seq(Items)
    BY <1>3, FlushWritesNothing DEF PlaceInv
  <1>7. InputInv'
    BY <1>1, <1>3, <1>4 DEF InputInv
  <1>8. /\ surface_form \in Seq(Tokens) /\ Word = surface_form
        /\ Handled = Len(Written) + Len(surface_form)
        /\ \A k \in 1 .. Len(surface_form) : surface_form[k] = stream[Len(Written) + k]
    BY ConcatEmptySeq DEF PlaceInv, Word
  <1>9. /\ surface_form' \in Seq(Tokens) /\ Held' \in Seq(Tokens)
        /\ Word' = Append(surface_form, Upcoming)
    <2>1. Append(surface_form, Upcoming) \in Seq(Tokens) /\ << Upcoming >> \in Seq(Tokens)
          /\ << >> \in Seq(Tokens)
      BY <1>3, <1>8
    <2>2. surface_form \o << Upcoming >> = Append(surface_form, Upcoming)
      BY <1>3, <1>8, AppendIsConcat
    <2>3. Append(surface_form, Upcoming) \o << >> = Append(surface_form, Upcoming)
      BY <2>1, ConcatEmptySeq
    <2> QED
      BY <1>8, <2>1, <2>2, <2>3 DEF Word
  <1>10. /\ Len(Word') = Len(surface_form) + 1
         /\ \A k \in 1 .. Len(surface_form) : Word'[k] = surface_form[k]
         /\ Word'[Len(surface_form) + 1] = Upcoming
    BY <1>3, <1>8, <1>9, AppendProperties
  <1>11. \A k \in 1 .. Len(Word') : Word'[k] = stream[Len(Written) + k]
    <2> TAKE k \in 1 .. Len(Word')
    <2>1. CASE k = Len(surface_form) + 1
      BY <1>2, <1>3, <1>8, <1>10, <2>1
    <2>2. CASE k # Len(surface_form) + 1
      <3>1. k \in 1 .. Len(surface_form)
        BY <1>2, <1>10, <2>2
      <3> QED
        BY <1>8, <1>10, <3>1
    <2> QED
      BY <2>1, <2>2
  <1>12. \/ Taken' - Len(Written) < BufferSize
         \/ Taken' - Len(Written) <= Len(surface_form') + 1
    <2>1. Len(surface_form') \in Nat /\ Len(surface_form) <= Len(surface_form')
      BY <1>3, <1>8, AppendProperties
    <2>2. CASE Taken' = Taken
      <3>1. Taken \in Nat
        BY HandledRange
      <3> QED
        BY <1>2, <2>1, <2>2, <3>1 DEF PlaceInv
    <2>3. CASE Taken' = Taken + 1 /\ Taken = Handled
      BY <1>2, <1>8, <2>1, <2>3
    <2> QED
      BY <1>3, <2>2, <2>3
  <1>13. PlaceInv'
    <2>1. Handled' = Len(Written') + Len(Word')
      BY <1>2, <1>5, <1>6, <1>8, <1>10
    <2> QED
      BY <1>1, <1>4, <1>6, <1>8, <1>9, <1>11, <1>12, <2>1 DEF PlaceInv
  <1> QED
    BY <1>7, <1>13

-----------------------------------------------------------------------------
(* The steps that write the beginning of the word and go back behind it.    *)

LEMMA CanGoBack ==
    ASSUME InputInv, PlaceInv, NEW n \in 1 .. Len(Word), Taken - Len(Written) <= BufferSize
    PROVE  /\ BufferHolds(Back(token_buffer, Len(Word) - n), stream, Taken)
           /\ Taken - Left(Back(token_buffer, Len(Word) - n)) = Len(Written) + n
  <1>1. Len(Word) \in Nat /\ Handled = Len(Written) + Len(Word) /\ Len(Written) \in Nat
    BY WordType, HandledNat DEF PlaceInv
  <1>2. /\ Handled = Taken - Left(token_buffer) /\ Left(token_buffer) \in 0 .. BufferSize - 1
        /\ Taken \in Nat /\ BufferSize \in Nat
    BY HandledRange, BufferSizeAssumption DEF Handled
  <1>3. Len(Word) - n \in Nat /\ Left(token_buffer) + (Len(Word) - n) < BufferSize /\ Taken # 0
    BY <1>1, <1>2
  <1>4. BufferHolds(token_buffer, stream, Taken)
    BY DEF InputInv
  <1>5. /\ BufferHolds(Back(token_buffer, Len(Word) - n), stream, Taken)
        /\ Left(Back(token_buffer, Len(Word) - n)) = Left(token_buffer) + (Len(Word) - n)
    BY <1>3, <1>4, BackHolds
  <1>6. Taken - (Left(token_buffer) + (Len(Word) - n)) = Len(Written) + n
    BY <1>1, <1>2
  <1> QED
    BY <1>5, <1>6

LEMMA WritesAndGoesBack ==
    ASSUME InputInv, PlaceInv, SameSettings, input' = input,
           NEW n \in 1 .. Len(Word), NEW kind \in Kinds, NEW forms \in SUBSET lexicon,
           NEW tokens \in Seq(Tokens), Len(tokens) = n, \A k \in 1 .. n : tokens[k] = Word[k],
           output' = Append(output, Item(kind, tokens, forms)),
           BufferHolds(token_buffer', stream, Taken),
           Taken - Left(token_buffer') = Len(Written) + n,
           surface_form' = << >>, stage' = "get"
    PROVE  InputInv' /\ PlaceInv'
  <1>1. /\ stream' = stream /\ lexicon' = lexicon
    BY DEF SameSettings, settings
  <1>2. Tokens' = Tokens /\ Items' = Items /\ Taken' = Taken
    BY <1>1 DEF Tokens, Items, Taken
  <1>3. InputInv'
    BY <1>1, <1>2 DEF InputInv
  <1>4. /\ Len(Word) \in Nat /\ Handled = Len(Written) + Len(Word)
        /\ \A k \in 1 .. Len(Word) : Word[k] = stream[Len(Written) + k]
        /\ \A k \in 1 .. Len(Written) : Written[k] = stream[k]
        /\ output \in Seq(Items)
    BY WordType DEF PlaceInv
  <1>5. Written \in Seq(Tokens) /\ Len(Written) \in Nat
    BY <1>4, WrittenType
  <1>6. /\ Taken \in Nat /\ Handled = Taken - Left(token_buffer)
        /\ Left(token_buffer) \in 0 .. BufferSize - 1
    BY HandledRange DEF Handled
  <1>7. Item(kind, tokens, forms) \in Items /\ Item(kind, tokens, forms).tokens = tokens
    BY ItemIsItem
  <1>8. Written' = Written \o tokens
    BY <1>4, <1>7, WrittenGrows
  <1>9. output' \in Seq(Items)
    BY <1>4, <1>7, AppendProperties
  <1>10. /\ Len(Written') = Len(Written) + n
         /\ \A k \in 1 .. Len(Written) + n :
              Written'[k] = IF k <= Len(Written) THEN Written[k] ELSE tokens[k - Len(Written)]
    <2>1. /\ Len(Written \o tokens) = Len(Written) + Len(tokens)
          /\ \A i \in 1 .. Len(Written) + Len(tokens) :
               (Written \o tokens)[i] = IF i <= Len(Written) THEN Written[i] ELSE tokens[i - Len(Written)]
      BY <1>5, ConcatProperties
    <2> QED
      BY <1>8, <2>1
  <1>11. \A k \in 1 .. Len(Written') : Written'[k] = stream[k]
    <2> TAKE k \in 1 .. Len(Written')
    <2>1. CASE k <= Len(Written)
      BY <1>4, <1>5, <1>10, <2>1
    <2>2. CASE ~ (k <= Len(Written))
      <3>1. k - Len(Written) \in 1 .. n /\ k - Len(Written) \in 1 .. Len(Word)
            /\ Len(Written) + (k - Len(Written)) = k
        BY <1>4, <1>5, <1>10, <2>2
      <3>2. Written'[k] = Word[k - Len(Written)]
        BY <1>10, <2>2, <3>1
      <3> QED
        BY <1>4, <3>1, <3>2
    <2> QED
      BY <2>1, <2>2
  <1>12. Handled' = Len(Written')
    <2>1. Handled' = Len(Written) + n
      BY <1>2 DEF Handled
    <2> QED
      BY <1>10, <2>1
  <1>13. Held' = << >> /\ Word' = << >> /\ << >> \in Seq(Tokens)
    BY EmptySeq, ConcatEmptySeq DEF Held, Word
  <1>14. Left(token_buffer') \in 0 .. BufferSize - 1 /\ BufferSize \in Nat
    BY LeftRange, BufferSizeAssumption
  <1>15. Taken' - Len(Written') < BufferSize
    <2>1. Handled' = Taken - Left(token_buffer')
      BY <1>2 DEF Handled
    <2> QED
      BY <1>2, <1>6, <1>12, <1>14, <2>1
  <1>16. PlaceInv'
    <2>1. Handled' = Len(Written') + Len(Word')
      <3>1. Len(Written') \in Nat /\ Len(Word') = 0
        BY <1>5, <1>10, <1>13
      <3> QED
        BY <1>12, <3>1
    <2>2. \A k \in 1 .. Len(Word') : FALSE
      BY <1>13
    <2> QED
      BY <1>1, <1>2, <1>9, <1>11, <1>13, <1>15, <2>1, <2>2 DEF PlaceInv
  <1> QED
    BY <1>3, <1>16

-----------------------------------------------------------------------------
(* Where the tokens are, step by step.                                      *)

LEMMA OneHeld ==
    ASSUME PlaceInv, stage \in {"token", "stepped"} \/ (stage = "unknown" /\ ~ part_of_word)
    PROVE  /\ Word = Append(surface_form, next_token) /\ Len(Word) = Len(surface_form) + 1
           /\ next_token \in Tokens
  <1>1. Held = << next_token >> /\ Held \in Seq(Tokens) /\ surface_form \in Seq(Tokens)
    BY DEF PlaceInv, Held
  <1>2. next_token \in Tokens
    BY <1>1
  <1> QED
    BY <1>1, <1>2, AppendIsConcat, AppendProperties DEF Word

LEMMA NoneHeld ==
    ASSUME PlaceInv, stage \in {"get", "gather", "eof", "done"} \/ (stage = "unknown" /\ part_of_word)
    PROVE  Held = << >> /\ Word = surface_form
  BY ConcatEmptySeq DEF PlaceInv, Held, Word

LEMMA GetTokenPlace ==
    ASSUME InputInv, PlaceInv, NulIsLast, GetToken
    PROVE  InputInv' /\ PlaceInv'
  <1>1. /\ SameSettings /\ stage = "get" /\ next_token' = Upcoming /\ token_buffer' = AfterUpcoming
        /\ ReadToken /\ surface_form' = surface_form /\ part_of_word' = part_of_word
        /\ stage' = IF Upcoming = NoToken THEN "eof" ELSE "token"
    BY DEF GetToken, SameSettings, wordVars
  <1>2. Held = << >> /\ Word = surface_form
    BY <1>1, NoneHeld
  <1>3. CASE Upcoming = NoToken
    <2>1. /\ Left(token_buffer) = 0 /\ input = << >>
          /\ token_buffer' = token_buffer /\ input' = input /\ output' = output
      BY <1>1, <1>3, HandledNat, NothingTaken
    <2>2. stream' = stream /\ lexicon' = lexicon
      BY <1>1 DEF SameSettings, settings
    <2>3. Tokens' = Tokens /\ Items' = Items /\ Taken' = Taken /\ Handled' = Handled /\ Written' = Written
      BY <2>1, <2>2 DEF Tokens, Items, Taken, Handled, Written
    <2>4. InputInv'
      BY <2>1, <2>2, <2>3 DEF InputInv
    <2>5. stage' = "eof" /\ Held' = << >>
      BY <1>1, <1>3 DEF Held
    <2>6. Word' = Word
      BY <1>1, <1>2, <2>5 DEF Word
    <2>7. PlaceInv'
      BY <1>1, <1>2, <2>1, <2>2, <2>3, <2>5, <2>6 DEF PlaceInv
    <2> QED
      BY <2>4, <2>7
  <1>4. CASE Upcoming # NoToken
    <2>1. stage' = "token"
      BY <1>1, <1>4
    <2>2. Held' = << Upcoming >>
      BY <1>1, <2>1 DEF Held
    <2> QED
      BY <1>1, <1>2, <1>4, <2>1, <2>2, TakesToken
  <1> QED
    BY <1>3, <1>4

LEMMA StreamErrorPlace ==
    ASSUME InputInv, PlaceInv, StreamError
    PROVE  InputInv' /\ PlaceInv'
  <1>1. /\ SameSettings /\ UNCHANGED streamVars /\ surface_form' = surface_form
        /\ stage = "token" /\ stage' = "error" /\ next_token' = next_token
    BY DEF StreamError, SameSettings, wordVars
  <1>2. Held' = Held
    BY <1>1 DEF Held
  <1>3. Word' = Word
    BY <1>1, <1>2 DEF Word
  <1>4. Tokens' = Tokens
    BY <1>1 DEF SameSettings, settings, Tokens
  <1>5. surface_form' \in Seq(Tokens) /\ Held' \in Seq(Tokens) /\ Len(surface_form) <= Len(surface_form')
    BY <1>1, <1>2, HandledNat DEF PlaceInv
  <1> QED
    BY <1>1, <1>3, <1>5, KeepsWord

LEMMA StepTokenPlace ==
    ASSUME InputInv, PlaceInv, StepToken
    PROVE  InputInv' /\ PlaceInv'
  <1>1. /\ SameSettings /\ UNCHANGED streamVars /\ surface_form' = surface_form
        /\ stage = "token" /\ stage' = "stepped" /\ next_token' = next_token
    BY DEF StepToken, SameSettings
  <1>2. Held' = Held
    BY <1>1 DEF Held
  <1>3. Word' = Word
    BY <1>1, <1>2 DEF Word
  <1>5. surface_form' \in Seq(Tokens) /\ Held' \in Seq(Tokens) /\ Len(surface_form) <= Len(surface_form')
    BY <1>1, <1>2, HandledNat DEF PlaceInv
  <1> QED
    BY <1>1, <1>3, <1>5, KeepsWord

\* The held token becomes a part of the word.
LEMMA HeldJoins ==
    ASSUME InputInv, PlaceInv, stage = "stepped", SameSettings, UNCHANGED streamVars,
           surface_form' = Append(surface_form, next_token), Held' = << >>,
           stage' = "gather" => part_of_word', stage' \notin {"eof", "done"}
    PROVE  InputInv' /\ PlaceInv'
  <1>1. /\ Word = Append(surface_form, next_token) /\ next_token \in Tokens
        /\ surface_form \in Seq(Tokens)
    BY OneHeld DEF PlaceInv
  <1>2. surface_form' \in Seq(Tokens) /\ Held' \in Seq(Tokens) /\ Len(surface_form') = Len(surface_form) + 1
    BY <1>1, AppendProperties, EmptySeq
  <1>3. Word' = Word
    BY <1>1, <1>2, ConcatEmptySeq DEF Word
  <1>4. Len(surface_form) <= Len(surface_form')
    BY <1>2, HandledNat
  <1> QED
    BY <1>2, <1>3, <1>4, KeepsWord

LEMMA ExtendWordPlace ==
    ASSUME InputInv, PlaceInv, ExtendWord
    PROVE  InputInv' /\ PlaceInv'
  <1>1. /\ SameSettings /\ UNCHANGED streamVars /\ surface_form' = Append(surface_form, next_token)
        /\ stage = "stepped" /\ stage' = "get"
    BY DEF ExtendWord, SameSettings
  <1>2. Held' = << >>
    BY <1>1 DEF Held
  <1> QED
    BY <1>1, <1>2, HeldJoins

LEMMA UnknownStartsPlace ==
    ASSUME InputInv, PlaceInv, UnknownStarts
    PROVE  InputInv' /\ PlaceInv'
  <1>1. /\ SameSettings /\ UNCHANGED streamVars
        /\ stage = "stepped" /\ next_token' = next_token
        /\ part_of_word' = IsAlphabetic(next_token)
    BY DEF UnknownStarts, NoPathLeft, SameSettings
  <1>2. CASE IsAlphabetic(next_token)
    <2>1. surface_form' = Append(surface_form, next_token) /\ stage' = "gather" /\ part_of_word'
      BY <1>1, <1>2 DEF UnknownStarts
    <2>2. Held' = << >>
      BY <2>1 DEF Held
    <2> QED
      BY <1>1, <2>1, <2>2, HeldJoins
  <1>3. CASE ~ IsAlphabetic(next_token)
    <2>1. surface_form' = surface_form /\ stage' = "unknown" /\ ~ part_of_word'
      BY <1>1, <1>3 DEF UnknownStarts
    <2>2. Held' = Held
      BY <1>1, <2>1 DEF Held
    <2>3. Word' = Word
      BY <2>1, <2>2 DEF Word
    <2>4. surface_form' \in Seq(Tokens) /\ Held' \in Seq(Tokens) /\ Len(surface_form) <= Len(surface_form')
      BY <2>1, <2>2, HandledNat DEF PlaceInv
    <2> QED
      BY <1>1, <2>1, <2>3, <2>4, KeepsWord
  <1> QED
    BY <1>2, <1>3

LEMMA GatherTokenPlace ==
    ASSUME InputInv, PlaceInv, NulIsLast, GatherToken, Upcoming # NoToken
    PROVE  InputInv' /\ PlaceInv'
  <1>1. /\ SameSettings /\ stage = "gather" /\ stage' = "gather"
        /\ token_buffer' = AfterUpcoming /\ ReadToken
        /\ surface_form' = Append(surface_form, Upcoming) /\ part_of_word' = part_of_word
    BY DEF GatherToken, SameSettings
  <1>2. Held = << >> /\ Held' = << >> /\ part_of_word'
    BY <1>1, NoneHeld DEF Held, PlaceInv
  <1> QED
    BY <1>1, <1>2, TakesToken

LEMMA WordGatheredPlace ==
    ASSUME InputInv, PlaceInv, NulIsLast, BufferSize > 1, WordGathered, Upcoming # NoToken
    PROVE  InputInv' /\ PlaceInv'
  <1>1. /\ SameSettings /\ stage = "gather" /\ stage' = "unknown"
        /\ token_buffer' = Back(AfterUpcoming, 1) /\ ReadToken
        /\ surface_form' = surface_form /\ part_of_word' = part_of_word
    BY DEF WordGathered, SameSettings, wordVars
  <1>2. stream' = stream /\ lexicon' = lexicon
    BY <1>1 DEF SameSettings, settings
  <1>3. Tokens' = Tokens /\ Items' = Items
    BY <1>2 DEF Tokens, Items
  <1>4. Handled \in Nat /\ Len(Written) \in Nat /\ Len(surface_form) \in Nat /\ Taken \in Nat
    BY HandledNat, HandledRange
  <1>5. /\ BufferHolds(AfterUpcoming, stream, Taken')
        /\ Taken' - Left(AfterUpcoming) = Handled + 1
        /\ \/ Taken' = Taken /\ Left(token_buffer) # 0 /\ output' = output
           \/ /\ Taken' = Taken + 1 /\ Taken = Handled /\ Left(AfterUpcoming) = 0
              /\ output' = output \/ output' = Append(output, Item("flush", << >>, {}))
        /\ input' \in Seq(Tokens) /\ Len(input') <= Len(stream)
        /\ \A k \in 1 .. Len(input') : input'[k] = stream[Taken' + k]
    BY <1>1, <1>4, TokenTaken
  <1>6. Written' = Written /\ output' \in Seq(Items)
    BY <1>5, FlushWritesNothing DEF PlaceInv
  <1>7. /\ Left(token_buffer) \in 0 .. BufferSize - 1 /\ Handled = Taken - Left(token_buffer)
        /\ Left(AfterUpcoming) \in 0 .. BufferSize - 1 /\ BufferSize \in Nat
    BY <1>5, HandledRange, LeftRange, BufferSizeAssumption DEF Handled
  <1>8. Taken' # 0 /\ Left(AfterUpcoming) + 1 < BufferSize /\ Taken' \in Nat
    BY <1>4, <1>5, <1>7
  <1>9. BufferHolds(token_buffer', stream, Taken') /\ Left(token_buffer') = Left(AfterUpcoming) + 1
    BY <1>1, <1>5, <1>8, BackHolds
  <1>10. Handled' = Handled
    <2>1. Handled' = Taken' - Left(token_buffer')
      BY DEF Handled
    <2> QED
      BY <1>4, <1>5, <1>7, <1>8, <1>9, <2>1
  <1>11. InputInv'
    BY <1>2, <1>3, <1>5, <1>9 DEF InputInv
  <1>12. part_of_word /\ Held = << >> /\ Held' = << >> /\ Word' = Word /\ Word = surface_form
    <2>1. part_of_word /\ Held = << >> /\ Word = surface_form
      BY <1>1, NoneHeld DEF PlaceInv
    <2>2. Held' = << >>
      BY <1>1, <2>1 DEF Held
    <2> QED
      BY <1>1, <2>1, <2>2 DEF Word
  <1>13. \/ Taken' - Len(Written) < BufferSize
         \/ Taken' - Len(Written) <= Len(surface_form) + 1
    <2>1. Handled = Len(Written) + Len(surface_form)
      BY <1>12 DEF PlaceInv
    <2>2. CASE Taken' = Taken
      BY <1>4, <1>7, <2>2 DEF PlaceInv
    <2>3. CASE Taken' = Taken + 1 /\ Taken = Handled
      BY <1>4, <2>1, <2>3
    <2> QED
      BY <1>5, <2>2, <2>3
  <1>14. PlaceInv'
    BY <1>1, <1>2, <1>3, <1>6, <1>10, <1>12, <1>13 DEF PlaceInv
  <1> QED
    BY <1>11, <1>14

\* A word of a length that fits has not been overwritten in the buffer.
LEMMA WordInBuffer ==
    ASSUME InputInv, PlaceInv, Len(surface_form) < BufferSize
    PROVE  Taken - Len(Written) <= BufferSize
  BY HandledRange, HandledNat, BufferSizeAssumption DEF PlaceInv

LEMMA PassNonalphabeticPlace ==
    ASSUME InputInv, PlaceInv, PassNonalphabetic
    PROVE  InputInv' /\ PlaceInv'
  <1>1. /\ SameSettings /\ stage = "stepped" /\ input' = input /\ token_buffer' = token_buffer
        /\ output' = WriteToken(next_token) /\ surface_form = << >>
        /\ surface_form' = << >> /\ stage' = "get"
    BY DEF PassNonalphabetic, NoPathLeft, BetweenWords, StartOver, SameSettings
  <1>2. Word = Append(surface_form, next_token) /\ Len(Word) = Len(surface_form) + 1 /\ next_token \in Tokens
    BY <1>1, OneHeld
  <1>3. Len(Word) = 1 /\ Word[1] = next_token /\ << next_token >> \in Seq(Tokens)
    BY <1>1, <1>2
  <1>4. PICK kind \in Kinds : output' = Append(output, Item(kind, << next_token >>, {}))
    BY <1>1 DEF WriteToken, Kinds
  <1>5. Taken - Left(token_buffer) = Len(Written) + 1
    BY <1>3 DEF PlaceInv, Handled
  <1>6. BufferHolds(token_buffer, stream, Taken)
    BY DEF InputInv
  <1>7. 1 \in 1 .. Len(Word) /\ Len(<< next_token >>) = 1 /\ {} \in SUBSET lexicon
        /\ \A k \in 1 .. 1 : << next_token >>[k] = Word[k]
    BY <1>3
  <1> QED
    BY <1>1, <1>3, <1>4, <1>5, <1>6, <1>7, WritesAndGoesBack

\* What both prints of a word have in common: the first tokens are written, the
\* stream is moved back to behind them.
LEMMA PrintsPlace ==
    ASSUME InputInv, PlaceInv, SameSettings, input' = input,
           NEW n \in 1 .. Len(surface_form), NEW kind \in Kinds, NEW forms \in SUBSET lexicon,
           Taken - Len(Written) <= BufferSize,
           output' = Append(output, Item(kind, SubSeq(surface_form, 1, n), forms)),
           token_buffer' = Back(token_buffer, Len(Word) - n),
           surface_form' = << >>, stage' = "get"
    PROVE  InputInv' /\ PlaceInv'
  <1>1. /\ surface_form \in Seq(Tokens) /\ n \in 1 .. Len(Word)
        /\ \A k \in 1 .. Len(surface_form) : Word[k] = surface_form[k]
    BY WordType DEF PlaceInv
  <1>2. /\ SubSeq(surface_form, 1, n) \in Seq(Tokens)
        /\ Len(SubSeq(surface_form, 1, n)) = n
        /\ \A k \in 1 .. n : SubSeq(surface_form, 1, n)[k] = Word[k]
    BY <1>1
  <1>3. /\ BufferHolds(token_buffer', stream, Taken)
        /\ Taken - Left(token_buffer') = Len(Written) + n
    BY <1>1, CanGoBack
  <1> HIDE DEF Kinds
  <1> DEFINE tokens == SubSeq(surface_form, 1, n)
  <1> HIDE DEF tokens
  <1>4. /\ tokens \in Seq(Tokens) /\ Len(tokens) = n /\ \A k \in 1 .. n : tokens[k] = Word[k]
        /\ output' = Append(output, Item(kind, tokens, forms))
    BY <1>2 DEF tokens
  <1> QED
    BY <1>1, <1>3, <1>4, WritesAndGoesBack

LEMMA DiffIsNat ==
    ASSUME NEW b, NEW s, NEW n, BufferHolds(b, s, n), NEW l \in 0 .. BufferSize - 1
    PROVE  DiffPrevPos(b, l + 1) \in Int
  BY BufferSizeAssumption DEF BufferHolds, DiffPrevPos

LEMMA WordShort ==
    ASSUME WordsFit, PathInv, surface_form \in Seq(Tokens),
           stage \in {"get", "token", "stepped"}
    PROVE  Len(surface_form) < BufferSize
  <1>1. CASE surface_form = << >>
    BY <1>1, BufferSizeAssumption DEF WordsFit
  <1>2. CASE surface_form # << >>
    <2>1. PICK w \in lexicon : Follows(w, surface_form)
      BY <1>2 DEF PathInv
    <2>2. Len(w) \in Nat /\ Len(w) < BufferSize /\ Len(surface_form) <= Len(w)
      BY <2>1 DEF WordsFit, PathInv, Follows
    <2> QED
      BY <2>2, BufferSizeAssumption
  <1> QED
    BY <1>1, <1>2

LEMMA PrintWordForms ==
    ASSUME InputInv, PlaceInv, FormsInv, WordsFit, PathInv, PrintWord
    PROVE  /\ stage = "stepped" /\ Len(surface_form) < BufferSize /\ analyzed_forms # {}
           /\ analyzed_forms \in SUBSET lexicon
           /\ \E n \in 1 .. Len(surface_form) :
                /\ analyzed_forms = {w \in lexicon : Reads(w, SubSeq(surface_form, 1, n))}
                /\ output' = Append(output, Item("word", SubSeq(surface_form, 1, n), analyzed_forms))
                /\ token_buffer' = Back(token_buffer, Len(Word) - n)
  <1>1. stage = "stepped" /\ analyzed_forms # {}
    BY DEF PrintWord, NoPathLeft, NoWord
  <1>2. PICK n \in 1 .. Len(surface_form) : Remembers(n)
    BY <1>1 DEF FormsInv
  <1> DEFINE revert_count == DiffPrevPos(token_buffer, last_stream_location + 1)
  <1>3. /\ output' = Append(output, Item("word", SubSeq(surface_form, 1, Len(surface_form) - revert_count),
                                         analyzed_forms))
        /\ token_buffer' = Back(token_buffer, revert_count + 1)
    BY DEF PrintWord
  <1>4. n + revert_count = Len(surface_form)
        /\ analyzed_forms = {w \in lexicon : Reads(w, SubSeq(surface_form, 1, n))}
    BY <1>1, <1>2 DEF Remembers
  <1>5. revert_count \in Int
    BY <1>1, DiffIsNat DEF FormsInv, InputInv
  <1>6. Len(Word) = Len(surface_form) + 1 /\ Len(surface_form) \in Nat
    BY <1>1, OneHeld, HandledNat
  <1> HIDE DEF revert_count
  <1>7. Len(surface_form) - revert_count = n /\ Len(Word) - n = revert_count + 1
    BY <1>4, <1>5, <1>6
  <1>8. Len(surface_form) < BufferSize
    BY <1>1, WordShort DEF PlaceInv
  <1>9. analyzed_forms \in SUBSET lexicon
    BY <1>4
  <1> QED
    BY <1>1, <1>3, <1>4, <1>7, <1>8, <1>9

LEMMA PrintWordPlace ==
    ASSUME InputInv, PlaceInv, FormsInv, WordsFit, PathInv, PrintWord
    PROVE  InputInv' /\ PlaceInv'
  <1>1. /\ Len(surface_form) < BufferSize /\ analyzed_forms \in SUBSET lexicon
        /\ \E n \in 1 .. Len(surface_form) :
                /\ output' = Append(output, Item("word", SubSeq(surface_form, 1, n), analyzed_forms))
                /\ token_buffer' = Back(token_buffer, Len(Word) - n)
    BY PrintWordForms
  <1>2. PICK n \in 1 .. Len(surface_form) :
                /\ output' = Append(output, Item("word", SubSeq(surface_form, 1, n), analyzed_forms))
                /\ token_buffer' = Back(token_buffer, Len(Word) - n)
    BY <1>1
  <1>3. SameSettings /\ input' = input /\ surface_form' = << >> /\ stage' = "get"
    BY DEF PrintWord, StartOver, SameSettings
  <1>4. "word" \in Kinds
    BY DEF Kinds
  <1>5. Taken - Len(Written) <= BufferSize
    BY <1>1, WordInBuffer
  <1> QED
    BY <1>1, <1>2, <1>3, <1>4, <1>5, PrintsPlace

LEMMA WholeSeq ==
    ASSUME NEW S, NEW s \in Seq(S)
    PROVE  SubSeq(s, 1, Len(s)) = s
  <1> DEFINE t == SubSeq(s, 1, Len(s))
  <1>1. t \in Seq(S) /\ Len(t) = Len(s) /\ \A k \in 1 .. Len(s) : t[k] = s[k]
    OBVIOUS
  <1> HIDE DEF t
  <1>2. t = s
    BY <1>1, SeqEqual
  <1> QED
    BY <1>2 DEF t

LEMMA PrintUnknownWordPlace ==
    ASSUME InputInv, PlaceInv, PathInv, BufferSize > 1, PrintUnknownWord
    PROVE  InputInv' /\ PlaceInv'
  <1>1. /\ SameSettings /\ stage = "unknown" /\ input' = input
        /\ output' = Append(output, Item("unknown", surface_form, {}))
        /\ token_buffer' = Back(token_buffer, IF part_of_word THEN 0 ELSE 1)
        /\ surface_form' = << >> /\ stage' = "get"
    BY DEF PrintUnknownWord, StartOver, SameSettings
  <1>2. surface_form # << >> /\ surface_form \in Seq(Tokens)
    BY <1>1 DEF PathInv, PlaceInv
  <1>3. Len(surface_form) \in 1 .. Len(surface_form)
    BY <1>2
  <1>4. SubSeq(surface_form, 1, Len(surface_form)) = surface_form
    BY <1>2, WholeSeq
  <1>5. "unknown" \in Kinds /\ {} \in SUBSET lexicon
    BY DEF Kinds
  <1>6. CASE part_of_word
    <2>1. Word = surface_form
      BY <1>1, <1>6, NoneHeld
    <2>2. BufferHolds(token_buffer, stream, Taken) /\ Left(token_buffer) \in 0 .. BufferSize - 1
      BY HandledRange DEF InputInv
    <2>3. /\ Handled = Taken - Left(token_buffer) /\ Handled = Len(Written) + Len(surface_form)
          /\ Taken \in Nat
      BY <2>1, HandledRange DEF Handled, PlaceInv
    <2>4. Taken # 0
      BY <1>3, <2>2, <2>3, HandledNat
    <2>5. Left(token_buffer) + 0 < BufferSize
      BY <2>2, BufferSizeAssumption
    <2>6. BufferHolds(Back(token_buffer, 0), stream, Taken)
          /\ Left(Back(token_buffer, 0)) = Left(token_buffer) + 0
      BY <2>2, <2>4, <2>5, BackHolds
    <2>7. BufferHolds(token_buffer', stream, Taken)
          /\ Taken - Left(token_buffer') = Len(Written) + Len(surface_form)
      <3>1. token_buffer' = Back(token_buffer, 0)
        BY <1>1, <1>6
      <3>2. Left(token_buffer) + 0 = Left(token_buffer)
        BY <2>2, BufferSizeAssumption
      <3> QED
        BY <2>3, <2>6, <3>1, <3>2
    <2> QED
      BY <1>1, <1>2, <1>3, <1>5, <2>1, <2>7, WritesAndGoesBack
  <1>7. CASE ~ part_of_word
    <2>1. Len(Word) = Len(surface_form) + 1
      BY <1>1, <1>7, OneHeld
    <2>2. token_buffer' = Back(token_buffer, Len(Word) - Len(surface_form))
      <3>1. Len(Word) - Len(surface_form) = 1
        BY <1>3, <2>1
      <3> QED
        BY <1>1, <1>7, <3>1
    <2>3. Taken - Len(Written) <= BufferSize
      BY <1>1, <1>7, WordInBuffer DEF PathInv
    <2> HIDE DEF Kinds
    <2> QED
      BY <1>1, <1>3, <1>4, <1>5, <2>2, <2>3, PrintsPlace
  <1> QED
    BY <1>6, <1>7
LEMMA GiveBackPlace ==
    ASSUME InputInv, PlaceInv, PathInv, Harmless, GiveBack
    PROVE  InputInv' /\ PlaceInv'
  <1>1. /\ SameSettings /\ stage = "unknown" /\ input' = input /\ ~ IsAlphabetic(Head(surface_form))
        /\ output' = WriteToken(Head(surface_form))
        /\ token_buffer' = Back(token_buffer, Len(surface_form) - 1)
        /\ surface_form' = << >> /\ stage' = "get"
    BY DEF GiveBack, StartOver, SameSettings
  <1>2. /\ surface_form # << >> /\ surface_form \in Seq(Tokens)
        /\ part_of_word /\ Len(surface_form) < BufferSize
    BY <1>1 DEF PathInv, PlaceInv, Harmless
  <1>3. /\ 1 \in 1 .. Len(surface_form) /\ Head(surface_form) \in Tokens
        /\ SubSeq(surface_form, 1, 1) = << Head(surface_form) >>
    <2>1. /\ SubSeq(surface_form, 1, 1) \in Seq(Tokens) /\ Len(SubSeq(surface_form, 1, 1)) = 1
          /\ SubSeq(surface_form, 1, 1)[1] = surface_form[1]
      BY <1>2
    <2>2. Head(surface_form) = surface_form[1] /\ Head(surface_form) \in Tokens
      BY <1>2
    <2>3. /\ << Head(surface_form) >> \in Seq(Tokens) /\ Len(<< Head(surface_form) >>) = 1
          /\ << Head(surface_form) >>[1] = Head(surface_form)
      BY <2>2
    <2>4. SubSeq(surface_form, 1, 1) = << Head(surface_form) >>
      <3> DEFINE a == SubSeq(surface_form, 1, 1)
                 c == << Head(surface_form) >>
      <3>1. a \in Seq(Tokens) /\ c \in Seq(Tokens) /\ Len(a) = 1 /\ Len(c) = 1 /\ a[1] = c[1]
        BY <2>1, <2>2, <2>3
      <3> HIDE DEF a, c
      <3>2. \A i \in 1 .. Len(a) : a[i] = c[i]
        BY <3>1
      <3>3. a = c
        BY <3>1, <3>2, SeqEqual
      <3> QED
        BY <3>3 DEF a, c
    <2>5. 1 \in 1 .. Len(surface_form)
      BY <1>2
    <2> QED
      BY <2>2, <2>4, <2>5
  <1>4. PICK kind \in Kinds : output' = Append(output, Item(kind, << Head(surface_form) >>, {}))
    BY <1>1 DEF WriteToken, Kinds
  <1>5. Word = surface_form
    BY <1>1, <1>2, NoneHeld
  <1>6. Taken - Len(Written) <= BufferSize /\ {} \in SUBSET lexicon
    BY <1>2, WordInBuffer
  <1> HIDE DEF Kinds
  <1>7. /\ output' = Append(output, Item(kind, SubSeq(surface_form, 1, 1), {}))
        /\ token_buffer' = Back(token_buffer, Len(Word) - 1)
    BY <1>1, <1>3, <1>4, <1>5
  <1> QED
    BY <1>1, <1>3, <1>6, <1>7, PrintsPlace

\* At the end of the input, outside a word, no analyses are remembered.
LEMMA NothingToPrint ==
    ASSUME FormsInv, stage = "eof", surface_form = << >>
    PROVE  analyzed_forms = {}
  BY DEF FormsInv

LEMMA EndOfStreamPlace ==
    ASSUME InputInv, PlaceInv, FormsInv, Harmless, EndOfStream
    PROVE  InputInv' /\ PlaceInv' /\ output' = output
  <1>1. /\ SameSettings /\ stage = "eof" /\ stage' = "done" /\ input' = input
        /\ token_buffer' = token_buffer /\ surface_form' = surface_form
        /\ surface_form = << >>
    BY DEF EndOfStream, SameSettings, wordVars, Harmless
  <1>2. output' = output
    BY <1>1, NothingToPrint DEF EndOfStream
  <1>3. stream' = stream /\ lexicon' = lexicon
    BY <1>1 DEF SameSettings, settings
  <1>4. Tokens' = Tokens /\ Items' = Items /\ Taken' = Taken /\ Handled' = Handled /\ Written' = Written
    BY <1>1, <1>2, <1>3 DEF Tokens, Items, Taken, Handled, Written
  <1>5. InputInv'
    BY <1>1, <1>3, <1>4 DEF InputInv
  <1>6. Held = << >> /\ Held' = << >>
    BY <1>1 DEF Held
  <1>7. Word' = Word
    BY <1>1, <1>6 DEF Word
  <1>8. PlaceInv'
    BY <1>1, <1>2, <1>3, <1>4, <1>6, <1>7 DEF PlaceInv
  <1> QED
    BY <1>2, <1>5, <1>8

LEMMA StutterPlace ==
    ASSUME InputInv, PlaceInv, UNCHANGED procVars
    PROVE  InputInv' /\ PlaceInv'
  <1>1. /\ stream' = stream /\ lexicon' = lexicon /\ input' = input /\ token_buffer' = token_buffer
        /\ output' = output /\ stage' = stage /\ next_token' = next_token
        /\ surface_form' = surface_form /\ part_of_word' = part_of_word
    BY DEF procVars, settings, streamVars, wordVars
  <1>2. Tokens' = Tokens /\ Items' = Items /\ Taken' = Taken /\ Handled' = Handled /\ Written' = Written
    BY <1>1 DEF Tokens, Items, Taken, Handled, Written
  <1>3. InputInv'
    BY <1>1, <1>2 DEF InputInv
  <1>4. Held' = Held /\ Word' = Word
    BY <1>1 DEF Held, Word
  <1>5. PlaceInv'
    BY <1>1, <1>2, <1>4 DEF PlaceInv
  <1> QED
    BY <1>3, <1>5

LEMMA InitPlace ==
    ASSUME ProcInit
    PROVE  InputInv /\ PlaceInv
  <1>1. /\ input = stream /\ token_buffer = EmptyBuffer /\ stage = "get" /\ output = << >>
        /\ surface_form = << >>
    BY DEF ProcInit
  <1>2. stream \in Seq(Tokens) /\ NoToken \notin Tokens
    BY AnalysisAssumption DEF ProcInit, Tokens
  <1>3. Len(stream) \in Nat
    BY <1>2
  <1>4. Taken = 0
    BY <1>1, <1>3 DEF Taken
  <1>5. BufferHolds(token_buffer, stream, Taken) /\ Left(token_buffer) = 0
    BY <1>1, <1>3, <1>4, EmptyHolds
  <1>6. InputInv
    <2>1. \A k \in 1 .. Len(input) : input[k] = stream[Taken + k]
      BY <1>1, <1>3, <1>4
    <2> QED
      BY <1>1, <1>2, <1>3, <1>5, <2>1 DEF InputInv
  <1>7. Held = << >> /\ Word = << >> /\ << >> \in Seq(Tokens) /\ << >> \in Seq(Items)
    BY <1>1, EmptySeq, ConcatEmptySeq DEF Held, Word
  <1>8. Written = << >>
    <2>1. FlattenSeq([k \in DOMAIN output |-> output[k].tokens]) = << >>
      <3>1. [k \in DOMAIN output |-> output[k].tokens] = << >>
        BY <1>1
      <3>2. Len(<< >>) = 0
        OBVIOUS
      <3> QED
        BY <3>1, <3>2, FlattenIsChosen
    <2> QED
      BY <2>1 DEF Written
  <1>9. Handled = 0
    BY <1>4, <1>5 DEF Handled
  <1>10. PlaceInv
    BY <1>1, <1>4, <1>7, <1>8, <1>9, BufferSizeAssumption DEF PlaceInv
  <1> QED
    BY <1>6, <1>10
-----------------------------------------------------------------------------
(* The paths are the ones of the tokens of the word.                        *)

LEMMA SettingsKept ==
    ASSUME SameSettings
    PROVE  /\ lexicon' = lexicon /\ stream' = stream /\ fold' = fold /\ null_flush' = null_flush
           /\ \A t : Alternatives(t)' = Alternatives(t)
           /\ \A w, s : Follows(w, s)' <=> Follows(w, s)
           /\ \A w, s : Reads(w, s)' <=> Reads(w, s)
           /\ \A s : PathsOf(s)' = PathsOf(s)
  <1>1. lexicon' = lexicon /\ stream' = stream /\ fold' = fold /\ null_flush' = null_flush
    BY DEF SameSettings, settings
  <1>2. \A t : Alternatives(t)' = Alternatives(t)
    BY <1>1 DEF Alternatives
  <1>3. \A w, s : Follows(w, s)' <=> Follows(w, s)
    BY <1>2 DEF Follows
  <1>4. \A w, s : Reads(w, s)' <=> Reads(w, s)
    BY <1>1 DEF Reads
  <1>5. \A s : PathsOf(s)' = PathsOf(s)
    BY <1>1, <1>3 DEF PathsOf
  <1> QED
    BY <1>1, <1>2, <1>3, <1>4, <1>5

LEMMA StartPaths ==
    ASSUME \A w \in lexicon : w \in Seq(Symbols)
    PROVE  InitialPaths = PathsOf(<< >>)
  <1>1. \A w \in lexicon : Follows(w, << >>)
    BY DEF Follows
  <1>2. Len(<< >>) = 0
    OBVIOUS
  <1> QED
    BY <1>1, <1>2 DEF InitialPaths, PathsOf

LEMMA FollowsAppend ==
    ASSUME NEW w \in Seq(Symbols), NEW s \in Seq(Tokens), NEW t \in Tokens
    PROVE  Follows(w, Append(s, t)) <=>
             Follows(w, s) /\ Len(s) < Len(w) /\ w[Len(s) + 1] \in Alternatives(t)
  <1>1. /\ Len(Append(s, t)) = Len(s) + 1 /\ Append(s, t)[Len(s) + 1] = t
        /\ \A k \in 1 .. Len(s) : Append(s, t)[k] = s[k]
        /\ Len(s) \in Nat /\ Len(w) \in Nat
    OBVIOUS
  <1>2. \A k \in 1 .. Len(s) + 1 : k \in 1 .. Len(s) \/ k = Len(s) + 1
    BY <1>1
  <1>3. Len(s) + 1 \in 1 .. Len(s) + 1 /\ \A k \in 1 .. Len(s) : k \in 1 .. Len(s) + 1
    BY <1>1
  <1> QED
    BY <1>1, <1>2, <1>3 DEF Follows

LEMMA StepPaths ==
    ASSUME \A w \in lexicon : w \in Seq(Symbols),
           NEW s \in Seq(Tokens), NEW t \in Tokens, paths = PathsOf(s)
    PROVE  Step(t) = PathsOf(Append(s, t))
  <1> DEFINE ways == {q \in paths : q[2] < Len(q[1]) /\ q[1][q[2] + 1] \in Alternatives(t)}
  <1>1. Len(Append(s, t)) = Len(s) + 1
    OBVIOUS
  <1>2. ASSUME NEW p \in ways
        PROVE  << p[1], p[2] + 1 >> \in PathsOf(Append(s, t))
    <2>1. PICK w \in lexicon : p = << w, Len(s) >> /\ Follows(w, s)
      BY DEF PathsOf
    <2>2. p[1] = w /\ p[2] = Len(s) /\ Len(s) < Len(w) /\ w[Len(s) + 1] \in Alternatives(t)
      BY <2>1
    <2>3. Follows(w, Append(s, t))
      BY <2>1, <2>2, FollowsAppend
    <2> QED
      BY <1>1, <2>2, <2>3 DEF PathsOf
  <1>3. ASSUME NEW x \in PathsOf(Append(s, t))
        PROVE  \E p \in ways : x = << p[1], p[2] + 1 >>
    <2>1. PICK w \in lexicon : x = << w, Len(s) + 1 >> /\ Follows(w, Append(s, t))
      BY <1>1 DEF PathsOf
    <2>2. Follows(w, s) /\ Len(s) < Len(w) /\ w[Len(s) + 1] \in Alternatives(t)
      BY <2>1, FollowsAppend
    <2>3. << w, Len(s) >> \in paths
      BY <2>2 DEF PathsOf
    <2>4. << w, Len(s) >> \in ways
      BY <2>2, <2>3
    <2> QED
      BY <2>1, <2>4
  <1>4. Step(t) = {<< p[1], p[2] + 1 >> : p \in ways}
    BY DEF Step
  <1> HIDE DEF ways
  <1> QED
    BY <1>2, <1>3, <1>4

\* To end with the tokens is to read them.
LEMMA AlternativesAre ==
    ASSUME NEW t, NEW x
    PROVE  x \in Alternatives(t) <=>
             x \in ToSymbol(t) \/ (fold /\ t \in DOMAIN LowerOf /\ x = LowerOf[t])
  BY AnalysisAssumption DEF Alternatives, ToSymbol

LEMMA ReadsFollows ==
    ASSUME NEW w \in Seq(Symbols), NEW s \in Seq(Tokens)
    PROVE  Reads(w, s) <=> Follows(w, s) /\ Len(w) = Len(s)
  <1>1. DOMAIN w = 1 .. Len(w) /\ Len(w) \in Nat /\ Len(s) \in Nat
    OBVIOUS
  <1>2. Len(w) = Len(s) => Len(s) <= Len(w)
    BY <1>1
  <1> QED
    BY <1>1, <1>2, AlternativesAre DEF Reads, Follows

LEMMA FinalAre ==
    ASSUME \A w \in lexicon : w \in Seq(Symbols), NEW s \in Seq(Tokens), paths = PathsOf(s)
    PROVE  FinalForms = {w \in lexicon : Reads(w, s)}
  <1>1. \A p \in paths : p[2] = Len(p[1]) => p[1] \in lexicon /\ Reads(p[1], s)
    <2> TAKE p \in paths
    <2>1. PICK w \in lexicon : p = << w, Len(s) >> /\ Follows(w, s)
      BY DEF PathsOf
    <2> QED
      BY <2>1, ReadsFollows
  <1>2. \A w \in lexicon : Reads(w, s) => << w, Len(s) >> \in paths /\ Len(s) = Len(w)
    <2> TAKE w \in lexicon
    <2>1. w \in Seq(Symbols)
      OBVIOUS
    <2> QED
      BY <2>1, ReadsFollows DEF PathsOf
  <1> DEFINE final == {q \in paths : q[2] = Len(q[1])}
  <1>3. ASSUME NEW w \in lexicon, Reads(w, s)
        PROVE  \E p \in final : w = p[1]
    <2>1. << w, Len(s) >> \in final
      BY <1>2, <1>3
    <2> QED
      BY <2>1
  <1>4. \A p \in final : p[1] \in lexicon /\ Reads(p[1], s)
    BY <1>1
  <1>5. FinalForms = {p[1] : p \in final}
    BY DEF FinalForms
  <1> HIDE DEF final
  <1> QED
    BY <1>3, <1>4, <1>5
\* A path that is left ends in a word of the transducer that begins with the tokens.
LEMMA PathLeft ==
    ASSUME NEW s, PathsOf(s) # {}
    PROVE  \E w \in lexicon : Follows(w, s)
  BY DEF PathsOf

LEMMA GetTokenPaths ==
    ASSUME PathInv, GetToken
    PROVE  PathInv'
  <1>1. /\ SameSettings /\ stage = "get" /\ stage' \in {"eof", "token"}
        /\ surface_form' = surface_form /\ paths' = paths
    BY DEF GetToken, SameSettings, wordVars
  <1>2. /\ lexicon' = lexicon /\ PathsOf(surface_form)' = PathsOf(surface_form)
        /\ \A w \in lexicon : Follows(w, surface_form)' <=> Follows(w, surface_form)
    BY <1>1, SettingsKept
  <1> QED
    BY <1>1, <1>2 DEF PathInv

LEMMA StreamErrorPaths ==
    ASSUME PathInv, StreamError
    PROVE  PathInv'
  <1>1. SameSettings /\ stage' = "error"
    BY DEF StreamError, SameSettings
  <1>2. lexicon' = lexicon
    BY <1>1, SettingsKept
  <1> QED
    BY <1>1, <1>2 DEF PathInv

LEMMA StepTokenPaths ==
    ASSUME PlaceInv, PathInv, StepToken
    PROVE  PathInv'
  <1>1. /\ SameSettings /\ stage = "token" /\ stage' = "stepped"
        /\ surface_form' = surface_form /\ next_token' = next_token
        /\ paths' = Step(next_token)
    BY DEF StepToken, SameSettings
  <1>2. surface_form \in Seq(Tokens) /\ next_token \in Tokens
    BY <1>1, OneHeld DEF PlaceInv
  <1>3. paths' = PathsOf(Append(surface_form, next_token))
    BY <1>1, <1>2, StepPaths DEF PathInv
  <1>4. /\ lexicon' = lexicon
        /\ PathsOf(Append(surface_form, next_token))' = PathsOf(Append(surface_form, next_token))
        /\ \A w \in lexicon : Follows(w, surface_form)' <=> Follows(w, surface_form)
    BY <1>1, SettingsKept
  <1> QED
    BY <1>1, <1>3, <1>4 DEF PathInv

LEMMA ExtendWordPaths ==
    ASSUME PlaceInv, PathInv, ExtendWord
    PROVE  PathInv'
  <1>1. /\ SameSettings /\ stage = "stepped" /\ stage' = "get"
        /\ surface_form' = Append(surface_form, next_token) /\ paths' = paths /\ paths # {}
    BY DEF ExtendWord, SameSettings
  <1>2. paths = PathsOf(surface_form')
    BY <1>1 DEF PathInv
  <1>3. \E w \in lexicon : Follows(w, surface_form')
    BY <1>1, <1>2, PathLeft
  <1>4. /\ lexicon' = lexicon /\ PathsOf(surface_form)' = PathsOf(surface_form')
        /\ \A w \in lexicon : Follows(w, surface_form)' <=> Follows(w, surface_form')
    BY <1>1, SettingsKept
  <1> QED
    BY <1>1, <1>2, <1>3, <1>4 DEF PathInv

LEMMA UnknownStartsPaths ==
    ASSUME WordsFit, PlaceInv, PathInv, UnknownStarts
    PROVE  PathInv'
  <1>1. /\ SameSettings /\ stage = "stepped" /\ ~ BetweenWords
        /\ part_of_word' = IsAlphabetic(next_token)
        /\ IF IsAlphabetic(next_token)
             THEN surface_form' = Append(surface_form, next_token) /\ stage' = "gather"
             ELSE surface_form' = surface_form /\ stage' = "unknown"
    BY DEF UnknownStarts, NoPathLeft, SameSettings
  <1>2. surface_form \in Seq(Tokens) /\ next_token \in Tokens
    BY <1>1, OneHeld DEF PlaceInv
  <1>3. lexicon' = lexicon /\ \A t : Alternatives(t)' = Alternatives(t)
    BY <1>1, SettingsKept
  <1>4. Len(surface_form) < BufferSize
    BY <1>1, <1>2, WordShort
  <1>5. surface_form' # << >> /\ (surface_form # << >> => surface_form'[1] = surface_form[1])
        /\ (surface_form = << >> => surface_form'[1] = next_token /\ IsAlphabetic(next_token))
        /\ (stage' = "gather" => surface_form'[Len(surface_form')] = next_token)
    BY <1>1, <1>2 DEF BetweenWords
  <1>6. ASSUME surface_form # << >>
        PROVE  \E w \in lexicon : w # << >> /\ w[1] \in Alternatives(surface_form[1])
    <2>1. PICK w \in lexicon : Follows(w, surface_form)
      BY <1>1, <1>6 DEF PathInv
    <2>2. w \in Seq(Symbols)
      BY DEF PathInv
    <2>3. 1 \in 1 .. Len(surface_form) /\ Len(surface_form) <= Len(w)
      BY <1>2, <1>6, <2>1 DEF Follows
    <2>4. w # << >> /\ w[1] \in Alternatives(surface_form[1])
      BY <1>2, <2>1, <2>2, <2>3 DEF Follows
    <2> QED
      BY <2>4
  <1>7. IsAlphabetic(surface_form'[1])
        \/ \E w \in lexicon' : w # << >> /\ w[1] \in Alternatives(surface_form'[1])
    BY <1>3, <1>5, <1>6
  <1>8. \A t : IsAlphabetic(t)' <=> IsAlphabetic(t)
    BY DEF IsAlphabetic
  <1>9. stage' \in {"gather", "unknown"}
    BY <1>1
  <1>10. (stage' = "gather" => IsAlphabetic(surface_form'[Len(surface_form')]))
         /\ (stage' = "unknown" => Len(surface_form') < BufferSize)
    BY <1>1, <1>4, <1>5
  <1> QED
    BY <1>3, <1>5, <1>7, <1>8, <1>9, <1>10 DEF PathInv

LEMMA GatherTokenPaths ==
    ASSUME PlaceInv, PathInv, GatherToken
    PROVE  PathInv'
  <1>1. /\ SameSettings /\ stage = "gather" /\ stage' = "gather" /\ IsAlphabetic(Upcoming)
        /\ surface_form' = Append(surface_form, Upcoming)
    BY DEF GatherToken, SameSettings
  <1>2. lexicon' = lexicon /\ \A t : Alternatives(t)' = Alternatives(t)
    BY <1>1, SettingsKept
  <1>3. surface_form # << >> /\ surface_form \in Seq(Tokens)
    BY <1>1 DEF PathInv, PlaceInv
  <1>4. surface_form' # << >> /\ surface_form'[1] = surface_form[1]
        /\ surface_form'[Len(surface_form')] = Upcoming
    BY <1>1, <1>3
  <1>5. \A t : IsAlphabetic(t)' <=> IsAlphabetic(t)
    BY DEF IsAlphabetic
  <1> QED
    BY <1>1, <1>2, <1>4, <1>5 DEF PathInv

LEMMA WordGatheredPaths ==
    ASSUME PlaceInv, PathInv, WordGathered
    PROVE  PathInv'
  <1>1. /\ SameSettings /\ stage = "gather" /\ stage' = "unknown" /\ part_of_word' = part_of_word
        /\ surface_form' = surface_form
    BY DEF WordGathered, SameSettings, wordVars
  <1>2. lexicon' = lexicon /\ \A t : Alternatives(t)' = Alternatives(t)
    BY <1>1, SettingsKept
  <1>3. \A t : IsAlphabetic(t)' <=> IsAlphabetic(t)
    BY DEF IsAlphabetic
  <1>4. part_of_word
    BY <1>1 DEF PlaceInv
  <1> QED
    BY <1>1, <1>2, <1>3, <1>4 DEF PathInv

LEMMA StartOverPaths ==
    ASSUME PathInv, StartOver
    PROVE  PathInv'
  <1>1. /\ SameSettings /\ paths' = InitialPaths /\ surface_form' = << >> /\ stage' = "get"
    BY DEF StartOver, SameSettings
  <1>2. lexicon' = lexicon /\ PathsOf(surface_form)' = PathsOf(<< >>)
    BY <1>1, SettingsKept
  <1>3. paths' = PathsOf(<< >>)
    BY <1>1, StartPaths DEF PathInv
  <1> QED
    BY <1>1, <1>2, <1>3 DEF PathInv

LEMMA EndOfStreamPaths ==
    ASSUME PathInv, EndOfStream
    PROVE  PathInv'
  <1>1. SameSettings /\ stage' = "done"
    BY DEF EndOfStream, SameSettings
  <1>2. lexicon' = lexicon
    BY <1>1, SettingsKept
  <1> QED
    BY <1>1, <1>2 DEF PathInv

LEMMA StutterPaths ==
    ASSUME PathInv, UNCHANGED procVars
    PROVE  PathInv'
  <1>1. /\ SameSettings /\ stage' = stage /\ next_token' = next_token
        /\ surface_form' = surface_form /\ paths' = paths /\ part_of_word' = part_of_word
    BY DEF procVars, SameSettings, wordVars
  <1>2. /\ lexicon' = lexicon /\ \A t : Alternatives(t)' = Alternatives(t)
        /\ \A w, s : Follows(w, s)' <=> Follows(w, s)
        /\ \A s : PathsOf(s)' = PathsOf(s)
    BY <1>1, SettingsKept
  <1>3. \A t : IsAlphabetic(t)' <=> IsAlphabetic(t)
    BY DEF IsAlphabetic
  <1> QED
    BY <1>1, <1>2, <1>3 DEF PathInv

LEMMA InitPaths ==
    ASSUME ProcInit
    PROVE  PathInv
  <1>1. stage = "get" /\ surface_form = << >> /\ paths = InitialPaths
    BY DEF ProcInit
  <1>2. \A w \in lexicon : w \in Seq(Symbols)
    BY AnalysisAssumption DEF ProcInit
  <1> QED
    BY <1>1, <1>2, StartPaths DEF PathInv
-----------------------------------------------------------------------------
(* The remembered analyses are the ones of the tokens in front of where the *)
(* stream will be moved back to.                                            *)

\* The position moves away from the remembered one with every token.
LEMMA DiffGrows ==
    ASSUME NEW b, NEW c, NEW l \in 0 .. BufferSize - 1, b.currentpos \in 0 .. BufferSize,
           c.currentpos = Index(b.currentpos) + 1,
           DiffPrevPos(b, l + 1) + 1 < BufferSize
    PROVE  DiffPrevPos(c, l + 1) = DiffPrevPos(b, l + 1) + 1
  BY BufferSizeAssumption DEF DiffPrevPos, Index

LEMMA GetTokenForms ==
    ASSUME InputInv, PlaceInv, NulIsLast, WordsFit, PathInv, FormsInv, GetToken
    PROVE  FormsInv'
  <1>1. /\ SameSettings /\ stage = "get" /\ token_buffer' = AfterUpcoming /\ ReadToken
        /\ surface_form' = surface_form /\ analyzed_forms' = analyzed_forms
        /\ last_stream_location' = last_stream_location
        /\ stage' = IF Upcoming = NoToken THEN "eof" ELSE "token"
    BY DEF GetToken, SameSettings, wordVars
  <1>2. lexicon' = lexicon /\ \A w, s : Reads(w, s)' <=> Reads(w, s)
    BY <1>1, SettingsKept
  <1>3. SUFFICES ASSUME analyzed_forms # {}
                 PROVE  /\ last_stream_location' \in 0 .. BufferSize - 1
                        /\ \E n \in 1 .. Len(surface_form') : Remembers(n)'
    BY <1>1 DEF FormsInv
  <1>4. last_stream_location \in 0 .. BufferSize - 1
    BY <1>1, <1>3 DEF FormsInv
  <1>5. PICK n \in 1 .. Len(surface_form) : Remembers(n)
    BY <1>1, <1>3 DEF FormsInv
  <1>6. n + DiffPrevPos(token_buffer, last_stream_location + 1) + 1 = Len(surface_form)
    BY <1>1, <1>5 DEF Remembers
  <1>7. CASE Upcoming = NoToken
    <2>1. token_buffer' = token_buffer /\ stage' = "eof"
      BY <1>1, <1>7, HandledNat, NothingTaken
    <2>2. Remembers(n)'
      BY <1>1, <1>2, <1>5, <2>1 DEF Remembers
    <2> QED
      BY <1>1, <1>4, <1>5, <2>2
  <1>8. CASE Upcoming # NoToken
    <2>1. AfterUpcoming.currentpos = Index(token_buffer.currentpos) + 1
      BY <1>1, <1>8, HandledNat, TokenTaken
    <2>2. Len(surface_form) < BufferSize /\ Len(surface_form) \in Nat
      BY <1>1, WordShort, HandledNat DEF PlaceInv
    <2>3. DiffPrevPos(token_buffer, last_stream_location + 1) \in Int
      BY <1>4, DiffIsNat DEF InputInv
    <2>4. DiffPrevPos(token_buffer, last_stream_location + 1) + 1 < BufferSize
      BY <1>5, <1>6, <2>2, <2>3, BufferSizeAssumption
    <2>5. token_buffer.currentpos \in 0 .. BufferSize
      BY DEF InputInv, BufferHolds
    <2>6. DiffPrevPos(AfterUpcoming, last_stream_location + 1)
            = DiffPrevPos(token_buffer, last_stream_location + 1) + 1
      BY <1>4, <2>1, <2>4, <2>5, DiffGrows
    <2>7. n + DiffPrevPos(token_buffer', last_stream_location' + 1) = Len(surface_form')
      BY <1>1, <1>5, <1>6, <2>3, <2>6
    <2>8. stage' = "token"
      BY <1>1, <1>8
    <2>9. Remembers(n)'
      BY <1>1, <1>2, <1>5, <2>7, <2>8 DEF Remembers
    <2> QED
      BY <1>1, <1>4, <1>5, <2>9
  <1> QED
    BY <1>7, <1>8

LEMMA StepTokenForms ==
    ASSUME InputInv, PlaceInv, PathInv, FormsInv, StepToken
    PROVE  FormsInv'
  <1>1. /\ SameSettings /\ stage = "token" /\ stage' = "stepped" /\ token_buffer' = token_buffer
        /\ surface_form' = surface_form
        /\ IF surface_form # << >> /\ IsFinal
             THEN /\ analyzed_forms' = FinalForms
                  /\ last_stream_location' = token_buffer.currentpos - 1
             ELSE /\ analyzed_forms' = analyzed_forms
                  /\ last_stream_location' = last_stream_location
    BY DEF StepToken, SameSettings, streamVars
  <1>2. lexicon' = lexicon /\ \A w, s : Reads(w, s)' <=> Reads(w, s)
    BY <1>1, SettingsKept
  <1>3. SUFFICES ASSUME analyzed_forms' # {}
                 PROVE  /\ last_stream_location' \in 0 .. BufferSize - 1
                        /\ \E n \in 1 .. Len(surface_form') : Remembers(n)'
    BY <1>1 DEF FormsInv
  <1>4. surface_form \in Seq(Tokens) /\ Len(Word) = Len(surface_form) + 1
    BY <1>1, OneHeld DEF PlaceInv
  <1>5. CASE surface_form # << >> /\ IsFinal
    <2>1. analyzed_forms' = {w \in lexicon : Reads(w, surface_form)}
      BY <1>1, <1>4, <1>5, FinalAre DEF PathInv
    <2>2. SubSeq(surface_form, 1, Len(surface_form)) = surface_form
      BY <1>4, WholeSeq
    <2>3. Taken # 0
      <3>1. Handled = Len(Written) + Len(Word) /\ Handled = Taken - Left(token_buffer)
        BY DEF PlaceInv, Handled
      <3> QED
        BY <1>4, <3>1, HandledNat, HandledRange
    <2>4. token_buffer.currentpos \in 1 .. BufferSize
      BY <2>3, LeftRange DEF InputInv
    <2>5. last_stream_location' \in 0 .. BufferSize - 1
          /\ last_stream_location' + 1 = token_buffer.currentpos
      BY <1>1, <1>5, <2>4, BufferSizeAssumption
    <2>6. DiffPrevPos(token_buffer', last_stream_location' + 1) = 0
      BY <1>1, <2>4, <2>5, BufferSizeAssumption DEF DiffPrevPos
    <2>7. Len(surface_form) \in 1 .. Len(surface_form') /\ Len(surface_form) + 0 = Len(surface_form)
      BY <1>1, <1>4, <1>5
    <2>8. Remembers(Len(surface_form))'
      BY <1>1, <1>2, <2>1, <2>2, <2>6, <2>7 DEF Remembers
    <2> QED
      BY <2>5, <2>7, <2>8
  <1>6. CASE ~ (surface_form # << >> /\ IsFinal)
    <2>1. analyzed_forms' = analyzed_forms /\ last_stream_location' = last_stream_location
      BY <1>1, <1>6
    <2>2. last_stream_location \in 0 .. BufferSize - 1
      BY <1>1, <1>3, <2>1 DEF FormsInv
    <2>3. PICK n \in 1 .. Len(surface_form) : Remembers(n)
      BY <1>1, <1>3, <2>1 DEF FormsInv
    <2>4. Remembers(n)'
      BY <1>1, <1>2, <2>1, <2>3 DEF Remembers
    <2> QED
      BY <1>1, <2>1, <2>2, <2>3, <2>4
  <1> QED
    BY <1>5, <1>6

LEMMA SubSeqAppend ==
    ASSUME NEW S, NEW s \in Seq(S), NEW t \in S, NEW n \in 1 .. Len(s)
    PROVE  SubSeq(Append(s, t), 1, n) = SubSeq(s, 1, n)
  <1> DEFINE a == SubSeq(Append(s, t), 1, n)
             c == SubSeq(s, 1, n)
  <1>1. /\ Append(s, t) \in Seq(S) /\ Len(Append(s, t)) = Len(s) + 1
        /\ \A k \in 1 .. Len(s) : Append(s, t)[k] = s[k]
    OBVIOUS
  <1>2. a \in Seq(S) /\ Len(a) = n /\ \A k \in 1 .. n : a[k] = Append(s, t)[k]
    BY <1>1
  <1>3. c \in Seq(S) /\ Len(c) = n /\ \A k \in 1 .. n : c[k] = s[k]
    OBVIOUS
  <1>4. \A k \in 1 .. n : k \in 1 .. Len(s)
    OBVIOUS
  <1> HIDE DEF a, c
  <1>5. \A k \in 1 .. Len(a) : a[k] = c[k]
    BY <1>1, <1>2, <1>3, <1>4
  <1>6. a = c
    BY <1>2, <1>3, <1>5, SeqEqual
  <1> QED
    BY <1>6 DEF a, c

LEMMA ExtendWordForms ==
    ASSUME InputInv, PlaceInv, FormsInv, ExtendWord
    PROVE  FormsInv'
  <1>1. /\ SameSettings /\ stage = "stepped" /\ stage' = "get" /\ token_buffer' = token_buffer
        /\ surface_form' = Append(surface_form, next_token)
        /\ analyzed_forms' = analyzed_forms /\ last_stream_location' = last_stream_location
    BY DEF ExtendWord, SameSettings, streamVars
  <1>2. lexicon' = lexicon /\ \A w, s : Reads(w, s)' <=> Reads(w, s)
    BY <1>1, SettingsKept
  <1>3. SUFFICES ASSUME analyzed_forms # {}
                 PROVE  /\ last_stream_location' \in 0 .. BufferSize - 1
                        /\ \E n \in 1 .. Len(surface_form') : Remembers(n)'
    BY <1>1 DEF FormsInv
  <1>4. last_stream_location \in 0 .. BufferSize - 1
    BY <1>1, <1>3 DEF FormsInv
  <1>5. PICK n \in 1 .. Len(surface_form) : Remembers(n)
    BY <1>1, <1>3 DEF FormsInv
  <1>6. surface_form \in Seq(Tokens) /\ next_token \in Tokens
    BY <1>1, OneHeld DEF PlaceInv
  <1>7. Len(surface_form') = Len(surface_form) + 1 /\ n \in 1 .. Len(surface_form')
    BY <1>1, <1>5, <1>6
  <1>8. SubSeq(surface_form', 1, n) = SubSeq(surface_form, 1, n)
    BY <1>1, <1>5, <1>6, SubSeqAppend
  <1>9. n + DiffPrevPos(token_buffer', last_stream_location' + 1) + 1 = Len(surface_form')
    <2>1. n + DiffPrevPos(token_buffer, last_stream_location + 1) = Len(surface_form)
      BY <1>1, <1>5 DEF Remembers
    <2> QED
      BY <1>1, <1>7, <2>1
  <1>10. Remembers(n)'
    BY <1>1, <1>2, <1>5, <1>8, <1>9 DEF Remembers
  <1> QED
    BY <1>1, <1>4, <1>7, <1>10

LEMMA NoForms ==
    ASSUME analyzed_forms' = {} \/ stage' \notin {"get", "token", "stepped", "eof"}
    PROVE  FormsInv'
  BY DEF FormsInv

LEMMA StutterForms ==
    ASSUME FormsInv, UNCHANGED procVars
    PROVE  FormsInv'
  <1>1. /\ SameSettings /\ stage' = stage /\ token_buffer' = token_buffer
        /\ surface_form' = surface_form
        /\ analyzed_forms' = analyzed_forms /\ last_stream_location' = last_stream_location
    BY DEF procVars, SameSettings, wordVars, streamVars
  <1>2. lexicon' = lexicon /\ \A w, s : Reads(w, s)' <=> Reads(w, s)
    BY <1>1, SettingsKept
  <1>3. \A n : Remembers(n) => Remembers(n)'
    BY <1>1, <1>2 DEF Remembers
  <1> QED
    BY <1>1, <1>3 DEF FormsInv

-----------------------------------------------------------------------------
(* The analyses that were printed.                                          *)

\* What a word and its analyses have to do with each other.
Belongs(item) ==
    item.kind = "word" =>
      /\ item.forms # {}
      /\ item.forms = {w \in lexicon : Reads(w, item.tokens)}

LEMMA BelongsAppend ==
    ASSUME SameSettings, AnalysesBelong, output \in Seq(Items),
           output' = output \/ \E item \in Items : output' = Append(output, item) /\ Belongs(item)
    PROVE  AnalysesBelong'
  <1>1. lexicon' = lexicon /\ \A w, s : Reads(w, s)' <=> Reads(w, s)
    BY SettingsKept
  <1>2. \A k \in DOMAIN output : Belongs(output[k])
    BY DEF AnalysesBelong, Belongs
  <1>3. \A k \in DOMAIN output' : Belongs(output'[k])
    <2>1. CASE output' = output
      BY <1>2, <2>1
    <2>2. CASE \E item \in Items : output' = Append(output, item) /\ Belongs(item)
      <3>1. PICK item \in Items : output' = Append(output, item) /\ Belongs(item)
        BY <2>2
      <3>2. /\ DOMAIN output = 1 .. Len(output) /\ DOMAIN output' = 1 .. Len(output) + 1
            /\ \A k \in 1 .. Len(output) : output'[k] = output[k]
            /\ output'[Len(output) + 1] = item
        BY <3>1
      <3>3. \A k \in 1 .. Len(output) + 1 : k \in 1 .. Len(output) \/ k = Len(output) + 1
        OBVIOUS
      <3> QED
        BY <1>2, <3>1, <3>2, <3>3
    <2> QED
      BY <2>1, <2>2
  <1> QED
    BY <1>1, <1>3 DEF AnalysesBelong, Belongs
LEMMA ReadTokenOutput ==
    ASSUME ReadToken
    PROVE  output' = output \/ output' = Append(output, Item("flush", << >>, {}))
  BY DEF ReadToken

LEMMA OtherKinds ==
    ASSUME NEW kind \in Kinds \ {"word"}, NEW tokens \in Seq(Tokens)
    PROVE  Item(kind, tokens, {}) \in Items /\ Belongs(Item(kind, tokens, {}))
  <1>1. Item(kind, tokens, {}) \in Items
    BY ItemIsItem
  <1>2. Item(kind, tokens, {}).kind # "word"
    BY DEF Item
  <1> QED
    BY <1>1, <1>2 DEF Belongs

LEMMA FlushBelongs ==
    ASSUME SameSettings, AnalysesBelong, output \in Seq(Items), ReadToken
    PROVE  AnalysesBelong'
  <1>1. "flush" \in Kinds \ {"word"} /\ << >> \in Seq(Tokens)
    BY EmptySeq DEF Kinds
  <1>2. Item("flush", << >>, {}) \in Items /\ Belongs(Item("flush", << >>, {}))
    BY <1>1, OtherKinds
  <1> QED
    BY <1>2, ReadTokenOutput, BelongsAppend

LEMMA TokenBelongs ==
    ASSUME SameSettings, AnalysesBelong, output \in Seq(Items), NEW t \in Tokens,
           output' = WriteToken(t)
    PROVE  AnalysesBelong'
  <1>1. PICK kind \in Kinds \ {"word"} : output' = Append(output, Item(kind, << t >>, {}))
    BY DEF WriteToken, Kinds
  <1>2. << t >> \in Seq(Tokens)
    OBVIOUS
  <1>3. Item(kind, << t >>, {}) \in Items /\ Belongs(Item(kind, << t >>, {}))
    BY <1>2, OtherKinds
  <1> QED
    BY <1>1, <1>3, BelongsAppend

LEMMA UnknownBelongs ==
    ASSUME AnalysesBelong, PlaceInv, PrintUnknownWord
    PROVE  AnalysesBelong'
  <1>1. SameSettings /\ output' = Append(output, Item("unknown", surface_form, {}))
    BY DEF PrintUnknownWord, StartOver, SameSettings
  <1>2. "unknown" \in Kinds \ {"word"} /\ surface_form \in Seq(Tokens) /\ output \in Seq(Items)
    BY DEF Kinds, PlaceInv
  <1>3. Item("unknown", surface_form, {}) \in Items /\ Belongs(Item("unknown", surface_form, {}))
    BY <1>2, OtherKinds
  <1> QED
    BY <1>1, <1>2, <1>3, BelongsAppend

LEMMA WordBelongs ==
    ASSUME AnalysesBelong, InputInv, PlaceInv, FormsInv, WordsFit, PathInv, PrintWord
    PROVE  AnalysesBelong'
  <1>1. SameSettings
    BY DEF PrintWord, StartOver, SameSettings
  <1>2. /\ analyzed_forms # {} /\ analyzed_forms \in SUBSET lexicon
        /\ \E n \in 1 .. Len(surface_form) :
             /\ analyzed_forms = {w \in lexicon : Reads(w, SubSeq(surface_form, 1, n))}
             /\ output' = Append(output, Item("word", SubSeq(surface_form, 1, n), analyzed_forms))
    BY PrintWordForms
  <1>3. PICK n \in 1 .. Len(surface_form) :
             /\ analyzed_forms = {w \in lexicon : Reads(w, SubSeq(surface_form, 1, n))}
             /\ output' = Append(output, Item("word", SubSeq(surface_form, 1, n), analyzed_forms))
    BY <1>2
  <1>4. SubSeq(surface_form, 1, n) \in Seq(Tokens) /\ "word" \in Kinds
    BY DEF PlaceInv, Kinds
  <1> DEFINE tokens == SubSeq(surface_form, 1, n)
  <1>5. tokens \in Seq(Tokens) /\ analyzed_forms = {w \in lexicon : Reads(w, tokens)}
        /\ output' = Append(output, Item("word", tokens, analyzed_forms))
    BY <1>3, <1>4
  <1> HIDE DEF tokens
  <1>6. Item("word", tokens, analyzed_forms) \in Items
    BY <1>2, <1>4, <1>5, ItemIsItem
  <1>7. Belongs(Item("word", tokens, analyzed_forms))
    BY <1>2, <1>5 DEF Belongs, Item
  <1>8. output \in Seq(Items)
    BY DEF PlaceInv
  <1> QED
    BY <1>1, <1>5, <1>6, <1>7, <1>8, BelongsAppend

LEMMA SameBelongs ==
    ASSUME SameSettings, AnalysesBelong, output \in Seq(Items), output' = output
    PROVE  AnalysesBelong'
  BY BelongsAppend

-----------------------------------------------------------------------------
(* One step of the loop keeps the invariant.                                *)

LEMMA AnalysisInit ==
    ASSUME ProcInit
    PROVE  AnalysisInv
  <1>1. InputInv /\ PlaceInv /\ PathInv
    BY InitPlace, InitPaths
  <1>2. FormsInv
    BY DEF ProcInit, FormsInv
  <1>3. AnalysesBelong
    BY DEF ProcInit, AnalysesBelong
  <1> QED
    BY <1>1, <1>2, <1>3 DEF AnalysisInv

LEMMA AnalysisStep ==
    ASSUME AnalysisInv, Harmless, [ProcNext]_procVars
    PROVE  AnalysisInv'
  <1>1. /\ InputInv /\ PlaceInv /\ PathInv /\ FormsInv /\ AnalysesBelong /\ output \in Seq(Items)
        /\ WordsFit /\ BufferSize > 1 /\ NulIsLast
    BY DEF AnalysisInv, Harmless, WordsFit, PlaceInv
  <1>2. CASE GetToken
    <2>1. SameSettings /\ ReadToken
      BY <1>2 DEF GetToken, SameSettings
    <2> QED
      BY <1>1, <1>2, <2>1, GetTokenPlace, GetTokenPaths, GetTokenForms, FlushBelongs DEF AnalysisInv
  <1>3. CASE StreamError
    <2>1. SameSettings /\ output' = output /\ stage' = "error"
      BY <1>3 DEF StreamError, SameSettings, streamVars
    <2> QED
      BY <1>1, <1>3, <2>1, StreamErrorPlace, StreamErrorPaths, NoForms, SameBelongs DEF AnalysisInv
  <1>4. CASE StepToken
    <2>1. SameSettings /\ output' = output
      BY <1>4 DEF StepToken, SameSettings, streamVars
    <2> QED
      BY <1>1, <1>4, <2>1, StepTokenPlace, StepTokenPaths, StepTokenForms, SameBelongs DEF AnalysisInv
  <1>5. CASE ExtendWord
    <2>1. SameSettings /\ output' = output
      BY <1>5 DEF ExtendWord, SameSettings, streamVars
    <2> QED
      BY <1>1, <1>5, <2>1, ExtendWordPlace, ExtendWordPaths, ExtendWordForms, SameBelongs DEF AnalysisInv
  <1>6. CASE PassNonalphabetic
    <2>1. SameSettings /\ StartOver /\ analyzed_forms' = {} /\ output' = WriteToken(next_token)
          /\ stage = "stepped"
      BY <1>6 DEF PassNonalphabetic, NoPathLeft, StartOver, SameSettings
    <2>2. next_token \in Tokens
      BY <1>1, <2>1, OneHeld
    <2> QED
      BY <1>1, <1>6, <2>1, <2>2, PassNonalphabeticPlace, StartOverPaths, NoForms, TokenBelongs
      DEF AnalysisInv
  <1>7. CASE PrintWord
    <2>1. StartOver /\ analyzed_forms' = {}
      BY <1>7 DEF PrintWord, StartOver
    <2> QED
      BY <1>1, <1>7, <2>1, PrintWordPlace, StartOverPaths, NoForms, WordBelongs DEF AnalysisInv
  <1>8. CASE UnknownStarts
    <2>1. SameSettings /\ output' = output /\ stage' \in {"gather", "unknown"}
      BY <1>8 DEF UnknownStarts, SameSettings, streamVars
    <2> QED
      BY <1>1, <1>8, <2>1, UnknownStartsPlace, UnknownStartsPaths, NoForms, SameBelongs DEF AnalysisInv
  <1>9. CASE GatherToken
    <2>1. SameSettings /\ ReadToken /\ stage = "gather" /\ stage' = "gather"
      BY <1>9 DEF GatherToken, SameSettings
    <2>2. Upcoming # NoToken
      BY <2>1 DEF Harmless
    <2> QED
      BY <1>1, <1>9, <2>1, <2>2, GatherTokenPlace, GatherTokenPaths, NoForms, FlushBelongs DEF AnalysisInv
  <1>10. CASE WordGathered
    <2>1. SameSettings /\ ReadToken /\ stage = "gather" /\ stage' = "unknown"
      BY <1>10 DEF WordGathered, SameSettings
    <2>2. Upcoming # NoToken
      BY <2>1 DEF Harmless
    <2> QED
      BY <1>1, <1>10, <2>1, <2>2, WordGatheredPlace, WordGatheredPaths, NoForms, FlushBelongs
      DEF AnalysisInv
  <1>11. CASE PrintUnknownWord
    <2>1. StartOver /\ analyzed_forms' = {}
      BY <1>11 DEF PrintUnknownWord, StartOver
    <2> QED
      BY <1>1, <1>11, <2>1, PrintUnknownWordPlace, StartOverPaths, NoForms, UnknownBelongs DEF AnalysisInv
  <1>12. CASE GiveBack
    <2>1. /\ SameSettings /\ StartOver /\ analyzed_forms' = {} /\ stage = "unknown"
          /\ output' = WriteToken(Head(surface_form))
      BY <1>12 DEF GiveBack, StartOver, SameSettings
    <2>2. Head(surface_form) \in Tokens
      BY <1>1, <2>1 DEF PathInv, PlaceInv
    <2> QED
      BY <1>1, <1>12, <2>1, <2>2, GiveBackPlace, StartOverPaths, NoForms, TokenBelongs DEF AnalysisInv
  <1>13. CASE EndOfStream
    <2>1. SameSettings /\ stage' = "done"
      BY <1>13 DEF EndOfStream, SameSettings
    <2> QED
      BY <1>1, <1>13, <2>1, EndOfStreamPlace, EndOfStreamPaths, NoForms, SameBelongs DEF AnalysisInv
  <1>14. CASE UNCHANGED procVars
    <2>1. SameSettings /\ output' = output
      BY <1>14 DEF procVars, SameSettings, streamVars
    <2> QED
      BY <1>1, <1>14, <2>1, StutterPlace, StutterPaths, StutterForms, SameBelongs DEF AnalysisInv
  <1> QED
    BY <1>2, <1>3, <1>4, <1>5, <1>6, <1>7, <1>8, <1>9, <1>10, <1>11, <1>12, <1>13, <1>14
    DEF ProcNext, Stopped
-----------------------------------------------------------------------------
(* What the invariant says of the text.                                     *)

\* s is what the text holds behind its first n tokens, or the beginning of that.
Segment(s, n) ==
    /\ s \in Seq(Tokens) /\ n + Len(s) <= Len(stream)
    /\ \A k \in 1 .. Len(s) : s[k] = stream[n + k]

LEMMA SegmentConcat ==
    ASSUME NEW s, NEW t, NEW n \in Nat, Segment(s, n), Segment(t, n + Len(s)),
           stream \in Seq(Tokens)
    PROVE  Segment(s \o t, n) /\ Len(s \o t) = Len(s) + Len(t)
  <1>1. /\ s \in Seq(Tokens) /\ t \in Seq(Tokens) /\ Len(s) \in Nat /\ Len(t) \in Nat
        /\ Len(stream) \in Nat /\ n + Len(s) + Len(t) <= Len(stream)
    BY DEF Segment
  <1>2. /\ s \o t \in Seq(Tokens) /\ Len(s \o t) = Len(s) + Len(t)
        /\ \A k \in 1 .. Len(s) + Len(t) :
             (s \o t)[k] = IF k <= Len(s) THEN s[k] ELSE t[k - Len(s)]
    BY <1>1, ConcatProperties
  <1>3. ASSUME NEW k \in 1 .. Len(s) + Len(t)
        PROVE  (s \o t)[k] = stream[n + k]
    <2>1. CASE k <= Len(s)
      BY <1>1, <1>2, <2>1 DEF Segment
    <2>2. CASE ~ (k <= Len(s))
      <3>1. k - Len(s) \in 1 .. Len(t) /\ (n + Len(s)) + (k - Len(s)) = n + k
        BY <1>1, <2>2
      <3>2. t[k - Len(s)] = stream[(n + Len(s)) + (k - Len(s))]
        BY <3>1 DEF Segment
      <3> QED
        BY <1>2, <2>2, <3>1, <3>2
    <2> QED
      BY <2>1, <2>2
  <1> QED
    BY <1>1, <1>2, <1>3 DEF Segment

LEMMA WholeSegment ==
    ASSUME NEW s, Segment(s, 0), Len(s) = Len(stream), stream \in Seq(Tokens)
    PROVE  s = stream
  <1>1. s \in Seq(Tokens)
    BY DEF Segment
  <1>2. \A k \in 1 .. Len(s) : s[k] = stream[k]
    <2> TAKE k \in 1 .. Len(s)
    <2>1. s[k] = stream[0 + k]
      BY DEF Segment
    <2> QED
      BY <2>1
  <1> QED
    BY <1>1, <1>2, SeqEqual

LEMMA WhereTokensAre ==
    ASSUME InputInv, PlaceInv
    PROVE  /\ stream \in Seq(Tokens) /\ Len(stream) \in Nat
           /\ Segment(Written, 0)
           /\ Held = << >> => Segment(surface_form, Len(Written))
           /\ Segment(Unread(token_buffer), Handled) /\ Len(Unread(token_buffer)) = Left(token_buffer)
           /\ Segment(input, Taken)
           /\ Handled = Len(Written) + Len(Word) /\ Taken = Handled + Left(token_buffer)
           /\ Len(stream) = Taken + Len(input)
           /\ Handled \in Nat /\ Len(Written) \in Nat /\ Left(token_buffer) \in Nat
           /\ Taken \in Nat /\ Len(input) \in Nat
  <1>1. /\ stream \in Seq(Tokens) /\ input \in Seq(Tokens) /\ Len(stream) \in Nat
        /\ Len(input) \in Nat /\ BufferHolds(token_buffer, stream, Taken)
    BY DEF InputInv
  <1>2. /\ Handled \in Nat /\ Len(Written) \in Nat /\ Len(Word) \in Nat
        /\ Handled = Len(Written) + Len(Word) /\ Written \in Seq(Tokens)
    BY HandledNat, WordType, WrittenType DEF PlaceInv
  <1>3. /\ Left(token_buffer) \in Nat /\ Taken \in Nat /\ Taken <= Len(stream)
        /\ Len(stream) = Taken + Len(input) /\ Taken = Handled + Left(token_buffer)
    BY <1>1, <1>2, HandledRange, BufferSizeAssumption DEF Handled
  <1>4. Segment(Written, 0)
    BY <1>1, <1>2, <1>3 DEF Segment, PlaceInv
  <1>5. Held = << >> => Segment(surface_form, Len(Written))
    <2> SUFFICES ASSUME Held = << >>
                 PROVE  Segment(surface_form, Len(Written))
      OBVIOUS
    <2>1. Word = surface_form
      BY ConcatEmptySeq DEF Word, PlaceInv
    <2>2. Len(Written) + Len(surface_form) <= Len(stream)
      BY <1>2, <1>3, <2>1
    <2> QED
      BY <2>1, <2>2 DEF Segment, PlaceInv
  <1>6. /\ Unread(token_buffer) \in Seq(Tokens) /\ Len(Unread(token_buffer)) = Left(token_buffer)
        /\ \A k \in 1 .. Left(token_buffer) :
             Unread(token_buffer)[k] = stream[Taken - Left(token_buffer) + k]
    <2>1. Left(token_buffer) <= Taken /\ stream \in Seq(ToSet(stream))
      BY <1>1, <1>2, <1>3 DEF Tokens
    <2> QED
      BY <1>1, <2>1, UnreadIs DEF Tokens
  <1>7. Segment(Unread(token_buffer), Handled)
    <2>1. Taken - Left(token_buffer) = Handled
      BY DEF Handled
    <2> QED
      BY <1>2, <1>3, <1>6, <2>1 DEF Segment
  <1>8. Segment(input, Taken)
    BY <1>1, <1>3 DEF Segment, InputInv
  <1> QED
    BY <1>1, <1>2, <1>3, <1>4, <1>5, <1>6, <1>7, <1>8

LEMMA NothingIsLost ==
    ASSUME AnalysisInv
    PROVE  NothingLost
  <1>1. InputInv /\ PlaceInv
    BY DEF AnalysisInv
  <1>2. ASSUME stage = "get"
        PROVE  Written \o surface_form \o Pending = stream
    <2>1. Held = << >> /\ Word = surface_form
      BY <1>1, <1>2, NoneHeld
    <2>2. Segment(Written, 0) /\ Segment(surface_form, 0 + Len(Written))
      BY <1>1, <2>1, WhereTokensAre
    <2>3. Segment(Written \o surface_form, 0)
          /\ Len(Written \o surface_form) = Len(Written) + Len(surface_form)
      BY <1>1, <2>2, WhereTokensAre, SegmentConcat
    <2>4. Segment(Pending, Handled) /\ Len(Pending) = Left(token_buffer) + Len(input)
      <3>1. Segment(input, Handled + Len(Unread(token_buffer)))
        BY <1>1, WhereTokensAre
      <3> QED
        BY <1>1, <3>1, WhereTokensAre, SegmentConcat DEF Pending
    <2>5. 0 + Len(Written \o surface_form) = Handled
      BY <1>1, <2>1, <2>3, WhereTokensAre
    <2>6. /\ Segment(Written \o surface_form \o Pending, 0)
          /\ Len(Written \o surface_form \o Pending) = Len(Written \o surface_form) + Len(Pending)
      BY <1>1, <2>3, <2>4, <2>5, WhereTokensAre, SegmentConcat
    <2>7. Len(Written \o surface_form \o Pending) = Len(stream)
      BY <1>1, <2>4, <2>5, <2>6, WhereTokensAre
    <2> QED
      BY <1>1, <2>6, <2>7, WhereTokensAre, WholeSegment
  <1>3. ASSUME stage = "done"
        PROVE  Written = stream
    <2>1. Word = << >> /\ Left(token_buffer) = 0 /\ input = << >>
      BY <1>1, <1>3, NoneHeld DEF PlaceInv
    <2>2. Len(Written) = Len(stream)
      BY <1>1, <2>1, WhereTokensAre
    <2> QED
      BY <1>1, <2>2, WhereTokensAre, WholeSegment
  <1> QED
    BY <1>2, <1>3 DEF NothingLost
-----------------------------------------------------------------------------
(* Where a word can end.                                                    *)

\* The word being read does not end with a separator.
LEMMA LastIsOfWord ==
    ASSUME InputInv, PlaceInv, PathInv, stage \in {"get", "gather", "eof"}, surface_form # << >>
    PROVE  /\ Handled \in 1 .. Len(stream)
           /\ surface_form[Len(surface_form)] = stream[Handled]
           /\ ~ Separates(stream[Handled])
           /\ stage = "gather" => IsAlphabetic(stream[Handled])
  <1>1. Word = surface_form
    BY NoneHeld
  <1>2. surface_form \in Seq(Tokens) /\ Len(surface_form) \in 1 .. Len(surface_form)
    BY DEF PlaceInv
  <1>3. Handled = Len(Written) + Len(surface_form) /\ Handled <= Len(stream)
    BY <1>1, WhereTokensAre
  <1>4. Handled \in 1 .. Len(stream) /\ surface_form[Len(surface_form)] = stream[Handled]
    <2>1. surface_form[Len(surface_form)] = stream[Len(Written) + Len(surface_form)]
      BY <1>1, <1>2 DEF PlaceInv
    <2>2. Len(stream) \in Nat /\ Len(Written) \in Nat
      BY WhereTokensAre
    <2> QED
      BY <1>2, <1>3, <2>1, <2>2
  <1>5. CASE stage = "gather"
    BY <1>4, <1>5 DEF PathInv, Separates
  <1>6. CASE stage \in {"get", "eof"}
    <2>1. PICK w \in lexicon : Follows(w, surface_form)
      BY <1>6 DEF PathInv
    <2>2. w \in Seq(Symbols) /\ Len(surface_form) <= Len(w)
      BY <2>1 DEF PathInv, Follows
    <2>3. w[Len(surface_form)] \in Alternatives(surface_form[Len(surface_form)])
      BY <1>2, <2>1 DEF Follows
    <2>4. Len(surface_form) \in DOMAIN w
      BY <1>2, <2>2
    <2> QED
      BY <1>4, <1>6, <2>3, <2>4 DEF Separates
  <1> QED
    BY <1>5, <1>6

LEMMA SafeIsHarmless ==
    ASSUME AnalysisInv, SafeInput
    PROVE  Harmless
  <1>1. InputInv /\ PlaceInv /\ PathInv
    BY DEF AnalysisInv
  <1>2. ASSUME stage = "unknown", ~ IsAlphabetic(Head(surface_form))
        PROVE  FALSE
    <2>1. surface_form # << >> /\ surface_form \in Seq(Tokens)
      BY <1>1, <1>2 DEF PathInv, PlaceInv
    <2>2. Head(surface_form) = surface_form[1] /\ surface_form[1] \in ToSet(stream)
      BY <2>1 DEF Tokens
    <2>3. PICK w \in lexicon : w # << >> /\ w[1] \in Alternatives(surface_form[1])
      BY <1>1, <1>2, <2>2 DEF PathInv
    <2> QED
      BY <1>2, <2>2, <2>3 DEF SafeInput
  <1>3. ASSUME stage \in {"gather", "eof"}, surface_form # << >>, Left(token_buffer) = 0, input = << >>
        PROVE  FALSE
    <2>1. Handled = Len(stream)
      <3>1. Len(input) = 0
        BY <1>3
      <3> QED
        BY <1>1, <1>3, <3>1, WhereTokensAre
    <2>2. Len(stream) \in 1 .. Len(stream) /\ ~ Separates(stream[Len(stream)])
      BY <1>1, <1>3, <2>1, LastIsOfWord
    <2>3. stream # << >>
      BY <2>2
    <2> QED
      BY <2>2, <2>3 DEF SafeInput
  <1>4. stage = "gather" => Upcoming # NoToken
    <2>1. stage = "gather" => surface_form # << >>
      BY <1>1 DEF PathInv
    <2> QED
      BY <1>1, <1>3, <2>1, HandledNat, EndReached
  <1>5. stage = "eof" => surface_form = << >>
    BY <1>1, <1>3 DEF PlaceInv
  <1> QED
    BY <1>2, <1>4, <1>5 DEF Harmless, SafeInput

-----------------------------------------------------------------------------
(* The answer is out when the NUL that asks for it is read.                 *)

\* What was written before the item number k.
Before(items, k) == FlattenSeq([j \in 1 .. k - 1 |-> items[j].tokens])

LEMMA BeforeLast ==
    ASSUME output \in Seq(Items), NEW item, output' = Append(output, item)
    PROVE  /\ Before(output', Len(output) + 1) = Written
           /\ \A k \in DOMAIN output : Before(output', k) = Before(output, k)
           /\ DOMAIN output = 1 .. Len(output) /\ DOMAIN output' = 1 .. Len(output) + 1
           /\ \A k \in DOMAIN output : output'[k] = output[k]
  <1>1. /\ Len(output) \in Nat
        /\ DOMAIN output = 1 .. Len(output) /\ DOMAIN output' = 1 .. Len(output) + 1
        /\ \A k \in 1 .. Len(output) : output'[k] = output[k]
    OBVIOUS
  <1>2. [j \in 1 .. (Len(output) + 1) - 1 |-> output'[j].tokens] = [j \in DOMAIN output |-> output[j].tokens]
    <2>1. (Len(output) + 1) - 1 = Len(output)
      BY <1>1
    <2> QED
      BY <1>1, <2>1
  <1>3. ASSUME NEW k \in DOMAIN output
        PROVE  [j \in 1 .. k - 1 |-> output'[j].tokens] = [j \in 1 .. k - 1 |-> output[j].tokens]
    <2>1. \A j \in 1 .. k - 1 : j \in 1 .. Len(output)
      BY <1>1
    <2> QED
      BY <1>1, <2>1
  <1> QED
    BY <1>1, <1>2, <1>3 DEF Before, Written

\* A NUL is read when all that was taken is written.
LEMMA NulAfterAnswer ==
    ASSUME InputInv, PlaceInv, PathInv, NulsOutsideWords, stage \in {"get", "gather"},
           ReadToken, output' # output
    PROVE  /\ output' = Append(output, Item("flush", << >>, {}))
           /\ Len(Written) < Len(stream) /\ stream[Len(Written) + 1] = Nul
  <1>1. /\ output' = Append(output, Item("flush", << >>, {}))
        /\ IsEmpty(token_buffer) /\ input # << >> /\ null_flush /\ Head(input) = Nul
    BY DEF ReadToken
  <1>2. Left(token_buffer) = 0 /\ input \in Seq(Tokens)
    BY <1>1, HandledRange DEF InputInv
  <1>3. Handled = Taken /\ Taken < Len(stream)
    <2>1. Len(input) # 0
      BY <1>1, <1>2
    <2> QED
      BY <1>2, <2>1, WhereTokensAre
  <1>4. stream[Handled + 1] = Nul
    <2>1. 1 \in 1 .. Len(input) /\ Head(input) = input[1]
      BY <1>1, <1>2
    <2>2. input[1] = stream[Taken + 1]
      BY <2>1 DEF InputInv
    <2> QED
      BY <1>1, <1>3, <2>1, <2>2
  <1>5. surface_form = << >>
    <2>1. SUFFICES ASSUME surface_form # << >>
                   PROVE  FALSE
      OBVIOUS
    <2>2. Handled \in 1 .. Len(stream) /\ ~ Separates(stream[Handled])
      BY <2>1, LastIsOfWord
    <2>3. Handled + 1 \in 2 .. Len(stream) /\ (Handled + 1) - 1 = Handled
      BY <1>3, <2>2, WhereTokensAre
    <2> QED
      BY <1>1, <1>4, <2>2, <2>3 DEF NulsOutsideWords
  <1>6. Len(Written) = Handled
    <2>1. Word = << >>
      BY <1>5, NoneHeld
    <2> QED
      BY <2>1, WhereTokensAre
  <1> QED
    BY <1>1, <1>3, <1>4, <1>6

LEMMA FlushStep ==
    ASSUME AnalysisInv, Harmless, NulsOutsideWords, FlushedAfterAnswer, [ProcNext]_procVars
    PROVE  FlushedAfterAnswer'
  <1>1. /\ InputInv /\ PlaceInv /\ PathInv /\ FormsInv /\ output \in Seq(Items)
        /\ WordsFit
    BY DEF AnalysisInv, Harmless, PlaceInv
  <1>2. stream' = stream
    BY DEF ProcNext, procVars, settings, GetToken, StreamError, StepToken, ExtendWord, PassNonalphabetic,
       StartOver, PrintWord, UnknownStarts, GatherToken, WordGathered, PrintUnknownWord, GiveBack,
       EndOfStream, Stopped
  <1>3. \/ output' = output
        \/ /\ stage \in {"get", "gather"} /\ ReadToken
        \/ \E item : item.kind # "flush" /\ output' = Append(output, item)
    <2>1. \A t, kind, forms : kind # "flush" => Item(kind, t, forms).kind # "flush"
      BY DEF Item
    <2>2. CASE GetToken \/ GatherToken \/ WordGathered
      BY <2>2 DEF GetToken, GatherToken, WordGathered
    <2>3. CASE StreamError \/ StepToken \/ ExtendWord \/ UnknownStarts \/ UNCHANGED procVars
      BY <2>3 DEF StreamError, StepToken, ExtendWord, UnknownStarts, procVars, streamVars
    <2>4. CASE PassNonalphabetic \/ GiveBack
      BY <2>1, <2>4 DEF PassNonalphabetic, GiveBack, WriteToken
    <2>5. CASE PrintWord
      BY <2>1, <2>5 DEF PrintWord
    <2>6. CASE PrintUnknownWord
      BY <2>1, <2>6 DEF PrintUnknownWord
    <2>7. CASE EndOfStream
      BY <2>1, <2>7 DEF EndOfStream
    <2> QED
      BY <2>2, <2>3, <2>4, <2>5, <2>6, <2>7 DEF ProcNext, Stopped
  <1>4. FlushedAfterAnswer <=>
          \A k \in DOMAIN output :
            output[k].kind = "flush" =>
              Len(Before(output, k)) < Len(stream) /\ stream[Len(Before(output, k)) + 1] = Nul
    BY DEF FlushedAfterAnswer, Before
  <1>5. FlushedAfterAnswer' <=>
          \A k \in DOMAIN output' :
            output'[k].kind = "flush" =>
              Len(Before(output', k)) < Len(stream) /\ stream[Len(Before(output', k)) + 1] = Nul
    BY <1>2 DEF FlushedAfterAnswer, Before
  <1>6. CASE output' = output
    BY <1>4, <1>5, <1>6
  <1>7. ASSUME NEW item, output' = Append(output, item),
               item.kind = "flush" => Len(Written) < Len(stream) /\ stream[Len(Written) + 1] = Nul
        PROVE  FlushedAfterAnswer'
    <2>1. /\ Before(output', Len(output) + 1) = Written
          /\ \A k \in DOMAIN output : Before(output', k) = Before(output, k)
          /\ DOMAIN output = 1 .. Len(output) /\ DOMAIN output' = 1 .. Len(output) + 1
          /\ \A k \in DOMAIN output : output'[k] = output[k]
          /\ output'[Len(output) + 1] = item
      BY <1>1, <1>7, BeforeLast
    <2>2. \A k \in DOMAIN output' : k \in DOMAIN output \/ k = Len(output) + 1
      BY <1>1, <2>1
    <2>3. ASSUME NEW k \in DOMAIN output', output'[k].kind = "flush"
          PROVE  Len(Before(output', k)) < Len(stream) /\ stream[Len(Before(output', k)) + 1] = Nul
      <3>1. CASE k \in DOMAIN output
        BY <1>4, <2>1, <2>3, <3>1
      <3>2. CASE k = Len(output) + 1
        BY <1>7, <2>1, <2>3, <3>2
      <3> QED
        BY <2>2, <3>1, <3>2
    <2> QED
      BY <1>5, <2>3
  <1>8. CASE stage \in {"get", "gather"} /\ ReadToken
    BY <1>1, <1>6, <1>7, <1>8, NulAfterAnswer
  <1> QED
    BY <1>3, <1>6, <1>7, <1>8
-----------------------------------------------------------------------------
(* The theorems.                                                            *)

LEMMA SettingsStay ==
    ASSUME [ProcNext]_procVars
    PROVE  SameSettings
  BY DEF ProcNext, procVars, SameSettings, GetToken, StreamError, StepToken, ExtendWord, PassNonalphabetic,
     StartOver, PrintWord, UnknownStarts, GatherToken, WordGathered, PrintUnknownWord, GiveBack,
     EndOfStream, Stopped

LEMMA SeparatorsStay ==
    ASSUME [ProcNext]_procVars
    PROVE  /\ NulsOutsideWords => NulsOutsideWords'
           /\ SafeInput => SafeInput'
  <1>1. SameSettings
    BY SettingsStay
  <1>2. /\ lexicon' = lexicon /\ stream' = stream /\ null_flush' = null_flush
        /\ \A t : Alternatives(t)' = Alternatives(t)
    BY <1>1, SettingsKept
  <1>3. \A t : IsAlphabetic(t)' <=> IsAlphabetic(t)
    BY DEF IsAlphabetic
  <1>4. \A t : Separates(t)' <=> Separates(t)
    BY <1>2, <1>3 DEF Separates
  <1>5. (WordsFit' <=> WordsFit) /\ (NulIsLast' <=> NulIsLast)
    BY <1>2 DEF WordsFit, NulIsLast
  <1> QED
    BY <1>2, <1>3, <1>4, <1>5 DEF NulsOutsideWords, SafeInput

\* As long as the loop meets none of the cases in which it goes wrong, every token of the
\* input is in what was written, in the word being read or in what is still to be read,
\* once and in order: going back in the ring of BufferSize tokens finds them all again.
THEOREM NothingLostHolds == ProcSpec /\ []Harmless => []NothingLost
  <1>1. ProcInit => AnalysisInv
    BY AnalysisInit
  <1>2. AnalysisInv /\ Harmless /\ [ProcNext]_procVars => AnalysisInv'
    BY AnalysisStep
  <1>3. AnalysisInv => NothingLost
    BY NothingIsLost
  <1> QED
    BY <1>1, <1>2, <1>3, PTL DEF ProcSpec

\* And every word is written with just the analyses of the tokens it was written with.
THEOREM AnalysesBelongHolds == ProcSpec /\ []Harmless => []AnalysesBelong
  <1>1. ProcInit => AnalysisInv
    BY AnalysisInit
  <1>2. AnalysisInv /\ Harmless /\ [ProcNext]_procVars => AnalysisInv'
    BY AnalysisStep
  <1>3. AnalysisInv => AnalysesBelong
    BY DEF AnalysisInv
  <1> QED
    BY <1>1, <1>2, <1>3, PTL DEF ProcSpec

\* With separators before the NULs, output is flushed only when all that came before the
\* NUL was written.
THEOREM FlushedAfterAnswerHolds == ProcSpec /\ []Harmless /\ NulsOutsideWords => []FlushedAfterAnswer
  <1>1. ProcInit => AnalysisInv /\ FlushedAfterAnswer
    <2>1. ProcInit => FlushedAfterAnswer
      BY DEF ProcInit, FlushedAfterAnswer
    <2> QED
      BY <2>1, AnalysisInit
  <1>2. AnalysisInv /\ Harmless /\ [ProcNext]_procVars => AnalysisInv'
    BY AnalysisStep
  <1>3. NulsOutsideWords /\ [ProcNext]_procVars => NulsOutsideWords'
    BY SeparatorsStay
  <1>4. AnalysisInv /\ Harmless /\ NulsOutsideWords /\ FlushedAfterAnswer /\ [ProcNext]_procVars
          => FlushedAfterAnswer'
    BY FlushStep
  <1> QED
    BY <1>1, <1>2, <1>3, <1>4, PTL DEF ProcSpec

\* For a transducer whose words begin with letters and a text that ends with a separator
\* those cases never come up, whatever else the text holds.
THEOREM SafeInputHarmless == ProcSpec /\ SafeInput => [](Harmless /\ NothingLost /\ AnalysesBelong)
  <1>1. ProcInit => AnalysisInv
    BY AnalysisInit
  <1>2. AnalysisInv /\ Harmless /\ [ProcNext]_procVars => AnalysisInv'
    BY AnalysisStep
  <1>3. SafeInput /\ [ProcNext]_procVars => SafeInput'
    BY SeparatorsStay
  <1>4. AnalysisInv /\ SafeInput => Harmless
    BY SafeIsHarmless
  <1>5. AnalysisInv => NothingLost /\ AnalysesBelong
    BY NothingIsLost DEF AnalysisInv
  <1> QED
    BY <1>1, <1>2, <1>3, <1>4, <1>5, PTL DEF ProcSpec

=============================================================================

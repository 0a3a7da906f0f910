-------------------------- MODULE ZilWorker_proofs --------------------------
(***************************************************************************)
(* Theorems about the Zilliqa worker, for every registry, page size and    *)
(* number of faults.                                                       *)
(***************************************************************************)
EXTENDS ZilWorker, FiniteSetTheorems, SequenceTheorems,
        WellFoundedInduction, TLAPS

-----------------------------------------------------------------------------
(* Least elements *)

\* Numbers have a least one: the one with the fewest numbers up to it.
LEMMA LeastNatural ==
    ASSUME NEW T, T \subseteq Nat, T # {}
    PROVE  \E m \in T : \A n \in T : m <= n
<1> DEFINE F == {0 .. n : n \in T}
<1>1. F # {} /\ F \subseteq FiniteSubsetsOf(Nat)
  <2>1. \A n \in T : IsFiniteSet(0 .. n) /\ 0 .. n \subseteq Nat
    BY FS_Interval
  <2> QED
    BY <2>1 DEF FiniteSubsetsOf
<1>2. PICK V \in F : \A U \in F : <<U, V>> \notin StrictSubsetOrdering(Nat)
  <2> HIDE DEF F
  <2> QED
    BY <1>1, FS_StrictSubsetOrderingWellFounded, WFMin
<1>3. PICK m \in T : V = 0 .. m
  OBVIOUS
<1>4. ASSUME NEW n \in T, n < m
      PROVE  FALSE
  <2> DEFINE U == 0 .. n
  <2>1. n \in Nat /\ m \in Nat
    OBVIOUS
  <2>2. U \in F /\ U \subseteq V /\ V \subseteq Nat /\ m \in V /\ m \notin U
    BY <1>3, <1>4, <2>1
  <2>3. <<U, V>> \notin StrictSubsetOrdering(Nat)
    BY <1>2, <2>2
  <2> HIDE DEF U
  <2> QED
    BY <2>2, <2>3 DEF StrictSubsetOrdering
<1> QED
  BY <1>4

\* What is true of a number that is true of its predecessors holds of all: a set
\* of counterexamples has a least one.
LEMMA LeastCounterexample ==
    ASSUME NEW n \in Nat, NEW T \in SUBSET (1 .. n), T # {}
    PROVE  \E m \in T : \A k \in 1 .. m - 1 : k \notin T
<1>1. T \subseteq Nat
  OBVIOUS
<1>2. PICK m \in T : \A k \in T : m <= k
  BY <1>1, LeastNatural
<1> QED
  BY <1>2

-----------------------------------------------------------------------------
(* FlattenSeq *)

\* f[i] is what the first i sequences make, one after the other.
Parts(f, seqs, n) ==
    \A i \in 1 .. n : f[i] = IF i = 1 THEN seqs[i] ELSE f[i - 1] \o seqs[i]

\* Where FlattenSeq puts what it takes from the sequences: from off[i] on, and
\* what it gives has nothing else.
Placed(F, seqs, off) ==
    /\ off \in [1 .. Len(seqs) + 1 -> Nat]
    /\ off[1] = 0
    /\ off[Len(seqs) + 1] = Len(F)
    /\ \A i \in 1 .. Len(seqs) : off[i + 1] = off[i] + Len(seqs[i])
    /\ \A i \in 1 .. Len(seqs) : \A j \in 1 .. Len(seqs[i]) :
         F[off[i] + j] = seqs[i][j]

LEMMA PartsTyped ==
    ASSUME NEW S, NEW n \in Nat, NEW seqs, \A i \in 1 .. n : seqs[i] \in Seq(S),
           NEW f, Parts(f, seqs, n)
    PROVE  \A i \in 1 .. n : f[i] \in Seq(S)
<1> DEFINE T == {i \in 1 .. n : f[i] \notin Seq(S)}
<1> SUFFICES ASSUME T # {} PROVE FALSE
  OBVIOUS
<1>1. T \in SUBSET (1 .. n)
  OBVIOUS
<1>2. PICK m \in T : \A k \in 1 .. m - 1 : k \notin T
  <2> HIDE DEF T
  <2> QED
    BY <1>1, LeastCounterexample
<1>3. m \in 1 .. n /\ f[m] \notin Seq(S) /\ seqs[m] \in Seq(S)
      /\ f[m] = IF m = 1 THEN seqs[m] ELSE f[m - 1] \o seqs[m]
  BY DEF Parts
<1>4. CASE m = 1
  BY <1>3, <1>4
<1>5. CASE m # 1
  <2>1. m - 1 \in 1 .. n /\ m - 1 \notin T
    BY <1>2, <1>3, <1>5
  <2>2. f[m - 1] \in Seq(S)
    BY <2>1
  <2>3. f[m - 1] \o seqs[m] \in Seq(S)
    BY <1>3, <2>2, ConcatProperties
  <2> QED
    BY <1>3, <1>5, <2>3
<1> QED
  BY <1>4, <1>5

LEMMA PartsExist ==
    ASSUME NEW n \in Nat, NEW seqs
    PROVE  \A k \in 1 .. n : \E f : Parts(f, seqs, k)
<1> DEFINE T == {k \in 1 .. n : ~ \E f : Parts(f, seqs, k)}
<1> SUFFICES ASSUME T # {} PROVE FALSE
  OBVIOUS
<1>1. T \in SUBSET (1 .. n)
  OBVIOUS
<1>2. PICK m \in T : \A k \in 1 .. m - 1 : k \notin T
  <2> HIDE DEF T
  <2> QED
    BY <1>1, LeastCounterexample
<1>3. m \in 1 .. n /\ m \in Nat /\ m \in 1 .. m /\ ~ \E f : Parts(f, seqs, m)
  OBVIOUS
<1> HIDE DEF T
<1>4. CASE m = 1
  <2>1. Parts([i \in 1 .. 1 |-> seqs[1]], seqs, 1)
    BY DEF Parts
  <2> QED
    BY <1>3, <1>4, <2>1
<1>5. CASE m # 1
  <2>1. m - 1 \in 1 .. n /\ m - 1 \notin T
    BY <1>2, <1>3, <1>5
  <2>2. PICK f : Parts(f, seqs, m - 1)
    BY <2>1 DEF T
  <2> DEFINE g == [i \in 1 .. m |->
                     IF i = m THEN f[m - 1] \o seqs[m] ELSE f[i]]
  <2>3. ASSUME NEW i \in 1 .. m
        PROVE  g[i] = IF i = 1 THEN seqs[i] ELSE g[i - 1] \o seqs[i]
    <3>1. CASE i = m
      <4>1. m - 1 \in 1 .. m /\ m - 1 # m
        BY <1>3, <1>5
      <4>2. g[m - 1] = f[m - 1] /\ g[m] = f[m - 1] \o seqs[m]
        BY <1>3, <4>1
      <4> QED
        BY <1>5, <3>1, <4>2
    <3>2. CASE i # m
      <4>1. i \in 1 .. m - 1 /\ i - 1 # m
        BY <1>3, <3>2
      <4>2. f[i] = IF i = 1 THEN seqs[i] ELSE f[i - 1] \o seqs[i]
        BY <2>2, <4>1 DEF Parts
      <4>3. g[i] = f[i]
        BY <3>2
      <4>4. i # 1 => i - 1 \in 1 .. m /\ g[i - 1] = f[i - 1]
        BY <1>3, <4>1
      <4> QED
        BY <4>2, <4>3, <4>4
    <3> QED
      BY <3>1, <3>2
  <2>4. Parts(g, seqs, m)
    <3> HIDE DEF g
    <3> QED
      BY <2>3 DEF Parts
  <2> QED
    BY <1>3, <2>4
<1> QED
  BY <1>4, <1>5

LEMMA FlattenIsParts ==
    ASSUME NEW seqs, Len(seqs) \in Nat \ {0}
    PROVE  \E f : Parts(f, seqs, Len(seqs)) /\ FlattenSeq(seqs) = f[Len(seqs)]
<1> DEFINE N == Len(seqs)
           Step(f) == [i \in 1 .. N |->
                         IF i = 1 THEN seqs[i] ELSE f[i - 1] \o seqs[i]]
           flatten == CHOOSE f : f = Step(f)
<1>1. N \in Nat /\ N \in 1 .. N
  OBVIOUS
<1>2. FlattenSeq(seqs) = flatten[N]
  BY DEF FlattenSeq
<1>3. PICK g : Parts(g, seqs, N)
  <2> HIDE DEF N
  <2> QED
    BY <1>1, PartsExist
<1> DEFINE h == [i \in 1 .. N |-> g[i]]
<1>4. h = Step(h)
  <2>1. ASSUME NEW i \in 1 .. N
        PROVE  h[i] = IF i = 1 THEN seqs[i] ELSE h[i - 1] \o seqs[i]
    <3>1. i # 1 => i - 1 \in 1 .. N
      BY <1>1
    <3>2. g[i] = IF i = 1 THEN seqs[i] ELSE g[i - 1] \o seqs[i]
      BY <1>3 DEF Parts
    <3> QED
      BY <3>1, <3>2
  <2> QED
    BY <2>1
<1>5. flatten = Step(flatten)
  <2> HIDE DEF Step, h
  <2> QED
    BY <1>4
<1> HIDE DEF flatten
<1>6. Parts(flatten, seqs, N)
  <2>1. ASSUME NEW i \in 1 .. N
        PROVE  flatten[i] = IF i = 1 THEN seqs[i] ELSE flatten[i - 1] \o seqs[i]
    BY <1>5
  <2> HIDE DEF N
  <2> QED
    BY <2>1 DEF Parts
<1> QED
  BY <1>2, <1>6

LEMMA FlattenPlaces ==
    ASSUME NEW S, NEW seqs \in Seq(Seq(S))
    PROVE  /\ FlattenSeq(seqs) \in Seq(S)
           /\ \E off : Placed(FlattenSeq(seqs), seqs, off)
<1>1. CASE Len(seqs) = 0
  <2>1. seqs = <<>>
    BY <1>1
  <2>2. FlattenSeq(seqs) = <<>>
    BY <1>1, <2>1 DEF FlattenSeq
  <2>3. Placed(<<>>, <<>>, [i \in 1 .. 1 |-> 0])
    BY DEF Placed
  <2>4. <<>> \in Seq(S)
    OBVIOUS
  <2> QED
    BY <2>1, <2>2, <2>3, <2>4
<1>2. CASE Len(seqs) # 0
  <2>1. PICK N \in Nat \ {0} : N = Len(seqs)
    BY <1>2
  <2>2. \A i \in 1 .. N : seqs[i] \in Seq(S) /\ Len(seqs[i]) \in Nat
    BY <2>1
  <2>3. PICK g : Parts(g, seqs, N) /\ FlattenSeq(seqs) = g[N]
    BY <2>1, FlattenIsParts
  <2>4. \A i \in 1 .. N : g[i] \in Seq(S)
    BY <2>2, <2>3, PartsTyped
  <2>5. \A i \in 1 .. N : Len(g[i]) \in Nat
    BY <2>4, LenProperties
  <2> DEFINE off == [i \in 1 .. N + 1 |-> IF i = 1 THEN 0 ELSE Len(g[i - 1])]
  <2>6. off \in [1 .. N + 1 -> Nat]
    <3>1. ASSUME NEW i \in 1 .. N + 1 PROVE off[i] \in Nat
      <4>1. i # 1 => i - 1 \in 1 .. N
        BY <2>1
      <4> QED
        BY <2>5, <4>1
    <3> QED
      BY <3>1
  <2>7. off[1] = 0 /\ off[N + 1] = Len(g[N])
    BY <2>1
  <2>8. \A i \in 1 .. N : off[i + 1] = Len(g[i])
    BY <2>1
  <2>9. \A i \in 1 .. N : i # 1 => off[i] = Len(g[i - 1])
    BY <2>1
  <2> HIDE DEF off
  <2>10. ASSUME NEW i \in 1 .. N, i # 1
         PROVE  /\ i - 1 \in 1 .. N
                /\ Len(g[i]) = Len(g[i - 1]) + Len(seqs[i])
                /\ \A k \in 1 .. Len(g[i - 1]) : g[i][k] = g[i - 1][k]
                /\ \A k \in 1 .. Len(seqs[i]) :
                     g[i][Len(g[i - 1]) + k] = seqs[i][k]
    <3>1. i - 1 \in 1 .. N
      BY <2>1, <2>10
    <3>2. g[i] = g[i - 1] \o seqs[i]
      BY <2>3, <2>10 DEF Parts
    <3> DEFINE s == g[i - 1]
               t == seqs[i]
    <3>3. s \in Seq(S) /\ t \in Seq(S) /\ Len(s) \in Nat /\ Len(t) \in Nat
      BY <2>2, <2>4, <2>5, <3>1
    <3> HIDE DEF s, t
    <3>4. /\ Len(s \o t) = Len(s) + Len(t)
          /\ \A k \in 1 .. Len(s) + Len(t) :
               (s \o t)[k] = IF k <= Len(s) THEN s[k] ELSE t[k - Len(s)]
      BY <3>3, ConcatProperties
    <3>5. \A k \in 1 .. Len(s) : (s \o t)[k] = s[k]
      BY <3>3, <3>4
    <3>6. ASSUME NEW k \in 1 .. Len(t)
          PROVE  (s \o t)[Len(s) + k] = t[k]
      <4>1. Len(s) + k \in 1 .. Len(s) + Len(t)
        BY <3>3
      <4>2. ~(Len(s) + k <= Len(s)) /\ (Len(s) + k) - Len(s) = k
        BY <3>3
      <4> QED
        BY <3>4, <4>1, <4>2
    <3> QED
      BY <3>1, <3>2, <3>4, <3>5, <3>6 DEF s, t
  <2>11. g[1] = seqs[1]
    BY <2>1, <2>3 DEF Parts
  <2>12. ASSUME NEW i \in 1 .. N
         PROVE  off[i + 1] = off[i] + Len(seqs[i])
    <3>1. CASE i = 1
      BY <2>2, <2>7, <2>8, <2>11, <3>1
    <3>2. CASE i # 1
      BY <2>8, <2>9, <2>10, <3>2
    <3> QED
      BY <3>1, <3>2
  <2> DEFINE Right(k) == \A i \in 1 .. k : \A j \in 1 .. Len(seqs[i]) :
                           /\ off[i] + j <= Len(g[k])
                           /\ g[k][off[i] + j] = seqs[i][j]
             T == {k \in 1 .. N : ~Right(k)}
  <2>13. T = {}
    <3> SUFFICES ASSUME T # {} PROVE FALSE
      OBVIOUS
    <3>1. T \in SUBSET (1 .. N)
      OBVIOUS
    <3>2. PICK m \in T : \A k \in 1 .. m - 1 : k \notin T
      <4> HIDE DEF T
      <4> QED
        BY <2>1, <3>1, LeastCounterexample
    <3>3. m \in 1 .. N /\ ~Right(m)
      OBVIOUS
    <3> HIDE DEF T
    <3>4. PICK i \in 1 .. m : ~ \A j \in 1 .. Len(seqs[i]) :
                           /\ off[i] + j <= Len(g[m])
                           /\ g[m][off[i] + j] = seqs[i][j]
      BY <3>3
    <3>5. PICK j \in 1 .. Len(seqs[i]) :
            ~(off[i] + j <= Len(g[m]) /\ g[m][off[i] + j] = seqs[i][j])
      BY <3>4
    <3> HIDE DEF Right
    <3>6. i \in 1 .. N /\ i \in 1 .. N + 1 /\ Len(seqs[i]) \in Nat /\ j \in Nat
          /\ j >= 1 /\ j <= Len(seqs[i])
      BY <2>1, <2>2, <3>3
    <3>7. CASE i = 1 /\ m = 1
      BY <2>2, <2>7, <2>11, <3>5, <3>6, <3>7
    <3>8. CASE m # 1 /\ i = m
      <4>1. i # 1
        BY <3>8
      <4>2. Len(g[i - 1]) \in Nat /\ off[i] = Len(g[i - 1])
        BY <2>5, <2>9, <2>10, <3>6, <4>1
      <4>3. Len(g[i]) = off[i] + Len(seqs[i]) /\ g[i][off[i] + j] = seqs[i][j]
        BY <2>10, <3>6, <4>1, <4>2
      <4>4. off[i] + j <= Len(g[i])
        BY ONLY <3>6, <4>2, <4>3
      <4> QED
        BY ONLY <3>5, <3>8, <4>3, <4>4
    <3>9. CASE m # 1 /\ i # m
      <4>1. m - 1 \in 1 .. N /\ i \in 1 .. m - 1 /\ m - 1 \in 1 .. m - 1
        BY <2>1, <3>3, <3>9
      <4>2. Right(m - 1)
        BY <3>2, <4>1 DEF T
      <4>3. off[i] + j <= Len(g[m - 1]) /\ g[m - 1][off[i] + j] = seqs[i][j]
        BY <4>1, <4>2 DEF Right
      <4>4. off[i] \in Nat /\ Len(g[m - 1]) \in Nat /\ Len(seqs[m]) \in Nat
        BY <2>2, <2>5, <2>6, <3>3, <3>6, <4>1
      <4>5. off[i] + j \in 1 .. Len(g[m - 1])
        <5>1. j \in Nat /\ 1 <= j
          BY <3>6
        <5>2. \A a, b, c \in Nat : 1 <= b /\ a + b <= c => a + b \in 1 .. c
          OBVIOUS
        <5> QED
          BY <4>3, <4>4, <5>1, <5>2, Zenon
      <4>6. Len(g[m - 1]) <= Len(g[m]) /\ g[m][off[i] + j] = g[m - 1][off[i] + j]
        <5>1. /\ Len(g[m]) = Len(g[m - 1]) + Len(seqs[m])
              /\ \A k \in 1 .. Len(g[m - 1]) : g[m][k] = g[m - 1][k]
          BY <2>10, <3>3, <3>9
        <5>2. Len(g[m - 1]) <= Len(g[m])
          <6>1. \A a, b \in Nat : a <= a + b
            OBVIOUS
          <6> QED
            BY <4>4, <5>1, <6>1, Zenon
        <5> QED
          BY <4>5, <5>1, <5>2
      <4>7. Len(g[m]) \in Nat
        BY <2>5, <3>3
      <4> QED
        BY <3>5, <3>6, <4>3, <4>4, <4>6, <4>7
    <3> QED
      BY <3>3, <3>7, <3>8, <3>9
  <2>14. \A i \in 1 .. N : \A j \in 1 .. Len(seqs[i]) :
           g[N][off[i] + j] = seqs[i][j]
    <3>1. N \in 1 .. N
      BY <2>1
    <3>2. Right(N)
      <4> HIDE DEF Right
      <4> QED
        BY <2>13, <3>1
    <3> QED
      BY <3>2
  <2>15. Placed(g[N], seqs, off)
    BY <2>1, <2>6, <2>7, <2>12, <2>14 DEF Placed
  <2> QED
    BY <2>1, <2>3, <2>4, <2>15
<1> QED
  BY <1>1, <1>2
\* The places are in the order of the sequences.
LEMMA PlacesOrdered ==
    ASSUME NEW F, NEW seqs, NEW off, Len(seqs) \in Nat, Placed(F, seqs, off),
           \A i \in 1 .. Len(seqs) : Len(seqs[i]) \in Nat
    PROVE  \A k \in 1 .. Len(seqs) + 1 : \A i \in 1 .. k : off[i] <= off[k]
<1>1. PICK N \in Nat : N = Len(seqs)
  OBVIOUS
<1>2. /\ \A i \in 1 .. N + 1 : off[i] \in Nat
      /\ \A i \in 1 .. N : off[i + 1] = off[i] + Len(seqs[i])
                            /\ Len(seqs[i]) \in Nat
  BY <1>1 DEF Placed
<1> DEFINE T == {k \in 1 .. N + 1 : ~ \A i \in 1 .. k : off[i] <= off[k]}
<1> SUFFICES ASSUME T # {} PROVE FALSE
  BY <1>1
<1>3. T \in SUBSET (1 .. N + 1) /\ N + 1 \in Nat
  OBVIOUS
<1>4. PICK m \in T : \A k \in 1 .. m - 1 : k \notin T
  <2> HIDE DEF T
  <2> QED
    BY <1>3, LeastCounterexample
<1>5. PICK i \in 1 .. m : ~(off[i] <= off[m])
  OBVIOUS
<1>6. m \in 1 .. N + 1
  OBVIOUS
<1>7. i # m
  BY <1>2, <1>5, <1>6
<1>8. m - 1 \in 1 .. N /\ m - 1 \in 1 .. m - 1 /\ i \in 1 .. m - 1
      /\ (m - 1) + 1 = m
  BY <1>5, <1>6, <1>7
<1>9. off[i] <= off[m - 1]
  BY <1>4, <1>6, <1>8
<1>10. off[m] = off[m - 1] + Len(seqs[m - 1]) /\ Len(seqs[m - 1]) \in Nat
  BY <1>2, <1>8
<1>11. off[i] \in Nat /\ off[m - 1] \in Nat
  BY <1>2, <1>6, <1>8
<1> QED
  BY <1>5, <1>9, <1>10, <1>11

\* Nothing else is in what FlattenSeq gives.
LEMMA PlaceFound ==
    ASSUME NEW F, NEW seqs, NEW off, Len(seqs) \in Nat, Len(F) \in Nat,
           Placed(F, seqs, off),
           \A i \in 1 .. Len(seqs) : Len(seqs[i]) \in Nat,
           NEW k \in 1 .. Len(F)
    PROVE  \E i \in 1 .. Len(seqs) : \E j \in 1 .. Len(seqs[i]) :
             k = off[i] + j
<1>1. PICK N \in Nat : N = Len(seqs)
  OBVIOUS
<1>2. /\ \A i \in 1 .. N + 1 : off[i] \in Nat
      /\ \A i \in 1 .. N : off[i + 1] = off[i] + Len(seqs[i])
                            /\ Len(seqs[i]) \in Nat
      /\ off[1] = 0 /\ off[N + 1] = Len(F)
  BY <1>1 DEF Placed
<1> DEFINE T == {i \in 1 .. N + 1 : k <= off[i]}
<1>3. N + 1 \in T
  BY <1>2
<1>4. T \in SUBSET (1 .. N + 1) /\ N + 1 \in Nat
  OBVIOUS
<1>5. PICK m \in T : \A i \in 1 .. m - 1 : i \notin T
  <2> HIDE DEF T
  <2> QED
    BY <1>3, <1>4, LeastCounterexample
<1>6. m \in 1 .. N + 1 /\ k <= off[m] /\ k \in Nat /\ k >= 1
  OBVIOUS
<1>7. m # 1
  BY <1>2, <1>6
<1>8. m - 1 \in 1 .. N /\ m - 1 \in 1 .. m - 1 /\ m - 1 \in 1 .. N + 1
      /\ (m - 1) + 1 = m
  BY <1>6, <1>7
<1>9. ~(k <= off[m - 1])
  BY <1>5, <1>8
<1>10. off[m] = off[m - 1] + Len(seqs[m - 1]) /\ Len(seqs[m - 1]) \in Nat
       /\ off[m - 1] \in Nat
  BY <1>2, <1>8
<1>11. k - off[m - 1] \in 1 .. Len(seqs[m - 1])
       /\ k = off[m - 1] + (k - off[m - 1])
  BY <1>6, <1>9, <1>10, SMTT(30)
<1> QED
  BY <1>1, <1>8, <1>11
-----------------------------------------------------------------------------
(* What is stored has no gap *)

\* The stored numbers have no gap and end at or before a number.
Sequence(S) == \A n \in S : \A m \in S : n .. m \subseteq S

StoredUpTo(d, n) == d.stored \subseteq 1 .. n /\ Sequence(d.stored)

IsDatabase(d) ==
    /\ d = [block |-> d.block, stored |-> d.stored, lost |-> d.lost,
            tables |-> d.tables]
    /\ d.block \in Nat

\* StoredSequentially is not inductive: a page may only be joined to what is
\* stored because nothing is stored beyond the block that the page follows, and
\* a commit publishes what the open transaction has.
StoredInv ==
    /\ IsDatabase(db) /\ StoredUpTo(db, db.block)
    /\ IsDatabase(tx)
    /\ to \in Nat
    /\ pc \in {"idle", "fetch", "events"}
    /\ pc # "events" => StoredUpTo(tx, tx.block)
    /\ pc = "events" => StoredUpTo(tx, to)
    /\ pc = "fetch" => tx.block <= to

\* A page that follows the last stored number, or comes first, leaves no gap.
LEMMA PageJoined ==
    ASSUME NEW S, NEW b \in Nat, NEW last \in Nat,
           S \subseteq 1 .. b, Sequence(S),
           \/ b + 1 .. last = {}
           \/ S = {}
           \/ \E n \in b + 1 .. last :
                n - 1 \in S /\ \A m \in b + 1 .. last : n <= m
    PROVE  Sequence(S \cup (b + 1 .. last))
<1>1. CASE b + 1 .. last = {}
  <2>1. S \cup (b + 1 .. last) = S
    BY <1>1
  <2> QED
    BY <2>1
<1>2. CASE S = {}
  <2>1. S \cup (b + 1 .. last) = b + 1 .. last
    BY <1>2
  <2>2. Sequence(b + 1 .. last)
    BY DEF Sequence
  <2> QED
    BY <2>1, <2>2
<1>3. CASE b + 1 .. last # {} /\ b \in S
  <2> SUFFICES ASSUME NEW n \in S \cup (b + 1 .. last),
                      NEW m \in S \cup (b + 1 .. last),
                      NEW k \in n .. m
               PROVE  k \in S \cup (b + 1 .. last)
    BY DEF Sequence
  <2>1. n \in Nat /\ m \in Nat /\ k \in Int /\ n <= k /\ k <= m
    OBVIOUS
  <2>2. CASE k > b
    <3>1. m > b
      BY <2>1, <2>2
    <3>2. m \in b + 1 .. last
      BY <3>1
    <3> QED
      BY <2>1, <2>2, <3>2
  <2>3. CASE k <= b
    <3>1. n \in S
      BY <2>1, <2>3
    <3>2. k \in n .. b
      BY <2>1, <2>3
    <3> QED
      BY <1>3, <3>1, <3>2 DEF Sequence
  <2> QED
    BY <2>1, <2>2, <2>3
<1>4. ASSUME NEW n \in b + 1 .. last, n - 1 \in S
      PROVE  b \in S
  BY <1>4
<1> QED
  BY <1>1, <1>2, <1>3, <1>4

-----------------------------------------------------------------------------
LEMMA GiveUpKeeps == StoredInv /\ GiveUp => StoredInv'
BY DEF GiveUp, EndRun, StoredInv, IsDatabase, StoredUpTo, Sequence

LEMMA ProcessedKeeps ==
    ASSUME StoredInv, pc = "events", NEW tables, NEW lost,
           ProcessedBut(tables, lost)
    PROVE  StoredInv'
<1>1. /\ tx'.block = tx.block /\ tx'.stored = tx.stored
      /\ IsDatabase(tx)' /\ db' = db /\ pc' = pc /\ to' = to
  BY DEF ProcessedBut, StoredInv, IsDatabase
<1> QED
  BY <1>1 DEF StoredInv, IsDatabase, StoredUpTo, Sequence

LEMMA StoredInvStep == StoredInv /\ [Next]_vars => StoredInv'
<1> SUFFICES ASSUME StoredInv, [Next]_vars PROVE StoredInv'
  OBVIOUS
<1>1. CASE GetLatestNetworkBlock
  <2>1. PICK n \in 0 .. Len(txs) :
          IF n < tx.block
          THEN GiveUp
          ELSE /\ to' = IF PageEnd(tx.block) < n THEN PageEnd(tx.block) ELSE n
               /\ pc' = "fetch"
               /\ UNCHANGED <<registryVars, db, tx, events>>
    BY <1>1 DEF GetLatestNetworkBlock
  <2>2. CASE n < tx.block
    BY <2>1, <2>2, GiveUpKeeps
  <2>3. CASE ~(n < tx.block)
    <3>1. n \in Nat /\ tx.block \in Nat
      BY DEF StoredInv, IsDatabase
    <3>2. to' \in Nat /\ tx.block <= to'
      BY <2>1, <2>3, <3>1, ZilWorkerAssumption DEF PageEnd
    <3> QED
      BY <1>1, <2>1, <2>3, <3>2
      DEF GetLatestNetworkBlock, StoredInv, IsDatabase, StoredUpTo, Sequence
  <2> QED
    BY <2>2, <2>3
<1>2. CASE GetEvents
  <2>1. PICK n \in 0 .. Len(txs) :
          LET last == IF n < to THEN n ELSE to
              page == tx.block + 1 .. last
          IN IF Sequential(page)
             THEN /\ tx' = [tx EXCEPT !.stored = @ \cup page]
                  /\ pc' = "events"
                  /\ UNCHANGED <<registryVars, db, to>>
             ELSE GiveUp
    BY <1>2 DEF GetEvents
  <2> DEFINE last == IF n < to THEN n ELSE to
             page == tx.block + 1 .. last
  <2>2. CASE ~Sequential(page)
    BY <2>1, <2>2, GiveUpKeeps
  <2>3. CASE Sequential(page)
    <3>1. /\ tx.block \in Nat /\ to \in Nat /\ last \in Nat /\ last <= to
          /\ tx.block < to
          /\ StoredUpTo(tx, tx.block)
      BY <1>2 DEF StoredInv, IsDatabase, GetEvents
    <3>2. Sequence(tx.stored \cup page)
      <4> HIDE DEF last
      <4> QED
        BY <2>3, <3>1, PageJoined DEF StoredUpTo, Sequential
    <3>3. tx.stored \cup page \subseteq 1 .. to
      BY <3>1 DEF StoredUpTo
    <3>4. /\ tx' = [tx EXCEPT !.stored = @ \cup page]
          /\ pc' = "events" /\ db' = db /\ to' = to
      BY <2>1, <2>3
    <3> HIDE DEF page
    <3>5. tx'.stored = tx.stored \cup page /\ IsDatabase(tx)'
      BY <3>4 DEF StoredInv, IsDatabase
    <3>6. StoredUpTo(tx, to)'
      BY <3>2, <3>3, <3>4, <3>5 DEF StoredUpTo, Sequence
    <3> QED
      BY <3>4, <3>5, <3>6 DEF StoredInv, IsDatabase, StoredUpTo, Sequence
  <2> QED
    BY <2>2, <2>3
<1>3. CASE ParseNewDomain
  <2>1. \E tables, lost : ProcessedBut(tables, lost)
    BY <1>3 DEF ParseNewDomain
  <2> QED
    BY <1>3, <2>1, ProcessedKeeps DEF ParseNewDomain, Processing
<1>4. CASE ParseConfigured
  <2>1. \E tables, lost : ProcessedBut(tables, lost)
    BY <1>4 DEF ParseConfigured
  <2> QED
    BY <1>4, <2>1, ProcessedKeeps DEF ParseConfigured, Processing
<1>5. CASE LoseConfigured
  BY <1>5, ProcessedKeeps DEF LoseConfigured, Processing
<1>6. CASE Commit
  <2>1. /\ db' = [tx EXCEPT !.block = to] /\ tx' = db'
        /\ pc' = "idle" /\ to' = 0
    BY <1>6 DEF Commit, EndRun
  <2>2. StoredUpTo(tx, to)
    BY <1>6 DEF Commit, Fetched, StoredInv
  <2>3. /\ db'.block = to /\ db'.stored = tx.stored /\ IsDatabase(db)'
    BY <2>1 DEF StoredInv, IsDatabase
  <2> QED
    BY <2>1, <2>2, <2>3 DEF StoredInv, IsDatabase, StoredUpTo, Sequence
<1>7. CASE Rollback
  BY <1>7, GiveUpKeeps DEF Rollback
<1>8. CASE Crash
  BY <1>8, GiveUpKeeps DEF Crash
<1>9. CASE UNCHANGED workerVars
  BY <1>9 DEF workerVars, StoredInv, IsDatabase, StoredUpTo, Sequence
<1>10. CASE UNCHANGED vars
  BY <1>10, <1>9 DEF vars, workerVars, StoredInv, IsDatabase, StoredUpTo,
     Sequence
<1> QED
  BY <1>1, <1>2, <1>3, <1>4, <1>5, <1>6, <1>7, <1>8, <1>9, <1>10
  DEF Next, WorkerStep

\* The check of validateZnsEvents (WorkerRepository.ts:463) is enough: whatever
\* the index answers and wherever runs end, zns_transactions has no gap.
THEOREM StoredWithoutGap == Spec => []StoredSequentially
<1>1. Init => StoredInv
  BY DEF Init, StoredInv, IsDatabase, StoredUpTo, Sequence
<1>2. StoredInv => StoredSequentially
  BY DEF StoredInv, StoredUpTo, Sequence, StoredSequentially
<1> QED
  BY <1>1, <1>2, StoredInvStep, PTL DEF Spec

-----------------------------------------------------------------------------
(* The registry *)

Event ==
    [type : {"NewDomain"}, node : Nodes]
      \cup [type : {"Configured"}, node : Nodes, owner : Owners \cup {Null},
            resolver : Resolvers \cup {Null}]

NodeOf(i) == txs[i][1].node

\* What an event tells of a node as it is.
Current(n) ==
    Configured(n, rows[n].owner,
               IF rows[n].resolver = None THEN Null ELSE rows[n].resolver)

\* Transaction t configures n, and registers it if it has a second event.
Tells(t, n) ==
    /\ t = <<t[1]>> \/ t = <<t[1], NewDomain(n)>>
    /\ t[1] \in Event /\ t[1].type = "Configured" /\ t[1].node = n

\* The first transaction of a node registers it, the last one tells what it is.
RegistryInv ==
    /\ txs = [i \in 1 .. Len(txs) |-> txs[i]] /\ Len(txs) \in Nat
    /\ DOMAIN rows \subseteq Nodes
    /\ \A n \in DOMAIN rows :
         /\ rows[n].owner \in Owners \cup {Null}
         /\ rows[n].resolver \in Resolvers \cup {None}
         /\ \E i \in 1 .. Len(txs) : NodeOf(i) = n
    /\ kept = [r \in Resolvers |-> [n \in Nodes |-> kept[r][n]]]
    /\ \A i \in 1 .. Len(txs) :
         /\ Tells(txs[i], NodeOf(i)) /\ NodeOf(i) \in DOMAIN rows
         /\ (\A k \in 1 .. i - 1 : NodeOf(k) # NodeOf(i)) => Len(txs[i]) = 2
         /\ (\A k \in i + 1 .. Len(txs) : NodeOf(k) # NodeOf(i))
              => txs[i][1] = Current(NodeOf(i))

\* A step of the registry is a transaction t of one node.
Moves(n, t) ==
    /\ n \in Nodes
    /\ txs' = Append(txs, t)
    /\ Tells(t, n)
    /\ n \notin DOMAIN rows => Len(t) = 2
    /\ DOMAIN rows' = DOMAIN rows \cup {n}
    /\ rows'[n].owner \in Owners \cup {Null}
    /\ rows'[n].resolver \in Resolvers \cup {None}
    /\ t[1] = Current(n)'
    /\ \A m \in DOMAIN rows \ {n} : rows'[m] = rows[m]
    /\ kept' = [r \in Resolvers |-> [m \in Nodes |-> kept'[r][m]]]
    /\ \A r \in Resolvers : \A m \in Nodes \ {n} : kept'[r][m] = kept[r][m]

LEMMA ConfiguredTold ==
    ASSUME NEW n \in Nodes, NEW o \in Owners \cup {Null},
           NEW r \in Resolvers \cup {Null}
    PROVE  /\ Tells(<<Configured(n, o, r)>>, n)
           /\ Tells(<<Configured(n, o, r), NewDomain(n)>>, n)
BY DEF Tells, Configured, NewDomain, Event

LEMMA RegistryMoves ==
    ASSUME RegistryInv, RegistryStep
    PROVE  \E n, t : Moves(n, t)
<1>1. PICK n \in Nodes :
        \/ \E o \in Owners : Register(n, o)
        \/ \E o \in Owners \cup {Null}, r \in Resolvers \cup {None} :
             Configure(n, o, r)
        \/ \E k \in Keys, v \in Values : SetRecord(n, k, v)
  BY DEF RegistryStep
<1>2. ASSUME NEW o \in Owners, Register(n, o)
      PROVE  Moves(n, <<Configured(n, o, Null), NewDomain(n)>>)
  <2>1. /\ rows' = Put(rows, n, [owner |-> o, resolver |-> None])
        /\ kept' = kept
        /\ txs' = Append(txs, <<Configured(n, o, Null), NewDomain(n)>>)
    BY <1>2 DEF Register, Happened
  <2>2. /\ DOMAIN rows' = DOMAIN rows \cup {n}
        /\ rows'[n] = [owner |-> o, resolver |-> None]
        /\ \A m \in DOMAIN rows \ {n} : rows'[m] = rows[m]
    BY <2>1 DEF Put
  <2>3. Current(n)' = Configured(n, o, Null)
    BY <2>2 DEF Current
  <2>4. Tells(<<Configured(n, o, Null), NewDomain(n)>>, n)
    BY ConfiguredTold
  <2> QED
    BY <2>1, <2>2, <2>3, <2>4 DEF Moves, RegistryInv
<1>3. ASSUME NEW o \in Owners \cup {Null}, NEW r \in Resolvers \cup {None},
             Configure(n, o, r)
      PROVE  Moves(n, <<Configured(n, o, IF r = None THEN Null ELSE r)>>)
  <2>1. /\ n \in DOMAIN rows
        /\ rows' = [rows EXCEPT ![n] = [owner |-> o, resolver |-> r]]
        /\ kept' = kept
        /\ txs' = Append(txs, <<Configured(n, o, IF r = None THEN Null ELSE r)>>)
    BY <1>3 DEF Configure, Happened, Owned
  <2>2. /\ DOMAIN rows' = DOMAIN rows \cup {n}
        /\ rows'[n] = [owner |-> o, resolver |-> r]
        /\ \A m \in DOMAIN rows \ {n} : rows'[m] = rows[m]
    BY <2>1
  <2>3. Current(n)' = Configured(n, o, IF r = None THEN Null ELSE r)
    BY <2>2 DEF Current
  <2>4. Tells(<<Configured(n, o, IF r = None THEN Null ELSE r)>>, n)
    BY ConfiguredTold
  <2> QED
    BY <2>1, <2>2, <2>3, <2>4 DEF Moves, RegistryInv
<1>4. ASSUME NEW k \in Keys, NEW v \in Values, SetRecord(n, k, v)
      PROVE  Moves(n, <<Configured(n, rows[n].owner, rows[n].resolver)>>)
  <2> DEFINE r == rows[n].resolver
  <2>1. /\ n \in DOMAIN rows /\ r # None
        /\ kept' = [kept EXCEPT ![r][n] = Put(@, k, v)]
        /\ rows' = rows
        /\ txs' = Append(txs, <<Configured(n, rows[n].owner, r)>>)
    BY <1>4 DEF SetRecord, Happened, Owned
  <2>2. r \in Resolvers /\ rows[n].owner \in Owners \cup {Null}
    BY <2>1 DEF RegistryInv
  <2>3. Current(n)' = Configured(n, rows[n].owner, r)
    BY <2>1 DEF Current
  <2>4. Tells(<<Configured(n, rows[n].owner, r)>>, n)
    BY <2>2, ConfiguredTold
  <2>5. /\ kept' = [q \in Resolvers |-> [m \in Nodes |-> kept'[q][m]]]
        /\ \A q \in Resolvers : \A m \in Nodes \ {n} : kept'[q][m] = kept[q][m]
    BY <2>1, <2>2 DEF RegistryInv
  <2> QED
    BY <2>1, <2>2, <2>3, <2>4, <2>5 DEF Moves
<1> QED
  BY <1>1, <1>2, <1>3, <1>4

LEMMA Appended ==
    ASSUME RegistryInv, NEW n, NEW t, Moves(n, t)
    PROVE  \E L \in Nat :
             /\ L = Len(txs) /\ Len(txs') = L + 1
             /\ txs' = [i \in 1 .. L + 1 |-> txs'[i]]
             /\ \A i \in 1 .. L : txs'[i] = txs[i] /\ NodeOf(i)' = NodeOf(i)
             /\ txs'[L + 1] = t /\ NodeOf(L + 1)' = n
<1> PICK L \in Nat : L = Len(txs)
  BY DEF RegistryInv
<1>1. /\ Len(txs') = L + 1
      /\ txs' = [i \in 1 .. L + 1 |-> txs'[i]]
      /\ \A i \in 1 .. L : txs'[i] = txs[i]
      /\ txs'[L + 1] = t
  <2> DEFINE S == {txs[i] : i \in 1 .. L} \cup {t}
  <2>1. txs \in Seq(S)
    BY DEF RegistryInv
  <2>2. txs' = Append(txs, t) /\ t \in S
    BY DEF Moves
  <2> HIDE DEF S
  <2>3. /\ Append(txs, t) \in Seq(S)
        /\ Len(Append(txs, t)) = L + 1
        /\ \A i \in 1 .. L : Append(txs, t)[i] = txs[i]
        /\ Append(txs, t)[L + 1] = t
    BY <2>1, <2>2, AppendProperties
  <2>4. \A s \in Seq(S) : s = [i \in 1 .. Len(s) |-> s[i]]
    OBVIOUS
  <2>5. txs' = [i \in 1 .. Len(txs') |-> txs'[i]]
    BY <2>2, <2>3, <2>4
  <2> QED
    BY <2>2, <2>3, <2>5
<1> QED
  BY <1>1 DEF NodeOf, Moves, Tells

LEMMA MovesKeepRegistry ==
    ASSUME RegistryInv, NEW n, NEW t, Moves(n, t)
    PROVE  RegistryInv'
<1>1. PICK L \in Nat :
      /\ L = Len(txs) /\ Len(txs') = L + 1
      /\ txs' = [i \in 1 .. L + 1 |-> txs'[i]]
      /\ \A i \in 1 .. L : txs'[i] = txs[i] /\ NodeOf(i)' = NodeOf(i)
      /\ txs'[L + 1] = t /\ NodeOf(L + 1)' = n
  BY Appended
<1>2. /\ DOMAIN rows' = DOMAIN rows \cup {n} /\ Tells(t, n)
      /\ \A m \in DOMAIN rows \ {n} : rows'[m] = rows[m]
      /\ \A m \in DOMAIN rows \ {n} : Current(m)' = Current(m)
  BY DEF Moves, Current
<1>3. ASSUME NEW m \in DOMAIN rows'
      PROVE  /\ rows'[m].owner \in Owners \cup {Null}
             /\ rows'[m].resolver \in Resolvers \cup {None}
             /\ \E i \in 1 .. L + 1 : NodeOf(i)' = m
  <2>1. CASE m = n
    <3>1. L + 1 \in 1 .. L + 1
      BY <1>1
    <3> QED
      BY <1>1, <2>1, <3>1 DEF Moves
  <2>2. CASE m # n
    <3>1. m \in DOMAIN rows /\ rows'[m] = rows[m]
      BY <1>2, <2>2
    <3>2. PICK i \in 1 .. L : NodeOf(i) = m
      BY <1>1, <3>1 DEF RegistryInv
    <3>3. i \in 1 .. L + 1
      BY <1>1
    <3> QED
      BY <1>1, <3>1, <3>2, <3>3 DEF RegistryInv
  <2> QED
    BY <2>1, <2>2
<1>4. ASSUME NEW i \in 1 .. L + 1
      PROVE  /\ Tells(txs'[i], NodeOf(i)') /\ NodeOf(i)' \in DOMAIN rows'
             /\ (\A k \in 1 .. i - 1 : NodeOf(k)' # NodeOf(i)') => Len(txs'[i]) = 2
             /\ (\A k \in i + 1 .. L + 1 : NodeOf(k)' # NodeOf(i)')
                  => txs'[i][1] = Current(NodeOf(i))'
  <2>1. CASE i = L + 1
    <3>1. ASSUME \A k \in 1 .. L : NodeOf(k)' # n
          PROVE  n \notin DOMAIN rows
      BY <1>1, <3>1 DEF RegistryInv
    <3>2. i - 1 = L
      BY <1>1, <2>1
    <3>3. Current(NodeOf(i))' = Current(n)'
      BY <1>1, <2>1 DEF Current
    <3> QED
      BY <1>1, <1>2, <2>1, <3>1, <3>2, <3>3 DEF Moves
  <2>2. CASE i \in 1 .. L
    <3>1. txs'[i] = txs[i] /\ NodeOf(i)' = NodeOf(i) /\ NodeOf(i) \in DOMAIN rows
          /\ Tells(txs[i], NodeOf(i))
      BY <1>1, <2>2 DEF RegistryInv
    <3>2. ASSUME \A k \in 1 .. i - 1 : NodeOf(k)' # NodeOf(i)'
          PROVE  Len(txs'[i]) = 2
      <4>1. \A k \in 1 .. i - 1 : k \in 1 .. L
        BY <1>1, <2>2
      <4>2. \A k \in 1 .. i - 1 : NodeOf(k) # NodeOf(i)
        BY <1>1, <3>1, <3>2, <4>1
      <4> QED
        BY <2>2, <3>1, <4>2 DEF RegistryInv
    <3>3. ASSUME \A k \in i + 1 .. L + 1 : NodeOf(k)' # NodeOf(i)'
          PROVE  txs'[i][1] = Current(NodeOf(i))'
      <4>1. L + 1 \in i + 1 .. L + 1 /\ \A k \in i + 1 .. L : k \in 1 .. L
                                         /\ k \in i + 1 .. L + 1
        BY <1>1, <2>2
      <4>2. NodeOf(i) # n
        BY <1>1, <3>1, <3>3, <4>1
      <4>3. \A k \in i + 1 .. L : NodeOf(k) # NodeOf(i)
        BY <1>1, <3>1, <3>3, <4>1
      <4>4. txs[i][1] = Current(NodeOf(i))
        BY <1>1, <2>2, <4>3 DEF RegistryInv
      <4>5. Current(NodeOf(i))' = Configured(NodeOf(i)', rows'[NodeOf(i)'].owner,
               IF rows'[NodeOf(i)'].resolver = None THEN Null ELSE rows'[NodeOf(i)'].resolver)
        BY DEF Current
      <4>6. rows'[NodeOf(i)'] = rows[NodeOf(i)]
        BY <1>2, <3>1, <4>2
      <4> QED
        BY <3>1, <4>4, <4>5, <4>6 DEF Current
    <3> QED
      BY <1>2, <3>1, <3>2, <3>3
  <2> QED
    BY <1>1, <2>1, <2>2
<1>5. DOMAIN rows' \subseteq Nodes
  BY <1>2 DEF RegistryInv, Moves
<1>6. kept' = [r \in Resolvers |-> [m \in Nodes |-> kept'[r][m]]]
  BY DEF Moves
<1>7. txs' = [i \in 1 .. Len(txs') |-> txs'[i]] /\ Len(txs') \in Nat
  BY <1>1
<1> QED
  BY <1>1, <1>3, <1>4, <1>5, <1>6, <1>7 DEF RegistryInv

-----------------------------------------------------------------------------
(* The tables *)

IsTables(v) ==
    /\ v = [names |-> v.names, rows |-> v.rows, rev |-> v.rev, broken |-> v.broken]
    /\ v.names \subseteq Nodes \cup {Root}
    /\ DOMAIN v.rows \subseteq v.names
    /\ v.rev = {}
    /\ v.broken \in BOOLEAN

\* Beside TypeOK: what a step reads of the two databases is there.
WorkerInv ==
    /\ \A d \in {db, tx} :
         /\ d.block \in 0 .. Len(txs)
         /\ d.lost \subseteq Nodes
         /\ IsTables(d.tables)
    /\ ~db.tables.broken
    /\ db.tables.names \subseteq tx.tables.names
    /\ pc # "events" => tx = db /\ events = <<>>
    /\ to \in 0 .. Len(txs)
    /\ events \in Seq(Event)
    /\ faults \in 0 .. MaxFaults

\* The row of node n is as ZilSettled wants it.
Agrees(tables, n) ==
    /\ n \in DOMAIN tables.rows
    /\ LET row == tables.rows[n] IN
       /\ row.owner = rows[n].owner
       /\ row.resolver = rows[n].resolver
       /\ row.registry = IF Owned(n) THEN "zns" ELSE Repo!Absent
       /\ rows[n].resolver # None =>
            \A k \in DOMAIN kept[rows[n].resolver][n] :
                /\ k \in DOMAIN row.records
                /\ row.records[k] = kept[rows[n].resolver][n][k]

Configures(e, n) == e.type = "Configured" /\ e.node = n

\* No transaction after b changed node n.
Rests(n, b) == n \in DOMAIN rows /\ \A i \in 1 .. Len(txs) : b < i => NodeOf(i) # n

\* A configuration of node n is fetched and not yet processed.
Pending(n) == \E j \in 1 .. Len(events) : Configures(events[j], n)

\* Without a gap, a mirrored transaction is of a node that has its domain or was
\* given up, and only a later transaction may make a row differ from the registry.
MirrorInv ==
    Complete(db) =>
        /\ \A i \in 1 .. db.block : NodeOf(i) \in db.tables.names \cup db.lost
        /\ \A n \in Nodes \ db.lost : Rests(n, db.block) => Agrees(db.tables, n)

\* The next event of a node after its registration configures it; and a node that
\* is configured has its domain, was given up, or is registered before.
OrderInv ==
    /\ \A j \in 1 .. Len(events) :
         events[j].type = "NewDomain" =>
            j < Len(events) /\ Configures(events[j + 1], events[j].node)
    /\ \A j \in 1 .. Len(events) :
         events[j].type = "Configured" =>
            \/ events[j].node \in tx.tables.names \cup tx.lost
            \/ \E i \in 1 .. j - 1 : events[i] = NewDomain(events[j].node)

\* The last event of a node that no later transaction changes tells what it is.
LastInv ==
    \A j \in 1 .. Len(events) : \A n \in Nodes :
        /\ Configures(events[j], n)
        /\ Rests(n, to)
        /\ \A i \in j + 1 .. Len(events) : ~Configures(events[i], n)
        => events[j] = Current(n)

\* MirrorInv for the transactions up to the one the run goes to, whose events may
\* still be pending.
ProcessedInv ==
    /\ \A i \in 1 .. to :
         NodeOf(i) \in tx.tables.names \cup tx.lost \/ Pending(NodeOf(i))
    /\ \A n \in Nodes \ tx.lost :
         Rests(n, to) /\ ~Pending(n) => Agrees(tx.tables, n)

EventsInv ==
    pc = "events" /\ tx.stored = 1 .. to /\ ~tx.tables.broken =>
        OrderInv /\ LastInv /\ ProcessedInv

ZilInv == StoredInv /\ RegistryInv /\ WorkerInv /\ MirrorInv /\ EventsInv

-----------------------------------------------------------------------------
(* The chain moves on *)

LEMMA MovesKeepWorker ==
    ASSUME RegistryInv, WorkerInv, MirrorInv, EventsInv, StoredInv,
           NEW n, NEW t, Moves(n, t), UNCHANGED workerVars
    PROVE  WorkerInv' /\ MirrorInv' /\ EventsInv'
<1>1. PICK L \in Nat :
      /\ L = Len(txs) /\ Len(txs') = L + 1
      /\ \A i \in 1 .. L : NodeOf(i)' = NodeOf(i)
      /\ NodeOf(L + 1)' = n
  BY Appended
<1>2. /\ db' = db /\ tx' = tx /\ pc' = pc /\ to' = to /\ events' = events
      /\ faults' = faults
  BY DEF workerVars
<1>3. WorkerInv'
  BY <1>1, <1>2 DEF WorkerInv
<1>4. ASSUME NEW b \in 0 .. L, NEW m \in Nodes, Rests(m, b)'
      PROVE  m # n /\ Rests(m, b)
  <2>1. L + 1 \in 1 .. L + 1 /\ b < L + 1
    BY <1>1
  <2>2. m # n
    BY <1>1, <1>4, <2>1 DEF Rests
  <2> QED
    BY <1>1, <1>4, <2>2 DEF Rests, Moves
<1>5. ASSUME NEW m \in Nodes, m # n, m \in DOMAIN rows
      PROVE  /\ rows'[m] = rows[m]
             /\ rows[m].resolver # None =>
                  kept'[rows[m].resolver][m] = kept[rows[m].resolver][m]
  <2>1. rows[m].resolver # None => rows[m].resolver \in Resolvers
    BY <1>5 DEF RegistryInv
  <2> QED
    BY <1>5, <2>1 DEF Moves
<1>6. ASSUME NEW m \in Nodes, m # n, m \in DOMAIN rows, NEW tables,
             Agrees(tables, m)
      PROVE  /\ m \in DOMAIN tables.rows
             /\ tables.rows[m].owner = rows'[m].owner
             /\ tables.rows[m].resolver = rows'[m].resolver
             /\ tables.rows[m].registry = IF Owned(m)' THEN "zns" ELSE Repo!Absent
             /\ rows'[m].resolver # None =>
                  \A k \in DOMAIN kept'[rows'[m].resolver][m] :
                    /\ k \in DOMAIN tables.rows[m].records
                    /\ tables.rows[m].records[k] = kept'[rows'[m].resolver][m][k]
  <2>1. Owned(m)' <=> Owned(m)
    BY <1>5, <1>6 DEF Owned, Moves
  <2> QED
    BY <1>5, <1>6, <2>1 DEF Agrees
<1>7. MirrorInv'
  <2> SUFFICES ASSUME Complete(db)
               PROVE  MirrorInv'
    BY <1>2 DEF MirrorInv, Complete
  <2>1. db.block \in 0 .. L
    BY <1>1 DEF WorkerInv
  <2>2. ASSUME NEW i \in 1 .. db.block
        PROVE  NodeOf(i)' \in db.tables.names \cup db.lost
    <3>1. i \in 1 .. L
      BY <2>1
    <3> QED
      BY <1>1, <3>1 DEF MirrorInv
  <2>3. ASSUME NEW m \in Nodes \ db.lost, Rests(m, db.block)'
        PROVE  Agrees(db.tables, m)'
    <3>1. m # n /\ Rests(m, db.block)
      BY <1>2, <1>4, <2>1, <2>3 DEF Rests
    <3>2. Agrees(db.tables, m) /\ m \in DOMAIN rows
      BY <3>1 DEF MirrorInv, Rests
    <3> QED
      BY <1>2, <1>6, <3>1, <3>2 DEF Agrees
  <2> QED
    BY <1>2, <2>2, <2>3 DEF MirrorInv
<1>8. EventsInv'
  <2> SUFFICES ASSUME pc = "events", tx.stored = 1 .. to, ~tx.tables.broken
               PROVE  OrderInv' /\ LastInv' /\ ProcessedInv'
    BY <1>2 DEF EventsInv
  <2>1. OrderInv /\ LastInv /\ ProcessedInv
    BY DEF EventsInv
  <2>2. to \in 0 .. L
    BY <1>1 DEF WorkerInv
  <2>3. OrderInv'
    BY <1>2, <2>1 DEF OrderInv
  <2>4. LastInv'
    <3> SUFFICES ASSUME NEW j \in 1 .. Len(events), NEW m \in Nodes,
                        Configures(events[j], m), Rests(m, to)',
                        \A i \in j + 1 .. Len(events) : ~Configures(events[i], m)
                 PROVE  events[j] = Current(m)'
      BY <1>2 DEF LastInv, Configures
    <3>1. m # n /\ Rests(m, to)
      BY <1>2, <1>4, <2>2 DEF Rests
    <3>2. events[j] = Current(m) /\ m \in DOMAIN rows
      BY <2>1, <3>1 DEF LastInv, Rests
    <3> QED
      BY <1>5, <3>1, <3>2 DEF Current
  <2>5. ProcessedInv'
    <3>1. \A m : Pending(m)' <=> Pending(m)
      BY <1>2 DEF Pending, Configures
    <3>2. ASSUME NEW i \in 1 .. to
          PROVE  NodeOf(i)' \in tx.tables.names \cup tx.lost \/ Pending(NodeOf(i)')
      <4>1. i \in 1 .. L
        BY <2>2
      <4>2. NodeOf(i)' = NodeOf(i)
        BY <1>1, <4>1
      <4> QED
        BY <2>1, <4>2 DEF ProcessedInv
    <3>3. ASSUME NEW m \in Nodes \ tx.lost, Rests(m, to)', ~Pending(m)
          PROVE  Agrees(tx.tables, m)'
      <4>1. m # n /\ Rests(m, to)
        BY <1>2, <1>4, <2>2, <3>3 DEF Rests
      <4>2. Agrees(tx.tables, m) /\ m \in DOMAIN rows
        BY <2>1, <3>3, <4>1 DEF ProcessedInv, Rests
      <4> QED
        BY <1>2, <1>6, <4>1, <4>2 DEF Agrees
    <3> QED
      BY <1>2, <3>1, <3>2, <3>3 DEF ProcessedInv, Pending, Configures
  <2> QED
    BY <2>3, <2>4, <2>5
<1> QED
  BY <1>3, <1>7, <1>8

-----------------------------------------------------------------------------
(* What getEvents makes of a page *)

\* The events s of the transactions from b + 1 to last: the configuration of
\* transaction i is at pos[i], after the registration if there is one.
InPlace(s, b, last, pos) ==
    /\ \A i \in b + 1 .. last :
         /\ pos[i] \in 1 .. Len(s)
         /\ s[pos[i]] = txs[i][1]
         /\ Len(txs[i]) = 2 => pos[i] - 1 \in 1 .. Len(s)
                               /\ s[pos[i] - 1] = NewDomain(NodeOf(i))
    /\ \A i, k \in b + 1 .. last : i < k => pos[i] < pos[k]
    /\ \A j \in 1 .. Len(s) : \E i \in b + 1 .. last :
         j = pos[i] \/ (Len(txs[i]) = 2 /\ j = pos[i] - 1)

LEMMA EventsTold ==
    ASSUME RegistryInv, NEW i \in 1 .. Len(txs)
    PROVE  /\ EventsOf(i) \in Seq(Event)
           /\ Len(EventsOf(i)) = Len(txs[i]) /\ Len(txs[i]) \in {1, 2}
           /\ EventsOf(i)[Len(txs[i])] = txs[i][1]
           /\ Len(txs[i]) = 2 => EventsOf(i)[1] = NewDomain(NodeOf(i))
<1>1. /\ Tells(txs[i], NodeOf(i)) /\ NodeOf(i) \in Nodes
  BY DEF RegistryInv
<1>2. PICK e \in Event : e = txs[i][1]
  BY <1>1 DEF Tells
<1>3. PICK f \in Event : f = NewDomain(NodeOf(i))
  BY <1>1 DEF NewDomain, Event
<1>4. CASE txs[i] = <<e>>
  <2>1. EventsOf(i) = <<e>>
    BY <1>4 DEF EventsOf, Reverse
  <2> QED
    BY <1>2, <1>4, <2>1
<1>5. CASE txs[i] = <<e, f>>
  <2>1. /\ EventsOf(i) = [j \in 1 .. 2 |-> txs[i][(2 - j) + 1]]
    BY <1>5 DEF EventsOf, Reverse
  <2>2. EventsOf(i) = <<f, e>>
    BY <1>5, <2>1
  <2> QED
    BY <1>2, <1>3, <1>5, <2>2
<1> QED
  BY <1>1, <1>2, <1>3, <1>4, <1>5 DEF Tells

LEMMA PageInPlace ==
    ASSUME RegistryInv, NEW b \in Nat, NEW last \in Nat, last <= Len(txs),
           NEW s, s = FlattenSeq([i \in 1 .. last - b |-> EventsOf(b + i)])
    PROVE  s \in Seq(Event) /\ \E pos : InPlace(s, b, last, pos)
<1> DEFINE seqs == [i \in 1 .. last - b |-> EventsOf(b + i)]
<1>1. PICK N \in Nat : N = IF last <= b THEN 0 ELSE last - b
  <2>1. (IF last <= b THEN 0 ELSE last - b) \in Nat
    OBVIOUS
  <2> QED
    BY <2>1
<1>2. /\ 1 .. last - b = 1 .. N
      /\ \A i \in b + 1 .. last : i - b \in 1 .. N
      /\ \A k \in 1 .. N : b + k \in b + 1 .. last /\ (b + k) - b = k
      /\ \A k \in 1 .. N : b + k \in 1 .. Len(txs)
  BY <1>1 DEF RegistryInv
<1>3. \A i \in 1 .. N : EventsOf(b + i) \in Seq(Event)
  BY <1>2, EventsTold
<1>4. seqs = [i \in 1 .. N |-> EventsOf(b + i)]
  BY <1>2
<1>5. \A i \in 1 .. N : seqs[i] = EventsOf(b + i) /\ seqs[i] \in Seq(Event)
  BY <1>3, <1>4
<1>6. s = FlattenSeq(seqs)
  OBVIOUS
<1> HIDE DEF seqs
<1>7. seqs \in Seq(Seq(Event)) /\ Len(seqs) = N
  <2>1. PICK X : X = Seq(Event)
    OBVIOUS
  <2>2. seqs \in [1 .. N -> X]
    BY <1>4, <1>5, <2>1
  <2>3. seqs \in Seq(X) /\ Len(seqs) = N
    BY <2>2
  <2> QED
    BY <2>1, <2>3
<1>8. s \in Seq(Event) /\ Len(s) \in Nat
  BY <1>6, <1>7, FlattenPlaces, LenProperties
<1>9. PICK off : Placed(s, seqs, off)
  BY <1>6, <1>7, FlattenPlaces
<1>10. \A i \in 1 .. Len(seqs) : Len(seqs[i]) \in Nat
  BY <1>7
<1>11. \A k \in 1 .. N + 1 : \A i \in 1 .. k : off[i] <= off[k]
  BY <1>1, <1>7, <1>9, <1>10, PlacesOrdered
<1>12. \A k \in 1 .. Len(s) : \E i \in 1 .. N : \E j \in 1 .. Len(seqs[i]) :
        k = off[i] + j
  BY <1>1, <1>7, <1>8, <1>9, <1>10, PlaceFound
<1>13. /\ \A i \in 1 .. N + 1 : off[i] \in Nat
       /\ off[N + 1] = Len(s)
       /\ \A i \in 1 .. N : off[i + 1] = off[i] + Len(seqs[i])
       /\ \A i \in 1 .. N : \A j \in 1 .. Len(seqs[i]) :
            s[off[i] + j] = seqs[i][j]
  BY <1>7, <1>9 DEF Placed
<1> DEFINE pos == [i \in b + 1 .. last |-> off[(i - b) + 1]]
<1>14. ASSUME NEW i \in b + 1 .. last
       PROVE  /\ i - b \in 1 .. N
              /\ pos[i] = off[i - b] + Len(txs[i])
              /\ off[i - b] \in Nat /\ pos[i] <= Len(s)
              /\ Len(seqs[i - b]) = Len(txs[i]) /\ Len(txs[i]) \in {1, 2}
              /\ s[pos[i]] = txs[i][1]
              /\ Len(txs[i]) = 2 => s[off[i - b] + 1] = NewDomain(NodeOf(i))
  <2>1. PICK k \in 1 .. N : k = i - b /\ i = b + k /\ i \in 1 .. Len(txs)
    BY <1>2
  <2>2. /\ seqs[k] = EventsOf(i)
        /\ Len(EventsOf(i)) = Len(txs[i]) /\ Len(txs[i]) \in {1, 2}
        /\ EventsOf(i)[Len(txs[i])] = txs[i][1]
        /\ Len(txs[i]) = 2 => EventsOf(i)[1] = NewDomain(NodeOf(i))
    BY <1>5, <2>1, EventsTold
  <2>3. pos[i] = off[k + 1] /\ k \in 1 .. N + 1 /\ k + 1 \in 1 .. N + 1
        /\ k + 1 \in 1 .. N + 1 /\ N + 1 \in 1 .. N + 1
    BY <2>1
  <2> HIDE DEF pos
  <2>4. off[k + 1] = off[k] + Len(txs[i]) /\ off[k] \in Nat
    BY <1>13, <2>2, <2>3
  <2>5. off[k + 1] <= off[N + 1]
    BY <1>11, <2>3
  <2>6. 1 \in 1 .. Len(seqs[k]) /\ Len(txs[i]) \in 1 .. Len(seqs[k])
    BY <2>2
  <2>7. s[off[k] + 1] = seqs[k][1] /\ s[off[k] + Len(txs[i])] = seqs[k][Len(txs[i])]
    BY <1>13, <2>6
  <2> QED
    BY <1>13, <2>1, <2>2, <2>3, <2>4, <2>5, <2>7
<1>15. ASSUME NEW i \in b + 1 .. last, NEW k \in b + 1 .. last, i < k
       PROVE  pos[i] < pos[k]
  <2>1. (i - b) + 1 \in 1 .. k - b /\ k - b \in 1 .. N + 1
        /\ (i - b) + 1 \in 1 .. N + 1
    BY <1>2, <1>15
  <2>2. off[(i - b) + 1] <= off[k - b]
    BY <1>11, <2>1
  <2>3. pos[i] = off[(i - b) + 1] /\ off[(i - b) + 1] \in Nat
    BY <1>13, <2>1
  <2>4. /\ pos[k] = off[k - b] + Len(txs[k])
        /\ off[k - b] \in Nat /\ Len(txs[k]) \in {1, 2}
    BY <1>14
  <2> HIDE DEF pos
  <2>5. \A x, y, l \in Nat : x <= y /\ l \in {1, 2} => x < y + l
    OBVIOUS
  <2>6. Len(txs[k]) \in Nat
    BY <2>4
  <2> QED
    BY <2>2, <2>3, <2>4, <2>5, <2>6, Zenon
<1> HIDE DEF pos
<1>16. ASSUME NEW j \in 1 .. Len(s)
       PROVE  \E i \in b + 1 .. last :
                j = pos[i] \/ (Len(txs[i]) = 2 /\ j = pos[i] - 1)
  <2> PICK k \in 1 .. N : \E l \in 1 .. Len(seqs[k]) : j = off[k] + l
    BY <1>12
  <2>1. PICK l \in 1 .. Len(seqs[k]) : j = off[k] + l
    OBVIOUS
  <2>2. PICK i \in b + 1 .. last : k = i - b
    <3>1. b + k \in b + 1 .. last /\ k = (b + k) - b
      BY <1>2
    <3> QED
      BY <3>1
  <2>3. /\ pos[i] = off[k] + Len(txs[i]) /\ off[k] \in Nat
        /\ Len(seqs[k]) = Len(txs[i]) /\ Len(txs[i]) \in {1, 2}
    BY <1>14, <2>2
  <2>4. CASE l = Len(txs[i])
    BY <2>1, <2>3, <2>4
  <2>5. CASE Len(txs[i]) = 2 /\ l = 1
    <3>1. \A x \in Nat : x + 1 = (x + 2) - 1
      OBVIOUS
    <3>2. j = pos[i] - 1
      BY <2>1, <2>3, <2>5, <3>1
    <3> QED
      BY <2>5, <3>2
  <2>6. l = Len(txs[i]) \/ (Len(txs[i]) = 2 /\ l = 1)
    <3>1. l \in 1 .. Len(txs[i])
      BY <2>3, Zenon
    <3>2. \A x \in {1, 2} : \A y \in 1 .. x : y = x \/ (x = 2 /\ y = 1)
      OBVIOUS
    <3> QED
      BY <2>3, <3>1, <3>2, Zenon
  <2> QED
    BY <2>4, <2>5, <2>6
<1>17. ASSUME NEW i \in b + 1 .. last
       PROVE  /\ pos[i] \in 1 .. Len(s)
              /\ s[pos[i]] = txs[i][1]
              /\ Len(txs[i]) = 2 => pos[i] - 1 \in 1 .. Len(s)
                                    /\ s[pos[i] - 1] = NewDomain(NodeOf(i))
  <2>1. /\ pos[i] = off[i - b] + Len(txs[i])
        /\ off[i - b] \in Nat /\ pos[i] <= Len(s)
        /\ Len(txs[i]) \in {1, 2}
        /\ s[pos[i]] = txs[i][1]
        /\ Len(txs[i]) = 2 => s[off[i - b] + 1] = NewDomain(NodeOf(i))
    BY <1>14
  <2>2. pos[i] \in 1 .. Len(s)
    BY <1>8, <2>1, SMTT(30)
  <2>3. Len(txs[i]) = 2 => pos[i] - 1 \in 1 .. Len(s)
                           /\ pos[i] - 1 = off[i - b] + 1
    <3>1. \A o, n \in Nat, p \in Int : p = o + 2 /\ p <= n => p - 1 \in 1 .. n
                                                           /\ p - 1 = o + 1
      OBVIOUS
    <3>2. pos[i] \in Int /\ Len(s) \in Nat
      BY <1>8, <2>2
    <3>3. Len(txs[i]) = 2 => pos[i] = off[i - b] + 2
      BY <2>1, Zenon
    <3> QED
      BY <2>1, <3>1, <3>2, <3>3, Zenon
  <2> QED
    BY <2>1, <2>2, <2>3
<1>18. InPlace(s, b, last, pos)
  BY <1>15, <1>16, <1>17 DEF InPlace
<1> QED
  BY <1>8, <1>18

-----------------------------------------------------------------------------
(* The run until its events are fetched *)

LEMMA GiveUpKeepsWorker ==
    ASSUME WorkerInv, MirrorInv, GiveUp, faults' \in 0 .. MaxFaults
    PROVE  WorkerInv' /\ MirrorInv' /\ EventsInv'
<1>1. /\ rows' = rows /\ kept' = kept /\ txs' = txs /\ db' = db /\ tx' = db
      /\ pc' = "idle" /\ to' = 0 /\ events' = <<>>
  BY DEF GiveUp, EndRun, registryVars
<1>2. WorkerInv'
  BY <1>1 DEF WorkerInv
<1>3. MirrorInv'
  BY <1>1 DEF MirrorInv, Complete, NodeOf, Rests, Agrees, Owned
<1> QED
  BY <1>1, <1>2, <1>3 DEF EventsInv

LEMMA AskedKeepsWorker ==
    ASSUME RegistryInv, WorkerInv, MirrorInv, GetLatestNetworkBlock
    PROVE  WorkerInv' /\ MirrorInv' /\ EventsInv'
<1>1. PICK n \in 0 .. Len(txs) :
        /\ Answered(n)
        /\ IF n < tx.block
           THEN GiveUp
           ELSE /\ to' = IF PageEnd(tx.block) < n THEN PageEnd(tx.block) ELSE n
                /\ pc' = "fetch"
                /\ UNCHANGED <<registryVars, db, tx, events>>
  BY DEF GetLatestNetworkBlock
<1>2. faults' \in 0 .. MaxFaults
  BY <1>1, ZilWorkerAssumption DEF Answered, Fault, WorkerInv
<1>3. CASE n < tx.block
  BY <1>1, <1>2, <1>3, GiveUpKeepsWorker
<1>4. CASE ~(n < tx.block)
  <2>1. /\ rows' = rows /\ kept' = kept /\ txs' = txs /\ db' = db /\ tx' = tx
        /\ pc' = "fetch" /\ events' = events /\ pc = "idle"
    BY <1>1, <1>4 DEF GetLatestNetworkBlock, registryVars
  <2>2. to' \in 0 .. Len(txs)
    <3>1. tx.block \in Nat /\ n \in Nat /\ n <= Len(txs) /\ Len(txs) \in Nat
      BY DEF WorkerInv, RegistryInv
    <3> QED
      BY <1>1, <1>4, <3>1, ZilWorkerAssumption DEF PageEnd
  <2>3. WorkerInv'
    BY <1>2, <2>1, <2>2 DEF WorkerInv
  <2>4. MirrorInv'
    BY <2>1 DEF MirrorInv, Complete, NodeOf, Rests, Agrees, Owned
  <2> QED
    BY <2>1, <2>3, <2>4 DEF EventsInv
<1> QED
  BY <1>3, <1>4

\* The events of a page that goes to transaction last satisfy what is wanted of
\* the events of a run.
LEMMA PageOrdered ==
    ASSUME RegistryInv, WorkerInv, MirrorInv, Complete(db),
           NEW last \in Nat, last <= Len(txs), NEW s \in Seq(Event), NEW pos,
           InPlace(s, db.block, last, pos),
           NEW j \in 1 .. Len(s)
    PROVE  /\ s[j].type = "NewDomain" =>
                j < Len(s) /\ Configures(s[j + 1], s[j].node)
           /\ s[j].type = "Configured" =>
                \/ s[j].node \in db.tables.names \cup db.lost
                \/ \E k \in 1 .. j - 1 : s[k] = NewDomain(s[j].node)
           /\ \A n \in Nodes :
                /\ Configures(s[j], n)
                /\ Rests(n, last)
                /\ \A k \in j + 1 .. Len(s) : ~Configures(s[k], n)
                => s[j] = Current(n)
<1> DEFINE b == db.block
<1>1. b \in Nat /\ Len(txs) \in Nat /\ Len(s) \in Nat
  BY DEF WorkerInv, RegistryInv
<1>2. PICK i \in b + 1 .. last :
        j = pos[i] \/ (Len(txs[i]) = 2 /\ j = pos[i] - 1)
  BY DEF InPlace
<1>3. \A k \in b + 1 .. last :
        /\ k \in 1 .. Len(txs) /\ pos[k] \in 1 .. Len(s)
        /\ Configures(s[pos[k]], NodeOf(k)) /\ s[pos[k]] = txs[k][1]
  <2>1. ASSUME NEW k \in b + 1 .. last
        PROVE  k \in 1 .. Len(txs)
    BY <1>1
  <2>2. ASSUME NEW k \in b + 1 .. last
        PROVE  txs[k][1].type = "Configured" /\ txs[k][1].node = NodeOf(k)
    BY <2>1 DEF RegistryInv, Tells
  <2> QED
    BY <2>1, <2>2 DEF InPlace, Configures
<1> HIDE DEF b
<1>4. CASE j = pos[i]
  <2>1. Configures(s[j], NodeOf(i)) /\ s[j] = txs[i][1]
    BY <1>3, <1>4
  <2>2. s[j].type = "Configured" /\ s[j].node = NodeOf(i)
    BY <2>1 DEF Configures
  <2> DEFINE n == NodeOf(i)
  <2>3. \/ n \in db.tables.names \cup db.lost
        \/ \E k \in 1 .. j - 1 : s[k] = NewDomain(n)
    <3> DEFINE T == {k \in 1 .. i : NodeOf(k) = n}
    <3>1. T \in SUBSET (1 .. i) /\ i \in Nat /\ i \in T
      BY <1>1, <1>3
    <3>2. PICK f \in T : \A k \in 1 .. f - 1 : k \notin T
      <4> HIDE DEF T
      <4> QED
        BY <3>1, LeastCounterexample
    <3>3. f \in 1 .. i /\ NodeOf(f) = n /\ f \in 1 .. Len(txs)
      BY <1>3
    <3>4. \A k \in 1 .. f - 1 : NodeOf(k) # NodeOf(f)
      <4>1. \A k \in 1 .. f - 1 : k \in 1 .. i
        BY <3>1, <3>3
      <4> QED
        BY <3>2, <3>3, <4>1
    <3> HIDE DEF T
    <3>5. Len(txs[f]) = 2
      BY <3>3, <3>4 DEF RegistryInv
    <3>6. CASE f \in 1 .. b
      BY <3>3, <3>6 DEF MirrorInv, b
    <3>7. CASE f \in b + 1 .. last
      <4>1. pos[f] - 1 \in 1 .. Len(s) /\ s[pos[f] - 1] = NewDomain(n)
        BY <3>3, <3>5, <3>7 DEF InPlace, b
      <4>2. f < i => pos[f] < pos[i]
        BY <3>7 DEF InPlace, b
      <4>3. pos[f] \in Nat /\ pos[i] \in Nat
        BY <1>3, <3>7
      <4>4. pos[f] - 1 \in 1 .. j - 1
        BY <1>4, <3>3, <4>1, <4>2, <4>3
      <4> QED
        BY <4>1, <4>4
    <3> QED
      BY <1>1, <3>3, <3>6, <3>7
  <2>4. ASSUME Rests(n, last), \A k \in j + 1 .. Len(s) : ~Configures(s[k], n)
        PROVE  s[j] = Current(n)
    <3>1. ASSUME NEW k \in i + 1 .. Len(txs)
          PROVE  NodeOf(k) # NodeOf(i)
      <4>1. i \in Nat /\ k \in 1 .. Len(txs)
        BY <1>1, <1>3
      <4>2. CASE k <= last
        <5>1. k \in b + 1 .. last /\ i < k
          BY <1>1, <4>1, <4>2
        <5>2. pos[i] < pos[k] /\ pos[k] \in 1 .. Len(s) /\ pos[i] \in Nat
          BY <1>3, <5>1 DEF InPlace, b
        <5>3. pos[k] \in j + 1 .. Len(s)
          BY <1>4, <5>2
        <5> QED
          BY <1>3, <2>4, <5>1, <5>3
      <4>3. CASE ~(k <= last)
        BY <2>4, <4>1, <4>3 DEF Rests
      <4> QED
        BY <4>2, <4>3
    <3> QED
      BY <1>3, <2>1, <3>1 DEF RegistryInv
  <2>5. \A m : Configures(s[j], m) => m = n
    BY <2>2 DEF Configures
  <2> QED
    BY <2>2, <2>3, <2>4, <2>5
<1>5. CASE Len(txs[i]) = 2 /\ j = pos[i] - 1
  <2>1. s[j] = NewDomain(NodeOf(i))
    BY <1>5 DEF InPlace, b
  <2>2. s[j].type = "NewDomain" /\ s[j].node = NodeOf(i)
    BY <2>1 DEF NewDomain
  <2>3. pos[i] \in 1 .. Len(s) /\ Configures(s[pos[i]], NodeOf(i))
    BY <1>3
  <2>4. j < Len(s) /\ j + 1 = pos[i]
    BY <1>1, <1>5, <2>3
  <2> QED
    BY <2>2, <2>3, <2>4 DEF Configures
<1> QED
  BY <1>2, <1>4, <1>5

LEMMA FetchedKeepsWorker ==
    ASSUME StoredInv, RegistryInv, WorkerInv, MirrorInv, GetEvents
    PROVE  WorkerInv' /\ MirrorInv' /\ EventsInv'
<1>1. PICK n \in 0 .. Len(txs) :
          LET last == IF n < to THEN n ELSE to
              page == tx.block + 1 .. last
          IN /\ Answered(n)
             /\ IF Sequential(page)
                THEN /\ tx' = [tx EXCEPT !.stored = @ \cup page]
                     /\ events' = FlattenSeq([i \in 1 .. last - tx.block |->
                                                EventsOf(tx.block + i)])
                     /\ pc' = "events"
                     /\ UNCHANGED <<registryVars, db, to>>
                ELSE GiveUp
  BY DEF GetEvents
<1>2. faults' \in 0 .. MaxFaults
  BY <1>1, ZilWorkerAssumption DEF Answered, Fault, WorkerInv
<1>3. PICK last \in Nat : last = IF n < to THEN n ELSE to
  <2>1. (IF n < to THEN n ELSE to) \in Nat
    BY DEF WorkerInv
  <2> QED
    BY <2>1
<1>4. PICK b \in Nat : b = tx.block
  BY DEF WorkerInv
<1>5. CASE ~Sequential(b + 1 .. last)
  <2>1. GiveUp
    BY <1>1, <1>3, <1>4, <1>5
  <2> QED
    BY <1>2, <2>1, GiveUpKeepsWorker
<1>6. CASE Sequential(b + 1 .. last)
  <2>1. /\ tx' = [tx EXCEPT !.stored = @ \cup (b + 1 .. last)]
        /\ events' = FlattenSeq([i \in 1 .. last - b |-> EventsOf(b + i)])
        /\ pc' = "events"
        /\ rows' = rows /\ kept' = kept /\ txs' = txs /\ db' = db /\ to' = to
    BY <1>1, <1>3, <1>4, <1>6 DEF registryVars
  <2>2. pc = "fetch" /\ tx = db /\ b < to /\ b = db.block /\ to \in Nat
        /\ to <= Len(txs) /\ last <= to /\ last <= Len(txs)
    <3>1. pc = "fetch" /\ tx.block < to
      BY DEF GetEvents
    <3>2. tx = db /\ to \in 0 .. Len(txs)
      BY <3>1 DEF WorkerInv
    <3> QED
      BY <1>3, <1>4, <3>1, <3>2 DEF RegistryInv
  <2>3. PICK s : s = events'
    OBVIOUS
  <2>4. s \in Seq(Event) /\ \E pos : InPlace(s, b, last, pos)
    BY <2>1, <2>2, <2>3, PageInPlace
  <2>5. PICK pos : InPlace(s, b, last, pos)
    BY <2>4
  <2>6. /\ tx'.block = tx.block /\ tx'.lost = tx.lost /\ tx'.tables = tx.tables
        /\ tx'.stored = tx.stored \cup (b + 1 .. last)
    BY <2>1 DEF StoredInv, IsDatabase
  <2>7. WorkerInv'
    BY <1>2, <2>1, <2>3, <2>4, <2>6 DEF WorkerInv
  <2>8. MirrorInv'
    BY <2>1 DEF MirrorInv, Complete, NodeOf, Rests, Agrees, Owned
  <2>9. ASSUME tx'.stored = 1 .. to
        PROVE  OrderInv' /\ LastInv' /\ ProcessedInv'
    <3>1. tx.stored \subseteq 1 .. b
      BY <1>4, <2>2 DEF StoredInv, StoredUpTo
    <3>2. last = to
      <4>1. to \in 1 .. to /\ to \notin 1 .. b
        BY <2>2
      <4>2. to \in b + 1 .. last
        BY <2>6, <2>9, <3>1, <4>1, Zenon
      <4> QED
        BY <2>2, <4>2
    <3>3. Complete(db)
      <4>1. \A i \in 1 .. b : i \in tx.stored
        BY <2>2, <2>6, <2>9
      <4>2. tx.stored = 1 .. b
        BY <3>1, <4>1
      <4> QED
        BY <2>2, <4>2 DEF Complete
    <3>4. \A j \in 1 .. Len(s) :
           /\ s[j].type = "NewDomain" =>
                j < Len(s) /\ Configures(s[j + 1], s[j].node)
           /\ s[j].type = "Configured" =>
                \/ s[j].node \in db.tables.names \cup db.lost
                \/ \E k \in 1 .. j - 1 : s[k] = NewDomain(s[j].node)
           /\ \A m \in Nodes :
                /\ Configures(s[j], m)
                /\ Rests(m, last)
                /\ \A k \in j + 1 .. Len(s) : ~Configures(s[k], m)
                => s[j] = Current(m)
      BY <2>2, <2>4, <2>5, <3>3, PageOrdered
    <3>5. OrderInv'
      BY <2>2, <2>3, <2>6, <3>4 DEF OrderInv, Configures
    <3>6. LastInv'
      <4>1. ASSUME NEW m
            PROVE  /\ Rests(m, to)' => Rests(m, last)
                   /\ Current(m)' = Current(m)
        BY <2>1, <3>2 DEF Rests, NodeOf, Current
      <4> QED
        BY <2>3, <3>4, <4>1 DEF LastInv, Configures
    <3>7. ASSUME NEW i \in b + 1 .. to
          PROVE  \E j \in 1 .. Len(s) : Configures(s[j], NodeOf(i))
      <4>1. i \in 1 .. Len(txs) /\ i \in b + 1 .. last
        BY <2>2, <3>2 DEF RegistryInv
      <4>2. txs[i][1].type = "Configured"
        BY <4>1 DEF RegistryInv, Tells
      <4>3. pos[i] \in 1 .. Len(s) /\ s[pos[i]] = txs[i][1]
        BY <2>5, <4>1 DEF InPlace
      <4> QED
        BY <4>2, <4>3 DEF Configures, NodeOf
    <3>8. ASSUME NEW i \in 1 .. to
          PROVE  \/ NodeOf(i) \in db.tables.names \cup db.lost
                 \/ \E j \in 1 .. Len(s) : Configures(s[j], NodeOf(i))
      <4>1. CASE i <= b
        <5>1. i \in 1 .. db.block
          BY <2>2, <4>1
        <5> QED
          BY <3>3, <5>1 DEF MirrorInv
      <4>2. CASE ~(i <= b)
        <5>1. i \in b + 1 .. to
          BY <2>2, <4>2
        <5> QED
          BY <3>7, <5>1
      <4> QED
        BY <4>1, <4>2
    <3>9. ASSUME NEW m \in Nodes \ db.lost, Rests(m, to),
                 \A j \in 1 .. Len(s) : ~Configures(s[j], m)
          PROVE  Agrees(db.tables, m)
      <4>1. ASSUME NEW i \in 1 .. Len(txs), b < i
            PROVE  NodeOf(i) # m
        <5>1. CASE i <= to
          <6>1. i \in b + 1 .. to
            BY <2>2, <4>1, <5>1
          <6> QED
            BY <3>7, <3>9, <6>1
        <5>2. CASE ~(i <= to)
          BY <2>2, <3>9, <5>2 DEF Rests
        <5> QED
          BY <5>1, <5>2
      <4>2. Rests(m, db.block)
        BY <2>2, <3>9, <4>1 DEF Rests
      <4> QED
        BY <3>3, <4>2 DEF MirrorInv
    <3>10. ProcessedInv'
      <4>1. ASSUME NEW i \in 1 .. to
            PROVE  \/ NodeOf(i)' \in tx'.tables.names \cup tx'.lost
                   \/ \E j \in 1 .. Len(s) : Configures(s[j], NodeOf(i)')
        <5>1. NodeOf(i)' = NodeOf(i)
          BY <2>1 DEF NodeOf
        <5> QED
          BY <2>2, <2>6, <3>8, <5>1
      <4>2. ASSUME NEW m \in Nodes \ tx'.lost, Rests(m, to)',
                   \A j \in 1 .. Len(s) : ~Configures(s[j], m)
            PROVE  Agrees(tx.tables, m)'
        <5>1. Rests(m, to)
          BY <2>1, <4>2 DEF Rests, NodeOf
        <5>2. Agrees(db.tables, m)
          BY <2>2, <2>6, <3>9, <4>2, <5>1
        <5>3. Agrees(tx.tables, m)
          BY <2>2, <5>2
        <5> QED
          BY <2>1, <2>6, <5>3 DEF Agrees, Owned
      <4> QED
        BY <2>1, <2>3, <4>1, <4>2 DEF ProcessedInv, Pending, Configures
    <3> QED
      BY <3>5, <3>6, <3>10
  <2>10. EventsInv'
    BY <2>1, <2>9 DEF EventsInv
  <2> QED
    BY <2>7, <2>8, <2>10
<1> QED
  BY <1>5, <1>6

-----------------------------------------------------------------------------
(* The writes *)

LEMMA DomainSaved ==
    ASSUME NEW v, IsTables(v), NEW n \in Nodes, NEW committed,
           committed \subseteq v.names,
           NEW w, w = Repo!SaveDomain(v, committed, n)
    PROVE  /\ IsTables(w) /\ v.names \subseteq w.names /\ w.rows = v.rows
           /\ ~w.broken => ~v.broken /\ n \in w.names
<1>1. CASE v.broken
  <2>1. w = v
    BY <1>1 DEF Repo!SaveDomain, Repo!Executed
  <2> QED
    BY <1>1, <2>1
<1>2. CASE ~v.broken /\ n \in committed
  <2>1. w = v
    BY <1>2 DEF Repo!SaveDomain, Repo!Executed
  <2> QED
    BY <1>2, <2>1
<1>3. CASE ~v.broken /\ n \notin committed /\ n \in v.names
  <2>1. w = [v EXCEPT !.broken = TRUE]
    BY <1>3 DEF Repo!SaveDomain, Repo!Executed
  <2> QED
    BY <1>3, <2>1 DEF IsTables
<1>4. CASE ~v.broken /\ n \notin v.names
  <2>1. w = [v EXCEPT !.names = @ \cup {n}]
    BY <1>4 DEF Repo!SaveDomain, Repo!Executed
  <2> QED
    BY <1>4, <2>1 DEF IsTables
<1> QED
  BY <1>1, <1>2, <1>3, <1>4

\* w is v but for the row of n.
OtherRowsKept(v, w, n) ==
    /\ IsTables(w) /\ w.names = v.names /\ w.broken = v.broken
    /\ \A m : m # n => (m \in DOMAIN w.rows <=> m \in DOMAIN v.rows)
    /\ \A m \in DOMAIN v.rows : m # n => w.rows[m] = v.rows[m]

\* The row of n in w says what c does.
Holds(w, n, c) ==
    /\ n \in DOMAIN w.rows
    /\ w.rows[n].owner = c.owner
    /\ w.rows[n].resolver = c.resolver
    /\ w.rows[n].registry = c.registry
    /\ \A k \in DOMAIN c.records : /\ k \in DOMAIN w.rows[n].records
                                   /\ w.rows[n].records[k] = c.records[k]

\* A write to the row of one node leaves the others alone, and what a complete
\* change says is in the row.
LEMMA ResolutionSaved ==
    ASSUME NEW v, IsTables(v), NEW n \in Nodes, NEW c
    PROVE  /\ OtherRowsKept(v, Repo!SaveResolution(v, n, c), n)
           /\ ~v.broken /\ n \in v.names /\ Repo!Updated(c) /\ ~c.clear
              /\ Repo!Keep \notin {c.owner, c.resolver, c.registry}
              => Holds(Repo!SaveResolution(v, n, c), n, c)
<1> DEFINE w == Repo!SaveResolution(v, n, c)
<1> DEFINE old == IF n \in DOMAIN v.rows THEN v.rows[n] ELSE Repo!NewRow
           new == [owner    |-> Repo!Changed(c.owner, old.owner),
                   registry |-> Repo!Changed(c.registry, old.registry),
                   resolver |-> Repo!Changed(c.resolver, old.resolver),
                   records  |-> Repo!MergedRecords(c, old.records)]
<1>1. w = IF v.broken THEN v
          ELSE IF Repo!Updated(c) /\ n \in v.names
          THEN [v EXCEPT !.rows = Repo!Put(@, n, new)] ELSE v
  BY DEF Repo!SaveResolution, Repo!Executed, Repo!KnownNode
<1> SUFFICES /\ OtherRowsKept(v, w, n)
             /\ ~v.broken /\ n \in v.names /\ Repo!Updated(c) /\ ~c.clear
                /\ Repo!Keep \notin {c.owner, c.resolver, c.registry}
                => Holds(w, n, c)
  OBVIOUS
<1> HIDE DEF old, w
<1>2. CASE ~v.broken /\ Repo!Updated(c) /\ n \in v.names
  <2> DEFINE r == Repo!Put(v.rows, n, new)
  <2>1. w = [v EXCEPT !.rows = r]
    BY <1>1, <1>2
  <2>2. /\ DOMAIN r = DOMAIN v.rows \cup {n}
        /\ r[n] = new
        /\ \A m \in DOMAIN v.rows : m # n => r[m] = v.rows[m]
    <3> HIDE DEF new
    <3> QED
      BY DEF Repo!Put
  <2>3. ASSUME ~c.clear, Repo!Keep \notin {c.owner, c.resolver, c.registry}
        PROVE  /\ new.owner = c.owner
               /\ new.resolver = c.resolver
               /\ new.registry = c.registry
               /\ \A k \in DOMAIN c.records :
                      /\ k \in DOMAIN new.records
                      /\ new.records[k] = c.records[k]
    BY <2>3 DEF Repo!Changed, Repo!MergedRecords, Repo!Over
  <2> HIDE DEF new, r
  <2>4. /\ w.rows = r /\ w.names = v.names /\ w.broken = v.broken
        /\ IsTables(w)
    BY <1>2, <2>1, <2>2 DEF IsTables
  <2> QED
    BY <1>2, <2>2, <2>3, <2>4 DEF OtherRowsKept, Holds
<1>3. CASE ~(~v.broken /\ Repo!Updated(c) /\ n \in v.names)
  <2>1. w = v
    BY <1>1, <1>3
  <2> QED
    BY <1>3, <2>1 DEF OtherRowsKept
<1> QED
  BY <1>2, <1>3

-----------------------------------------------------------------------------
(* processEvents *)

\* An event may be processed in any way that loses no node and no domain, names or
\* gives up a registered node, leaves the rows of the other nodes alone, and sets the
\* row of a configured node if what the event tells is current.
LEMMA ProcessedKeepsWorker ==
    ASSUME RegistryInv, WorkerInv, MirrorInv, EventsInv, StoredInv,
           pc = "events", events # <<>>,
           NEW tables, NEW lost, ProcessedBut(tables, lost),
           faults' \in 0 .. MaxFaults,
           IsTables(tables), tx.tables.names \subseteq tables.names,
           lost \subseteq Nodes,
           ~tables.broken =>
             /\ ~tx.tables.broken
             /\ tx.tables.names \cup tx.lost \subseteq tables.names \cup lost
             /\ events[1].type = "NewDomain" =>
                  events[1].node \in tables.names \cup lost
             /\ \A m \in Nodes \ lost :
                  /\ m # events[1].node =>
                       m \notin tx.lost /\ (Agrees(tx.tables, m) => Agrees(tables, m))
                  /\ Configures(events[1], m) /\ m \in tables.names
                     /\ m \in DOMAIN rows /\ events[1] = Current(m)
                     => Agrees(tables, m)
    PROVE  WorkerInv' /\ MirrorInv' /\ EventsInv'
<1>1. /\ rows' = rows /\ kept' = kept /\ txs' = txs /\ db' = db /\ pc' = pc
      /\ to' = to /\ events' = Tail(events)
      /\ tx' = [tx EXCEPT !.tables = tables, !.lost = lost]
  BY DEF ProcessedBut, registryVars
<1>2. /\ tx'.tables = tables /\ tx'.lost = lost /\ tx'.block = tx.block
      /\ tx'.stored = tx.stored
  BY <1>1 DEF StoredInv, IsDatabase
<1>3. PICK N \in Nat : N + 1 = Len(events)
  <2>1. Len(events) \in Nat /\ Len(events) # 0
    BY DEF WorkerInv
  <2>2. Len(events) - 1 \in Nat /\ (Len(events) - 1) + 1 = Len(events)
    BY <2>1
  <2> QED
    BY <2>2
<1>4. /\ events' \in Seq(Event) /\ Len(events') = N
      /\ \A j \in 1 .. N : events'[j] = events[j + 1]
  <2>1. events \in Seq(Event)
    BY DEF WorkerInv
  <2>2. /\ Tail(events) \in Seq(Event) /\ Len(Tail(events)) = Len(events) - 1
        /\ \A j \in 1 .. Len(events) - 1 : Tail(events)[j] = events[j + 1]
    BY <2>1, HeadTailProperties
  <2>3. Len(events) - 1 = N
    BY <1>3
  <2> QED
    BY <1>1, <2>2, <2>3
<1>5. WorkerInv'
  BY <1>1, <1>2, <1>4 DEF WorkerInv
<1>6. MirrorInv'
  <2>1. \A d : Complete(d)' <=> Complete(d)
    BY DEF Complete
  <2>2. \A i : NodeOf(i)' = NodeOf(i)
    BY <1>1 DEF NodeOf
  <2>3. \A n, b : Rests(n, b)' <=> Rests(n, b)
    BY <1>1, <2>2 DEF Rests
  <2>4. \A T, n : Agrees(T, n)' <=> Agrees(T, n)
    BY <1>1 DEF Agrees, Owned
  <2> QED
    BY <1>1, <2>1, <2>2, <2>3, <2>4 DEF MirrorInv
<1>7. ASSUME tx.stored = 1 .. to, ~tables.broken
      PROVE  OrderInv' /\ LastInv' /\ ProcessedInv'
  <2>1. OrderInv /\ LastInv /\ ProcessedInv
    BY <1>7 DEF EventsInv
  <2>2. /\ ~tx.tables.broken
        /\ tx.tables.names \cup tx.lost \subseteq tables.names \cup lost
        /\ events[1].type = "NewDomain" =>
             events[1].node \in tables.names \cup lost
    BY <1>7
  <2>3. \A j \in 1 .. N : j + 1 \in 1 .. Len(events)
    BY <1>3
  <2>4. ASSUME NEW j \in 1 .. N
        PROVE  /\ events'[j].type = "NewDomain" =>
                    j < N /\ Configures(events'[j + 1], events'[j].node)
               /\ events'[j].type = "Configured" =>
                    \/ events'[j].node \in tables.names \cup lost
                    \/ \E i \in 1 .. j - 1 : events'[i] = NewDomain(events'[j].node)
    <3>1. events'[j] = events[j + 1] /\ j + 1 \in 1 .. Len(events)
      BY <1>4, <2>3
    <3>2. ASSUME events'[j].type = "NewDomain"
          PROVE  j < N /\ Configures(events'[j + 1], events'[j].node)
      <4>1. j + 1 < Len(events) /\ Configures(events[(j + 1) + 1], events[j + 1].node)
        BY <2>1, <3>1, <3>2 DEF OrderInv
      <4>2. j < N /\ j + 1 \in 1 .. N
        BY <1>3, <4>1
      <4> QED
        BY <1>4, <3>1, <4>1, <4>2
    <3>3. ASSUME events'[j].type = "Configured",
                 events'[j].node \notin tables.names \cup lost
          PROVE  \E i \in 1 .. j - 1 : events'[i] = NewDomain(events'[j].node)
      <4> DEFINE n == events[j + 1].node
      <4>1. events[j + 1].type = "Configured" /\ n \notin tx.tables.names \cup tx.lost
        BY <2>2, <3>1, <3>3
      <4>2. PICK i \in 1 .. (j + 1) - 1 : events[i] = NewDomain(n)
        BY <2>1, <3>1, <4>1 DEF OrderInv
      <4>3. i # 1
        BY <2>2, <3>1, <3>3, <4>2 DEF NewDomain
      <4>4. i - 1 \in 1 .. N /\ i - 1 \in 1 .. j - 1 /\ (i - 1) + 1 = i
        BY <4>2, <4>3
      <4>5. events'[i - 1] = events[i]
        BY <1>4, <4>4
      <4> QED
        BY <3>1, <4>2, <4>4, <4>5
    <3> QED
      BY <3>2, <3>3
  <2>5. OrderInv'
    BY <1>2, <1>4, <2>4 DEF OrderInv, Configures
  <2>6. ASSUME NEW m
        PROVE  /\ Rests(m, to)' <=> Rests(m, to)
               /\ Current(m)' = Current(m)
               /\ NodeOf(m)' = NodeOf(m)
    BY <1>1 DEF Rests, NodeOf, Current
  <2>7. LastInv'
    <3>1. ASSUME NEW j \in 1 .. N, NEW m \in Nodes, Configures(events'[j], m),
                 Rests(m, to), \A i \in j + 1 .. N : ~Configures(events'[i], m)
          PROVE  events'[j] = Current(m)
      <4>1. events'[j] = events[j + 1] /\ j + 1 \in 1 .. Len(events)
        BY <1>4, <2>3
      <4>2. ASSUME NEW i \in (j + 1) + 1 .. Len(events)
            PROVE  ~Configures(events[i], m)
        <5>1. i - 1 \in 1 .. N /\ i - 1 \in j + 1 .. N /\ (i - 1) + 1 = i
          BY <1>3
        <5>2. events'[i - 1] = events[i]
          BY <1>4, <5>1
        <5> QED
          BY <3>1, <5>1, <5>2
      <4> QED
        BY <2>1, <3>1, <4>1, <4>2 DEF LastInv
    <3> SUFFICES ASSUME NEW j \in 1 .. Len(events'), NEW m \in Nodes,
                        Configures(events'[j], m), Rests(m, to)',
                        \A i \in j + 1 .. Len(events') : ~Configures(events'[i], m)
                 PROVE  events'[j] = Current(m)'
      BY DEF LastInv, Configures
    <3>2. Rests(m, to) /\ Current(m)' = Current(m)
      BY <2>6
    <3> QED
      BY <1>4, <3>1, <3>2
  <2>8. ASSUME NEW m, Pending(m), \A j \in 1 .. N : ~Configures(events'[j], m)
        PROVE  Configures(events[1], m)
               /\ \A j \in 2 .. Len(events) : ~Configures(events[j], m)
    <3>1. ASSUME NEW j \in 2 .. Len(events)
          PROVE  ~Configures(events[j], m)
      <4>1. j - 1 \in 1 .. N /\ (j - 1) + 1 = j
        BY <1>3
      <4>2. events'[j - 1] = events[j]
        BY <1>4, <4>1
      <4> QED
        BY <2>8, <4>1, <4>2
    <3>2. PICK j \in 1 .. Len(events) : Configures(events[j], m)
      BY <2>8 DEF Pending
    <3>3. j = 1
      BY <1>3, <3>1, <3>2
    <3> QED
      BY <3>1, <3>2, <3>3
  <2>9. ASSUME NEW m, Configures(events[1], m),
               m \notin tables.names \cup lost
        PROVE  FALSE
    <3>1. 1 \in 1 .. Len(events)
      BY <1>3
    <3>2. m \notin tx.tables.names \cup tx.lost /\ events[1].type = "Configured"
          /\ events[1].node = m
      BY <2>2, <2>9 DEF Configures
    <3>3. 1 .. 1 - 1 = {}
      OBVIOUS
    <3> QED
      BY <2>1, <3>1, <3>2, <3>3 DEF OrderInv
  <2>10. ASSUME NEW i \in 1 .. to
         PROVE  \/ NodeOf(i) \in tables.names \cup lost
                \/ \E j \in 1 .. N : Configures(events'[j], NodeOf(i))
    <3>1. NodeOf(i) \in tx.tables.names \cup tx.lost \/ Pending(NodeOf(i))
      BY <2>1 DEF ProcessedInv
    <3> QED
      BY <2>2, <2>8, <2>9, <3>1
  <2>11. ASSUME NEW m \in Nodes \ lost, Rests(m, to),
                \A j \in 1 .. N : ~Configures(events'[j], m)
         PROVE  Agrees(tables, m)
    <3>1. CASE Configures(events[1], m)
      <4>1. Pending(m)
        <5>1. 1 \in 1 .. Len(events)
          BY <1>3
        <5> QED
          BY <3>1, <5>1 DEF Pending
      <4>2. \A j \in 2 .. Len(events) : ~Configures(events[j], m)
        BY <2>8, <2>11, <4>1
      <4>3. events[1] = Current(m)
        <5>1. 1 \in 1 .. Len(events) /\ 1 + 1 = 2
          BY <1>3
        <5> QED
          BY <2>1, <2>11, <3>1, <4>2, <5>1 DEF LastInv
      <4>4. m \in tables.names
        BY <2>9, <2>11, <3>1
      <4> QED
        BY <1>7, <2>11, <3>1, <4>3, <4>4 DEF Rests
    <3>2. CASE ~Configures(events[1], m)
      <4>1. ~Pending(m)
        BY <2>8, <2>11, <3>2
      <4>2. m # events[1].node
        <5>1. CASE events[1].type = "NewDomain" /\ m = events[1].node
          <6>1. 1 \in 1 .. Len(events)
            BY <1>3
          <6>2. 1 < Len(events) /\ Configures(events[1 + 1], m)
            BY <2>1, <5>1, <6>1 DEF OrderInv
          <6>3. 1 \in 1 .. N
            BY <1>3, <6>2
          <6>4. Configures(events'[1], m)
            BY <1>4, <6>2, <6>3
          <6> QED
            BY <2>11, <6>3, <6>4
        <5>2. events[1].type \in {"NewDomain", "Configured"}
          <6>1. 1 \in 1 .. Len(events) /\ events \in Seq(Event)
            BY <1>3 DEF WorkerInv
          <6>2. events[1] \in Event
            BY <6>1
          <6> QED
            BY <6>2 DEF Event
        <5> QED
          BY <3>2, <5>1, <5>2 DEF Configures
      <4>3. m \notin tx.lost /\ (Agrees(tx.tables, m) => Agrees(tables, m))
        BY <1>7, <4>2
      <4> QED
        BY <2>1, <2>11, <4>1, <4>3 DEF ProcessedInv
    <3> QED
      BY <3>1, <3>2
  <2>12. ASSUME NEW m, Agrees(tables, m)
         PROVE  Agrees(tx.tables, m)'
    BY <1>1, <1>2, <2>12 DEF Agrees, Owned
  <2>13. ProcessedInv'
    BY <1>1, <1>2, <1>4, <2>6, <2>10, <2>11, <2>12
    DEF ProcessedInv, Pending, Configures
  <2> QED
    BY <2>5, <2>7, <2>13
<1>8. EventsInv'
  BY <1>1, <1>2, <1>7 DEF EventsInv
<1> QED
  BY <1>5, <1>6, <1>8

-----------------------------------------------------------------------------
(* The steps *)

LEMMA HeadEvent ==
    ASSUME WorkerInv, NEW type, Processing(type)
    PROVE  /\ pc = "events" /\ events # <<>> /\ Head(events) = events[1]
           /\ events[1] \in Event /\ events[1].type = type
           /\ events[1].node \in Nodes
<1>1. events \in Seq(Event) /\ events # <<>>
  BY DEF WorkerInv, Processing
<1>2. Head(events) = events[1] /\ events[1] \in Event
  BY <1>1
<1> QED
  BY <1>1, <1>2 DEF Processing, Event

LEMMA SameRow ==
    ASSUME NEW v, NEW w, NEW m,
           m \in DOMAIN w.rows <=> m \in DOMAIN v.rows,
           m \in DOMAIN v.rows => w.rows[m] = v.rows[m],
           Agrees(v, m)
    PROVE  Agrees(w, m)
BY DEF Agrees

LEMMA NewDomainKeepsWorker ==
    ASSUME StoredInv, RegistryInv, WorkerInv, MirrorInv, EventsInv, ParseNewDomain
    PROVE  WorkerInv' /\ MirrorInv' /\ EventsInv'
<1> DEFINE n == events[1].node
<1>1. /\ Processing("NewDomain")
      /\ LET named == Repo!SaveDomain(tx.tables, db.tables.names, Head(events).node)
         IN IF Nameable(Head(events).node)
            THEN ProcessedBut(Repo!SaveResolution(named, Head(events).node,
                                [Repo!NoChange EXCEPT !.registry = "zns"]),
                              tx.lost)
            ELSE ProcessedBut(tx.tables, tx.lost \cup {Head(events).node})
      /\ faults' = faults
  BY DEF ParseNewDomain
<1>2. /\ pc = "events" /\ events # <<>> /\ Head(events).node = n
      /\ events[1].type = "NewDomain" /\ n \in Nodes
  BY <1>1, HeadEvent
<1>3. /\ IsTables(tx.tables) /\ tx.lost \subseteq Nodes
      /\ db.tables.names \subseteq tx.tables.names
      /\ faults' \in 0 .. MaxFaults
  BY <1>1 DEF WorkerInv
<1>4. \A m : ~Configures(events[1], m)
  BY <1>2 DEF Configures
<1> HIDE DEF n
<1>5. CASE Nameable(n)
  <2>1. PICK v : v = Repo!SaveDomain(tx.tables, db.tables.names, n)
    OBVIOUS
  <2>2. PICK c : c = [Repo!NoChange EXCEPT !.registry = "zns"]
    OBVIOUS
  <2>3. PICK w : w = Repo!SaveResolution(v, n, c)
    OBVIOUS
  <2>4. ProcessedBut(w, tx.lost)
    BY <1>1, <1>2, <1>5, <2>1, <2>2, <2>3
  <2>5. /\ IsTables(v) /\ tx.tables.names \subseteq v.names /\ v.rows = tx.tables.rows
        /\ ~v.broken => ~tx.tables.broken /\ n \in v.names
    BY <1>2, <1>3, <2>1, DomainSaved
  <2>6. OtherRowsKept(v, w, n)
    BY <1>2, <2>3, <2>5, ResolutionSaved
  <2>7. \A m \in Nodes : m # n => (Agrees(tx.tables, m) => Agrees(w, m))
    BY <2>5, <2>6, SameRow DEF OtherRowsKept
  <2> QED
    BY <1>2, <1>3, <1>4, <2>4, <2>5, <2>6, <2>7, ProcessedKeepsWorker DEF n, OtherRowsKept
<1>6. CASE ~Nameable(n)
  <2>1. ProcessedBut(tx.tables, tx.lost \cup {n})
    BY <1>1, <1>2, <1>6
  <2> QED
    BY <1>2, <1>3, <1>4, <2>1, ProcessedKeepsWorker DEF n
<1> QED
  BY <1>5, <1>6

LEMMA ConfiguredKeepsWorker ==
    ASSUME StoredInv, RegistryInv, WorkerInv, MirrorInv, EventsInv, ParseConfigured
    PROVE  WorkerInv' /\ MirrorInv' /\ EventsInv'
<1> DEFINE e == events[1]
           n == e.node
           c == [Repo!NoChange EXCEPT
                   !.owner = e.owner,
                   !.resolver = ResolverColumn(e),
                   !.registry = IF e.owner = Null
                                THEN Repo!Absent ELSE "zns",
                   !.records = RecordsAt(e.node, e.resolver)]
           lost == IF n \in tx.tables.names THEN tx.lost \ {n} ELSE tx.lost
<1>1. Processing("Configured") /\ faults' = faults
  BY DEF ParseConfigured
<1>2. /\ pc = "events" /\ events # <<>> /\ Head(events) = e
      /\ e.type = "Configured" /\ n \in Nodes
  BY <1>1, HeadEvent
<1>3. ProcessedBut(Repo!SaveResolution(tx.tables, n, c), lost)
  BY <1>2 DEF ParseConfigured
<1>4. /\ IsTables(tx.tables) /\ tx.lost \subseteq Nodes
      /\ faults' \in 0 .. MaxFaults
  BY <1>1 DEF WorkerInv
<1>5. ASSUME n \in DOMAIN rows, e = Current(n)
      PROVE  /\ Repo!Updated(c) /\ ~c.clear
             /\ Repo!Keep \notin {c.owner, c.resolver, c.registry}
             /\ c.owner = rows[n].owner
             /\ c.resolver = rows[n].resolver
             /\ c.registry = IF Owned(n) THEN "zns" ELSE Repo!Absent
             /\ rows[n].resolver # None => c.records = kept[rows[n].resolver][n]
  <2>1. /\ c.owner = e.owner /\ c.resolver = ResolverColumn(e)
        /\ c.registry = IF e.owner = Null THEN Repo!Absent ELSE "zns"
        /\ c.records = RecordsAt(n, e.resolver) /\ c.clear = FALSE
    BY DEF Repo!NoChange
  <2>2. e.owner = rows[n].owner
        /\ e.resolver = IF rows[n].resolver = None THEN Null ELSE rows[n].resolver
    BY <1>5 DEF Current, Configured
  <2>3. /\ rows[n].owner \in Owners \cup {Null}
        /\ rows[n].resolver \in Resolvers \cup {None}
    BY <1>5 DEF RegistryInv
  <2>4. /\ Repo!Keep # Null /\ Repo!Keep # None /\ Null # None
        /\ Repo!Absent = None /\ Repo!Keep # "zns"
    BY DEF Repo!Keep, Repo!Absent, Null, None
  <2>5. /\ Repo!Keep \notin Owners /\ Repo!Keep \notin Resolvers
        /\ Null \notin Resolvers
    BY ZilWorkerAssumption
  <2>6. c.owner # Repo!Keep
    BY <2>1, <2>2, <2>3, <2>4, <2>5
  <2>7. c.resolver = rows[n].resolver /\ c.resolver # Repo!Keep
    BY <2>1, <2>2, <2>3, <2>4, <2>5 DEF ResolverColumn
  <2>8. c.registry = (IF Owned(n) THEN "zns" ELSE Repo!Absent)
        /\ c.registry # Repo!Keep
    BY <1>5, <2>1, <2>2, <2>4 DEF Owned
  <2>9. rows[n].resolver # None => c.records = kept[rows[n].resolver][n]
    BY <2>1, <2>2, <2>3, <2>5 DEF RecordsAt
  <2>10. Repo!Updated(c)
    <3>1. Repo!NoChange.owner = Repo!Keep
      BY DEF Repo!NoChange
    <3> HIDE DEF c
    <3> QED
      BY <2>6, <3>1 DEF Repo!Updated
  <2> HIDE DEF c
  <2> QED
    BY <2>1, <2>2, <2>6, <2>7, <2>8, <2>9, <2>10
<1>6. PICK w : w = Repo!SaveResolution(tx.tables, n, c)
  OBVIOUS
<1> HIDE DEF c
<1>7. /\ OtherRowsKept(tx.tables, w, n)
      /\ ~tx.tables.broken /\ n \in tx.tables.names /\ Repo!Updated(c) /\ ~c.clear
         /\ Repo!Keep \notin {c.owner, c.resolver, c.registry}
         => Holds(w, n, c)
  BY <1>2, <1>4, <1>6, ResolutionSaved
<1>8. ProcessedBut(w, lost)
  BY <1>3, <1>6
<1>9. \A m \in Nodes : m # n => (Agrees(tx.tables, m) => Agrees(w, m))
  BY <1>7, SameRow DEF OtherRowsKept
<1>10. ASSUME ~w.broken, n \in w.names, n \in DOMAIN rows, e = Current(n)
       PROVE  Agrees(w, n)
  BY <1>5, <1>7, <1>10 DEF Agrees, OtherRowsKept, Holds
<1>11. \A m : Configures(e, m) => m = n
  BY DEF Configures
<1>12. /\ lost \subseteq Nodes
       /\ tx.tables.names \cup tx.lost \subseteq w.names \cup lost
       /\ \A m \in Nodes \ lost : m # n => m \notin tx.lost
  BY <1>4, <1>7 DEF OtherRowsKept
<1>13. ~(events[1].type = "NewDomain")
  BY <1>2
<1> HIDE DEF lost
<1> QED
  BY <1>2, <1>4, <1>7, <1>8, <1>9, <1>10, <1>11, <1>12, <1>13, ProcessedKeepsWorker DEF OtherRowsKept

LEMMA LostKeepsWorker ==
    ASSUME StoredInv, RegistryInv, WorkerInv, MirrorInv, EventsInv, LoseConfigured
    PROVE  WorkerInv' /\ MirrorInv' /\ EventsInv'
<1> DEFINE n == events[1].node
<1>1. Processing("Configured") /\ Fault
      /\ ProcessedBut(tx.tables, tx.lost \cup {Head(events).node})
  BY DEF LoseConfigured
<1>2. /\ pc = "events" /\ events # <<>> /\ Head(events).node = n
      /\ events[1].type = "Configured" /\ n \in Nodes
  BY <1>1, HeadEvent
<1>3. /\ IsTables(tx.tables) /\ tx.lost \subseteq Nodes
      /\ faults' \in 0 .. MaxFaults
  BY <1>1, ZilWorkerAssumption DEF WorkerInv, Fault
<1>4. ProcessedBut(tx.tables, tx.lost \cup {n})
  BY <1>1, <1>2
<1>5. \A m : Configures(events[1], m) => m = n
  BY DEF Configures
<1> QED
  BY <1>2, <1>3, <1>4, <1>5, ProcessedKeepsWorker

LEMMA CommitKeepsWorker ==
    ASSUME StoredInv, RegistryInv, WorkerInv, MirrorInv, EventsInv, Commit
    PROVE  WorkerInv' /\ MirrorInv' /\ EventsInv'
<1>1. /\ db' = [tx EXCEPT !.block = to] /\ tx' = db' /\ pc' = "idle" /\ to' = 0
      /\ events' = <<>> /\ rows' = rows /\ kept' = kept /\ txs' = txs
      /\ faults' = faults
  BY DEF Commit, EndRun, registryVars
<1>2. /\ db'.block = to /\ db'.stored = tx.stored /\ db'.lost = tx.lost
      /\ db'.tables = tx.tables
  BY <1>1 DEF StoredInv, IsDatabase
<1>3. ~tx.tables.broken
  BY DEF Commit, Fetched, WorkerInv
<1>4. WorkerInv'
  BY <1>1, <1>2, <1>3 DEF WorkerInv, RegistryInv
<1>5. ASSUME tx.stored = 1 .. to
      PROVE  /\ \A i \in 1 .. to : NodeOf(i) \in tx.tables.names \cup tx.lost
             /\ \A n \in Nodes \ tx.lost : Rests(n, to) => Agrees(tx.tables, n)
  <2>1. CASE Fetched
    <3>1. pc = "events" /\ events = <<>>
      BY <2>1 DEF Fetched
    <3>2. ProcessedInv
      BY <1>3, <1>5, <3>1 DEF EventsInv
    <3>3. \A n : ~Pending(n)
      BY <3>1 DEF Pending
    <3> QED
      BY <3>2, <3>3 DEF ProcessedInv
  <2>2. CASE pc = "fetch" /\ tx.block = to
    <3>1. tx = db
      BY <2>2 DEF WorkerInv
    <3> QED
      BY <1>5, <2>2, <3>1 DEF MirrorInv, Complete
  <2> QED
    BY <2>1, <2>2 DEF Commit
<1>6. MirrorInv'
  <2> SUFFICES ASSUME tx.stored = 1 .. to
               PROVE  /\ \A i \in 1 .. to : NodeOf(i)' \in tx.tables.names \cup tx.lost
                      /\ \A n \in Nodes \ tx.lost :
                           Rests(n, db.block)' => Agrees(db.tables, n)'
    BY <1>2 DEF MirrorInv, Complete
  <2>1. \A i : NodeOf(i)' = NodeOf(i)
    BY <1>1 DEF NodeOf
  <2>2. ASSUME NEW n \in Nodes \ tx.lost, Rests(n, db.block)'
        PROVE  Agrees(db.tables, n)'
    <3>1. Rests(n, to)
      BY <1>1, <1>2, <2>2 DEF Rests, NodeOf
    <3>2. Agrees(tx.tables, n)
      BY <1>5, <3>1
    <3> QED
      BY <1>1, <1>2, <3>2 DEF Agrees, Owned
  <2> QED
    BY <1>5, <2>1, <2>2
<1> QED
  BY <1>1, <1>4, <1>6 DEF EventsInv

LEMMA ZilInvStep == ZilInv /\ [Next]_vars => ZilInv'
<1> SUFFICES ASSUME ZilInv, [Next]_vars PROVE ZilInv'
  OBVIOUS
<1>1. StoredInv /\ RegistryInv /\ WorkerInv /\ MirrorInv /\ EventsInv
  BY DEF ZilInv
<1>2. StoredInv'
  BY <1>1, StoredInvStep
<1>3. ASSUME UNCHANGED registryVars
      PROVE  RegistryInv'
  BY <1>1, <1>3 DEF registryVars, RegistryInv, NodeOf, Current
<1>4. CASE GetLatestNetworkBlock
  <2>1. UNCHANGED registryVars
    BY <1>4 DEF GetLatestNetworkBlock, GiveUp
  <2> QED
    BY <1>1, <1>2, <1>3, <1>4, <2>1, AskedKeepsWorker DEF ZilInv
<1>5. CASE GetEvents
  <2>1. UNCHANGED registryVars
    BY <1>5 DEF GetEvents, GiveUp
  <2> QED
    BY <1>1, <1>2, <1>3, <1>5, <2>1, FetchedKeepsWorker DEF ZilInv
<1>6. CASE ParseNewDomain
  <2>1. UNCHANGED registryVars
    BY <1>6 DEF ParseNewDomain, ProcessedBut
  <2> QED
    BY <1>1, <1>2, <1>3, <1>6, <2>1, NewDomainKeepsWorker DEF ZilInv
<1>7. CASE ParseConfigured
  <2>1. UNCHANGED registryVars
    BY <1>7 DEF ParseConfigured, ProcessedBut
  <2> QED
    BY <1>1, <1>2, <1>3, <1>7, <2>1, ConfiguredKeepsWorker DEF ZilInv
<1>8. CASE LoseConfigured
  <2>1. UNCHANGED registryVars
    BY <1>8 DEF LoseConfigured, ProcessedBut
  <2> QED
    BY <1>1, <1>2, <1>3, <1>8, <2>1, LostKeepsWorker DEF ZilInv
<1>9. CASE Commit
  <2>1. UNCHANGED registryVars
    BY <1>9 DEF Commit
  <2> QED
    BY <1>1, <1>2, <1>3, <1>9, <2>1, CommitKeepsWorker DEF ZilInv
<1>10. CASE Rollback
  <2>1. UNCHANGED registryVars /\ GiveUp /\ faults' = faults
    BY <1>10 DEF Rollback, GiveUp
  <2>2. faults' \in 0 .. MaxFaults
    BY <1>1, <2>1 DEF WorkerInv
  <2> QED
    BY <1>1, <1>2, <1>3, <2>1, <2>2, GiveUpKeepsWorker DEF ZilInv
<1>11. CASE Crash
  <2>1. UNCHANGED registryVars /\ GiveUp /\ Fault
    BY <1>11 DEF Crash, GiveUp
  <2>2. faults' \in 0 .. MaxFaults
    BY <1>1, <2>1, ZilWorkerAssumption DEF WorkerInv, Fault
  <2> QED
    BY <1>1, <1>2, <1>3, <2>1, <2>2, GiveUpKeepsWorker DEF ZilInv
<1>12. CASE RegistryStep /\ UNCHANGED workerVars
  <2>1. PICK n, t : Moves(n, t)
    BY <1>1, <1>12, RegistryMoves
  <2>2. RegistryInv'
    BY <1>1, <2>1, MovesKeepRegistry
  <2>3. WorkerInv' /\ MirrorInv' /\ EventsInv'
    BY <1>1, <1>12, <2>1, MovesKeepWorker
  <2> QED
    BY <1>2, <2>2, <2>3 DEF ZilInv
<1>13. CASE UNCHANGED vars
  <2>1. /\ UNCHANGED registryVars
        /\ rows' = rows /\ kept' = kept /\ txs' = txs /\ db' = db /\ tx' = tx
        /\ pc' = pc /\ to' = to /\ events' = events /\ faults' = faults
    BY <1>13 DEF vars, registryVars, workerVars
  <2>2. WorkerInv'
    BY <1>1, <2>1 DEF WorkerInv
  <2>3. MirrorInv'
    BY <1>1, <2>1 DEF MirrorInv, Complete, NodeOf, Rests, Agrees, Owned
  <2>4. EventsInv'
    <3>1. OrderInv => OrderInv'
      BY <2>1 DEF OrderInv, Configures
    <3>2. LastInv => LastInv'
      BY <2>1 DEF LastInv, Configures, Rests, NodeOf, Current
    <3>3. ProcessedInv => ProcessedInv'
      BY <2>1 DEF ProcessedInv, Pending, Configures, Rests, NodeOf, Agrees, Owned
    <3> QED
      BY <1>1, <2>1, <3>1, <3>2, <3>3 DEF EventsInv
  <2> QED
    BY <1>2, <1>3, <2>1, <2>2, <2>3, <2>4 DEF ZilInv
<1> QED
  BY <1>4, <1>5, <1>6, <1>7, <1>8, <1>9, <1>10, <1>11, <1>12, <1>13
  DEF Next, WorkerStep

LEMMA ZilInvInit == Init => ZilInv
<1> SUFFICES ASSUME Init PROVE ZilInv
  OBVIOUS
<1>1. /\ rows = <<>> /\ txs = <<>>
      /\ kept = [r \in Resolvers |-> [n \in Nodes |-> NoRecords]]
      /\ db = [block |-> 0, stored |-> {}, lost |-> {},
               tables |-> [Repo!EmptyTables EXCEPT !.names = {Root}]]
      /\ tx = db /\ pc = "idle" /\ to = 0 /\ events = <<>> /\ faults = 0
  BY DEF Init, RegistryInit
<1>2. DOMAIN rows = {} /\ Len(txs) = 0 /\ txs = [i \in 1 .. Len(txs) |-> txs[i]]
  BY <1>1
<1>3. RegistryInv
  BY <1>1, <1>2 DEF RegistryInv
<1>4. /\ db.block = 0 /\ db.stored = {} /\ db.lost = {}
      /\ db.tables = [names |-> {Root}, rows |-> <<>>, rev |-> {}, broken |-> FALSE]
  BY <1>1 DEF Repo!EmptyTables
<1>5. IsTables(db.tables)
  BY <1>4 DEF IsTables
<1>6. WorkerInv
  BY <1>1, <1>2, <1>4, <1>5, ZilWorkerAssumption DEF WorkerInv
<1>7. MirrorInv
  BY <1>2, <1>4 DEF MirrorInv, Rests
<1>8. StoredInv
  BY <1>1 DEF StoredInv, IsDatabase, StoredUpTo, Sequence
<1> QED
  BY <1>1, <1>3, <1>6, <1>7, <1>8 DEF ZilInv, EventsInv

-----------------------------------------------------------------------------
(* Theorems *)

\* The tables of the Zilliqa worker, committed or not, are of the known nodes, have a
\* domain for every resolution (WorkerRepository.ts:111), and the status is never
\* beyond what the registry did.
THEOREM ZilTyped == Spec => []TypeOK
<1>1. ZilInv => TypeOK
  <2> SUFFICES ASSUME ZilInv PROVE TypeOK
    OBVIOUS
  <2>1. StoredInv /\ RegistryInv /\ WorkerInv
    BY DEF ZilInv
  <2>2. ASSUME NEW d \in {db, tx}
        PROVE  /\ d.block \in 0 .. Len(txs)
               /\ d.lost \subseteq Nodes
               /\ d.tables.names \subseteq Nodes \cup {Root}
               /\ DOMAIN d.tables.rows \subseteq d.tables.names
               /\ d.tables.rev = {}
    BY <2>1 DEF WorkerInv, IsTables
  <2>3. db.stored \subseteq 1 .. db.block /\ db.stored \subseteq 1 .. Len(txs)
    <3>1. db.stored \subseteq 1 .. db.block /\ db.block \in 0 .. Len(txs)
          /\ Len(txs) \in Nat
      BY <2>1 DEF StoredInv, StoredUpTo, WorkerInv, RegistryInv
    <3> QED
      BY <3>1
  <2>4. tx.stored \subseteq 1 .. Len(txs)
    <3>1. CASE pc = "events"
      <4>1. tx.stored \subseteq 1 .. to /\ to \in 0 .. Len(txs) /\ Len(txs) \in Nat
        BY <2>1, <3>1 DEF StoredInv, StoredUpTo, WorkerInv, RegistryInv
      <4> QED
        BY <4>1
    <3>2. CASE pc # "events"
      BY <2>1, <2>3, <3>2 DEF WorkerInv
    <3> QED
      BY <3>1, <3>2
  <2>5. \A i \in DOMAIN events : events[i].node \in Nodes
    <3>1. \A i \in DOMAIN events : events[i] \in Event
      BY <2>1 DEF WorkerInv
    <3> QED
      BY <3>1 DEF Event
  <2> QED
    BY <2>1, <2>2, <2>3, <2>4, <2>5 DEF TypeOK, WorkerInv, StoredInv
<1> QED
  BY <1>1, ZilInvInit, ZilInvStep, PTL DEF Spec

\* Whatever pages the transactions came in, what broke off and what the index
\* answered, once all are mirrored and none was missed, parseNewDomainEvent and
\* parseConfiguredEvent (ZilWorkerStrategy.ts:149) have left every row as the registry
\* and the resolver contract have it, but for the nodes that were given up.
THEOREM ZilSettles == Spec => []ZilSettled
<1>1. ZilInv => ZilSettled
  <2> SUFFICES ASSUME ZilInv, db.block = Len(txs), Complete(db),
                      NEW n \in DOMAIN rows \ db.lost
               PROVE  Agrees(db.tables, n)
    BY DEF ZilSettled, Agrees
  <2>1. RegistryInv /\ MirrorInv
    BY DEF ZilInv
  <2>2. n \in Nodes \ db.lost /\ Rests(n, db.block)
    BY <2>1 DEF RegistryInv, Rests
  <2> QED
    BY <2>1, <2>2 DEF MirrorInv
<1> QED
  BY <1>1, ZilInvInit, ZilInvStep, PTL DEF Spec

\* GET /status (StatusController.ts:130) calls the Zilliqa mirror late only if it is or
\* with the block -1 of an index that failed, and whenever it is if the index is not
\* behind and the accepted delay fits into a page.
THEOREM StatusIsTruthful == Spec => []StatusTruthful
<1>1. ZilInv => StatusTruthful
  <2> SUFFICES ASSUME ZilInv PROVE StatusTruthful
    OBVIOUS
  <2>1. db.block \in 0 .. Len(txs) /\ Len(txs) \in Nat
    BY DEF ZilInv, WorkerInv, RegistryInv
  <2>2. PICK L \in Nat : L = Len(txs)
    BY <2>1
  <2>3. PICK m \in Nat : m = db.block /\ m <= L
    BY <2>1, <2>2
  <2>4. PerPage \in Nat /\ PerPage >= 2 /\ Delay \in Nat
    BY ZilWorkerAssumption
  <2>5. ASSUME NEW b \in 0 .. m, NEW n \in {Fails} \cup 0 .. L,
               ~BlockchainStatus(b, n).isUpToDate
        PROVE  L - b > Delay \/ BlockchainStatus(b, n).latestNetworkBlock = -1
    <3>1. CASE n = Fails
      BY <3>1 DEF BlockchainStatus
    <3>2. CASE n # Fails
      <4>1. n \in 0 .. L /\ ~(GetLastAtxuid(b, n) - b <= Delay)
        BY <2>5, <3>2 DEF BlockchainStatus
      <4> QED
        BY <2>3, <2>4, <4>1 DEF GetLastAtxuid, PageEnd
    <3> QED
      BY <3>1, <3>2
  <2>6. ASSUME NEW b \in 0 .. m, L - b > Delay
        PROVE  BlockchainStatus(b, L).isUpToDate <=> Delay >= PerPage - 1
    <3>1. BlockchainStatus(b, L).isUpToDate <=> GetLastAtxuid(b, L) - b <= Delay
      <4>1. L # Fails
        BY <2>2 DEF Fails
      <4> QED
        BY <4>1, Zenon DEF BlockchainStatus
    <3>2. GetLastAtxuid(b, L) - b <= Delay <=> Delay >= PerPage - 1
      BY <2>3, <2>4, <2>6 DEF GetLastAtxuid, PageEnd
    <3> QED
      BY <3>1, <3>2
  <2> QED
    BY <2>2, <2>3, <2>5, <2>6 DEF StatusTruthful
<1> QED
  BY <1>1, ZilInvInit, ZilInvStep, PTL DEF Spec
=============================================================================

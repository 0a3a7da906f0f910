------------------------- MODULE ReorgRebuild_proofs -------------------------
(***************************************************************************)
(* Theorems about the rebuilds after a reorg, for any number of domains,   *)
(* owners, records and blocks, any reorg and any order of the rebuilds'    *)
(* steps.                                                                  *)
(***************************************************************************)
EXTENDS ReorgRebuild, FiniteSetTheorems, SequenceTheorems,
        WellFoundedInduction, TLAPS

-----------------------------------------------------------------------------
(* Least elements *)

\* Numbers have a least one: the one with the fewest numbers up to it.
LEMMA LeastNatural ==
    ASSUME NEW T, T \subseteq Nat, T # {}
    PROVE  \E m \in T : \A n \in T : m <= n
<1> DEFINE F == {0 .. n : n \in T}
<1>1. F # {} /\ F \subseteq FiniteSubsetsOf(Nat)
  <2>1. \A n \in T : IsFiniteSet(0 .. n) /\ 0 .. n \subseteq Nat
    BY FS_Interval
  <2> QED
    BY <2>1 DEF FiniteSubsetsOf
<1>2. PICK V \in F : \A U \in F : <<U, V>> \notin StrictSubsetOrdering(Nat)
  <2> HIDE DEF F
  <2> QED
    BY <1>1, FS_StrictSubsetOrderingWellFounded, WFMin
<1>3. PICK m \in T : V = 0 .. m
  OBVIOUS
<1>4. ASSUME NEW n \in T, n < m
      PROVE  FALSE
  <2> DEFINE U == 0 .. n
  <2>1. n \in Nat /\ m \in Nat
    OBVIOUS
  <2>2. U \in F /\ U \subseteq V /\ V \subseteq Nat /\ m \in V /\ m \notin U
    BY <1>3, <1>4, <2>1
  <2>3. <<U, V>> \notin StrictSubsetOrdering(Nat)
    BY <1>2, <2>2
  <2> HIDE DEF U
  <2> QED
    BY <2>2, <2>3 DEF StrictSubsetOrdering
<1> QED
  BY <1>4

-----------------------------------------------------------------------------
(* The inductive invariant: what the events tell *)

EventSet ==
    UNION {[type : {"Transfer"}, token : Tokens, from : Owners \cup {Null},
            to : Owners \cup {Null}, registry : {"uns"}],
           [type : {"NewURI"}, token : Tokens, registry : {"uns"}],
           [type : {"ResetRecords"}, token : Tokens],
           [type : {"Set"}, token : Tokens, key : Keys, value : Values],
           [type : {"SetReverse"}, token : Tokens, addr : Owners],
           [type : {"RemoveReverse"}, addr : Owners]}

IsRecords(m) ==
    /\ m = [k \in DOMAIN m |-> m[k]] /\ DOMAIN m \subseteq Keys
    /\ \A k \in DOMAIN m : m[k] \in Values

IsHeadRow(row) ==
    \/ row = Burnt
    \/ /\ row = Row(row.owner, "uns", "uns", row.records)
       /\ row.owner \in Owners /\ IsRecords(row.records)

IsTable(R) ==
    /\ R = [t \in DOMAIN R |-> R[t]] /\ DOMAIN R \subseteq Tokens
    /\ \A t \in DOMAIN R : IsHeadRow(R[t])

RowIn(R, t) == IF t \in DOMAIN R THEN R[t] ELSE Repo!NewRow

\* What change c makes of a row.
Merged(c, row) ==
    Row(Repo!Changed(c.owner, row.owner), Repo!Changed(c.registry, row.registry),
        Repo!Changed(c.resolver, row.resolver), Repo!MergedRecords(c, row.records))

\* What event e, which follows event last of its token, changes.
Change(last, e) ==
    IF e.type = "Transfer" THEN TransferChange(e)
    ELSE IF e.type = "NewURI" THEN Minted(last.to, e.registry)
    ELSE IF e.type = "ResetRecords" THEN [Repo!NoChange EXCEPT !.clear = TRUE]
    ELSE [Repo!NoChange EXCEPT !.records = Only(e.key, e.value)]

RowAfter(row, last, e) ==
    IF e.type = "SetReverse" THEN row ELSE Merged(Change(last, e), row)

Legal(last, e) == e.type = "NewURI" => IsMint(last) /\ last.to \in Owners

Before(E, i) == IF i = 0 THEN NoEvent ELSE E[i]

\* h is the row after each of the events E of a token, and at last row.
Trace(E, h, row) ==
    /\ h[0] = Repo!NewRow /\ h[Len(E)] = row
    /\ \A i \in 1 .. Len(E) :
         /\ Legal(Before(E, i - 1), E[i])
         /\ h[i] = RowAfter(h[i - 1], Before(E, i - 1), E[i])
         /\ h[i].owner # None

\* The events of t in the first n blocks.
ForToken(B, n, t) == Joined([i \in DOMAIN B |-> OfToken(B[i].events, t)], n)

Told(B, n, t, row) == \E h : Trace(ForToken(B, n, t), h, row)

NamedIn(B, n, t) == \E j \in 1 .. Len(B[n].events) : Names(B[n].events[j], t)

BlocksInv ==
    /\ Len(blocks) \in Nat /\ blocks = [n \in 1 .. Len(blocks) |-> blocks[n]]
    /\ \A n \in 1 .. Len(blocks) :
         /\ blocks[n].events \in Seq(EventSet)
         /\ IsTable(blocks[n].after.rows)
         /\ \A t \in Tokens : Told(blocks, n, t, RowIn(blocks[n].after.rows, t))

HeadInv ==
    /\ IsTable(rows)
    /\ rev = [a \in Owners |-> rev[a]]
    /\ \A a \in Owners : rev[a] # None => rev[a] \in Tokens
    /\ fork = 0 =>
         \A t \in Tokens :
            /\ Told(blocks, Len(blocks), t, RowIn(rows, t))
            /\ \A n \in 1 .. Len(blocks) :
                 /\ NamedIn(blocks, n, t) => t \in DOMAIN rows
                 /\ (\A i \in n + 1 .. Len(blocks) : ~NamedIn(blocks, i, t)) =>
                       RowIn(blocks[n].after.rows, t) = RowIn(rows, t)

-----------------------------------------------------------------------------
(* The inductive invariant: the rebuilds *)

\* The row of t is the one after the events that are replayed.
Replays(t, E, row, final) ==
    /\ Len(todo[t]) \in 0 .. Len(E)
    /\ todo[t] = [j \in 1 .. Len(todo[t]) |-> E[Len(E) - Len(todo[t]) + j]]
    /\ \E h : Trace(E, h, final) /\ row = h[Len(E) - Len(todo[t])]

TaskInv(t) ==
    /\ task[t] \in {"none", "done"} =>
         RowIn(tables.rows, t) = RowIn(StateAfter(fork).rows, t)
    /\ task[t] \in {"replay", "save", "drop"} =>
         Replays(t, EventsForDomain(t), RowIn(tables.rows, t),
                 RowIn(StateAfter(fork).rows, t))
    /\ task[t] \in {"save", "drop"} =>
         todo[t] # <<>> /\ Event(t).type = "SetReverse"

TablesInv ==
    /\ tables = [names |-> stored.names, rows |-> tables.rows, rev |-> tables.rev,
                 broken |-> FALSE]
    /\ tables.rows = [t \in DOMAIN tables.rows |-> tables.rows[t]]
    /\ DOMAIN tables.rows \subseteq Tokens
    /\ \A t \in DOMAIN tables.rows : tables.rows[t].owner # None
    /\ \A n \in 1 .. Len(blocks) : \A t \in Tokens :
         NamedIn(blocks, n, t) => t \in stored.names

RebuildInv ==
    /\ fork \in Nat
    /\ task \in [Tokens -> {"none", "remove", "replay", "save", "drop", "done"}]
    /\ todo = [t \in Tokens |-> todo[t]] /\ read = [t \in Tokens |-> read[t]]
    /\ fork = 0 => \A t \in Tokens : task[t] = "none"
    /\ fork # 0 =>
         /\ Len(blocks) = fork
         /\ TablesInv
         /\ \A t \in Tokens : TaskInv(t)

RowsInv == BlocksInv /\ HeadInv /\ RebuildInv

-----------------------------------------------------------------------------
(* The inductive invariant: the reverse resolutions *)

\* A row of a domain that is not rebuilt.
Untouched(r) == r \in tables.rev /\ task[r[2]] = "none"

\* A rebuild is about to drop row r alone.
Dropped(r) == \E d \in Tokens : task[d] = "drop" /\ read[d].old = {r}

IsReverseRow(r) == r = <<r[1], r[2]>> /\ r[2] \in Tokens

ReverseInv ==
    fork # 0 =>
        /\ \A r \in stored.rev : IsReverseRow(r)
        /\ \A r \in tables.rev :
             /\ IsReverseRow(r)
             /\ \/ r \in stored.rev /\ task[r[2]] \in {"none", "remove"}
                \/ SetInEvents(r)
        /\ \A t \in Tokens : task[t] = "save" =>
             \A o \in read[t].own :
                /\ IsReverseRow(o) /\ o[2] = t /\ SetInEvents(o)
                /\ \A r : Untouched(r) /\ r[1] = o[1] =>
                     read[t].old = {r} \/ Dropped(r)
        /\ \A r, s \in tables.rev :
             Untouched(r) /\ s[1] = r[1] /\ s # r => Dropped(r)

ReorgInv == RowsInv /\ ReverseInv
-----------------------------------------------------------------------------
(* Sequences that are joined *)

\* g[i] is what the first i sequences make.
Joins(g, f, n) == \A i \in 0 .. n : g[i] = IF i = 0 THEN <<>> ELSE g[i - 1] \o f[i]

LEMMA JoinsExist ==
    ASSUME NEW n \in Nat, NEW f
    PROVE  \E g : Joins(g, f, n)
<1> DEFINE T == {k \in 0 .. n : ~ \E g : Joins(g, f, k)}
<1> SUFFICES ASSUME T # {} PROVE FALSE
  OBVIOUS
<1>1. PICK m \in T : \A k \in T : m <= k
  <2>1. T \subseteq Nat
    OBVIOUS
  <2> HIDE DEF T
  <2> QED
    BY <2>1, LeastNatural
<1>2. m \in 0 .. n /\ ~ \E g : Joins(g, f, m)
  OBVIOUS
<1>3. CASE m = 0
  <2>1. Joins([i \in 0 .. 0 |-> <<>>], f, 0)
    BY DEF Joins
  <2> QED
    BY <1>2, <1>3, <2>1
<1>4. CASE m # 0
  <2>1. m - 1 \in 0 .. n /\ m - 1 \notin T
    BY <1>1, <1>2, <1>4
  <2>2. PICK g : Joins(g, f, m - 1)
    BY <2>1
  <2> DEFINE h == [i \in 0 .. m |-> IF i = m THEN g[m - 1] \o f[m] ELSE g[i]]
  <2>3. ASSUME NEW i \in 0 .. m
        PROVE  h[i] = IF i = 0 THEN <<>> ELSE h[i - 1] \o f[i]
    <3>1. i # m => i \in 0 .. m - 1
      BY <1>2
    <3>2. i # 0 => i - 1 \in 0 .. m /\ i - 1 # m /\ h[i - 1] = g[i - 1]
      BY <1>2
    <3>3. i # m => g[i] = IF i = 0 THEN <<>> ELSE g[i - 1] \o f[i]
      BY <2>2, <3>1 DEF Joins
    <3> QED
      BY <1>4, <3>2, <3>3
  <2>4. Joins(h, f, m)
    <3> HIDE DEF h
    <3> QED
      BY <2>3 DEF Joins
  <2> QED
    BY <1>2, <2>4
<1> QED
  BY <1>3, <1>4

LEMMA JoinsUnique ==
    ASSUME NEW n \in Nat, NEW f, NEW e, \A i \in 1 .. n : e[i] = f[i],
           NEW g, Joins(g, f, n), NEW h, Joins(h, e, n)
    PROVE  \A i \in 0 .. n : g[i] = h[i]
<1> DEFINE T == {k \in 0 .. n : g[k] # h[k]}
<1> SUFFICES ASSUME T # {} PROVE FALSE
  OBVIOUS
<1>1. PICK m \in T : \A k \in T : m <= k
  <2>1. T \subseteq Nat
    OBVIOUS
  <2> HIDE DEF T
  <2> QED
    BY <2>1, LeastNatural
<1>2. m \in 0 .. n /\ g[m] # h[m]
  OBVIOUS
<1>3. CASE m = 0
  BY <1>2, <1>3 DEF Joins
<1>4. CASE m # 0
  <2>1. m - 1 \in 0 .. n /\ m - 1 \notin T /\ m \in 1 .. n
    BY <1>1, <1>2, <1>4
  <2>2. g[m - 1] = h[m - 1]
    BY <2>1
  <2> QED
    BY <1>2, <1>4, <2>1, <2>2 DEF Joins
<1> QED
  BY <1>3, <1>4

LEMMA JoinedIs ==
    ASSUME NEW n \in Nat, NEW f
    PROVE  \E g : Joins(g, f, n) /\ Joined(f, n) = g[n]
<1> DEFINE Step(g) == [i \in 0 .. n |-> IF i = 0 THEN <<>> ELSE g[i - 1] \o f[i]]
           joined == CHOOSE g : g = Step(g)
<1>1. Joined(f, n) = joined[n]
  BY DEF Joined
<1>2. PICK g : Joins(g, f, n)
  BY JoinsExist
<1> DEFINE h == [i \in 0 .. n |-> g[i]]
<1>3. h = Step(h)
  <2>1. ASSUME NEW i \in 0 .. n
        PROVE  h[i] = IF i = 0 THEN <<>> ELSE h[i - 1] \o f[i]
    BY <1>2 DEF Joins
  <2> QED
    BY <2>1
<1>4. joined = Step(joined)
  <2> HIDE DEF Step, h
  <2> QED
    BY <1>3
<1> HIDE DEF joined
<1>5. Joins(joined, f, n)
  BY <1>4 DEF Joins
<1> QED
  BY <1>1, <1>5

LEMMA JoinedSame ==
    ASSUME NEW n \in Nat, NEW f, NEW e, \A i \in 1 .. n : e[i] = f[i]
    PROVE  Joined(f, n) = Joined(e, n)
<1>1. PICK g : Joins(g, f, n) /\ Joined(f, n) = g[n]
  BY JoinedIs
<1>2. PICK h : Joins(h, e, n) /\ Joined(e, n) = h[n]
  BY JoinedIs
<1>3. \A i \in 0 .. n : g[i] = h[i]
  BY <1>1, <1>2, JoinsUnique
<1>4. n \in 0 .. n
  OBVIOUS
<1> QED
  BY <1>1, <1>2, <1>3, <1>4

LEMMA JoinedNone == \A f : Joined(f, 0) = <<>>
<1> TAKE f
<1>1. PICK g : Joins(g, f, 0) /\ Joined(f, 0) = g[0]
  BY JoinedIs
<1> QED
  BY <1>1 DEF Joins

LEMMA JoinedNext ==
    ASSUME NEW n \in Nat, NEW f
    PROVE  Joined(f, n + 1) = Joined(f, n) \o f[n + 1]
<1>1. PICK g : Joins(g, f, n) /\ Joined(f, n) = g[n]
  BY JoinedIs
<1>2. PICK h : Joins(h, f, n + 1) /\ Joined(f, n + 1) = h[n + 1]
  <2>1. n + 1 \in Nat
    OBVIOUS
  <2> QED
    BY <2>1, JoinedIs
<1>3. Joins(h, f, n)
  BY <1>2 DEF Joins
<1>4. g[n] = h[n]
  BY <1>1, <1>3, JoinsUnique
<1>5. h[n + 1] = h[n] \o f[n + 1]
  <2>1. n + 1 \in 0 .. n + 1 /\ n + 1 # 0 /\ (n + 1) - 1 = n
    OBVIOUS
  <2> QED
    BY <1>2, <2>1 DEF Joins
<1> QED
  BY <1>1, <1>2, <1>4, <1>5

\* Each element of the joined sequence is one of a part.
LEMMA JoinedFrom ==
    ASSUME NEW S, NEW n \in Nat, NEW f, \A i \in 1 .. n : f[i] \in Seq(S)
    PROVE  /\ Joined(f, n) \in Seq(S)
           /\ \A k \in 1 .. Len(Joined(f, n)) : \E i \in 1 .. n :
                \E j \in 1 .. Len(f[i]) : Joined(f, n)[k] = f[i][j]
<1> DEFINE From(s, m) == \A k \in 1 .. Len(s) : \E i \in 1 .. m :
                           \E j \in 1 .. Len(f[i]) : s[k] = f[i][j]
           Good(m) == Joined(f, m) \in Seq(S) /\ From(Joined(f, m), m)
           T == {k \in 0 .. n : ~Good(k)}
<1>1. T = {}
  <2> SUFFICES ASSUME T # {} PROVE FALSE
    OBVIOUS
  <2>1. PICK m \in T : \A k \in T : m <= k
    <3>1. T \subseteq Nat
      OBVIOUS
    <3> HIDE DEF T
    <3> QED
      BY <3>1, LeastNatural
  <2>2. m \in 0 .. n /\ ~Good(m)
    OBVIOUS
  <2>3. CASE m = 0
    <3>1. Joined(f, m) = <<>>
      BY <2>3, JoinedNone
    <3>2. Good(m)
      BY <3>1
    <3> QED
      BY <2>2, <3>2
  <2>4. CASE m # 0
    <3> DEFINE s == Joined(f, m - 1)
               t == f[m]
    <3>1. m - 1 \in Nat /\ m - 1 \in 0 .. n /\ m \in 1 .. n /\ ~(m <= m - 1)
      BY <2>2, <2>4
    <3>2. m - 1 \notin T
      <4> HIDE DEF T
      <4> QED
        BY <2>1, <3>1
    <3>2a. Good(m - 1)
      <4> HIDE DEF Good
      <4> QED
        BY <3>1, <3>2
    <3>3. Joined(f, m) = s \o t
      <4>1. (m - 1) + 1 = m
        BY <2>2
      <4> QED
        BY <3>1, <4>1, JoinedNext
    <3>4. s \in Seq(S) /\ t \in Seq(S) /\ From(s, m - 1)
      BY <3>1, <3>2a
    <3> HIDE DEF T, Good, s
    <3>5. /\ s \o t \in Seq(S) /\ Len(s \o t) = Len(s) + Len(t)
          /\ Len(s) \in Nat /\ Len(t) \in Nat
          /\ \A k \in 1 .. Len(s) + Len(t) :
               (s \o t)[k] = IF k <= Len(s) THEN s[k] ELSE t[k - Len(s)]
      BY <3>4, ConcatProperties, LenProperties
    <3>6. ASSUME NEW k \in 1 .. Len(s \o t)
          PROVE  \E i \in 1 .. m : \E j \in 1 .. Len(f[i]) : (s \o t)[k] = f[i][j]
      <4>1. CASE k <= Len(s)
        <5>1. k \in 1 .. Len(s) /\ (s \o t)[k] = s[k]
          BY <3>5, <4>1
        <5>2. PICK i \in 1 .. m - 1 : \E j \in 1 .. Len(f[i]) : s[k] = f[i][j]
          BY <3>4, <5>1
        <5>3. i \in 1 .. m
          BY <3>1
        <5> QED
          BY <5>1, <5>2, <5>3
      <4>2. CASE ~(k <= Len(s))
        <5>1. k - Len(s) \in 1 .. Len(f[m]) /\ (s \o t)[k] = f[m][k - Len(s)]
          BY <3>5, <4>2
        <5>2. m \in 1 .. m
          BY <3>1
        <5> QED
          BY <5>1, <5>2
      <4> QED
        BY <4>1, <4>2
    <3>7. Good(m)
      <4>1. From(s \o t, m)
        BY <3>6
      <4> HIDE DEF From
      <4> QED
        BY <3>3, <3>5, <4>1 DEF Good
    <3> QED
      BY <2>2, <3>7 DEF Good
  <2> QED
    BY <2>3, <2>4
<1>2. n \in 0 .. n
  OBVIOUS
<1>3. Good(n)
  <2> HIDE DEF Good
  <2> QED
    BY <1>1, <1>2
<1> QED
  BY <1>3

-----------------------------------------------------------------------------
(* The events of a token *)

Sel(e, t) == IF Names(e, t) THEN <<e>> ELSE <<>>

LEMMA SelIs ==
    ASSUME NEW e, NEW t
    PROVE  /\ Names(e, t) \in BOOLEAN
           /\ Names(e, t) => Sel(e, t) = <<e>>
           /\ ~Names(e, t) => Sel(e, t) = <<>>
           /\ \A S : e \in S => Sel(e, t) \in Seq(S)
           /\ \A j \in 1 .. Len(Sel(e, t)) : Names(e, t) /\ Sel(e, t)[j] = e
<1>1. CASE Names(e, t)
  <2>1. Sel(e, t) = <<e>>
    BY <1>1 DEF Sel
  <2>2. \A j \in 1 .. Len(<<e>>) : <<e>>[j] = e
    OBVIOUS
  <2> QED
    BY <1>1, <2>1, <2>2 DEF Names
<1>2. CASE ~Names(e, t)
  <2>1. Sel(e, t) = <<>>
    BY <1>2 DEF Sel
  <2> QED
    BY <1>2, <2>1 DEF Names
<1> QED
  BY <1>1, <1>2

LEMMA OfTokenTyped ==
    ASSUME NEW ev \in Seq(EventSet), NEW t
    PROVE  /\ OfToken(ev, t) \in Seq(EventSet)
           /\ \A k \in 1 .. Len(OfToken(ev, t)) : \E j \in 1 .. Len(ev) :
                OfToken(ev, t)[k] = ev[j] /\ Names(ev[j], t)
<1> DEFINE f == [i \in DOMAIN ev |-> IF Names(ev[i], t) THEN <<ev[i]>> ELSE <<>>]
           s == OfToken(ev, t)
<1>1. Len(ev) \in Nat /\ DOMAIN ev = 1 .. Len(ev) /\ \A i \in 1 .. Len(ev) : ev[i] \in EventSet
  BY LenProperties
<1>2. \A i \in 1 .. Len(ev) : f[i] = Sel(ev[i], t)
  BY <1>1 DEF Sel
<1>3. s = Joined(f, Len(ev))
  BY DEF OfToken
<1> HIDE DEF f, s
<1>4. \A i \in 1 .. Len(ev) : f[i] \in Seq(EventSet)
  BY <1>1, <1>2, SelIs
<1>5. /\ s \in Seq(EventSet)
      /\ \A k \in 1 .. Len(s) : \E i \in 1 .. Len(ev) :
           \E j \in 1 .. Len(f[i]) : s[k] = f[i][j]
  <2> DEFINE n == Len(ev)
  <2>1. n \in Nat /\ \A i \in 1 .. n : f[i] \in Seq(EventSet)
    BY <1>1, <1>4
  <2>2. s = Joined(f, n)
    BY <1>3
  <2> HIDE DEF n
  <2>3. /\ s \in Seq(EventSet)
        /\ \A k \in 1 .. Len(s) : \E i \in 1 .. n :
             \E j \in 1 .. Len(f[i]) : s[k] = f[i][j]
    BY <2>1, <2>2, JoinedFrom
  <2> QED
    BY <2>3 DEF n
<1>6. ASSUME NEW k \in 1 .. Len(s)
      PROVE  \E j \in 1 .. Len(ev) : s[k] = ev[j] /\ Names(ev[j], t)
  <2>1. PICK i \in 1 .. Len(ev) : \E j \in 1 .. Len(f[i]) : s[k] = f[i][j]
    BY <1>5
  <2>2. PICK j \in 1 .. Len(f[i]) : s[k] = f[i][j]
    BY <2>1
  <2>3. f[i] = Sel(ev[i], t)
    BY <1>2
  <2>4. Names(ev[i], t) /\ f[i][j] = ev[i]
    BY <2>3, SelIs
  <2> QED
    BY <2>2, <2>4
<1> QED
  BY <1>5, <1>6 DEF s

LEMMA OfMore ==
    ASSUME NEW ev \in Seq(EventSet), NEW e \in EventSet, NEW t
    PROVE  /\ ev \o <<e>> \in Seq(EventSet)
           /\ OfToken(ev \o <<e>>, t) = OfToken(ev, t) \o Sel(e, t)
<1> DEFINE n == Len(ev)
           more == ev \o <<e>>
           f == [i \in DOMAIN ev |-> IF Names(ev[i], t) THEN <<ev[i]>> ELSE <<>>]
           g == [i \in DOMAIN more |-> IF Names(more[i], t) THEN <<more[i]>> ELSE <<>>]
<1>1. n \in Nat /\ DOMAIN ev = 1 .. n
  BY LenProperties
<1>2. <<e>> \in Seq(EventSet) /\ Len(<<e>>) = 1 /\ <<e>>[1] = e
  OBVIOUS
<1>3. /\ more \in Seq(EventSet) /\ Len(more) = n + 1 /\ more[n + 1] = e
      /\ \A i \in 1 .. n : more[i] = ev[i]
  BY <1>1, <1>2, ConcatProperties
<1> HIDE DEF more
<1>4. DOMAIN more = 1 .. n + 1
  BY <1>3, LenProperties
<1>5. OfToken(more, t) = Joined(g, n + 1) /\ OfToken(ev, t) = Joined(f, n)
  BY <1>3 DEF OfToken
<1>6. \A i \in 1 .. n : g[i] = f[i]
  BY <1>1, <1>3, <1>4
<1>7. g[n + 1] = Sel(e, t)
  BY <1>1, <1>3, <1>4 DEF Sel
<1> HIDE DEF f, g, n
<1>8. Joined(g, n + 1) = Joined(g, n) \o g[n + 1]
  BY <1>1, JoinedNext
<1>9. Joined(g, n) = Joined(f, n)
  BY <1>1, <1>6, JoinedSame
<1> QED
  BY <1>3, <1>5, <1>7, <1>8, <1>9 DEF more

LEMMA ForTokenTyped ==
    ASSUME BlocksInv, NEW n \in 0 .. Len(blocks), NEW t
    PROVE  /\ ForToken(blocks, n, t) \in Seq(EventSet)
           /\ \A k \in 1 .. Len(ForToken(blocks, n, t)) :
                \E i \in 1 .. n : \E j \in 1 .. Len(blocks[i].events) :
                   /\ ForToken(blocks, n, t)[k] = blocks[i].events[j]
                   /\ Names(blocks[i].events[j], t)
<1> DEFINE f == [i \in DOMAIN blocks |-> OfToken(blocks[i].events, t)]
           s == ForToken(blocks, n, t)
<1>1. /\ n \in Nat /\ 1 .. n \subseteq 1 .. Len(blocks) /\ DOMAIN blocks = 1 .. Len(blocks)
      /\ \A i \in 1 .. n : blocks[i].events \in Seq(EventSet)
  BY DEF BlocksInv
<1>2. \A i \in 1 .. n : f[i] = OfToken(blocks[i].events, t)
  BY <1>1
<1>3. s = Joined(f, n)
  BY DEF ForToken
<1> HIDE DEF f, s
<1>4. \A i \in 1 .. n : f[i] \in Seq(EventSet)
  BY <1>1, <1>2, OfTokenTyped
<1>5. /\ s \in Seq(EventSet)
      /\ \A k \in 1 .. Len(s) : \E i \in 1 .. n :
           \E j \in 1 .. Len(f[i]) : s[k] = f[i][j]
  <2>1. n \in Nat
    BY <1>1
  <2>2. /\ Joined(f, n) \in Seq(EventSet)
        /\ \A k \in 1 .. Len(Joined(f, n)) : \E i \in 1 .. n :
             \E j \in 1 .. Len(f[i]) : Joined(f, n)[k] = f[i][j]
    BY ONLY <2>1, <1>4, JoinedFrom
  <2> QED
    BY ONLY <1>3, <2>2
<1>6. ASSUME NEW k \in 1 .. Len(s)
      PROVE  \E i \in 1 .. n : \E j \in 1 .. Len(blocks[i].events) :
                s[k] = blocks[i].events[j] /\ Names(blocks[i].events[j], t)
  <2>1. PICK i \in 1 .. n : \E j \in 1 .. Len(f[i]) : s[k] = f[i][j]
    BY <1>5
  <2>2. PICK m \in 1 .. Len(f[i]) : s[k] = f[i][m]
    BY <2>1
  <2>3. \E j \in 1 .. Len(blocks[i].events) :
          f[i][m] = blocks[i].events[j] /\ Names(blocks[i].events[j], t)
    <3> DEFINE ev == blocks[i].events
    <3>1. ev \in Seq(EventSet) /\ f[i] = OfToken(ev, t)
      BY <1>1, <1>2
    <3> HIDE DEF ev
    <3>2. \E j \in 1 .. Len(ev) : f[i][m] = ev[j] /\ Names(ev[j], t)
      BY <3>1, OfTokenTyped
    <3> QED
      BY <3>2 DEF ev
  <2> QED
    BY <2>2, <2>3
<1> QED
  BY <1>5, <1>6 DEF s

\* One more block does not change the events of those before.
LEMMA ForTokenSame ==
    ASSUME NEW B, NEW C, NEW n \in Nat, NEW t, 1 .. n \subseteq DOMAIN B,
           1 .. n \subseteq DOMAIN C, \A i \in 1 .. n : B[i].events = C[i].events
    PROVE  ForToken(B, n, t) = ForToken(C, n, t)
<1> DEFINE f == [i \in DOMAIN B |-> OfToken(B[i].events, t)]
           g == [i \in DOMAIN C |-> OfToken(C[i].events, t)]
<1>1. \A i \in 1 .. n : g[i] = f[i]
  OBVIOUS
<1>2. ForToken(B, n, t) = Joined(f, n) /\ ForToken(C, n, t) = Joined(g, n)
  BY DEF ForToken
<1> HIDE DEF f, g
<1> QED
  BY <1>1, <1>2, JoinedSame

LEMMA ForTokenNext ==
    ASSUME NEW B, NEW n \in Nat, NEW t, n + 1 \in DOMAIN B
    PROVE  ForToken(B, n + 1, t) = ForToken(B, n, t) \o OfToken(B[n + 1].events, t)
<1> DEFINE f == [i \in DOMAIN B |-> OfToken(B[i].events, t)]
<1>1. f[n + 1] = OfToken(B[n + 1].events, t)
  OBVIOUS
<1>2. \A m : ForToken(B, m, t) = Joined(f, m)
  BY DEF ForToken
<1> HIDE DEF f
<1> QED
  BY <1>1, <1>2, JoinedNext

LEMMA ForTokenNone == \A B, t : ForToken(B, 0, t) = <<>>
BY JoinedNone DEF ForToken

-----------------------------------------------------------------------------
(* What an event makes of a row *)

LEMMA Marks ==
    /\ Null # None /\ Null \notin Owners /\ None \notin Owners
    /\ Repo!Keep \notin Owners /\ Repo!Keep \notin {Null, None, "uns"}
    /\ Repo!NullAddress = Null /\ Repo!Absent = None /\ Repo!NoRecords = NoRecords
    /\ Resolvers = {}
BY ReorgRebuildAssumption DEF Null, None, Repo!Keep, Repo!NullAddress, Repo!Absent,
   Repo!NoRecords, NoRecords

LEMMA EmptyRecords == DOMAIN NoRecords = {} /\ IsRecords(NoRecords)
BY DEF NoRecords, IsRecords

LEMMA OverNothing ==
    ASSUME NEW m, m = [k \in DOMAIN m |-> m[k]]
    PROVE  Repo!Over(NoRecords, m) = m
BY EmptyRecords DEF Repo!Over

LEMMA RowIs ==
    ASSUME NEW o, NEW g, NEW r, NEW m
    PROVE  /\ Row(o, g, r, m).owner = o /\ Row(o, g, r, m).registry = g
           /\ Row(o, g, r, m).resolver = r /\ Row(o, g, r, m).records = m
BY DEF Row

LEMMA NoChangeIs ==
    /\ Repo!NoChange = [owner |-> Repo!Keep, registry |-> Repo!Keep, resolver |-> Repo!Keep,
                        records |-> NoRecords, clear |-> FALSE]
    /\ Repo!NoChange.owner = Repo!Keep /\ Repo!NoChange.clear = FALSE
    /\ Repo!NoChange.resolver = Repo!Keep /\ Repo!NoChange.records = NoRecords
BY DEF Repo!NoChange, Repo!NoRecords, NoRecords

\* A row that has changed before a mint: none, a burnt one, or one of the mint.
LEMMA MintedRow ==
    ASSUME NEW o \in Owners, NEW row,
           row \in {Repo!NewRow, Burnt, Row(o, "uns", "uns", NoRecords)}
    PROVE  Merged(Minted(o, "uns"), row) = Row(o, "uns", "uns", NoRecords)
<1> DEFINE c == Minted(o, "uns")
<1>1. /\ c.owner = o /\ c.registry = "uns" /\ c.resolver = "uns"
      /\ c.records = NoRecords /\ c.clear = FALSE
  BY NoChangeIs DEF Minted
<1>2. o # Repo!Keep /\ "uns" # Repo!Keep
  BY Marks
<1>3. row.records = NoRecords
  BY DEF Repo!NewRow, Burnt, Row, Repo!NoRecords, NoRecords
<1>4. Repo!Over(NoRecords, NoRecords) = NoRecords
  BY EmptyRecords, OverNothing DEF IsRecords
<1> HIDE DEF c
<1>5. Merged(c, row) = Row(o, "uns", "uns", NoRecords)
  BY <1>1, <1>2, <1>3, <1>4 DEF Merged, Repo!Changed, Repo!MergedRecords
<1> QED
  BY <1>5 DEF c

LEMMA MovedRow ==
    ASSUME NEW a, NEW m, IsRecords(m), NEW o \in Owners
    PROVE  Merged([Repo!NoChange EXCEPT !.owner = o], Row(a, "uns", "uns", m))
             = Row(o, "uns", "uns", m)
<1> DEFINE c == [Repo!NoChange EXCEPT !.owner = o]
           row == Row(a, "uns", "uns", m)
<1>1. /\ c.owner = o /\ c.registry = Repo!Keep /\ c.resolver = Repo!Keep
      /\ c.records = NoRecords /\ c.clear = FALSE
  BY NoChangeIs
<1>2. row.registry = "uns" /\ row.resolver = "uns" /\ row.records = m
  BY RowIs
<1>3. Repo!Over(NoRecords, m) = m
  BY OverNothing DEF IsRecords
<1>4. o # Repo!Keep
  BY Marks
<1> HIDE DEF c, row
<1>5. Merged(c, row) = Row(o, "uns", "uns", m)
  BY <1>1, <1>2, <1>3, <1>4 DEF Merged, Repo!Changed, Repo!MergedRecords
<1> QED
  BY <1>5 DEF c, row

LEMMA BurntRow ==
    ASSUME NEW row
    PROVE  Merged([owner |-> Null, registry |-> None, resolver |-> None,
                   records |-> NoRecords, clear |-> TRUE], row) = Burnt
BY Marks DEF Merged, Repo!Changed, Repo!MergedRecords, Burnt

LEMMA ClearedRow ==
    ASSUME NEW o, NEW g, NEW r, NEW m
    PROVE  Merged([Repo!NoChange EXCEPT !.clear = TRUE], Row(o, g, r, m))
             = Row(o, g, r, NoRecords)
<1> DEFINE c == [Repo!NoChange EXCEPT !.clear = TRUE]
           row == Row(o, g, r, m)
<1>1. /\ c.owner = Repo!Keep /\ c.registry = Repo!Keep /\ c.resolver = Repo!Keep
      /\ c.clear = TRUE
  BY NoChangeIs
<1>2. row.owner = o /\ row.registry = g /\ row.resolver = r
  BY RowIs
<1> HIDE DEF c, row
<1>3. Merged(c, row) = Row(o, g, r, NoRecords)
  BY <1>1, <1>2, Marks DEF Merged, Repo!Changed, Repo!MergedRecords
<1> QED
  BY <1>3 DEF c, row

LEMMA SetRow ==
    ASSUME NEW o, NEW g, NEW r, NEW m, NEW k, NEW v
    PROVE  Merged([Repo!NoChange EXCEPT !.records = Only(k, v)], Row(o, g, r, m))
             = Row(o, g, r, Put(m, k, v))
<1> DEFINE c == [Repo!NoChange EXCEPT !.records = Only(k, v)]
           row == Row(o, g, r, m)
<1>1. /\ c.owner = Repo!Keep /\ c.registry = Repo!Keep /\ c.resolver = Repo!Keep
      /\ c.clear = FALSE /\ c.records = Only(k, v)
  BY NoChangeIs
<1>2. row.owner = o /\ row.registry = g /\ row.resolver = r /\ row.records = m
  BY RowIs
<1>3. Repo!Over(Only(k, v), m) = Put(m, k, v)
  <2>1. DOMAIN Only(k, v) = {k} /\ Only(k, v)[k] = v
    BY DEF Only
  <2>2. {k} \cup DOMAIN m = DOMAIN m \cup {k}
    OBVIOUS
  <2> QED
    BY <2>1, <2>2 DEF Repo!Over, Put
<1> HIDE DEF c, row
<1>4. Merged(c, row) = Row(o, g, r, Put(m, k, v))
  BY <1>1, <1>2, <1>3 DEF Merged, Repo!Changed, Repo!MergedRecords
<1> QED
  BY <1>4 DEF c, row

LEMMA RecordsPut ==
    ASSUME NEW m, IsRecords(m), NEW k \in Keys, NEW v \in Values
    PROVE  IsRecords(Put(m, k, v))
BY DEF IsRecords, Put

-----------------------------------------------------------------------------
(* Events that follow those of a token *)

ToldTo(E, last, row) == (\E h : Trace(E, h, row)) /\ last = Before(E, Len(E))

LEMMA OneMore ==
    ASSUME NEW E \in Seq(EventSet), NEW last, NEW row, ToldTo(E, last, row),
           NEW e \in EventSet, NEW t, Names(e, t), Legal(last, e),
           NEW new, new = RowAfter(row, last, e), new.owner # None
    PROVE  E \o Sel(e, t) \in Seq(EventSet) /\ ToldTo(E \o Sel(e, t), e, new)
<1> DEFINE n == Len(E)
           F == E \o <<e>>
<1>1. Sel(e, t) = <<e>> /\ <<e>> \in Seq(EventSet)
  BY SelIs
<1>2. n \in Nat
  BY LenProperties
<1>3. /\ F \in Seq(EventSet) /\ Len(F) = n + 1 /\ F[n + 1] = e
      /\ \A i \in 1 .. n : F[i] = E[i]
  BY <1>1, ConcatProperties
<1>4. PICK h : Trace(E, h, row)
  BY DEF ToldTo
<1> DEFINE g == [i \in 0 .. n + 1 |-> IF i = n + 1 THEN new ELSE h[i]]
<1>5. g[n + 1] = new /\ \A i \in 0 .. n : g[i] = h[i]
  BY <1>2
<1>6. h[0] = Repo!NewRow /\ h[n] = row
  BY <1>4 DEF Trace
<1>7. last = Before(E, n)
  BY DEF ToldTo
<1> HIDE DEF g, F
<1>8. \A i \in 0 .. n : Before(F, i) = Before(E, i)
  BY <1>2, <1>3 DEF Before
<1>9. ASSUME NEW i \in 1 .. n + 1
      PROVE  /\ Legal(Before(F, i - 1), F[i])
             /\ g[i] = RowAfter(g[i - 1], Before(F, i - 1), F[i])
             /\ g[i].owner # None
  <2>1. CASE i = n + 1
    <3>1. i - 1 = n /\ n \in 0 .. n
      BY <1>2, <2>1
    <3>2. Before(F, i - 1) = last /\ g[i - 1] = row
      BY <1>5, <1>6, <1>7, <1>8, <3>1
    <3> QED
      BY <1>3, <1>5, <2>1, <3>2
  <2>2. CASE i # n + 1
    <3>1. i \in 1 .. n /\ i - 1 \in 0 .. n /\ i \in 0 .. n
      BY <1>2, <2>2
    <3>2. /\ Legal(Before(E, i - 1), E[i])
          /\ h[i] = RowAfter(h[i - 1], Before(E, i - 1), E[i])
          /\ h[i].owner # None
      BY <1>4, <3>1 DEF Trace
    <3>3. F[i] = E[i] /\ Before(F, i - 1) = Before(E, i - 1) /\ g[i] = h[i]
          /\ g[i - 1] = h[i - 1]
      BY <1>3, <1>5, <1>8, <3>1
    <3> QED
      BY <3>2, <3>3
  <2> QED
    BY <2>1, <2>2
<1>10. g[0] = Repo!NewRow /\ g[n + 1] = new
  <2>1. 0 \in 0 .. n
    BY <1>2
  <2> QED
    BY <1>5, <1>6, <2>1
<1>11. Trace(F, g, new)
  BY <1>3, <1>9, <1>10 DEF Trace
<1>12. e = Before(F, Len(F))
  BY <1>2, <1>3 DEF Before
<1> QED
  BY <1>1, <1>3, <1>11, <1>12 DEF ToldTo, F

LEMMA NoMore ==
    ASSUME NEW E \in Seq(EventSet), NEW e, NEW t, ~Names(e, t)
    PROVE  E \o Sel(e, t) = E
BY SelIs, ConcatEmptySeq

\* A block that does not name t.
LEMMA OfNone ==
    ASSUME NEW ev \in Seq(EventSet), NEW t, \A j \in 1 .. Len(ev) : ~Names(ev[j], t)
    PROVE  OfToken(ev, t) = <<>>
<1> DEFINE s == OfToken(ev, t)
<1>1. /\ s \in Seq(EventSet)
      /\ \A k \in 1 .. Len(s) : \E j \in 1 .. Len(ev) : s[k] = ev[j] /\ Names(ev[j], t)
  BY OfTokenTyped
<1> HIDE DEF s
<1>2. ~ \E k \in 1 .. Len(s) : TRUE
  BY <1>1
<1>3. Len(s) \in Nat
  BY <1>1, LenProperties
<1>4. Len(s) = 0
  <2>1. 1 \notin 1 .. Len(s)
    BY <1>2
  <2> QED
    BY <1>3, <2>1
<1>5. s = <<>>
  BY <1>1, <1>4
<1> QED
  BY <1>5 DEF s

\* The rows after a block with events ev tell of t what these events do.
Tells(t, ev) ==
    /\ \A E \in Seq(EventSet) :
         (\E h : Trace(E, h, RowIn(rows, t))) =>
            \E h : Trace(E \o OfToken(ev, t), h, RowIn(rows', t))
    /\ (\A j \in 1 .. Len(ev) : ~Names(ev[j], t)) => RowIn(rows', t) = RowIn(rows, t)
    /\ (\E j \in 1 .. Len(ev) : Names(ev[j], t)) => t \in DOMAIN rows'

LEMMA NotNamed ==
    ASSUME NEW ev \in Seq(EventSet), NEW t, \A j \in 1 .. Len(ev) : ~Names(ev[j], t),
           RowIn(rows', t) = RowIn(rows, t)
    PROVE  Tells(t, ev)
<1>1. OfToken(ev, t) = <<>>
  BY OfNone
<1>2. ASSUME NEW E \in Seq(EventSet)
      PROVE  E \o OfToken(ev, t) = E
  BY <1>1, ConcatEmptySeq
<1> QED
  BY <1>2 DEF Tells

-----------------------------------------------------------------------------
(* A block is mined *)

LEMMA Grown ==
    ASSUME BlocksInv, NEW b, blocks' = Append(blocks, b)
    PROVE  /\ Len(blocks) \in Nat /\ Len(blocks') = Len(blocks) + 1
           /\ DOMAIN blocks = 1 .. Len(blocks) /\ DOMAIN blocks' = 1 .. Len(blocks) + 1
           /\ blocks' = [n \in 1 .. Len(blocks') |-> blocks'[n]]
           /\ blocks'[Len(blocks) + 1] = b
           /\ \A i \in 1 .. Len(blocks) : blocks'[i] = blocks[i]
<1>1. /\ Len(blocks) \in Nat /\ blocks = [n \in 1 .. Len(blocks) |-> blocks[n]]
  BY DEF BlocksInv
<1> DEFINE S == {blocks[n] : n \in 1 .. Len(blocks)} \cup {b}
<1>2. blocks \in Seq(S)
  <2> DEFINE k == Len(blocks)
  <2>1. k \in Nat /\ blocks = [n \in 1 .. k |-> blocks[n]] /\ \A n \in 1 .. k : blocks[n] \in S
    BY <1>1
  <2> HIDE DEF k, S
  <2>2. blocks \in [1 .. k -> S]
    BY <2>1
  <2> QED
    BY <2>1, <2>2
<1>3. b \in S
  OBVIOUS
<1> HIDE DEF S
<1> DEFINE C == Append(blocks, b)
<1>4. /\ C \in Seq(S) /\ Len(C) = Len(blocks) + 1 /\ C[Len(blocks) + 1] = b
      /\ \A i \in 1 .. Len(blocks) : C[i] = blocks[i]
  BY <1>2, <1>3, AppendProperties
<1>5. DOMAIN C = 1 .. Len(blocks) + 1 /\ C = [n \in 1 .. Len(blocks) + 1 |-> C[n]]
  BY <1>4, LenProperties
<1>6. DOMAIN blocks = 1 .. Len(blocks)
  BY <1>1
<1> HIDE DEF C
<1>7. blocks' = C
  BY DEF C
<1> QED
  BY <1>1, <1>4, <1>5, <1>6, <1>7

LEMMA MinedKeeps ==
    ASSUME BlocksInv, HeadInv, fork = 0, fork' = fork, NEW ev \in Seq(EventSet),
           blocks' = Append(blocks, [events |-> ev, after |-> RegistryState']),
           IsTable(rows'), DOMAIN rows \subseteq DOMAIN rows',
           rev' = [a \in Owners |-> rev'[a]],
           \A a \in Owners : rev'[a] # None => rev'[a] \in Tokens,
           \A t \in Tokens : Tells(t, ev)
    PROVE  BlocksInv' /\ HeadInv'
<1> DEFINE k == Len(blocks)
           b == [events |-> ev, after |-> RegistryState']
<1>1. /\ k \in Nat /\ Len(blocks') = k + 1
      /\ DOMAIN blocks = 1 .. k /\ DOMAIN blocks' = 1 .. k + 1
      /\ blocks' = [n \in 1 .. k + 1 |-> blocks'[n]]
      /\ blocks'[k + 1] = b
      /\ \A i \in 1 .. k : blocks'[i] = blocks[i]
  BY Grown
<1>2. b.events = ev /\ b.after.rows = rows'
  BY DEF RegistryState
<1> HIDE DEF k, b
<1>3. ASSUME NEW n \in 0 .. k, NEW t PROVE ForToken(blocks', n, t) = ForToken(blocks, n, t)
  <2>1. /\ n \in Nat /\ 1 .. n \subseteq DOMAIN blocks /\ 1 .. n \subseteq DOMAIN blocks'
        /\ \A i \in 1 .. n : blocks'[i].events = blocks[i].events
    BY <1>1
  <2>2. ASSUME NEW C, C = blocks' PROVE ForToken(C, n, t) = ForToken(blocks, n, t)
    <3>1. /\ n \in Nat /\ 1 .. n \subseteq DOMAIN blocks /\ 1 .. n \subseteq DOMAIN C
          /\ \A i \in 1 .. n : C[i].events = blocks[i].events
      BY <2>1, <2>2
    <3> QED
      BY ONLY <3>1, ForTokenSame, SMTT(30)
  <2> QED
    BY <2>2
<1>4. ASSUME NEW t \in Tokens
      PROVE  Told(blocks', k + 1, t, RowIn(rows', t))
  <2>1. ForToken(blocks', k + 1, t) = ForToken(blocks, k, t) \o OfToken(ev, t)
    <3>1. k + 1 \in DOMAIN blocks' /\ k \in 0 .. k
      BY <1>1
    <3>2. \A C : C = blocks' => ForToken(C, k + 1, t) = ForToken(C, k, t) \o OfToken(C[k + 1].events, t)
      BY <1>1, <3>1, ForTokenNext
    <3>3. ForToken(blocks', k + 1, t) = ForToken(blocks', k, t) \o OfToken(blocks'[k + 1].events, t)
      BY <3>2
    <3> QED
      BY <1>1, <1>2, <1>3, <3>1, <3>3
  <2>2. ForToken(blocks, k, t) \in Seq(EventSet)
    <3>1. BlocksInv /\ k \in 0 .. Len(blocks)
      BY <1>1 DEF k
    <3> HIDE DEF k
    <3> QED
      BY ONLY <3>1, ForTokenTyped
  <2>3. Told(blocks, k, t, RowIn(rows, t))
    BY DEF HeadInv, k
  <2> QED
    BY <2>1, <2>2, <2>3 DEF Told, Tells
<1>5. BlocksInv'
  <2>1. ASSUME NEW n \in 1 .. k + 1
        PROVE  /\ blocks'[n].events \in Seq(EventSet)
               /\ IsTable(blocks'[n].after.rows)
               /\ \A t \in Tokens : Told(blocks', n, t, RowIn(blocks'[n].after.rows, t))
    <3>1. CASE n = k + 1
      BY <1>1, <1>2, <1>4, <3>1
    <3>2. CASE n # k + 1
      <4>1. n \in 1 .. k /\ n \in 0 .. k
        BY <1>1, <3>2
      <4>2. /\ blocks[n].events \in Seq(EventSet)
            /\ IsTable(blocks[n].after.rows)
            /\ \A t \in Tokens : Told(blocks, n, t, RowIn(blocks[n].after.rows, t))
        BY <4>1 DEF BlocksInv, k
      <4> QED
        BY <1>1, <1>3, <4>1, <4>2 DEF Told
    <3> QED
      BY <3>1, <3>2
  <2> QED
    BY <1>1, <2>1 DEF BlocksInv
<1>6. HeadInv'
  <2>1. ASSUME NEW t \in Tokens, NEW n \in 1 .. k + 1
        PROVE  /\ NamedIn(blocks', n, t) => t \in DOMAIN rows'
               /\ (\A i \in n + 1 .. k + 1 : ~NamedIn(blocks', i, t)) =>
                       RowIn(blocks'[n].after.rows, t) = RowIn(rows', t)
    <3>1. NamedIn(blocks', k + 1, t) <=> \E j \in 1 .. Len(ev) : Names(ev[j], t)
      BY <1>1, <1>2 DEF NamedIn
    <3>2. CASE n = k + 1
      BY <1>1, <1>2, <3>1, <3>2 DEF Tells
    <3>3. CASE n # k + 1
      <4>1. n \in 1 .. k /\ k + 1 \in n + 1 .. k + 1 /\ n + 1 .. k \subseteq n + 1 .. k + 1
            /\ n + 1 .. k \subseteq 1 .. k
        BY <1>1, <3>3
      <4>2. \A i \in 1 .. k : NamedIn(blocks', i, t) <=> NamedIn(blocks, i, t)
        BY <1>1 DEF NamedIn
      <4>3. /\ NamedIn(blocks, n, t) => t \in DOMAIN rows
            /\ (\A i \in n + 1 .. k : ~NamedIn(blocks, i, t)) =>
                       RowIn(blocks[n].after.rows, t) = RowIn(rows, t)
        BY <4>1 DEF HeadInv, k
      <4>4. ASSUME \A i \in n + 1 .. k + 1 : ~NamedIn(blocks', i, t)
            PROVE  RowIn(blocks'[n].after.rows, t) = RowIn(rows', t)
        <5>1. \A i \in n + 1 .. k : ~NamedIn(blocks, i, t)
          BY <4>1, <4>2, <4>4
        <5>2. ~NamedIn(blocks', k + 1, t)
          BY <4>1, <4>4
        <5>3. RowIn(rows', t) = RowIn(rows, t)
          BY <3>1, <5>2 DEF Tells
        <5> QED
          BY <1>1, <4>1, <4>3, <5>1, <5>3
      <4> QED
        BY <4>1, <4>2, <4>3, <4>4
    <3> QED
      BY <3>2, <3>3
  <2> QED
    BY <1>1, <1>4, <2>1 DEF HeadInv
<1> QED
  BY <1>5, <1>6

-----------------------------------------------------------------------------
(* The registry *)

LEMMA LiveRow ==
    ASSUME HeadInv, NEW t, Live(t)
    PROVE  /\ t \in DOMAIN rows /\ t \in Tokens /\ RowIn(rows, t) = rows[t]
           /\ rows[t].owner \in Owners /\ IsRecords(rows[t].records)
           /\ rows[t] = Row(rows[t].owner, "uns", "uns", rows[t].records)
           /\ rows[t].registry = "uns" /\ OnUns(t)
<1>1. t \in DOMAIN rows /\ t \in Tokens /\ IsHeadRow(rows[t]) /\ rows[t].owner # Null
  BY DEF HeadInv, IsTable, Live
<1>2. rows[t] # Burnt
  BY <1>1 DEF Burnt, Row
<1>3. /\ rows[t] = Row(rows[t].owner, "uns", "uns", rows[t].records)
      /\ rows[t].owner \in Owners /\ IsRecords(rows[t].records)
  BY <1>1, <1>2 DEF IsHeadRow
<1>4. rows[t].registry = "uns"
  BY <1>3 DEF Row
<1> QED
  BY <1>1, <1>3, <1>4 DEF RowIn, OnUns

LEMMA DeadRow ==
    ASSUME HeadInv, NEW t \in Tokens, ~Live(t)
    PROVE  RowIn(rows, t) \in {Repo!NewRow, Burnt}
<1>1. CASE t \in DOMAIN rows
  <2>1. IsHeadRow(rows[t]) /\ rows[t].owner = Null
    BY <1>1 DEF HeadInv, IsTable, Live
  <2>2. rows[t] = Burnt
    BY <2>1, Marks DEF IsHeadRow
  <2> QED
    BY <1>1, <2>2 DEF RowIn
<1>2. CASE t \notin DOMAIN rows
  BY <1>2 DEF RowIn
<1> QED
  BY <1>1, <1>2

\* No token is one of CNS.
LEMMA NoCns ==
    ASSUME HeadInv, NEW t
    PROVE  ~OnCns(t)
BY LiveRow DEF OnCns

\* The row of one token is put, with a row as there may be.
LEMMA RowPut ==
    ASSUME HeadInv, NEW t \in Tokens, NEW row, IsHeadRow(row), rows' = Put(rows, t, row)
    PROVE  /\ IsTable(rows') /\ DOMAIN rows \subseteq DOMAIN rows' /\ t \in DOMAIN rows'
           /\ RowIn(rows', t) = row
           /\ \A x : x # t => RowIn(rows', x) = RowIn(rows, x)
<1>1. /\ DOMAIN rows' = DOMAIN rows \cup {t}
      /\ rows' = [x \in DOMAIN rows' |-> rows'[x]]
      /\ rows'[t] = row
      /\ \A x \in DOMAIN rows : x # t => rows'[x] = rows[x]
  BY DEF Put
<1>2. IsTable(rows')
  BY <1>1 DEF IsTable, HeadInv
<1>3. \A x : x # t => RowIn(rows', x) = RowIn(rows, x)
  BY <1>1 DEF RowIn
<1> QED
  BY <1>1, <1>2, <1>3 DEF RowIn

\* A block that names token t alone puts its row.
LEMMA PutKeeps ==
    ASSUME BlocksInv, HeadInv, fork = 0, fork' = fork, NEW ev \in Seq(EventSet),
           blocks' = Append(blocks, [events |-> ev, after |-> RegistryState']),
           NEW t \in Tokens, NEW row, IsHeadRow(row), rows' = Put(rows, t, row),
           rev' = [a \in Owners |-> rev'[a]],
           \A a \in Owners : rev'[a] # None => rev'[a] \in Tokens,
           \E j \in 1 .. Len(ev) : Names(ev[j], t),
           \A j \in 1 .. Len(ev) : \A x : Names(ev[j], x) => x = t,
           \A E \in Seq(EventSet) : \A last : ToldTo(E, last, RowIn(rows, t)) =>
              \E h : Trace(E \o OfToken(ev, t), h, row)
    PROVE  BlocksInv' /\ HeadInv'
<1>1. /\ IsTable(rows') /\ DOMAIN rows \subseteq DOMAIN rows' /\ t \in DOMAIN rows'
      /\ RowIn(rows', t) = row
      /\ \A x : x # t => RowIn(rows', x) = RowIn(rows, x)
  BY RowPut
<1>2. Tells(t, ev)
  BY <1>1 DEF Tells, ToldTo
<1>3. ASSUME NEW x \in Tokens, x # t PROVE Tells(x, ev)
  <2>1. \A j \in 1 .. Len(ev) : ~Names(ev[j], x)
    BY <1>3
  <2> QED
    BY <1>1, <1>3, <2>1, NotNamed
<1> QED
  BY <1>1, <1>2, <1>3, MinedKeeps

-----------------------------------------------------------------------------
(* Sequences of a few *)

LEMMA PairOf == ASSUME NEW a, NEW b PROVE <<a>> \o <<b>> = <<a, b>>
<1>1. <<a>> \in Seq({a, b}) /\ <<b>> \in Seq({a, b}) /\ <<a, b>> \in Seq({a, b})
  OBVIOUS
<1> DEFINE s == <<a>> \o <<b>>
<1>2. s \in Seq({a, b}) /\ Len(s) = 2 /\ s[1] = a /\ s[2] = b
  BY <1>1, ConcatProperties
<1>3. Len(<<a, b>>) = 2 /\ <<a, b>>[1] = a /\ <<a, b>>[2] = b
  OBVIOUS
<1>4. \A i \in 1 .. Len(s) : s[i] = <<a, b>>[i]
  BY <1>2, <1>3
<1> HIDE DEF s
<1>5. s = <<a, b>>
  BY <1>1, <1>2, <1>3, <1>4, SeqEqual
<1> QED
  BY <1>5 DEF s

LEMMA NothingBefore == ASSUME NEW a PROVE <<>> \o <<a>> = <<a>>
BY <<a>> \in Seq({a}), ConcatEmptySeq

LEMMA EventsTyped ==
    ASSUME NEW t \in Tokens
    PROVE  /\ \A from, to \in Owners \cup {Null} : TransferEvent(t, from, to, "uns") \in EventSet
           /\ NewUriEvent(t, "uns") \in EventSet
           /\ TokenEvent("ResetRecords", t) \in EventSet
           /\ \A k \in Keys, v \in Values :
                [type |-> "Set", token |-> t, key |-> k, value |-> v] \in EventSet
           /\ \A a \in Owners : [type |-> "SetReverse", token |-> t, addr |-> a] \in EventSet
BY DEF EventSet, TransferEvent, NewUriEvent, TokenEvent

LEMMA RemoveTyped == \A a \in Owners : RemoveReverseEvent(a) \in EventSet
BY DEF EventSet, RemoveReverseEvent

LEMMA NamedBy ==
    ASSUME NEW t, NEW x
    PROVE  /\ \A from, to, g : Names(TransferEvent(t, from, to, g), x) <=> x = t
           /\ \A g : Names(NewUriEvent(t, g), x) <=> x = t
           /\ Names(TokenEvent("ResetRecords", t), x) <=> x = t
           /\ \A k, v : Names([type |-> "Set", token |-> t, key |-> k, value |-> v], x) <=> x = t
           /\ \A a : Names([type |-> "SetReverse", token |-> t, addr |-> a], x) <=> x = t
           /\ \A a : ~Names(RemoveReverseEvent(a), x)
BY DEF Names, TransferEvent, NewUriEvent, TokenEvent, RemoveReverseEvent

\* An event of t in a block, after those before it.
LEMMA OneMoreOf ==
    ASSUME NEW E \in Seq(EventSet), NEW ev \in Seq(EventSet), NEW t, NEW last, NEW row,
           ToldTo(E \o OfToken(ev, t), last, row),
           NEW e \in EventSet, Names(e, t), Legal(last, e),
           NEW new, new = RowAfter(row, last, e), new.owner # None
    PROVE  ToldTo(E \o OfToken(ev \o <<e>>, t), e, new)
<1> DEFINE s == OfToken(ev, t)
           u == Sel(e, t)
<1>1. s \in Seq(EventSet) /\ u \in Seq(EventSet) /\ OfToken(ev \o <<e>>, t) = s \o u
  <2>1. OfToken(ev \o <<e>>, t) = OfToken(ev, t) \o Sel(e, t)
    BY OfMore
  <2> QED
    BY <2>1, OfTokenTyped, SelIs
<1> HIDE DEF s, u
<1>2. \A x, y, z \in Seq(EventSet) : (x \o y) \o z = x \o (y \o z)
  BY ConcatAssociative, SMTT(30)
<1>3. (E \o s) \o u = E \o (s \o u) /\ E \o s \in Seq(EventSet)
  BY <1>1, <1>2, ConcatProperties
<1>4. ToldTo((E \o s) \o u, e, new)
  BY <1>3, OneMore DEF s, u
<1> QED
  BY <1>1, <1>3, <1>4

LEMMA NoneOf ==
    ASSUME NEW E \in Seq(EventSet), NEW ev \in Seq(EventSet), NEW t,
           \A j \in 1 .. Len(ev) : ~Names(ev[j], t)
    PROVE  E \o OfToken(ev, t) = E
BY OfNone, ConcatEmptySeq

LEMMA MintKeeps ==
    ASSUME BlocksInv, HeadInv, fork = 0, fork' = fork,
           NEW t \in Tokens, NEW o \in Owners, Mint(t, o, "uns")
    PROVE  BlocksInv' /\ HeadInv'
<1> DEFINE a   == TransferEvent(t, Null, o, "uns")
           b   == NewUriEvent(t, "uns")
           row == Row(o, "uns", "uns", NoRecords)
           ev  == <<a, b>>
<1>1. /\ ~Live(t) /\ rows' = Put(rows, t, row) /\ rev' = rev
      /\ blocks' = Append(blocks, [events |-> ev, after |-> RegistryState'])
  BY DEF Mint, Mined
<1>2. a \in EventSet /\ b \in EventSet
  BY EventsTyped
<1>3. \A x : (Names(a, x) <=> x = t) /\ (Names(b, x) <=> x = t)
  BY NamedBy
<1>4. /\ a.type = "Transfer" /\ a.from = Null /\ a.to = o /\ a.registry = "uns"
      /\ b.type = "NewURI" /\ b.registry = "uns"
  BY DEF TransferEvent, NewUriEvent
<1>5. IsHeadRow(row) /\ row.owner # None
  BY EmptyRecords, RowIs, Marks DEF IsHeadRow
<1>6. IsMint(a) /\ TransferChange(a) = Minted(o, "uns")
  BY <1>4, Marks DEF IsMint, TransferChange
<1> HIDE DEF a, b
<1>7. ev \in Seq(EventSet) /\ Len(ev) = 2 /\ ev[1] = a /\ ev[2] = b
  BY <1>2
<1>8. ASSUME NEW E \in Seq(EventSet), NEW last, ToldTo(E, last, RowIn(rows, t))
      PROVE  \E h : Trace(E \o OfToken(ev, t), h, row)
  <2> DEFINE old == RowIn(rows, t)
  <2>1. RowAfter(old, last, a) = row
    <3>1. old \in {Repo!NewRow, Burnt}
      BY <1>1, DeadRow
    <3> HIDE DEF old
    <3>2. RowAfter(old, last, a) = Merged(Minted(o, "uns"), old)
      BY <1>4, <1>6 DEF RowAfter, Change
    <3> QED
      BY <3>1, <3>2, MintedRow
  <2>2. Legal(last, a)
    BY <1>4 DEF Legal
  <2>3. RowAfter(row, a, b) = row
    <3>1. RowAfter(row, a, b) = Merged(Minted(o, "uns"), row)
      BY <1>4 DEF RowAfter, Change
    <3> QED
      BY <3>1, MintedRow
  <2>4. Legal(a, b)
    BY <1>4, <1>6 DEF Legal
  <2> HIDE DEF row, old
  <2>5. ToldTo(E \o OfToken(<<>>, t), last, old)
    <3>1. <<>> \in Seq(EventSet) /\ \A j \in 1 .. Len(<<>>) : ~Names(<<>>[j], t)
      OBVIOUS
    <3>2. E \o OfToken(<<>>, t) = E
      BY <3>1, NoneOf
    <3> QED
      BY <1>8, <3>2 DEF old
  <2>6. ToldTo(E \o OfToken(<<a>>, t), a, row)
    <3>1. <<>> \o <<a>> = <<a>>
      BY NothingBefore
    <3>2. <<>> \in Seq(EventSet)
      OBVIOUS
    <3> QED
      BY <1>2, <1>3, <1>5, <2>1, <2>2, <2>5, <3>1, <3>2, OneMoreOf
  <2>7. ToldTo(E \o OfToken(ev, t), b, row)
    <3>1. <<a>> \o <<b>> = ev
      BY PairOf
    <3>2. <<a>> \in Seq(EventSet)
      BY <1>2
    <3> HIDE DEF ev
    <3> QED
      BY <1>2, <1>3, <1>5, <2>3, <2>4, <2>6, <3>1, <3>2, OneMoreOf
  <2> QED
    BY <2>7 DEF ToldTo
<1>9. /\ \E j \in 1 .. Len(ev) : Names(ev[j], t)
      /\ \A j \in 1 .. Len(ev) : \A x : Names(ev[j], x) => x = t
  BY <1>3, <1>7
<1>10. /\ rev' = [x \in Owners |-> rev'[x]]
       /\ \A x \in Owners : rev'[x] # None => rev'[x] \in Tokens
  BY <1>1 DEF HeadInv
<1> HIDE DEF ev, row
<1> QED
  BY <1>1, <1>5, <1>7, <1>8, <1>9, <1>10, PutKeeps

\* The token leaves its owner for o, or is burnt.
LEMMA LeaveKeeps ==
    ASSUME BlocksInv, HeadInv, fork = 0, fork' = fork,
           NEW t \in Tokens, Live(t), NEW o \in Owners \cup {Null},
           NEW row, row = IF o = Null THEN Burnt ELSE Row(o, "uns", "uns", NoRecords),
           Leave(t, o, row)
    PROVE  BlocksInv' /\ HeadInv'
<1> DEFINE from == rows[t].owner
           d    == RemoveReverseEvent(from)
           e    == TransferEvent(t, from, o, "uns")
           f    == TokenEvent("ResetRecords", t)
<1>1. PICK ev : ev = IF rev[from] = t THEN <<d>> ELSE <<>>
  OBVIOUS
<1> DEFINE all == (ev \o <<e>>) \o <<f>>
<1>2. /\ t \in DOMAIN rows /\ from \in Owners /\ rows[t].registry = "uns"
      /\ rows[t] = Row(from, "uns", "uns", rows[t].records) /\ IsRecords(rows[t].records)
      /\ RowIn(rows, t) = rows[t]
  BY LiveRow
<1>3. /\ rows' = [rows EXCEPT ![t] = row]
      /\ rev' = [rev EXCEPT ![from] = IF rev[from] = t THEN None ELSE @]
      /\ blocks' = Append(blocks, [events |-> all, after |-> RegistryState'])
  BY <1>1, <1>2 DEF Leave, Mined
<1>4. rows' = Put(rows, t, row)
  BY <1>2, <1>3 DEF HeadInv, IsTable, Put
<1>5. d \in EventSet /\ e \in EventSet /\ f \in EventSet
  BY <1>2, EventsTyped, RemoveTyped
<1>6. \A x : (Names(e, x) <=> x = t) /\ (Names(f, x) <=> x = t) /\ ~Names(d, x)
  BY NamedBy
<1>7. /\ e.type = "Transfer" /\ e.from = from /\ e.to = o
      /\ f.type = "ResetRecords" /\ from # Null
  BY <1>2, Marks DEF TransferEvent, TokenEvent
<1>8. IsHeadRow(row) /\ row.owner # None
  BY EmptyRecords, RowIs, Marks DEF IsHeadRow, Burnt
<1>9. /\ rev' = [x \in Owners |-> rev'[x]]
      /\ \A x \in Owners : rev'[x] # None => rev'[x] \in Tokens
  <2>1. rev = [x \in Owners |-> rev[x]] /\ \A x \in Owners : rev[x] # None => rev[x] \in Tokens
    BY DEF HeadInv
  <2>2. /\ rev' = [x \in Owners |-> rev'[x]]
        /\ \A x \in Owners : rev'[x] = rev[x] \/ rev'[x] = None
    BY <1>2, <1>3, <2>1
  <2> QED
    BY <2>1, <2>2
<1> HIDE DEF d, e, f
<1>10. ev \in Seq(EventSet) /\ \A j \in 1 .. Len(ev) : ev[j] = d
  <2>1. CASE rev[from] = t
    <3>1. ev = <<d>>
      BY <1>1, <2>1
    <3> QED
      BY <1>5, <3>1
  <2>2. CASE rev[from] # t
    <3>1. ev = <<>>
      BY <1>1, <2>2
    <3> QED
      BY <3>1
  <2> QED
    BY <2>1, <2>2
<1>11. /\ ev \o <<e>> \in Seq(EventSet) /\ all \in Seq(EventSet)
       /\ Len(all) = Len(ev) + 2 /\ all[Len(ev) + 1] = e /\ all[Len(ev) + 2] = f
       /\ \A j \in 1 .. Len(ev) : all[j] = d
  <2>1. <<e>> \in Seq(EventSet) /\ Len(<<e>>) = 1 /\ <<e>>[1] = e
    BY <1>5
  <2>2. <<f>> \in Seq(EventSet) /\ Len(<<f>>) = 1 /\ <<f>>[1] = f
    BY <1>5
  <2> DEFINE ee == ev \o <<e>>
             n  == Len(ev)
  <2>3. n \in Nat
    BY <1>10, LenProperties
  <2>4. /\ ee \in Seq(EventSet) /\ Len(ee) = n + 1 /\ ee[n + 1] = e
        /\ \A j \in 1 .. n : ee[j] = d
    BY <1>10, <2>1, <2>3, ConcatProperties
  <2> HIDE DEF ee, n
  <2>5. /\ all \in Seq(EventSet) /\ Len(all) = (n + 1) + 1 /\ all[(n + 1) + 1] = f
        /\ \A j \in 1 .. n + 1 : all[j] = ee[j]
    BY <2>2, <2>3, <2>4, ConcatProperties DEF ee
  <2>6. (n + 1) + 1 = n + 2 /\ n + 1 \in 1 .. n + 1 /\ \A j \in 1 .. n : j \in 1 .. n + 1
    BY <2>3
  <2> HIDE DEF all
  <2>7. all[n + 1] = e /\ \A j \in 1 .. n : all[j] = d
    BY <2>4, <2>5, <2>6
  <2> QED
    BY <2>4, <2>5, <2>6, <2>7 DEF ee, n
<1>12. ASSUME NEW E \in Seq(EventSet), NEW last, ToldTo(E, last, RowIn(rows, t))
       PROVE  \E h : Trace(E \o OfToken(all, t), h, row)
  <2> DEFINE m   == rows[t].records
             old == Row(from, "uns", "uns", m)
             mid == IF o = Null THEN Burnt ELSE Row(o, "uns", "uns", m)
  <2>1. RowAfter(old, last, e) = mid /\ Legal(last, e)
    <3>1. Legal(last, e)
      BY <1>7 DEF Legal
    <3>2. RowAfter(old, last, e) = Merged(TransferChange(e), old)
      BY <1>7 DEF RowAfter, Change
    <3>3. CASE o = Null
      <4>1. TransferChange(e) = [owner |-> Null, registry |-> None, resolver |-> None,
                                 records |-> NoRecords, clear |-> TRUE]
        BY <1>7, <3>3, Marks DEF TransferChange
      <4> QED
        BY <3>1, <3>2, <3>3, <4>1, BurntRow
    <3>4. CASE o # Null
      <4>1. TransferChange(e) = [Repo!NoChange EXCEPT !.owner = o] /\ o \in Owners
        BY <1>7, <3>4, Marks DEF TransferChange
      <4>2. Merged([Repo!NoChange EXCEPT !.owner = o], old) = Row(o, "uns", "uns", m)
        BY <1>2, <4>1, MovedRow
      <4> QED
        BY <3>1, <3>2, <3>4, <4>1, <4>2
    <3> QED
      BY <3>3, <3>4
  <2>2. RowAfter(mid, e, f) = row /\ Legal(e, f)
    <3>1. Legal(e, f)
      BY <1>7 DEF Legal
    <3>2. RowAfter(mid, e, f) = Merged([Repo!NoChange EXCEPT !.clear = TRUE], mid)
      BY <1>7 DEF RowAfter, Change
    <3>3. CASE o = Null
      <4>1. mid = Row(Null, None, None, NoRecords) /\ row = mid
        BY <3>3 DEF Burnt
      <4> HIDE DEF mid
      <4> QED
        BY <3>1, <3>2, <4>1, ClearedRow
    <3>4. CASE o # Null
      <4>1. mid = Row(o, "uns", "uns", m) /\ row = Row(o, "uns", "uns", NoRecords)
        BY <3>4
      <4> HIDE DEF mid, m
      <4> QED
        BY <3>1, <3>2, <4>1, ClearedRow
    <3> QED
      BY <3>3, <3>4
  <2>3. mid.owner # None
    BY RowIs, Marks DEF Burnt
  <2>4. ToldTo(E, last, old)
    BY <1>2, <1>12
  <2> HIDE DEF old, mid
  <2>5. ToldTo(E \o OfToken(ev, t), last, old)
    <3>1. \A j \in 1 .. Len(ev) : ~Names(ev[j], t)
      BY <1>6, <1>10
    <3>2. E \o OfToken(ev, t) = E
      BY <1>10, <3>1, NoneOf
    <3> QED
      BY <2>4, <3>2
  <2>6. ToldTo(E \o OfToken(ev \o <<e>>, t), e, mid)
    BY <1>5, <1>6, <1>10, <2>1, <2>3, <2>5, OneMoreOf
  <2>7. ToldTo(E \o OfToken(all, t), f, row)
    BY <1>5, <1>6, <1>8, <1>11, <2>2, <2>6, OneMoreOf
  <2> QED
    BY <2>7 DEF ToldTo
<1> HIDE DEF all
<1>13. \E j \in 1 .. Len(all) : Names(all[j], t)
  <2>1. Len(ev) \in Nat
    BY <1>10, LenProperties
  <2>2. Len(ev) + 1 \in 1 .. Len(all)
    BY <1>11, <2>1
  <2> QED
    BY <1>6, <1>11, <2>2
<1>14. \A j \in 1 .. Len(all) : \A x : Names(all[j], x) => x = t
  <2>1. Len(ev) \in Nat
    BY <1>10, LenProperties
  <2>2. \A j \in 1 .. Len(all) : j \in 1 .. Len(ev) \/ j = Len(ev) + 1 \/ j = Len(ev) + 2
    BY <1>11, <2>1
  <2>3. \A j \in 1 .. Len(all) : all[j] \in {d, e, f}
    BY <1>11, <2>2
  <2> QED
    BY <1>6, <2>3
<1> QED
  BY <1>3, <1>4, <1>8, <1>9, <1>11, <1>12, <1>13, <1>14, PutKeeps

LEMMA TransferKeeps ==
    ASSUME BlocksInv, HeadInv, fork = 0, fork' = fork,
           NEW t \in Tokens, NEW o \in Owners, Transfer(t, o)
    PROVE  BlocksInv' /\ HeadInv'
<1>1. Live(t) /\ o # Null
  BY Marks DEF Transfer
<1>2. PICK a, m : rows[t] = Row(a, "uns", "uns", m)
  BY <1>1, LiveRow
<1>3. [rows[t] EXCEPT !.owner = o, !.records = IF rows[t].registry = "uns" THEN NoRecords ELSE @]
        = Row(o, "uns", "uns", NoRecords)
  <2> DEFINE A == [rows[t] EXCEPT !.owner = o]
             k == IF rows[t].registry = "uns" THEN NoRecords ELSE rows[t].records
  <2>1. [rows[t] EXCEPT !.owner = o,
                        !.records = IF rows[t].registry = "uns" THEN NoRecords ELSE @]
          = [A EXCEPT !.records = k]
    OBVIOUS
  <2>2. A = Row(o, "uns", "uns", m) /\ k = NoRecords
    BY <1>2 DEF Row
  <2> HIDE DEF A, k
  <2>3. [A EXCEPT !.records = k] = Row(o, "uns", "uns", NoRecords)
    BY <2>2 DEF Row
  <2> QED
    BY <2>1, <2>3
<1> QED
  BY <1>1, <1>3, LeaveKeeps DEF Transfer

LEMMA BurnKeeps ==
    ASSUME BlocksInv, HeadInv, fork = 0, fork' = fork, NEW t \in Tokens, Burn(t)
    PROVE  BlocksInv' /\ HeadInv'
BY LeaveKeeps DEF Burn

\* A block of one event, which puts a row of its token.
LEMMA OneKeeps ==
    ASSUME BlocksInv, HeadInv, fork = 0, fork' = fork,
           NEW e \in EventSet, NEW t \in Tokens, \A x : Names(e, x) <=> x = t,
           blocks' = Append(blocks, [events |-> <<e>>, after |-> RegistryState']),
           NEW row, IsHeadRow(row), rows' = Put(rows, t, row),
           rev' = [a \in Owners |-> rev'[a]],
           \A a \in Owners : rev'[a] # None => rev'[a] \in Tokens,
           \A last : Legal(last, e) /\ RowAfter(RowIn(rows, t), last, e) = row
    PROVE  BlocksInv' /\ HeadInv'
<1> DEFINE ev == <<e>>
           old == RowIn(rows, t)
<1>1. ev \in Seq(EventSet) /\ Len(ev) = 1 /\ ev[1] = e /\ <<>> \o <<e>> = ev
  BY NothingBefore
<1>2. row.owner # None
  BY RowIs, Marks DEF IsHeadRow, Burnt
<1>3. ASSUME NEW E \in Seq(EventSet), NEW last, ToldTo(E, last, old)
      PROVE  \E h : Trace(E \o OfToken(ev, t), h, row)
  <2> HIDE DEF old, ev
  <2>1. <<>> \in Seq(EventSet) /\ \A j \in 1 .. Len(<<>>) : ~Names(<<>>[j], t)
    OBVIOUS
  <2>2. E \o OfToken(<<>>, t) = E
    BY <2>1, NoneOf
  <2>3. ToldTo(E \o OfToken(<<>>, t), last, old)
    BY <1>3, <2>2
  <2>4. Legal(last, e) /\ RowAfter(old, last, e) = row
    BY DEF old
  <2>5. ToldTo(E \o OfToken(<<>> \o <<e>>, t), e, row)
    BY <1>2, <2>1, <2>3, <2>4, OneMoreOf
  <2> QED
    BY <1>1, <2>5 DEF ToldTo
<1>4. /\ \E j \in 1 .. Len(ev) : Names(ev[j], t)
      /\ \A j \in 1 .. Len(ev) : \A x : Names(ev[j], x) => x = t
  BY <1>1
<1>5. blocks' = Append(blocks, [events |-> ev, after |-> RegistryState'])
  OBVIOUS
<1> HIDE DEF ev
<1> QED
  BY <1>1, <1>3, <1>4, <1>5, PutKeeps

LEMMA SetRecordKeeps ==
    ASSUME BlocksInv, HeadInv, fork = 0, fork' = fork,
           NEW t \in Tokens, NEW k \in Keys, NEW v \in Values, SetRecord(t, k, v)
    PROVE  BlocksInv' /\ HeadInv'
<1>1. Live(t)
  BY DEF SetRecord, OnUns
<1> DEFINE e   == [type |-> "Set", token |-> t, key |-> k, value |-> v]
           a   == rows[t].owner
           m   == rows[t].records
           row == Row(a, "uns", "uns", Put(m, k, v))
<1>2. /\ t \in DOMAIN rows /\ a \in Owners /\ IsRecords(m)
      /\ rows[t] = Row(a, "uns", "uns", m) /\ RowIn(rows, t) = rows[t]
  BY <1>1, LiveRow
<1>3. /\ rows' = [rows EXCEPT ![t].records = Put(@, k, v)] /\ rev' = rev
      /\ blocks' = Append(blocks, [events |-> <<e>>, after |-> RegistryState'])
  BY DEF SetRecord, Mined
<1>4. [rows[t] EXCEPT !.records = Put(@, k, v)] = row
  BY <1>2 DEF Row
<1>5. rows' = Put(rows, t, row)
  BY <1>2, <1>3, <1>4 DEF HeadInv, IsTable, Put
<1>6. e \in EventSet /\ (\A x : Names(e, x) <=> x = t)
  BY EventsTyped, NamedBy
<1>7. ASSUME NEW last PROVE Legal(last, e) /\ RowAfter(rows[t], last, e) = row
  <2>1. /\ RowAfter(rows[t], last, e)
             = Merged([Repo!NoChange EXCEPT !.records = Only(k, v)], rows[t])
        /\ Legal(last, e)
    BY DEF RowAfter, Change, Legal
  <2> QED
    BY <1>2, <2>1, SetRow
<1>8. IsHeadRow(row)
  BY <1>2, RecordsPut, RowIs DEF IsHeadRow
<1>9. /\ rev' = [x \in Owners |-> rev'[x]]
      /\ \A x \in Owners : rev'[x] # None => rev'[x] \in Tokens
  BY <1>3 DEF HeadInv
<1> HIDE DEF e, row
<1> QED
  BY <1>2, <1>3, <1>5, <1>6, <1>7, <1>8, <1>9, OneKeeps

LEMMA ResetRecordsKeeps ==
    ASSUME BlocksInv, HeadInv, fork = 0, fork' = fork,
           NEW t \in Tokens, ResetRecords(t)
    PROVE  BlocksInv' /\ HeadInv'
<1>1. Live(t)
  BY DEF ResetRecords, OnUns
<1> DEFINE e   == TokenEvent("ResetRecords", t)
           a   == rows[t].owner
           m   == rows[t].records
           row == Row(a, "uns", "uns", NoRecords)
<1>2. /\ t \in DOMAIN rows /\ a \in Owners
      /\ rows[t] = Row(a, "uns", "uns", m) /\ RowIn(rows, t) = rows[t]
  BY <1>1, LiveRow
<1>3. /\ rows' = [rows EXCEPT ![t].records = NoRecords] /\ rev' = rev
      /\ blocks' = Append(blocks, [events |-> <<e>>, after |-> RegistryState'])
  BY DEF ResetRecords, Mined
<1>4. [rows[t] EXCEPT !.records = NoRecords] = row
  BY <1>2 DEF Row
<1>5. rows' = Put(rows, t, row)
  BY <1>2, <1>3, <1>4 DEF HeadInv, IsTable, Put
<1>6. e \in EventSet /\ (\A x : Names(e, x) <=> x = t) /\ e.type = "ResetRecords"
  BY EventsTyped, NamedBy DEF TokenEvent
<1>7. ASSUME NEW last PROVE Legal(last, e) /\ RowAfter(rows[t], last, e) = row
  <2>1. /\ RowAfter(rows[t], last, e) = Merged([Repo!NoChange EXCEPT !.clear = TRUE], rows[t])
        /\ Legal(last, e)
    BY <1>6 DEF RowAfter, Change, Legal
  <2> QED
    BY <1>2, <2>1, ClearedRow
<1>8. IsHeadRow(row)
  BY <1>2, EmptyRecords, RowIs DEF IsHeadRow
<1>9. /\ rev' = [x \in Owners |-> rev'[x]]
      /\ \A x \in Owners : rev'[x] # None => rev'[x] \in Tokens
  BY <1>3 DEF HeadInv
<1> HIDE DEF e, row
<1> QED
  BY <1>2, <1>3, <1>5, <1>6, <1>7, <1>8, <1>9, OneKeeps

LEMMA SetReverseKeeps ==
    ASSUME BlocksInv, HeadInv, fork = 0, fork' = fork,
           NEW t \in Tokens, SetReverse(t)
    PROVE  BlocksInv' /\ HeadInv'
<1>1. Live(t)
  BY DEF SetReverse, OnUns
<1> DEFINE a == rows[t].owner
           e == [type |-> "SetReverse", token |-> t, addr |-> a]
<1>2. t \in DOMAIN rows /\ a \in Owners /\ RowIn(rows, t) = rows[t]
  BY <1>1, LiveRow
<1>3. /\ rows' = rows /\ rev' = [rev EXCEPT ![a] = t]
      /\ blocks' = Append(blocks, [events |-> <<e>>, after |-> RegistryState'])
  BY DEF SetReverse, Mined
<1>4. rows' = Put(rows, t, rows[t])
  BY <1>2, <1>3 DEF HeadInv, IsTable, Put
<1>5. e \in EventSet /\ (\A x : Names(e, x) <=> x = t)
  BY <1>2, EventsTyped, NamedBy
<1>6. ASSUME NEW last PROVE Legal(last, e) /\ RowAfter(rows[t], last, e) = rows[t]
  BY DEF RowAfter, Legal
<1>7. IsHeadRow(rows[t])
  BY <1>2 DEF HeadInv, IsTable
<1>8. /\ rev' = [x \in Owners |-> rev'[x]]
      /\ \A x \in Owners : rev'[x] # None => rev'[x] \in Tokens
  BY <1>3 DEF HeadInv
<1> HIDE DEF e
<1> QED
  BY <1>2, <1>3, <1>4, <1>5, <1>6, <1>7, <1>8, OneKeeps

LEMMA RemoveReverseKeeps ==
    ASSUME BlocksInv, HeadInv, fork = 0, fork' = fork,
           NEW a \in Owners, RemoveReverse(a)
    PROVE  BlocksInv' /\ HeadInv'
<1> DEFINE e  == RemoveReverseEvent(a)
           ev == <<e>>
<1>1. /\ rows' = rows /\ rev' = [rev EXCEPT ![a] = None]
      /\ blocks' = Append(blocks, [events |-> ev, after |-> RegistryState'])
  BY DEF RemoveReverse, Mined
<1>2. e \in EventSet /\ (\A x : ~Names(e, x))
  BY RemoveTyped, NamedBy
<1> HIDE DEF e
<1>3. ev \in Seq(EventSet) /\ Len(ev) = 1 /\ ev[1] = e
  BY <1>2
<1> HIDE DEF ev
<1>4. \A x \in Tokens : Tells(x, ev)
  BY <1>1, <1>2, <1>3, NotNamed
<1>5. /\ rev' = [x \in Owners |-> rev'[x]]
      /\ \A x \in Owners : rev'[x] # None => rev'[x] \in Tokens
  BY <1>1 DEF HeadInv
<1>6. IsTable(rows')
  BY <1>1 DEF HeadInv
<1> QED
  BY <1>1, <1>3, <1>4, <1>5, <1>6, MinedKeeps

LEMMA RegistryKeeps ==
    ASSUME BlocksInv, HeadInv, fork = 0, fork' = fork, RegistryStep
    PROVE  BlocksInv' /\ HeadInv'
<1>1. ASSUME NEW t \in Tokens, NEW o \in Owners, Mint(t, o, "uns") \/ Transfer(t, o)
      PROVE  BlocksInv' /\ HeadInv'
  BY <1>1, MintKeeps, TransferKeeps
<1>2. ASSUME NEW t \in Tokens, NEW k \in Keys, NEW v \in Values,
             SetRecord(t, k, v) \/ SyncKey(t, k, v)
      PROVE  BlocksInv' /\ HeadInv'
  BY <1>2, SetRecordKeeps, NoCns DEF SyncKey, Write
<1>3. ASSUME NEW t \in Tokens,
             Burn(t) \/ ResetRecords(t) \/ SetReverse(t) \/ SyncReset(t)
      PROVE  BlocksInv' /\ HeadInv'
  BY <1>3, BurnKeeps, ResetRecordsKeeps, SetReverseKeeps, NoCns DEF SyncReset, Write
<1>4. ASSUME NEW a \in Owners, RemoveReverse(a)
      PROVE  BlocksInv' /\ HeadInv'
  BY <1>4, RemoveReverseKeeps
<1> QED
  BY <1>1, <1>2, <1>3, <1>4, Marks DEF RegistryStep

-----------------------------------------------------------------------------
(* The reorg *)

LEMMA InitRows == Init => RowsInv
<1> SUFFICES ASSUME Init PROVE RowsInv
  OBVIOUS
<1> USE DEF Init, RegistryInit
<1>1. blocks = <<>> /\ Len(blocks) = 0 /\ rows = <<>> /\ fork = 0
  OBVIOUS
<1>2. BlocksInv
  <2>1. blocks = [n \in 1 .. 0 |-> blocks[n]]
    BY <1>1
  <2> QED
    BY <1>1, <2>1 DEF BlocksInv
<1>3. IsTable(rows) /\ DOMAIN rows = {}
  BY <1>1 DEF IsTable
<1>4. ASSUME NEW t \in Tokens PROVE Told(blocks, 0, t, RowIn(rows, t))
  <2> DEFINE h == [i \in 0 .. 0 |-> Repo!NewRow]
  <2>1. ForToken(blocks, 0, t) = <<>> /\ RowIn(rows, t) = Repo!NewRow
    BY <1>3, ForTokenNone DEF RowIn
  <2>2. Trace(<<>>, h, Repo!NewRow)
    BY DEF Trace
  <2> HIDE DEF h
  <2> QED
    BY <2>1, <2>2 DEF Told
<1>5. HeadInv
  <2>1. /\ rev = [a \in Owners |-> rev[a]]
        /\ \A a \in Owners : rev[a] # None => rev[a] \in Tokens
    OBVIOUS
  <2>2. \A n \in 1 .. Len(blocks) : FALSE
    BY <1>1
  <2> QED
    BY <1>1, <1>3, <1>4, <2>1, <2>2 DEF HeadInv
<1>6. RebuildInv
  BY <1>1 DEF RebuildInv
<1> QED
  BY <1>2, <1>5, <1>6 DEF RowsInv

LEMMA Cut ==
    ASSUME BlocksInv, NEW n \in 1 .. Len(blocks) - 1, blocks' = SubSeq(blocks, 1, n)
    PROVE  /\ Len(blocks) \in Nat /\ n \in Nat /\ Len(blocks') = n
           /\ DOMAIN blocks = 1 .. Len(blocks) /\ DOMAIN blocks' = 1 .. n
           /\ blocks' = [i \in 1 .. n |-> blocks'[i]]
           /\ \A i \in 1 .. n : i \in 1 .. Len(blocks) /\ blocks'[i] = blocks[i]
BY DEF BlocksInv

LEMMA ReorgBlocks ==
    ASSUME BlocksInv, HeadInv, NEW n \in 1 .. Len(blocks) - 1, Reorg(n)
    PROVE  BlocksInv' /\ HeadInv'
<1>1. fork' = n /\ blocks' = SubSeq(blocks, 1, n) /\ rows' = rows /\ rev' = rev
  BY DEF Reorg
<1>2. /\ Len(blocks) \in Nat /\ n \in Nat /\ Len(blocks') = n
      /\ DOMAIN blocks = 1 .. Len(blocks) /\ DOMAIN blocks' = 1 .. n
      /\ blocks' = [i \in 1 .. n |-> blocks'[i]]
      /\ \A i \in 1 .. n : i \in 1 .. Len(blocks) /\ blocks'[i] = blocks[i]
  BY <1>1, Cut
<1>3. ASSUME NEW m \in 1 .. n
      PROVE  /\ blocks'[m].events \in Seq(EventSet)
             /\ IsTable(blocks'[m].after.rows)
             /\ \A t \in Tokens : Told(blocks', m, t, RowIn(blocks'[m].after.rows, t))
  <2>1. ASSUME NEW C, C = blocks', NEW t PROVE ForToken(C, m, t) = ForToken(blocks, m, t)
    <3>1. /\ m \in Nat /\ 1 .. m \subseteq DOMAIN blocks /\ 1 .. m \subseteq DOMAIN C
          /\ \A i \in 1 .. m : C[i].events = blocks[i].events
      BY <1>2, <2>1
    <3> QED
      BY ONLY <3>1, ForTokenSame
  <2>2. m \in 1 .. Len(blocks) /\ blocks'[m] = blocks[m]
    BY <1>2
  <2> QED
    BY <2>1, <2>2 DEF BlocksInv, Told
<1>4. BlocksInv'
  BY <1>2, <1>3 DEF BlocksInv
<1>5. HeadInv'
  <2>1. fork' # 0
    BY <1>1, <1>2
  <2> QED
    BY <1>1, <2>1 DEF HeadInv
<1> QED
  BY <1>4, <1>5

\* The tables are as committed.
LEMMA ReorgTables ==
    ASSUME NEW n, Reorg(n)
    PROVE  /\ tables' = stored'
           /\ stored' = [names |-> DOMAIN rows, rows |-> rows, rev |-> RegistryState.rev,
                         broken |-> FALSE]
BY DEF Reorg, RegistryState, Repo!EmptyTables

LEMMA ReorgRows ==
    ASSUME RowsInv, NEW n \in 1 .. Len(blocks) - 1, Reorg(n)
    PROVE  RowsInv'
<1>1. BlocksInv' /\ HeadInv'
  BY ReorgBlocks DEF RowsInv
<1>2. /\ fork = 0 /\ fork' = n /\ blocks' = SubSeq(blocks, 1, n)
      /\ task' = [t \in Tokens |-> IF t \in Affected(n) THEN "remove" ELSE "none"]
      /\ todo' = todo /\ read' = read
  BY DEF Reorg
<1>3. /\ tables'.names = DOMAIN rows /\ tables'.rows = rows
      /\ tables' = [names |-> stored'.names, rows |-> tables'.rows, rev |-> tables'.rev,
                    broken |-> FALSE]
      /\ stored'.names = DOMAIN rows
  BY ReorgTables
<1>4. /\ Len(blocks) \in Nat /\ n \in Nat /\ Len(blocks') = n
      /\ \A i \in 1 .. n : i \in 1 .. Len(blocks) /\ blocks'[i] = blocks[i]
      /\ n \in 1 .. n /\ n # 0
  BY <1>2, Cut DEF RowsInv
<1>5. IsTable(rows)
  BY DEF RowsInv, HeadInv
<1>6. TablesInv'
  <2>1. \A t \in DOMAIN rows : rows[t].owner # None
    BY <1>5, RowIs, Marks DEF IsTable, IsHeadRow, Burnt
  <2>2. ASSUME NEW i \in 1 .. n, NEW t \in Tokens, NamedIn(blocks', i, t)
        PROVE  t \in DOMAIN rows
    <3>1. NamedIn(blocks, i, t) /\ i \in 1 .. Len(blocks)
      BY <1>4, <2>2 DEF NamedIn
    <3> QED
      BY <1>2, <3>1 DEF RowsInv, HeadInv
  <2> QED
    BY <1>3, <1>4, <1>5, <2>1, <2>2 DEF TablesInv, IsTable
<1>7. ASSUME NEW t \in Tokens
      PROVE  TaskInv(t)'
  <2>1. SUFFICES ASSUME t \notin Affected(n)
                 PROVE  RowIn(blocks[n].after.rows, t) = RowIn(rows, t)
    BY <1>2, <1>3, <1>4 DEF TaskInv, StateAfter
  <2>2. ASSUME NEW i \in n + 1 .. Len(blocks)
        PROVE  ~NamedIn(blocks, i, t)
    <3>1. i \in 1 .. Len(blocks)
      BY <1>4
    <3>2. blocks[i].events \in Seq(EventSet)
      BY <3>1 DEF RowsInv, BlocksInv
    <3>3. \A e \in ToSet(blocks[i].events) : ~Names(e, t)
      BY <2>1 DEF Affected
    <3>4. \A j \in 1 .. Len(blocks[i].events) : blocks[i].events[j] \in ToSet(blocks[i].events)
      BY <3>2, LenProperties DEF ToSet
    <3> QED
      BY <3>3, <3>4 DEF NamedIn
  <2> QED
    BY <1>2, <1>4, <2>2 DEF RowsInv, HeadInv
<1>8. RebuildInv'
  BY <1>2, <1>4, <1>6, <1>7 DEF RebuildInv, RowsInv
<1> QED
  BY <1>1, <1>8 DEF RowsInv

LEMMA ReorgReverse ==
    ASSUME RowsInv, NEW n \in 1 .. Len(blocks) - 1, Reorg(n)
    PROVE  ReverseInv'
<1>1. /\ tables' = stored'
      /\ tables'.rev = {<<a, rev[a]>> : a \in {b \in Owners : rev[b] # None}}
  BY ReorgTables DEF RegistryState
<1>2. /\ task' = [t \in Tokens |-> IF t \in Affected(n) THEN "remove" ELSE "none"]
  BY DEF Reorg
<1>3. \A a \in Owners : rev[a] # None => rev[a] \in Tokens
  BY DEF RowsInv, HeadInv
<1>4. \A r \in tables'.rev : IsReverseRow(r) /\ r = <<r[1], rev[r[1]]>>
  BY <1>1, <1>3 DEF IsReverseRow
<1>5. \A r \in tables'.rev : r \in stored'.rev /\ task'[r[2]] \in {"none", "remove"}
  BY <1>1, <1>2, <1>4 DEF IsReverseRow
<1>6. \A t \in Tokens : task'[t] # "save"
  BY <1>2
<1>7. \A r, s \in tables'.rev : r[1] = s[1] => r = s
  BY <1>4
<1> QED
  BY <1>1, <1>4, <1>5, <1>6, <1>7 DEF ReverseInv, Untouched

-----------------------------------------------------------------------------
(* The rebuilds: the rows *)

States == {"none", "remove", "replay", "save", "drop", "done"}

\* A step of the rebuild of t, after which its row is as it should be.
LEMMA RowsStep ==
    ASSUME RowsInv, NEW t \in Tokens, task[t] # "none",
           UNCHANGED <<registryVars, fork, stored>>,
           NEW s \in States, task' = [task EXCEPT ![t] = s],
           todo' = [u \in Tokens |-> todo'[u]], \A u \in Tokens : u # t => todo'[u] = todo[u],
           read' = [u \in Tokens |-> read'[u]],
           tables' = [names |-> stored.names, rows |-> tables'.rows, rev |-> tables'.rev,
                      broken |-> FALSE],
           tables'.rows = [u \in DOMAIN tables'.rows |-> tables'.rows[u]],
           DOMAIN tables'.rows \subseteq Tokens,
           \A u \in DOMAIN tables'.rows : tables'.rows[u].owner # None,
           \A u \in Tokens : u # t => RowIn(tables'.rows, u) = RowIn(tables.rows, u),
           TaskInv(t)'
    PROVE  RowsInv'
<1>1. /\ rows' = rows /\ rev' = rev /\ kept' = kept /\ blocks' = blocks
      /\ fork' = fork /\ stored' = stored
  BY DEF registryVars
<1>2. BlocksInv' /\ HeadInv'
  BY <1>1 DEF RowsInv, BlocksInv, HeadInv
<1>3. /\ fork # 0 /\ fork \in Nat /\ Len(blocks) = fork /\ TablesInv
      /\ task \in [Tokens -> States]
      /\ \A u \in Tokens : TaskInv(u)
  BY DEF RowsInv, RebuildInv, States
<1>4. TablesInv'
  <2>1. \A n \in 1 .. Len(blocks) : \A u \in Tokens : NamedIn(blocks, n, u) => u \in stored.names
    BY <1>3 DEF TablesInv
  <2> QED
    BY <1>1, <2>1 DEF TablesInv
<1>5. task' \in [Tokens -> States] /\ \A u \in Tokens : u # t => task'[u] = task[u]
  BY <1>3
<1>6. ASSUME NEW u \in Tokens, u # t PROVE TaskInv(u)'
  <2>1. /\ task'[u] = task[u] /\ todo'[u] = todo[u]
        /\ RowIn(tables'.rows, u) = RowIn(tables.rows, u) /\ TaskInv(u)
        /\ EventsForDomain(u)' = EventsForDomain(u)
        /\ StateAfter(fork)' = StateAfter(fork)
    BY <1>1, <1>3, <1>5, <1>6 DEF EventsForDomain, StateAfter
  <2> QED
    BY <2>1 DEF TaskInv, Replays, Event
<1>7. RebuildInv'
  BY <1>1, <1>3, <1>4, <1>5, <1>6 DEF RebuildInv, States
<1> QED
  BY <1>2, <1>7 DEF RowsInv

\* The events that a rebuild replays.
LEMMA EventsOf ==
    ASSUME RowsInv, fork # 0, NEW t \in Tokens
    PROVE  LET E == EventsForDomain(t) IN
           /\ E \in Seq(EventSet) /\ Len(E) \in Nat /\ E = [j \in 1 .. Len(E) |-> E[j]]
           /\ \A j \in 1 .. Len(E) :
                /\ E[j] \in EventSet /\ Names(E[j], t) /\ t \in stored.names
                /\ \E n \in DOMAIN blocks : E[j] \in ToSet(blocks[n].events)
           /\ \E h : Trace(E, h, RowIn(StateAfter(fork).rows, t))
<1> DEFINE E == EventsForDomain(t)
<1>1. /\ BlocksInv /\ Len(blocks) \in Nat /\ Len(blocks) = fork /\ fork \in 1 .. Len(blocks)
      /\ DOMAIN blocks = 1 .. Len(blocks) /\ TablesInv
  BY DEF RowsInv, BlocksInv, RebuildInv
<1>2. E = ForToken(blocks, Len(blocks), t)
  BY DEF EventsForDomain, ForToken
<1> HIDE DEF E
<1>4. /\ E \in Seq(EventSet)
      /\ \A k \in 1 .. Len(E) :
           \E i \in 1 .. Len(blocks) : \E j \in 1 .. Len(blocks[i].events) :
              E[k] = blocks[i].events[j] /\ Names(blocks[i].events[j], t)
  <2> DEFINE n == Len(blocks)
             s == ForToken(blocks, n, t)
  <2>1. n \in 0 .. Len(blocks)
    BY <1>1
  <2> HIDE DEF n
  <2>2. /\ s \in Seq(EventSet)
        /\ \A k \in 1 .. Len(s) :
             \E i \in 1 .. n : \E j \in 1 .. Len(blocks[i].events) :
                s[k] = blocks[i].events[j] /\ Names(blocks[i].events[j], t)
    BY ONLY <1>1, <2>1, ForTokenTyped
  <2>3. E = s
    BY <1>2 DEF n
  <2> HIDE DEF s
  <2> QED
    BY <2>2, <2>3 DEF n
<1>5. Len(E) \in Nat /\ E = [j \in 1 .. Len(E) |-> E[j]] /\ \A j \in 1 .. Len(E) : E[j] \in EventSet
  BY <1>4, LenProperties
<1>6. ASSUME NEW k \in 1 .. Len(E)
      PROVE  /\ Names(E[k], t) /\ t \in stored.names
             /\ \E n \in DOMAIN blocks : E[k] \in ToSet(blocks[n].events)
  <2>1. PICK i \in 1 .. Len(blocks) : \E j \in 1 .. Len(blocks[i].events) :
              E[k] = blocks[i].events[j] /\ Names(blocks[i].events[j], t)
    BY <1>4
  <2>2. PICK j \in 1 .. Len(blocks[i].events) :
              E[k] = blocks[i].events[j] /\ Names(blocks[i].events[j], t)
    BY <2>1
  <2>3. t \in stored.names
    <3>1. NamedIn(blocks, i, t)
      BY <2>2 DEF NamedIn
    <3> QED
      BY <1>1, <3>1 DEF TablesInv
  <2>4. E[k] \in ToSet(blocks[i].events)
    <3>1. blocks[i].events \in Seq(EventSet)
      BY DEF RowsInv, BlocksInv
    <3> QED
      BY <2>2, <3>1, LenProperties DEF ToSet
  <2> QED
    BY <1>1, <2>2, <2>3, <2>4
<1>7. \E h : Trace(E, h, RowIn(StateAfter(fork).rows, t))
  BY <1>1, <1>2 DEF BlocksInv, Told, StateAfter
<1> QED
  BY <1>4, <1>5, <1>6, <1>7 DEF E

LEMMA RemoveAllRows ==
    ASSUME RowsInv, NEW t \in Tokens, RemoveAll(t)
    PROVE  RowsInv'
<1> DEFINE E == EventsForDomain(t)
<1>1. /\ task[t] = "remove" /\ task' = [task EXCEPT ![t] = "replay"]
      /\ todo' = [todo EXCEPT ![t] = E] /\ read' = read
      /\ rows' = rows /\ rev' = rev /\ kept' = kept /\ blocks' = blocks
      /\ fork' = fork /\ stored' = stored
  BY DEF RemoveAll, registryVars
<1>2. /\ fork # 0 /\ TablesInv /\ task \in [Tokens -> States]
      /\ todo = [u \in Tokens |-> todo[u]] /\ read = [u \in Tokens |-> read[u]]
  BY <1>1 DEF RowsInv, RebuildInv, States
<1>3. /\ tables'.rows = [u \in DOMAIN tables.rows \ {t} |-> tables.rows[u]]
      /\ tables' = [names |-> stored.names, rows |-> tables'.rows, rev |-> tables'.rev,
                    broken |-> FALSE]
  <2> DEFINE R == [u \in DOMAIN tables.rows \ {t} |-> tables.rows[u]]
             V == tables.rev \ ReverseOf(t)
  <2>1. tables' = [tables EXCEPT !.rows = R, !.rev = V]
    BY DEF RemoveAll
  <2>2. PICK a, b : tables = [names |-> stored.names, rows |-> a, rev |-> b,
                              broken |-> FALSE]
    BY <1>2 DEF TablesInv
  <2> HIDE DEF R, V
  <2>3. tables' = [names |-> stored.names, rows |-> R, rev |-> V, broken |-> FALSE]
    BY <2>1, <2>2
  <2>4. tables'.rows = R /\ tables'.rev = V
    BY <2>3
  <2> QED
    BY <1>1, <2>3, <2>4 DEF R
<1>4. /\ DOMAIN tables'.rows = DOMAIN tables.rows \ {t}
      /\ tables'.rows = [u \in DOMAIN tables'.rows |-> tables'.rows[u]]
      /\ DOMAIN tables'.rows \subseteq Tokens
      /\ \A u \in DOMAIN tables'.rows : tables'.rows[u].owner # None
      /\ \A u \in Tokens : u # t => RowIn(tables'.rows, u) = RowIn(tables.rows, u)
      /\ RowIn(tables'.rows, t) = Repo!NewRow
  BY <1>2, <1>3 DEF TablesInv, RowIn
<1>5. /\ Len(E) \in Nat /\ E = [j \in 1 .. Len(E) |-> E[j]]
      /\ \E h : Trace(E, h, RowIn(StateAfter(fork).rows, t))
  BY <1>2, EventsOf
<1>6. /\ EventsForDomain(t)' = E /\ StateAfter(fork)' = StateAfter(fork)
      /\ todo'[t] = E /\ task'[t] = "replay"
      /\ todo' = [u \in Tokens |-> todo'[u]] /\ \A u \in Tokens : u # t => todo'[u] = todo[u]
  BY <1>1, <1>2 DEF EventsForDomain, StateAfter
<1> HIDE DEF E
<1>7. TaskInv(t)'
  <2>1. Len(E) - Len(E) = 0 /\ Len(E) \in 0 .. Len(E)
        /\ \A j \in 1 .. Len(E) : (Len(E) - Len(E)) + j = j
    BY <1>5
  <2>2. E = [j \in 1 .. Len(E) |-> E[(Len(E) - Len(E)) + j]]
    BY <1>5, <2>1
  <2>3. \E h : Trace(E, h, RowIn(StateAfter(fork).rows, t)) /\ Repo!NewRow = h[Len(E) - Len(E)]
    BY <1>5, <2>1 DEF Trace
  <2> QED
    BY <1>4, <1>6, <2>1, <2>2, <2>3 DEF TaskInv, Replays
<1>8. "replay" \in States
  BY DEF States
<1> QED
  BY <1>1, <1>2, <1>3, <1>4, <1>6, <1>7, <1>8, RowsStep DEF registryVars

\* The event that is replayed next.
LEMMA EventAt ==
    ASSUME RowsInv, NEW t \in Tokens, task[t] \in {"replay", "save", "drop"}, todo[t] # <<>>
    PROVE  LET E == EventsForDomain(t)
               k == Len(E) - Len(todo[t])
           IN /\ fork # 0 /\ TablesInv /\ t \in stored.names
              /\ Len(E) \in Nat /\ Len(todo[t]) \in Nat /\ Len(todo[t]) <= Len(E)
              /\ k \in Nat /\ k + 1 \in 1 .. Len(E)
              /\ Event(t) = E[k + 1] /\ LastReplayed(t) = Before(E, k)
              /\ Event(t) \in EventSet /\ Event(t).type # "RemoveReverse" /\ Event(t).token = t
              /\ \E n \in DOMAIN blocks : Event(t) \in ToSet(blocks[n].events)
              /\ Legal(LastReplayed(t), Event(t))
              /\ RowAfter(RowIn(tables.rows, t), LastReplayed(t), Event(t)).owner # None
              /\ Len(Tail(todo[t])) = Len(todo[t]) - 1
              /\ Tail(todo[t]) = [j \in 1 .. Len(todo[t]) - 1 |-> E[(k + 1) + j]]
              /\ \E h : /\ Trace(E, h, RowIn(StateAfter(fork).rows, t))
                        /\ RowAfter(RowIn(tables.rows, t), LastReplayed(t), Event(t)) = h[k + 1]
<1> DEFINE E == EventsForDomain(t)
           d == todo[t]
           k == Len(E) - Len(d)
<1>1. /\ fork # 0 /\ TablesInv
      /\ Replays(t, E, RowIn(tables.rows, t), RowIn(StateAfter(fork).rows, t))
  BY DEF RowsInv, RebuildInv, TaskInv
<1>2. /\ Len(E) \in Nat
      /\ \A j \in 1 .. Len(E) :
                /\ E[j] \in EventSet /\ Names(E[j], t) /\ t \in stored.names
                /\ \E n \in DOMAIN blocks : E[j] \in ToSet(blocks[n].events)
  BY <1>1, EventsOf
<1>3. /\ Len(d) \in 0 .. Len(E)
      /\ d = [j \in 1 .. Len(d) |-> E[k + j]]
  BY <1>1 DEF Replays
<1>4. PICK h : Trace(E, h, RowIn(StateAfter(fork).rows, t)) /\ RowIn(tables.rows, t) = h[k]
  BY <1>1 DEF Replays
<1>5. LastReplayed(t) = Before(E, k)
  BY DEF LastReplayed, Before
<1>6. Event(t) = Head(d) /\ d # <<>>
  BY DEF Event
<1> HIDE DEF E
<1>7. Len(d) # 0
  <2> DEFINE m == Len(d)
  <2>1. d = [j \in 1 .. m |-> E[k + j]]
    BY <1>3
  <2> HIDE DEF m, d
  <2>2. m = 0 => d = <<>>
    BY <2>1
  <2> QED
    BY <1>6, <2>2 DEF m
<1>8. /\ Len(d) \in Nat /\ Len(d) <= Len(E) /\ k \in Nat /\ k + 1 \in 1 .. Len(E)
      /\ 1 \in 1 .. Len(d) /\ (k + 1) - 1 = k
  BY <1>2, <1>3, <1>7
<1>9. d \in Seq(EventSet)
  <2> DEFINE m == Len(d)
  <2>1. /\ m \in Nat /\ d = [j \in 1 .. m |-> E[k + j]]
    BY <1>3, <1>8
  <2>2. \A j \in 1 .. m : k + j \in 1 .. Len(E)
    BY <1>2, <1>8
  <2>3. \A j \in 1 .. m : d[j] \in EventSet
    BY <1>2, <2>1, <2>2
  <2> HIDE DEF m, d, k
  <2>4. d \in [1 .. m -> EventSet]
    BY <2>1, <2>3
  <2> QED
    BY <2>1, <2>4
<1>10. Head(d) = E[k + 1]
  <2>1. d[1] = E[k + 1]
    BY <1>3, <1>8
  <2> HIDE DEF d, k
  <2> QED
    BY <1>6, <1>9, <2>1
<1>11. /\ Len(Tail(d)) = Len(d) - 1
       /\ Tail(d) = [j \in 1 .. Len(d) - 1 |-> E[(k + 1) + j]]
  <2> DEFINE m == Len(d)
  <2>1. /\ m \in Nat /\ m # 0 /\ d = [j \in 1 .. m |-> E[k + j]] /\ d \in Seq(EventSet) /\ d # <<>>
    BY <1>3, <1>6, <1>7, <1>8, <1>9
  <2>2. m = Len(d)
    OBVIOUS
  <2> HIDE DEF m, d, k
  <2>3. /\ Tail(d) \in Seq(EventSet) /\ Len(Tail(d)) = m - 1
        /\ \A j \in 1 .. m - 1 : Tail(d)[j] = d[j + 1]
    BY <2>1, <2>2, HeadTailProperties
  <2>4. Tail(d) = [j \in 1 .. m - 1 |-> Tail(d)[j]]
    BY <2>3, LenProperties
  <2>5. \A j \in 1 .. m - 1 : j + 1 \in 1 .. m /\ k + (j + 1) = (k + 1) + j
    BY <1>8, <2>1
  <2>6. \A j \in 1 .. m - 1 : Tail(d)[j] = E[(k + 1) + j]
    BY <2>1, <2>3, <2>5
  <2> QED
    BY <2>2, <2>3, <2>4, <2>6
<1> HIDE DEF d, k
<1>12. /\ Event(t) = E[k + 1] /\ Event(t) \in EventSet /\ Names(Event(t), t)
       /\ t \in stored.names
       /\ \E n \in DOMAIN blocks : Event(t) \in ToSet(blocks[n].events)
  BY <1>2, <1>6, <1>8, <1>10
<1>13. /\ Legal(Before(E, k), E[k + 1])
       /\ h[k + 1] = RowAfter(h[k], Before(E, k), E[k + 1])
       /\ h[k + 1].owner # None
  BY <1>4, <1>8 DEF Trace
<1>14. /\ Legal(LastReplayed(t), Event(t))
       /\ RowAfter(RowIn(tables.rows, t), LastReplayed(t), Event(t)) = h[k + 1]
  BY <1>4, <1>5, <1>12, <1>13
<1>15. Event(t).type # "RemoveReverse" /\ Event(t).token = t
  BY <1>12 DEF Names
<1> QED
  BY <1>1, <1>2, <1>4, <1>5, <1>8, <1>11, <1>12, <1>13, <1>14, <1>15 DEF d, k, E

\* The event was replayed.
LEMMA ReplayedRows ==
    ASSUME RowsInv, NEW t \in Tokens, task[t] \in {"replay", "drop"}, todo[t] # <<>>,
           NEW new, Replayed(t, new),
           new = [names |-> tables.names, rows |-> new.rows, rev |-> new.rev,
                  broken |-> tables.broken],
           \/ new.rows = tables.rows /\ Event(t).type = "SetReverse"
           \/ new.rows = Put(tables.rows, t,
                             RowAfter(RowIn(tables.rows, t), LastReplayed(t), Event(t)))
    PROVE  RowsInv'
<1> DEFINE E   == EventsForDomain(t)
           k   == Len(E) - Len(todo[t])
           row == RowAfter(RowIn(tables.rows, t), LastReplayed(t), Event(t))
           f   == RowIn(StateAfter(fork).rows, t)
<1>1. /\ tables' = new /\ todo' = [todo EXCEPT ![t] = Tail(@)]
      /\ task' = [task EXCEPT ![t] = "replay"] /\ read' = [read EXCEPT ![t] = NothingRead]
      /\ rows' = rows /\ rev' = rev /\ kept' = kept /\ blocks' = blocks
      /\ fork' = fork /\ stored' = stored
  BY DEF Replayed, registryVars
<1>2. /\ fork # 0 /\ TablesInv /\ t \in stored.names
      /\ Len(E) \in Nat /\ Len(todo[t]) \in Nat /\ Len(todo[t]) <= Len(E)
      /\ k \in Nat /\ k + 1 \in 1 .. Len(E)
      /\ row.owner # None
      /\ Len(Tail(todo[t])) = Len(todo[t]) - 1
      /\ Tail(todo[t]) = [j \in 1 .. Len(todo[t]) - 1 |-> E[(k + 1) + j]]
      /\ \E h : Trace(E, h, f) /\ row = h[k + 1]
  BY EventAt
<1>3. Event(t).type = "SetReverse" => row = RowIn(tables.rows, t)
  BY DEF RowAfter
<1> HIDE DEF row
<1>4. /\ RowIn(new.rows, t) = row
      /\ \A u \in Tokens : u # t => RowIn(new.rows, u) = RowIn(tables.rows, u)
      /\ new.rows = [u \in DOMAIN new.rows |-> new.rows[u]]
      /\ DOMAIN new.rows \subseteq Tokens
      /\ \A u \in DOMAIN new.rows : new.rows[u].owner # None
  <2>1. CASE new.rows = tables.rows /\ Event(t).type = "SetReverse"
    BY <1>2, <1>3, <2>1 DEF TablesInv
  <2>2. CASE new.rows = Put(tables.rows, t, row)
    BY <1>2, <2>2, ZenonT(60) DEF TablesInv, Put, RowIn
  <2> QED
    BY <2>1, <2>2 DEF row
<1>5. /\ task \in [Tokens -> States]
      /\ todo = [u \in Tokens |-> todo[u]] /\ read = [u \in Tokens |-> read[u]]
  BY DEF RowsInv, RebuildInv, States
<1>6. /\ EventsForDomain(t)' = E /\ StateAfter(fork)' = StateAfter(fork)
      /\ todo'[t] = Tail(todo[t]) /\ task'[t] = "replay"
      /\ todo' = [u \in Tokens |-> todo'[u]] /\ \A u \in Tokens : u # t => todo'[u] = todo[u]
      /\ read' = [u \in Tokens |-> read'[u]]
  BY <1>1, <1>5 DEF EventsForDomain, StateAfter
<1>7. /\ Len(todo'[t]) \in 0 .. Len(E)
      /\ todo'[t] = [j \in 1 .. Len(todo'[t]) |-> E[(Len(E) - Len(todo'[t])) + j]]
      /\ \E h : Trace(E, h, f) /\ row = h[Len(E) - Len(todo'[t])]
  <2> DEFINE m == Len(todo'[t])
             l == Len(todo[t])
             N == Len(E)
  <2>1. /\ N \in Nat /\ l \in Nat /\ l <= N /\ k = N - l /\ k + 1 \in 1 .. N
        /\ m = l - 1
    BY <1>2, <1>6
  <2>2. todo'[t] = [j \in 1 .. l - 1 |-> E[(k + 1) + j]] /\ \E h : Trace(E, h, f) /\ row = h[k + 1]
    BY <1>2, <1>6
  <2> HIDE DEF m, l, N, k, E, f
  <2>3. m \in 0 .. N /\ N - m = k + 1
    BY <2>1
  <2>4. todo'[t] = [j \in 1 .. m |-> E[(N - m) + j]]
    BY <2>1, <2>2, <2>3
  <2> QED
    BY <2>2, <2>3, <2>4 DEF m, N
<1>8. TaskInv(t)'
  <2>1. f = RowIn(StateAfter(fork).rows, t)
    OBVIOUS
  <2> HIDE DEF E, f, k
  <2> QED
    BY <1>1, <1>4, <1>6, <1>7, <2>1 DEF TaskInv, Replays
<1>9. "replay" \in States
  BY DEF States
<1>10. tables' = [names |-> stored.names, rows |-> tables'.rows, rev |-> tables'.rev,
                  broken |-> FALSE]
  <2>1. tables.names = stored.names /\ tables.broken = FALSE
    BY <1>2 DEF TablesInv
  <2> QED
    BY <1>1, <2>1
<1>11. UNCHANGED <<registryVars, fork, stored>>
  BY <1>1 DEF registryVars
<1>12. task[t] # "none"
  OBVIOUS
<1>13. /\ \A u \in Tokens : u # t => RowIn(tables'.rows, u) = RowIn(tables.rows, u)
       /\ tables'.rows = [u \in DOMAIN tables'.rows |-> tables'.rows[u]]
       /\ DOMAIN tables'.rows \subseteq Tokens
       /\ \A u \in DOMAIN tables'.rows : tables'.rows[u].owner # None
  BY <1>1, <1>4
<1> HIDE DEF E, k, f
<1> QED
  BY <1>1, <1>6, <1>8, <1>9, <1>10, <1>11, <1>12, <1>13, RowsStep

LEMMA SaveIs ==
    ASSUME NEW v, v = [names |-> v.names, rows |-> v.rows, rev |-> v.rev, broken |-> FALSE],
           NEW t \in v.names, NEW c, c # Repo!NoChange, NEW w, w = Repo!SaveResolution(v, t, c)
    PROVE  /\ w = [names |-> v.names, rows |-> w.rows, rev |-> w.rev, broken |-> v.broken]
           /\ w.rows = Put(v.rows, t, Merged(c, RowIn(v.rows, t))) /\ w.rev = v.rev
<1> DEFINE new == Put(v.rows, t, Merged(c, RowIn(v.rows, t)))
<1>1. v.broken = FALSE
  OBVIOUS
<1>2. w = [v EXCEPT !.rows = new]
  BY <1>1 DEF Repo!SaveResolution, Repo!Executed, Repo!Updated, Repo!KnownNode, Repo!Put, Put,
              Merged, RowIn, Row
<1> HIDE DEF new
<1>3. PICK a, b, d : v = [names |-> a, rows |-> b, rev |-> d, broken |-> FALSE]
  OBVIOUS
<1>4. w = [names |-> a, rows |-> new, rev |-> d, broken |-> FALSE]
  BY <1>2, <1>3
<1>5. w.rows = new /\ w.rev = d /\ v.names = a /\ v.rev = d
  BY <1>3, <1>4
<1>6. w = [names |-> v.names, rows |-> w.rows, rev |-> w.rev, broken |-> v.broken]
  BY <1>1, <1>4, <1>5
<1> QED
  BY <1>5, <1>6 DEF new

\* What the handler of an event makes of the tables.
Handled(t, w) ==
    /\ w = [names |-> tables.names, rows |-> w.rows, rev |-> w.rev, broken |-> tables.broken]
    /\ w.rows = Put(tables.rows, t,
                    RowAfter(RowIn(tables.rows, t), LastReplayed(t), Event(t)))
    /\ w.rev = tables.rev

LEMMA SavedIs ==
    ASSUME RowsInv, NEW t \in Tokens, Replaying(t, Event(t).type),
           Event(t).type # "SetReverse", NEW c, c = Change(LastReplayed(t), Event(t)),
           c # Repo!NoChange
    PROVE  Handled(t, Repo!SaveResolution(tables, t, c))
<1>1. /\ TablesInv /\ t \in stored.names
  BY EventAt DEF Replaying
<1>2. /\ tables = [names |-> tables.names, rows |-> tables.rows, rev |-> tables.rev,
                   broken |-> FALSE]
      /\ tables.names = stored.names
  BY <1>1 DEF TablesInv
<1>3. RowAfter(RowIn(tables.rows, t), LastReplayed(t), Event(t))
        = Merged(c, RowIn(tables.rows, t))
  BY DEF RowAfter
<1> DEFINE w == Repo!SaveResolution(tables, t, c)
<1>4. /\ w = [names |-> tables.names, rows |-> w.rows, rev |-> w.rev, broken |-> tables.broken]
      /\ w.rows = Put(tables.rows, t, Merged(c, RowIn(tables.rows, t))) /\ w.rev = tables.rev
  <2> DEFINE v == tables
  <2>1. v = [names |-> v.names, rows |-> v.rows, rev |-> v.rev, broken |-> FALSE] /\ t \in v.names
    BY <1>1, <1>2
  <2>2. w = Repo!SaveResolution(v, t, c)
    OBVIOUS
  <2> HIDE DEF v, w
  <2>3. /\ w = [names |-> v.names, rows |-> w.rows, rev |-> w.rev, broken |-> v.broken]
        /\ w.rows = Put(v.rows, t, Merged(c, RowIn(v.rows, t))) /\ w.rev = v.rev
    BY <2>1, <2>2, SaveIs
  <2> QED
    BY <2>3 DEF v
<1> HIDE DEF w
<1>5. Handled(t, w)
  BY <1>3, <1>4 DEF Handled
<1> QED
  BY <1>5 DEF w

\* The handlers of the events that change the row.
LEMMA ReplayIs ==
    ASSUME RowsInv, NEW t \in Tokens,
           \/ ReplayTransfer(t) \/ ReplayNewUri(t) \/ ReplaySet(t) \/ ReplayResetRecords(t)
    PROVE  \E w : Handled(t, w) /\ Replayed(t, w)
<1> DEFINE e    == Event(t)
           last == LastReplayed(t)
           c    == Change(last, e)
<1>1. Replaying(t, e.type) /\ e.type \in {"Transfer", "NewURI", "Set", "ResetRecords"}
  BY DEF ReplayTransfer, ReplayNewUri, ReplaySet, ReplayResetRecords, Replaying
<1>2. /\ e \in EventSet /\ e.token = t /\ TablesInv /\ t \in stored.names /\ Legal(last, e)
  BY <1>1, EventAt DEF Replaying
<1> HIDE DEF e, last
<1>3. CASE e.type = "Transfer"
  <2>1. e.from \in Owners \cup {Null} /\ e.to \in Owners \cup {Null} /\ e.registry = "uns"
    BY <1>2, <1>3 DEF EventSet
  <2>2. c = TransferChange(e)
    BY <1>3 DEF Change
  <2>3. c # Repo!NoChange
    <3>1. CASE e.from = Null /\ e.to \in Owners
      BY <2>1, <2>2, <3>1, Marks, NoChangeIs DEF TransferChange, Minted
    <3>2. CASE e.from = Null /\ e.to = Null
      BY <2>1, <2>2, <3>2, Marks, NoChangeIs DEF TransferChange, Minted
    <3>3. CASE e.from # Null /\ e.to = Null
      BY <2>2, <3>3, Marks, NoChangeIs DEF TransferChange
    <3>4. CASE e.from # Null /\ e.to \in Owners
      <4>1. c = [Repo!NoChange EXCEPT !.owner = e.to] /\ e.to # Repo!Keep
        BY <2>2, <3>4, Marks DEF TransferChange
      <4> HIDE DEF c
      <4>2. c.owner = e.to
        BY <4>1, NoChangeIs
      <4> QED
        BY <4>1, <4>2, NoChangeIs
    <3> QED
      BY <2>1, <3>1, <3>2, <3>3, <3>4
  <2> HIDE DEF c
  <2>4. Handled(t, Repo!SaveResolution(tables, t, c))
    BY <1>1, <1>3, <2>3, SavedIs DEF c, e, last
  <2>5. Replayed(t, Repo!SaveResolution(tables, t, c))
    BY <1>1, <1>2, <1>3, <2>2 DEF ReplayTransfer, ReplayNewUri, ReplaySet, ReplayResetRecords,
       Replaying, AfterTransfer, e
  <2> QED
    BY <2>4, <2>5
<1>4. CASE e.type = "NewURI"
  <2>1. e.registry = "uns" /\ IsMint(last) /\ last.to \in Owners
    BY <1>2, <1>4 DEF EventSet, Legal
  <2>2. c = Minted(last.to, e.registry)
    BY <1>4 DEF Change
  <2>3. c # Repo!NoChange
    <3>1. c.owner = last.to
      BY <2>2, NoChangeIs DEF Minted
    <3> QED
      BY <2>1, <3>1, Marks, NoChangeIs
  <2> HIDE DEF c
  <2>4. Handled(t, Repo!SaveResolution(tables, t, c))
    BY <1>1, <1>4, <2>3, SavedIs DEF c, e, last
  <2>5. Replayed(t, AfterNewUri(tables, stored.names, last, e))
    BY <1>1, <1>4 DEF ReplayTransfer, ReplayNewUri, ReplaySet, ReplayResetRecords,
       Replaying, e, last
  <2>6. Repo!SaveDomain(tables, stored.names, t) = tables
    BY <1>2 DEF Repo!SaveDomain, Repo!Executed
  <2>7. AfterNewUri(tables, stored.names, last, e) = Repo!SaveResolution(tables, t, c)
    BY <1>2, <2>1, <2>2, <2>6 DEF AfterNewUri
  <2> QED
    BY <2>4, <2>5, <2>7
<1>5. CASE e.type = "Set"
  <2>1. c = [Repo!NoChange EXCEPT !.records = Only(e.key, e.value)]
    BY <1>5 DEF Change
  <2>2. c # Repo!NoChange
    <3>1. c.records = Only(e.key, e.value)
      BY <2>1, NoChangeIs
    <3>2. e.key \in DOMAIN Only(e.key, e.value) /\ DOMAIN NoRecords = {}
      BY EmptyRecords DEF Only
    <3> HIDE DEF c
    <3> QED
      BY <3>1, <3>2, NoChangeIs
  <2> HIDE DEF c
  <2>3. Handled(t, Repo!SaveResolution(tables, t, c))
    BY <1>1, <1>5, <2>2, SavedIs DEF c, e, last
  <2>4. Replayed(t, Repo!SaveResolution(tables, t, c))
    BY <1>1, <1>2, <1>5, <2>1 DEF ReplayTransfer, ReplayNewUri, ReplaySet, ReplayResetRecords,
       Replaying, AfterSet, e
  <2> QED
    BY <2>3, <2>4
<1>6. CASE e.type = "ResetRecords"
  <2>1. c = [Repo!NoChange EXCEPT !.clear = TRUE]
    BY <1>6 DEF Change
  <2>2. c # Repo!NoChange
    <3>1. c.clear = TRUE
      BY <2>1, NoChangeIs
    <3> QED
      BY <3>1, NoChangeIs
  <2> HIDE DEF c
  <2>3. Handled(t, Repo!SaveResolution(tables, t, c))
    BY <1>1, <1>6, <2>2, SavedIs DEF c, e, last
  <2>4. Replayed(t, Repo!SaveResolution(tables, t, c))
    BY <1>1, <1>2, <1>6, <2>1 DEF ReplayTransfer, ReplayNewUri, ReplaySet, ReplayResetRecords,
       Replaying, AfterResetRecords, e
  <2> QED
    BY <2>3, <2>4
<1> QED
  BY <1>1, <1>3, <1>4, <1>5, <1>6

LEMMA ReplayRows ==
    ASSUME RowsInv, NEW t \in Tokens,
           \/ ReplayTransfer(t) \/ ReplayNewUri(t) \/ ReplaySet(t) \/ ReplayResetRecords(t)
    PROVE  RowsInv'
<1>1. PICK w : Handled(t, w) /\ Replayed(t, w)
  BY ReplayIs
<1>2. task[t] = "replay" /\ todo[t] # <<>>
  BY DEF ReplayTransfer, ReplayNewUri, ReplaySet, ReplayResetRecords, Replaying
<1> QED
  BY <1>1, <1>2, ReplayedRows DEF Handled

\* The steps of the handler of SetReverse, and the end.
LEMMA OtherRows ==
    ASSUME RowsInv, NEW t \in Tokens,
           \/ ReadReverse(t) \/ SaveReverseRow(t) \/ EndRebuild(t)
    PROVE  RowsInv'
<1>1. PICK s \in {"save", "drop", "done"} :
        /\ task' = [task EXCEPT ![t] = s]
        /\ s = "done" => task[t] = "replay" /\ todo[t] = <<>>
        /\ s # "done" => /\ task[t] \in {"replay", "save"}
                         /\ todo[t] # <<>> /\ Event(t).type = "SetReverse"
  <2>1. CASE ReadReverse(t)
    BY <2>1 DEF ReadReverse, Replaying
  <2>2. CASE SaveReverseRow(t)
    <3>1. todo[t] # <<>> /\ Event(t).type = "SetReverse"
      BY <2>2 DEF SaveReverseRow, RowsInv, RebuildInv, TaskInv
    <3> QED
      BY <2>2, <3>1 DEF SaveReverseRow
  <2>3. CASE EndRebuild(t)
    BY <2>3 DEF EndRebuild
  <2> QED
    BY <2>1, <2>2, <2>3
<1>2. /\ fork # 0 /\ TablesInv /\ task \in [Tokens -> States]
      /\ todo = [u \in Tokens |-> todo[u]] /\ read = [u \in Tokens |-> read[u]]
      /\ TaskInv(t)
  BY <1>1 DEF RowsInv, RebuildInv, States
<1>3. /\ UNCHANGED <<registryVars, fork, stored>>
      /\ tables'.rows = tables.rows
      /\ tables' = [names |-> stored.names, rows |-> tables'.rows, rev |-> tables'.rev,
                    broken |-> FALSE]
      /\ todo' = todo
      /\ read' = [u \in Tokens |-> read'[u]]
  <2>1. PICK a, b : tables = [names |-> stored.names, rows |-> a, rev |-> b, broken |-> FALSE]
    BY <1>2 DEF TablesInv
  <2>2. CASE ReadReverse(t)
    BY <1>2, <2>1, <2>2 DEF ReadReverse, registryVars
  <2>3. CASE SaveReverseRow(t)
    BY <1>2, <2>1, <2>3 DEF SaveReverseRow, registryVars
  <2>4. CASE EndRebuild(t)
    BY <1>2, <2>1, <2>4 DEF EndRebuild, registryVars
  <2> QED
    BY <2>2, <2>3, <2>4
<1> DEFINE E == EventsForDomain(t)
           f == RowIn(StateAfter(fork).rows, t)
<1>4. /\ E' = E /\ StateAfter(fork)' = StateAfter(fork) /\ task'[t] = s
  BY <1>1, <1>2, <1>3 DEF EventsForDomain, StateAfter, registryVars
<1>5. TaskInv(t)'
  <2>1. Replays(t, E, RowIn(tables.rows, t), f)
    BY <1>1, <1>2 DEF TaskInv
  <2>2. CASE s # "done"
    <3>1. s \in {"save", "drop"}
      BY <1>1, <2>2
    <3> HIDE DEF E
    <3> QED
      BY <1>1, <1>3, <1>4, <2>1, <3>1 DEF TaskInv, Replays, Event, E
  <2>3. CASE s = "done"
    <3>1. Len(todo[t]) = 0
      BY <1>1, <2>3
    <3>2. Len(E) \in Nat
      BY <1>2, EventsOf
    <3>3. RowIn(tables.rows, t) = f
      <4> HIDE DEF E, f
      <4>1. PICK h : Trace(E, h, f) /\ RowIn(tables.rows, t) = h[Len(E) - 0]
        BY <2>1, <3>1 DEF Replays
      <4>2. Len(E) - 0 = Len(E)
        BY <3>2
      <4> QED
        BY <4>1, <4>2 DEF Trace
    <3> QED
      BY <1>3, <1>4, <2>3, <3>3 DEF TaskInv
  <2> QED
    BY <2>2, <2>3
<1>6. task[t] # "none" /\ s \in States
  BY <1>1 DEF States
<1>7. /\ todo' = [u \in Tokens |-> todo'[u]] /\ \A u \in Tokens : u # t => todo'[u] = todo[u]
      /\ tables'.rows = [u \in DOMAIN tables'.rows |-> tables'.rows[u]]
      /\ DOMAIN tables'.rows \subseteq Tokens
      /\ \A u \in DOMAIN tables'.rows : tables'.rows[u].owner # None
      /\ \A u \in Tokens : u # t => RowIn(tables'.rows, u) = RowIn(tables.rows, u)
  BY <1>2, <1>3 DEF TablesInv
<1> QED
  BY <1>1, <1>3, <1>5, <1>6, <1>7, RowsStep

LEMMA DropRows ==
    ASSUME RowsInv, NEW t \in Tokens, DropReverseRow(t)
    PROVE  RowsInv'
<1>1. /\ task[t] = "drop" /\ Replayed(t, [tables EXCEPT !.rev = @ \ read[t].old])
  BY DEF DropReverseRow
<1>2. /\ fork # 0 /\ TablesInv /\ todo[t] # <<>> /\ Event(t).type = "SetReverse"
  BY <1>1 DEF RowsInv, RebuildInv, TaskInv
<1>3. PICK a, b : tables = [names |-> stored.names, rows |-> a, rev |-> b, broken |-> FALSE]
  BY <1>2 DEF TablesInv
<1>4. PICK w : w = [tables EXCEPT !.rev = @ \ read[t].old]
  OBVIOUS
<1>5. /\ w = [names |-> tables.names, rows |-> w.rows, rev |-> w.rev, broken |-> tables.broken]
      /\ w.rows = tables.rows
  BY <1>3, <1>4
<1> QED
  BY <1>1, <1>2, <1>4, <1>5, ReplayedRows

LEMMA RebuildRows ==
    ASSUME RowsInv, NEW t \in Tokens, Rebuild(t)
    PROVE  RowsInv'
BY RemoveAllRows, ReplayRows, OtherRows, DropRows DEF Rebuild

-----------------------------------------------------------------------------
(* The rebuilds: the reverse resolutions *)

\* What the rebuild of t is to save, and the row of the address it is to drop.
Read(t) ==
    \A o \in read[t].own :
        /\ IsReverseRow(o) /\ o[2] = t /\ SetInEvents(o)
        /\ \A r : Untouched(r) /\ r[1] = o[1] => read[t].old = {r} \/ Dropped(r)

\* A step of the rebuild of t: the rows it leaves of t are explained, and those of
\* domains that are not rebuilt are still to be dropped if they were.
LEMMA ReverseStep ==
    ASSUME RowsInv, ReverseInv, NEW t \in Tokens, task[t] # "none",
           UNCHANGED <<registryVars, fork, stored>>,
           NEW s \in {"replay", "save", "drop", "done"}, task' = [task EXCEPT ![t] = s],
           \A u \in Tokens : u # t => read'[u] = read[u],
           \A r \in tables'.rev : r \in tables.rev \/ (IsReverseRow(r) /\ r[2] = t),
           \A r \in tables'.rev : r[2] = t => SetInEvents(r),
           \A r : Untouched(r)' /\ Dropped(r) => Dropped(r)',
           \A r : Untouched(r)' =>
              \A x \in tables'.rev \ tables.rev : x[1] = r[1] => Dropped(r)',
           s = "save" => Read(t)'
    PROVE  ReverseInv'
<1>1. /\ blocks' = blocks /\ fork' = fork /\ stored' = stored
      /\ fork # 0 /\ task \in [Tokens -> States]
  BY DEF registryVars, RowsInv, RebuildInv, States
<1>2. /\ task'[t] = s /\ \A u \in Tokens : u # t => task'[u] = task[u]
  BY <1>1
<1>3. \A r : SetInEvents(r)' <=> SetInEvents(r)
  BY <1>1 DEF SetInEvents
<1>4. /\ \A r \in stored.rev : IsReverseRow(r)
      /\ \A r \in tables.rev :
             /\ IsReverseRow(r)
             /\ \/ r \in stored.rev /\ task[r[2]] \in {"none", "remove"}
                \/ SetInEvents(r)
      /\ \A u \in Tokens : task[u] = "save" => Read(u)
      /\ \A r, x \in tables.rev : Untouched(r) /\ x[1] = r[1] /\ x # r => Dropped(r)
  BY <1>1 DEF ReverseInv, Read
<1>5. ASSUME NEW r, Untouched(r)' PROVE Untouched(r) /\ r \in tables.rev /\ r \in tables'.rev
  <2>1. r \in tables'.rev /\ task'[r[2]] = "none"
    BY <1>5 DEF Untouched
  <2>2. r[2] # t
    BY <1>2, <2>1
  <2>3. r \in tables.rev /\ r[2] \in Tokens
    BY <1>4, <2>1, <2>2 DEF IsReverseRow
  <2> QED
    BY <1>2, <2>1, <2>2, <2>3 DEF Untouched
<1>6. ASSUME NEW r \in tables'.rev
      PROVE  /\ IsReverseRow(r)
             /\ \/ r \in stored.rev /\ task'[r[2]] \in {"none", "remove"}
                \/ SetInEvents(r)
  <2>1. IsReverseRow(r)
    BY <1>4
  <2>2. CASE r[2] = t
    BY <2>1, <2>2
  <2>3. CASE r[2] # t
    <3>1. r \in tables.rev /\ task'[r[2]] = task[r[2]]
      BY <1>2, <2>1, <2>3 DEF IsReverseRow
    <3> QED
      BY <1>4, <3>1
  <2> QED
    BY <2>2, <2>3
<1>7. ASSUME NEW u \in Tokens, task'[u] = "save" PROVE Read(u)'
  <2>1. CASE u = t
    BY <1>2, <1>7, <2>1
  <2>2. CASE u # t
    <3>1. Read(u) /\ read'[u] = read[u]
      BY <1>2, <1>4, <1>7, <2>2
    <3>2. ASSUME NEW o \in read[u].own
          PROVE  /\ IsReverseRow(o) /\ o[2] = u /\ SetInEvents(o)
                 /\ \A r : Untouched(r)' /\ r[1] = o[1] => read[u].old = {r} \/ Dropped(r)'
      BY <1>5, <3>1, <3>2 DEF Read
    <3> QED
      BY <1>3, <3>1, <3>2 DEF Read, IsReverseRow
  <2> QED
    BY <2>1, <2>2
<1>8. ASSUME NEW r \in tables'.rev, NEW x \in tables'.rev, Untouched(r)', x[1] = r[1], x # r
      PROVE  Dropped(r)'
  <2>1. CASE x \in tables.rev
    BY <1>4, <1>5, <1>8, <2>1
  <2>2. CASE x \notin tables.rev
    BY <1>8, <2>2
  <2> QED
    BY <2>1, <2>2
<1> QED
  BY <1>1, <1>3, <1>4, <1>6, <1>7, <1>8 DEF ReverseInv, Read, IsReverseRow

\* A row that is there while the domain is rebuilt stems from an event.
LEMMA Explained ==
    ASSUME RowsInv, ReverseInv, NEW t \in Tokens, task[t] \in {"replay", "save", "drop", "done"},
           NEW r \in tables.rev, r[2] = t
    PROVE  SetInEvents(r)
BY DEF ReverseInv, RowsInv, RebuildInv

LEMMA RemoveAllReverse ==
    ASSUME RowsInv, ReverseInv, NEW t \in Tokens, RemoveAll(t)
    PROVE  ReverseInv'
<1>1. /\ task[t] = "remove" /\ task' = [task EXCEPT ![t] = "replay"]
      /\ read' = read /\ UNCHANGED <<registryVars, fork, stored>>
  BY DEF RemoveAll
<1>2. fork # 0 /\ TablesInv /\ task \in [Tokens -> States]
  BY <1>1 DEF RowsInv, RebuildInv, States
<1>3. tables'.rev = tables.rev \ ReverseOf(t)
  <2>1. PICK a, b : tables = [names |-> stored.names, rows |-> a, rev |-> b, broken |-> FALSE]
    BY <1>2 DEF TablesInv
  <2> DEFINE R == [u \in DOMAIN tables.rows \ {t} |-> tables.rows[u]]
             V == tables.rev \ ReverseOf(t)
  <2>2. tables' = [tables EXCEPT !.rows = R, !.rev = V]
    BY DEF RemoveAll
  <2> HIDE DEF R, V
  <2>3. tables' = [names |-> stored.names, rows |-> R, rev |-> V, broken |-> FALSE]
    BY <2>1, <2>2
  <2> QED
    BY <2>3 DEF V
<1>4. ASSUME NEW r \in tables'.rev, r[2] = t PROVE SetInEvents(r)
  <2>1. r \in tables.rev /\ r \notin stored.rev
    BY <1>3, <1>4 DEF ReverseOf
  <2> QED
    BY <1>2, <2>1 DEF ReverseInv
<1>5. ASSUME NEW r, Dropped(r) PROVE Dropped(r)'
  BY <1>1, <1>2, <1>5 DEF Dropped
<1> QED
  BY <1>1, <1>3, <1>4, <1>5, ReverseStep

LEMMA ReplayReverse ==
    ASSUME RowsInv, ReverseInv, NEW t \in Tokens,
           \/ ReplayTransfer(t) \/ ReplayNewUri(t) \/ ReplaySet(t) \/ ReplayResetRecords(t)
    PROVE  ReverseInv'
<1>1. PICK w : Handled(t, w) /\ Replayed(t, w)
  BY ReplayIs
<1>2. task[t] = "replay"
  BY DEF ReplayTransfer, ReplayNewUri, ReplaySet, ReplayResetRecords, Replaying
<1>3. /\ task' = [task EXCEPT ![t] = "replay"] /\ read' = [read EXCEPT ![t] = NothingRead]
      /\ UNCHANGED <<registryVars, fork, stored>> /\ tables'.rev = tables.rev
  BY <1>1 DEF Handled, Replayed
<1>4. task \in [Tokens -> States] /\ read = [u \in Tokens |-> read[u]]
  BY DEF RowsInv, RebuildInv, States
<1>5. \A u \in Tokens : u # t => read'[u] = read[u]
  BY <1>3, <1>4
<1>6. ASSUME NEW r \in tables'.rev, r[2] = t PROVE SetInEvents(r)
  BY <1>2, <1>3, <1>6, Explained
<1>7. ASSUME NEW r, Dropped(r) PROVE Dropped(r)'
  <2>1. PICK d \in Tokens : task[d] = "drop" /\ read[d].old = {r}
    BY <1>7 DEF Dropped
  <2>2. d # t
    BY <1>2, <2>1
  <2>3. task'[d] = "drop" /\ read'[d].old = {r}
    BY <1>3, <1>4, <1>5, <2>1, <2>2
  <2> QED
    BY <2>3 DEF Dropped
<1> QED
  BY <1>2, <1>3, <1>5, <1>6, <1>7, ReverseStep

LEMMA ReadReverseKeeps ==
    ASSUME RowsInv, ReverseInv, NEW t \in Tokens, ReadReverse(t)
    PROVE  ReverseInv'
<1> DEFINE addr == Event(t).addr
           mine == {r \in tables.rev : r[2] = t}
           found == {r \in tables.rev : r[1] = addr}
           own == IF mine = {} THEN {<<addr, t>>} ELSE mine
<1>1. /\ task[t] = "replay" /\ todo[t] # <<>> /\ Event(t).type = "SetReverse"
      /\ task' = [task EXCEPT ![t] = "save"] /\ tables' = tables
      /\ UNCHANGED <<registryVars, fork, stored>>
  BY DEF ReadReverse, Replaying
<1>2. PICK old : /\ old \in IF found = {} THEN {{}} ELSE {{r} : r \in found}
                 /\ read' = [read EXCEPT ![t] = [own |-> own, old |-> old]]
  BY DEF ReadReverse
<1>3. /\ fork # 0 /\ task \in [Tokens -> States] /\ read = [u \in Tokens |-> read[u]]
  BY <1>1 DEF RowsInv, RebuildInv, States
<1>4. /\ Event(t) \in EventSet /\ Event(t).token = t
      /\ \E n \in DOMAIN blocks : Event(t) \in ToSet(blocks[n].events)
  BY <1>1, EventAt
<1>5. Event(t) = [type |-> "SetReverse", token |-> t, addr |-> addr]
  BY <1>1, <1>4 DEF EventSet
<1>6. IsReverseRow(<<addr, t>>) /\ SetInEvents(<<addr, t>>)
  BY <1>4, <1>5 DEF IsReverseRow, SetInEvents
<1>7. /\ read'[t].own = own /\ read'[t].old = old /\ \A u \in Tokens : u # t => read'[u] = read[u]
  <2> HIDE DEF own
  <2> QED
    BY <1>2, <1>3
<1>8. ASSUME NEW r, Dropped(r) PROVE Dropped(r)'
  <2>1. PICK d \in Tokens : task[d] = "drop" /\ read[d].old = {r}
    BY <1>8 DEF Dropped
  <2>2. d # t
    BY <1>1, <2>1
  <2>3. task'[d] = "drop" /\ read'[d].old = {r}
    BY <1>1, <1>3, <1>7, <2>1, <2>2
  <2> QED
    BY <2>3 DEF Dropped
<1>9. \A r : Untouched(r)' => Untouched(r) /\ r \in tables.rev /\ r[2] # t
  <2>1. ASSUME NEW r, Untouched(r)' PROVE Untouched(r) /\ r \in tables.rev /\ r[2] # t
    <3>1. r \in tables.rev /\ task'[r[2]] = "none"
      BY <1>1, <2>1 DEF Untouched
    <3>2. r[2] \in Tokens
      BY <1>3, <3>1 DEF ReverseInv, IsReverseRow
    <3> QED
      BY <1>1, <1>3, <3>1, <3>2 DEF Untouched
  <2> QED
    BY <2>1
<1>10. ASSUME NEW o \in own
       PROVE  /\ IsReverseRow(o) /\ o[2] = t /\ SetInEvents(o)
              /\ \A r : Untouched(r)' /\ r[1] = o[1] => old = {r} \/ Dropped(r)'
  <2>1. CASE o \in mine
    <3>1. o \in tables.rev /\ o[2] = t
      BY <2>1
    <3>2. IsReverseRow(o) /\ SetInEvents(o)
      BY <1>1, <1>3, <3>1, Explained DEF ReverseInv
    <3>3. ASSUME NEW r, Untouched(r)', r[1] = o[1] PROVE Dropped(r)'
      BY <1>3, <1>8, <1>9, <3>1, <3>3 DEF ReverseInv
    <3> QED
      BY <3>1, <3>2, <3>3
  <2>2. CASE o = <<addr, t>>
    <3>1. o[1] = addr /\ o[2] = t
      BY <2>2
    <3>2. ASSUME NEW r, Untouched(r)', r[1] = addr PROVE old = {r} \/ Dropped(r)'
      <4>1. Untouched(r) /\ r \in tables.rev /\ r \in found
        BY <1>9, <3>2
      <4>2. PICK x \in found : old = {x}
        BY <1>2, <4>1
      <4>3. x \in tables.rev /\ x[1] = r[1]
        BY <3>2, <4>2
      <4>4. x # r => Dropped(r)
        BY <1>3, <4>1, <4>3 DEF ReverseInv
      <4> QED
        BY <1>8, <4>2, <4>4
    <3> QED
      BY <1>6, <2>2, <3>1, <3>2
  <2> QED
    BY <2>1, <2>2
<1>11. \A r : SetInEvents(r)' <=> SetInEvents(r)
  BY <1>1 DEF SetInEvents, registryVars
<1> HIDE DEF own
<1>12. Read(t)'
  BY <1>7, <1>10, <1>11 DEF Read, IsReverseRow
<1>13. ASSUME NEW r \in tables'.rev, r[2] = t PROVE SetInEvents(r)
  BY <1>1, <1>13, Explained
<1> QED
  BY <1>1, <1>7, <1>8, <1>12, <1>13, ReverseStep

LEMMA SaveReverseKeeps ==
    ASSUME RowsInv, ReverseInv, NEW t \in Tokens, SaveReverseRow(t)
    PROVE  ReverseInv'
<1>1. /\ task[t] = "save" /\ task' = [task EXCEPT ![t] = "drop"] /\ read' = read
      /\ UNCHANGED <<registryVars, fork, stored>>
  BY DEF SaveReverseRow
<1>2. /\ fork # 0 /\ TablesInv /\ task \in [Tokens -> States]
  BY <1>1 DEF RowsInv, RebuildInv, States
<1>3. tables'.rev = tables.rev \cup read[t].own
  <2>1. PICK a, b : tables = [names |-> stored.names, rows |-> a, rev |-> b, broken |-> FALSE]
    BY <1>2 DEF TablesInv
  <2> QED
    BY <2>1 DEF SaveReverseRow
<1>4. Read(t)
  BY <1>1, <1>2 DEF ReverseInv, Read
<1>5. \A r \in tables'.rev : r \in tables.rev \/ (IsReverseRow(r) /\ r[2] = t)
  BY <1>3, <1>4 DEF Read
<1>6. ASSUME NEW r \in tables'.rev, r[2] = t PROVE SetInEvents(r)
  BY <1>1, <1>3, <1>4, <1>6, Explained DEF Read
<1>7. /\ task'[t] = "drop" /\ \A u \in Tokens : u # t => task'[u] = task[u]
  BY <1>1, <1>2
<1>8. ASSUME NEW r, Dropped(r) PROVE Dropped(r)'
  BY <1>1, <1>7, <1>8 DEF Dropped
<1>9. ASSUME NEW r, Untouched(r)' PROVE Untouched(r)
  <2>1. r \in tables'.rev /\ task'[r[2]] = "none"
    BY <1>9 DEF Untouched
  <2>2. r[2] # t
    BY <1>7, <2>1
  <2>3. r \in tables.rev /\ r[2] \in Tokens
    BY <1>2, <1>5, <2>1, <2>2 DEF IsReverseRow, ReverseInv
  <2> QED
    BY <1>7, <2>1, <2>2, <2>3 DEF Untouched
<1>10. ASSUME NEW r, Untouched(r)', NEW x \in tables'.rev \ tables.rev, x[1] = r[1]
       PROVE  Dropped(r)'
  <2>1. x \in read[t].own
    BY <1>3
  <2>2. read[t].old = {r} \/ Dropped(r)
    BY <1>4, <1>9, <1>10, <2>1 DEF Read
  <2>3. read[t].old = {r} => Dropped(r)'
    BY <1>1, <1>7 DEF Dropped
  <2> QED
    BY <1>8, <2>2, <2>3
<1> QED
  BY <1>1, <1>5, <1>6, <1>8, <1>10, ReverseStep

LEMMA DropReverseKeeps ==
    ASSUME RowsInv, ReverseInv, NEW t \in Tokens, DropReverseRow(t)
    PROVE  ReverseInv'
<1>1. /\ task[t] = "drop" /\ task' = [task EXCEPT ![t] = "replay"]
      /\ tables' = [tables EXCEPT !.rev = @ \ read[t].old]
      /\ read' = [read EXCEPT ![t] = NothingRead]
      /\ UNCHANGED <<registryVars, fork, stored>>
  BY DEF DropReverseRow, Replayed
<1>2. /\ fork # 0 /\ TablesInv /\ task \in [Tokens -> States] /\ read = [u \in Tokens |-> read[u]]
  BY <1>1 DEF RowsInv, RebuildInv, States
<1>3. tables'.rev = tables.rev \ read[t].old
  <2>1. PICK a, b : tables = [names |-> stored.names, rows |-> a, rev |-> b, broken |-> FALSE]
    BY <1>2 DEF TablesInv
  <2> QED
    BY <1>1, <2>1
<1>4. /\ \A u \in Tokens : u # t => read'[u] = read[u] /\ task'[u] = task[u]
  BY <1>1, <1>2
<1>5. ASSUME NEW r \in tables'.rev, r[2] = t PROVE SetInEvents(r)
  BY <1>1, <1>3, <1>5, Explained
<1>6. ASSUME NEW r, Untouched(r)', Dropped(r) PROVE Dropped(r)'
  <2>1. PICK d \in Tokens : task[d] = "drop" /\ read[d].old = {r}
    BY <1>6 DEF Dropped
  <2>2. d # t
    BY <1>3, <1>6, <2>1 DEF Untouched
  <2>3. task'[d] = "drop" /\ read'[d].old = {r}
    BY <1>4, <2>1, <2>2
  <2> QED
    BY <2>3 DEF Dropped
<1>7. \A r \in tables'.rev : r \in tables.rev
  BY <1>3
<1> QED
  BY <1>1, <1>4, <1>5, <1>6, <1>7, ReverseStep

LEMMA EndReverse ==
    ASSUME RowsInv, ReverseInv, NEW t \in Tokens, EndRebuild(t)
    PROVE  ReverseInv'
<1>1. /\ task[t] = "replay" /\ task' = [task EXCEPT ![t] = "done"]
      /\ tables' = tables /\ read' = read /\ UNCHANGED <<registryVars, fork, stored>>
  BY DEF EndRebuild
<1>2. task \in [Tokens -> States]
  BY DEF RowsInv, RebuildInv, States
<1>3. ASSUME NEW r \in tables'.rev, r[2] = t PROVE SetInEvents(r)
  BY <1>1, <1>3, Explained
<1>4. ASSUME NEW r, Dropped(r) PROVE Dropped(r)'
  BY <1>1, <1>2, <1>4 DEF Dropped
<1> QED
  BY <1>1, <1>3, <1>4, ReverseStep

LEMMA RebuildReverse ==
    ASSUME RowsInv, ReverseInv, NEW t \in Tokens, Rebuild(t)
    PROVE  ReverseInv'
BY RemoveAllReverse, ReplayReverse, ReadReverseKeeps, SaveReverseKeeps, DropReverseKeeps,
   EndReverse DEF Rebuild

-----------------------------------------------------------------------------
(* The theorems *)

LEMMA InitInv == Init => ReorgInv
<1> SUFFICES ASSUME Init PROVE ReorgInv
  OBVIOUS
<1>1. RowsInv
  BY InitRows
<1>2. ReverseInv
  BY DEF Init, ReverseInv
<1> QED
  BY <1>1, <1>2 DEF ReorgInv

LEMMA StepInv ==
    ASSUME ReorgInv, [Next]_vars
    PROVE  ReorgInv'
<1>1. CASE fork = 0 /\ RegistryStep /\ UNCHANGED <<fork, stored, tables, task, todo, read>>
  <2>1. /\ fork' = fork /\ stored' = stored /\ tables' = tables /\ task' = task
        /\ todo' = todo /\ read' = read
    BY <1>1
  <2>2. BlocksInv' /\ HeadInv'
    BY <1>1, <2>1, RegistryKeeps DEF ReorgInv, RowsInv
  <2>3. RebuildInv'
    BY <1>1, <2>1 DEF ReorgInv, RowsInv, RebuildInv
  <2>4. ReverseInv'
    BY <1>1, <2>1 DEF ReverseInv
  <2> QED
    BY <2>2, <2>3, <2>4 DEF ReorgInv, RowsInv
<1>2. ASSUME NEW n \in 1 .. Len(blocks) - 1, Reorg(n)
      PROVE  ReorgInv'
  BY <1>2, ReorgRows, ReorgReverse DEF ReorgInv
<1>3. ASSUME NEW t \in Tokens, Rebuild(t)
      PROVE  ReorgInv'
  BY <1>3, RebuildRows, RebuildReverse DEF ReorgInv
<1>4. CASE UNCHANGED vars
  <2>1. /\ rows' = rows /\ rev' = rev /\ blocks' = blocks /\ fork' = fork
        /\ stored' = stored /\ tables' = tables /\ task' = task
        /\ todo' = todo /\ read' = read
    BY <1>4 DEF vars, registryVars
  <2>2. BlocksInv' /\ HeadInv'
    BY <2>1 DEF ReorgInv, RowsInv, BlocksInv, HeadInv
  <2>3. RebuildInv'
    <3>1. TablesInv => TablesInv'
      BY <2>1 DEF TablesInv
    <3>2. ASSUME NEW t \in Tokens, TaskInv(t) PROVE TaskInv(t)'
      <4>1. /\ EventsForDomain(t)' = EventsForDomain(t)
            /\ StateAfter(fork)' = StateAfter(fork)
        BY <2>1 DEF EventsForDomain, StateAfter
      <4> QED
        BY <2>1, <3>2, <4>1 DEF TaskInv, Replays, Event
    <3> QED
      BY <2>1, <3>1, <3>2 DEF ReorgInv, RowsInv, RebuildInv
  <2>4. ReverseInv'
    <3>1. \A r : /\ Untouched(r)' <=> Untouched(r)
                 /\ Dropped(r)' <=> Dropped(r)
                 /\ SetInEvents(r)' <=> SetInEvents(r)
                 /\ IsReverseRow(r)' <=> IsReverseRow(r)
      BY <2>1 DEF Untouched, Dropped, SetInEvents, IsReverseRow
    <3> QED
      BY <2>1, <3>1 DEF ReorgInv, ReverseInv, IsReverseRow
  <2> QED
    BY <2>2, <2>3, <2>4 DEF ReorgInv, RowsInv
<1> QED
  BY <1>1, <1>2, <1>3, <1>4 DEF Next

\* The inductive invariant: the events of a token tell its row after every block;
\* a rebuild has the row after the events it has replayed; and a rebuild that gave
\* another domain's address away is about to drop that domain's row.
THEOREM RebuildInvariant == Spec => []ReorgInv
BY InitInv, StepInv, PTL DEF Spec

\* handleReorg (BaseWorker.ts:79) leaves the rows as they were after the last matching
\* block, in whatever order the rebuilds run.
THEOREM RowsAreReverted == Spec => []RowsReverted
<1>1. ReorgInv => RowsReverted
  <2> SUFFICES ASSUME ReorgInv, Rebuilt PROVE tables.rows = StateAfter(fork).rows
    BY DEF RowsReverted
  <2> DEFINE R == tables.rows
             S == StateAfter(fork).rows
  <2>1. /\ fork # 0 /\ fork \in Nat /\ Len(blocks) = fork /\ TablesInv
        /\ \A t \in Tokens : RowIn(R, t) = RowIn(S, t)
    BY DEF Rebuilt, ReorgInv, RowsInv, RebuildInv, TaskInv
  <2>2. IsTable(S)
    BY <2>1 DEF ReorgInv, RowsInv, BlocksInv, StateAfter
  <2>3. \A t \in DOMAIN S : S[t].owner # None
    BY <2>2, RowIs, Marks DEF IsTable, IsHeadRow, Burnt
  <2>4. /\ R = [t \in DOMAIN R |-> R[t]] /\ DOMAIN R \subseteq Tokens
        /\ \A t \in DOMAIN R : R[t].owner # None
    BY <2>1 DEF TablesInv
  <2>5. S = [t \in DOMAIN S |-> S[t]] /\ DOMAIN S \subseteq Tokens
    BY <2>2 DEF IsTable
  <2>6. Repo!NewRow.owner = None
    BY DEF Repo!NewRow, Repo!Absent, None
  <2> HIDE DEF R, S
  <2>7. DOMAIN R = DOMAIN S
    BY <2>1, <2>3, <2>4, <2>5, <2>6 DEF RowIn
  <2>8. \A t \in DOMAIN R : R[t] = S[t]
    BY <2>1, <2>4, <2>7 DEF RowIn
  <2>9. R = S
    BY <2>4, <2>5, <2>7, <2>8
  <2> QED
    BY <2>9 DEF R, S
<1> QED
  BY <1>1, RebuildInvariant, PTL

\* During the rebuilds and after them, a reverse resolution of a domain that was
\* cleared stems from an event that is left (WorkerRepository.ts:292).
THEOREM ReverseIsExplained == Spec => []ReverseExplained
<1>1. ReorgInv => ReverseExplained
  BY DEF ReorgInv, ReverseInv, ReverseExplained
<1> QED
  BY <1>1, RebuildInvariant, PTL

\* An address that resolves to two domains after the rebuilds got both from events
\* that are left, by two rebuilds that did not see each other's row
\* (WorkerRepository.ts:169); the script that removes duplicates keeps both.
THEOREM SharedAddressIsExplained == Spec => []SharedAddressExplained
<1>1. ReorgInv => SharedAddressExplained
  <2> SUFFICES ASSUME ReorgInv, Rebuilt,
                      NEW r \in tables.rev, NEW s \in tables.rev, r[1] = s[1], r # s
               PROVE  /\ \A row \in {r, s} : task[row[2]] # "none" /\ SetInEvents(row)
                      /\ {r, s} \subseteq RankedFirst
    BY DEF SharedAddressExplained
  <2>1. /\ fork # 0 /\ \A t \in Tokens : task[t] \in {"none", "done"}
    BY DEF Rebuilt
  <2>2. \A x : ~Dropped(x)
    BY <2>1 DEF Dropped
  <2>3. /\ \A x \in tables.rev :
             /\ x[2] \in Tokens
             /\ \/ x \in stored.rev /\ task[x[2]] \in {"none", "remove"}
                \/ SetInEvents(x)
        /\ \A x, y \in tables.rev : Untouched(x) /\ y[1] = x[1] /\ y # x => Dropped(x)
    BY <2>1 DEF ReorgInv, ReverseInv, IsReverseRow
  <2>4. task[r[2]] # "none" /\ task[s[2]] # "none"
    BY <2>2, <2>3 DEF Untouched
  <2>5. task[r[2]] = "done" /\ task[s[2]] = "done"
    BY <2>1, <2>3, <2>4
  <2>6. SetInEvents(r) /\ SetInEvents(s)
    BY <2>3, <2>5
  <2>7. r \in RankedFirst /\ s \in RankedFirst
    BY <2>5 DEF RankedFirst, FromRebuild
  <2> QED
    BY <2>4, <2>6, <2>7
<1> QED
  BY <1>1, RebuildInvariant, PTL
=============================================================================

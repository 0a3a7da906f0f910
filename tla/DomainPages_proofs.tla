-------------------------- MODULE DomainPages_proofs --------------------------
(***************************************************************************)
(* Theorems about paging through the domains, for any number of writers,   *)
(* rows and names, any size of a page and any clock.                       *)
(***************************************************************************)
EXTENDS DomainPages, FiniteSetTheorems, SequenceTheorems,
        WellFoundedInduction, TLAPS

-----------------------------------------------------------------------------
(* Least elements *)

\* Numbers have a least one: the one with the fewest numbers up to it.
LEMMA LeastNatural ==
    ASSUME NEW T, T \subseteq Nat, T # {}
    PROVE  \E m \in T : \A n \in T : m <= n
<1> DEFINE F == {0 .. n : n \in T}
<1>1. F # {} /\ F \subseteq FiniteSubsetsOf(Nat)
  <2>1. \A n \in T : IsFiniteSet(0 .. n) /\ 0 .. n \subseteq Nat
    BY FS_Interval
  <2> QED
    BY <2>1 DEF FiniteSubsetsOf
<1>2. PICK V \in F : \A U \in F : <<U, V>> \notin StrictSubsetOrdering(Nat)
  <2> HIDE DEF F
  <2> QED
    BY <1>1, FS_StrictSubsetOrderingWellFounded, WFMin
<1>3. PICK m \in T : V = 0 .. m
  OBVIOUS
<1>4. ASSUME NEW n \in T, n < m
      PROVE  FALSE
  <2> DEFINE U == 0 .. n
  <2>1. n \in Nat /\ m \in Nat
    OBVIOUS
  <2>2. U \in F /\ U \subseteq V /\ V \subseteq Nat /\ m \in V /\ m \notin U
    BY <1>3, <1>4, <2>1
  <2>3. <<U, V>> \notin StrictSubsetOrdering(Nat)
    BY <1>2, <2>2
  <2> HIDE DEF U
  <2> QED
    BY <2>2, <2>3 DEF StrictSubsetOrdering
<1> QED
  BY <1>4

\* And finitely many have a greatest one: the one with the fewest from it on.
LEMMA GreatestNatural ==
    ASSUME NEW T, T \subseteq Nat, T # {}, IsFiniteSet(T)
    PROVE  \E m \in T : \A n \in T : n <= m
<1> DEFINE From(n) == {t \in T : n <= t}
           F == {From(n) : n \in T}
<1>1. F # {} /\ F \subseteq FiniteSubsetsOf(T)
  <2>1. \A n \in T : IsFiniteSet(From(n)) /\ From(n) \subseteq T
    BY FS_Subset
  <2> HIDE DEF From
  <2> QED
    BY <2>1 DEF FiniteSubsetsOf
<1>2. PICK V \in F : \A U \in F : <<U, V>> \notin StrictSubsetOrdering(T)
  <2> HIDE DEF F
  <2> QED
    BY <1>1, FS_StrictSubsetOrderingWellFounded, WFMin
<1>3. PICK m \in T : V = From(m)
  OBVIOUS
<1>4. ASSUME NEW n \in T, m < n
      PROVE  FALSE
  <2> DEFINE U == From(n)
  <2>1. \A t \in T : t \in Nat
    OBVIOUS
  <2>2. m <= m /\ ~(n <= m) /\ \A t \in T : n <= t => m <= t
    BY <1>4, <2>1
  <2>3. U \subseteq V /\ V \subseteq T /\ m \in V /\ m \notin U
    BY <1>3, <2>2, Zenon
  <2>4. <<U, V>> \notin StrictSubsetOrdering(T)
    BY <1>2
  <2> HIDE DEF U
  <2> QED
    BY <2>3, <2>4 DEF StrictSubsetOrdering
<1> QED
  BY <1>4

Row == [id : Nat, createdAt : Nat, name : Names]
Sorts == {"id", "name", "created_at"}
Directions == {"ASC", "DESC"}

-----------------------------------------------------------------------------
(* The order of rows and the cursor, as statements about two rows *)

\* Row r comes before row s.
Comes(sort, dir, r, s) ==
    \/ sort = "id" /\ Ordered(dir, r.id, s.id)
    \/ sort = "name" /\ Ordered(dir, r.name, s.name)
    \/ /\ sort = "created_at"
       /\ \/ Ordered(dir, r.createdAt, s.createdAt)
          \/ r.createdAt = s.createdAt /\ Ordered(dir, r.id, s.id)

\* Row r is beyond the cursor that is made of row l.
Past(sort, dir, l, r) ==
    \/ sort = "id" /\ Ordered(dir, l.id, r.id)
    \/ sort = "name" /\ Ordered(dir, l.name, r.name)
    \/ /\ sort = "created_at"
       /\ Ordered(dir, Truncated(l.createdAt), r.createdAt)
       /\ Ordered(dir, l.id, r.id)

\* What Unordered and Repeated say of a walk.
Untold(sort, dir, r, q) ==
    \/ sort = "name" /\ r.name = q.name
    \/ /\ sort = "created_at"
       /\ \/ r.createdAt < q.createdAt /\ r.id > q.id
          \/ r.createdAt > q.createdAt /\ r.id < q.id
          \/ r.createdAt = q.createdAt /\ Truncated(r.createdAt) = r.createdAt
          \/ dir = "DESC" /\ Truncated(r.createdAt) = Truncated(q.createdAt)

Twice(sort, dir, r, q) ==
    /\ sort = "created_at" /\ dir = "ASC"
    /\ r.createdAt < q.createdAt /\ Truncated(r.createdAt) = Truncated(q.createdAt)
    /\ r.id > q.id

\* A time is in the millisecond that it is cut to.
LEMMA TruncatedTime ==
    ASSUME NEW t \in Nat
    PROVE  /\ Truncated(t) \in Nat /\ Truncated(t) <= t
           /\ t < Truncated(t) + Millisecond
           /\ \E k \in Nat : Truncated(t) = k * Millisecond
<1>1. Millisecond \in Nat \ {0}
  BY DomainPagesAssumption
<1>2. /\ t % Millisecond \in 0 .. Millisecond - 1
      /\ t = Millisecond * (t \div Millisecond) + (t % Millisecond)
  BY <1>1
<1>3. t \div Millisecond \in Nat
  BY <1>1
<1>4. Truncated(t) = t - (t % Millisecond)
  BY DEF Truncated
<1>5. /\ Truncated(t) \in Nat /\ Truncated(t) <= t
      /\ t < Truncated(t) + Millisecond
  BY <1>1, <1>2, <1>4
<1>6. Millisecond * (t \div Millisecond) = (t \div Millisecond) * Millisecond
  BY <1>1, <1>3
<1>7. Truncated(t) = (t \div Millisecond) * Millisecond
  BY <1>1, <1>2, <1>3, <1>4, <1>6
<1> QED
  BY <1>3, <1>5, <1>7

\* Times between the start of a millisecond and a time of it are of it.
LEMMA SameMillisecond ==
    ASSUME NEW t \in Nat, NEW u \in Nat, Truncated(u) <= t, t <= u
    PROVE  Truncated(t) = Truncated(u)
<1>1. Millisecond \in Nat \ {0}
  BY DomainPagesAssumption
<1>2. PICK j \in Nat : Truncated(t) = j * Millisecond
  BY TruncatedTime
<1>3. PICK k \in Nat : Truncated(u) = k * Millisecond
  BY TruncatedTime
<1>4. /\ Truncated(t) \in Nat /\ Truncated(t) <= t /\ t < Truncated(t) + Millisecond
      /\ Truncated(u) \in Nat /\ Truncated(u) <= u /\ u < Truncated(u) + Millisecond
  BY TruncatedTime
<1>5. ASSUME j < k
      PROVE  FALSE
  <2>1. (j + 1) * Millisecond <= k * Millisecond
    BY <1>1, <1>5
  <2>2. j * Millisecond + Millisecond <= k * Millisecond
    BY <1>1, <2>1
  <2> QED
    BY <1>1, <1>2, <1>3, <1>4, <2>2
<1>6. ASSUME k < j
      PROVE  FALSE
  <2>1. (k + 1) * Millisecond <= j * Millisecond
    BY <1>1, <1>6
  <2>2. k * Millisecond + Millisecond <= j * Millisecond
    BY <1>1, <2>1
  <2> QED
    BY <1>1, <1>2, <1>3, <1>4, <2>2
<1> QED
  BY <1>2, <1>3, <1>5, <1>6
\* A time that is cut to the millisecond stays as it is.
LEMMA TruncatedTwice ==
    ASSUME NEW t \in Nat
    PROVE  Truncated(Truncated(t)) = Truncated(t)
BY TruncatedTime, SameMillisecond

-----------------------------------------------------------------------------
\* A row that does not come before another is beyond its cursor, unless the columns
\* do not tell them apart.
LEMMA BeyondUnlessUntold ==
    ASSUME NEW sort \in Sorts, NEW dir \in Directions, NEW r \in Row, NEW l \in Row,
           r.id # l.id, ~Comes(sort, dir, r, l)
    PROVE  Past(sort, dir, l, r) \/ Untold(sort, dir, r, l)
<1>1. /\ r.id \in Nat /\ l.id \in Nat /\ r.createdAt \in Nat /\ l.createdAt \in Nat
      /\ r.name \in Nat /\ l.name \in Nat
  BY DomainPagesAssumption DEF Row
<1>2. CASE sort = "id"
  BY <1>1, <1>2 DEF Comes, Past, Ordered
<1>3. CASE sort = "name"
  BY <1>1, <1>3 DEF Comes, Past, Untold, Ordered
<1>4. CASE sort = "created_at" /\ dir = "ASC"
  <2>1. Truncated(l.createdAt) \in Nat /\ Truncated(l.createdAt) <= l.createdAt
    BY <1>1, TruncatedTime
  <2> QED
    BY <1>1, <1>4, <2>1 DEF Comes, Past, Untold, Ordered
<1>5. CASE sort = "created_at" /\ dir = "DESC"
  <2>1. Truncated(l.createdAt) \in Nat /\ Truncated(l.createdAt) <= l.createdAt
    BY <1>1, TruncatedTime
  <2>2. CASE r.createdAt = l.createdAt \/ l.id < r.id
    BY <1>1, <1>5, <2>2 DEF Comes, Past, Untold, Ordered
  <2>3. CASE r.createdAt < l.createdAt /\ r.id < l.id
    <3>1. Truncated(l.createdAt) <= r.createdAt =>
            Truncated(r.createdAt) = Truncated(l.createdAt)
      BY <1>1, <2>3, SameMillisecond
    <3> QED
      BY <1>1, <1>5, <2>1, <2>3, <3>1 DEF Past, Untold, Ordered
  <2>4. ~(l.createdAt < r.createdAt)
    BY <1>1, <1>5 DEF Comes, Ordered
  <2> QED
    BY <1>1, <2>2, <2>3, <2>4
<1> QED
  BY <1>2, <1>3, <1>4, <1>5 DEF Sorts, Directions

\* A row that does not come after another is not beyond its cursor, unless it is
\* listed again.
LEMMA NotBeyondUnlessTwice ==
    ASSUME NEW sort \in Sorts, NEW dir \in Directions, NEW r \in Row, NEW l \in Row,
           ~Comes(sort, dir, l, r)
    PROVE  ~Past(sort, dir, l, r) \/ Twice(sort, dir, r, l)
<1>1. /\ r.id \in Nat /\ l.id \in Nat /\ r.createdAt \in Nat /\ l.createdAt \in Nat
      /\ r.name \in Nat /\ l.name \in Nat
      /\ Truncated(l.createdAt) \in Nat /\ Truncated(l.createdAt) <= l.createdAt
  BY DomainPagesAssumption, TruncatedTime DEF Row
<1>2. CASE sort = "id" \/ sort = "name"
  BY <1>1, <1>2 DEF Comes, Past, Ordered
<1>3. CASE sort = "created_at" /\ dir = "ASC"
  <2> SUFFICES ASSUME Past(sort, dir, l, r)
               PROVE  Twice(sort, dir, r, l)
    OBVIOUS
  <2>1. Truncated(l.createdAt) < r.createdAt /\ l.id < r.id
    BY <1>1, <1>3 DEF Past, Ordered
  <2>2. r.createdAt < l.createdAt
    BY <1>1, <1>3, <2>1 DEF Comes, Ordered
  <2>3. Truncated(r.createdAt) = Truncated(l.createdAt)
    BY <1>1, <2>1, <2>2, SameMillisecond
  <2> QED
    BY <1>1, <1>3, <2>1, <2>2, <2>3 DEF Twice
<1>4. CASE sort = "created_at" /\ dir = "DESC"
  BY <1>1, <1>4 DEF Comes, Past, Ordered
<1> QED
  BY <1>2, <1>3, <1>4 DEF Sorts, Directions

\* The cursor only advances: what is not beyond the cursor of k is not beyond the one
\* of a row l that is.
LEMMA CursorAdvances ==
    ASSUME NEW sort \in Sorts, NEW dir \in Directions,
           NEW k \in Row, NEW l \in Row, NEW r \in Row,
           Past(sort, dir, k, l), Past(sort, dir, l, r)
    PROVE  Past(sort, dir, k, r)
<1>1. /\ r.id \in Nat /\ l.id \in Nat /\ k.id \in Nat
      /\ r.name \in Nat /\ l.name \in Nat /\ k.name \in Nat
      /\ r.createdAt \in Nat /\ l.createdAt \in Nat /\ k.createdAt \in Nat
  BY DomainPagesAssumption DEF Row
<1>2. CASE sort = "id" \/ sort = "name"
  BY <1>1, <1>2 DEF Past, Ordered
<1>3. CASE sort = "created_at"
  <2>1. /\ Truncated(l.createdAt) \in Nat /\ Truncated(l.createdAt) <= l.createdAt
        /\ Truncated(k.createdAt) \in Nat
    BY <1>1, TruncatedTime
  <2>2. CASE dir = "ASC"
    <3>1. /\ Truncated(k.createdAt) < l.createdAt
          /\ Truncated(l.createdAt) < r.createdAt
          /\ k.id < l.id /\ l.id < r.id
      BY <1>3, <2>2 DEF Past, Ordered
    <3>2. Truncated(k.createdAt) < r.createdAt
      <4>1. CASE Truncated(k.createdAt) <= Truncated(l.createdAt)
        BY <1>1, <2>1, <3>1, <4>1
      <4>2. CASE Truncated(l.createdAt) < Truncated(k.createdAt)
        <5>1. /\ Truncated(Truncated(k.createdAt)) = Truncated(l.createdAt)
              /\ Truncated(Truncated(k.createdAt)) = Truncated(k.createdAt)
          BY <1>1, <2>1, <3>1, <4>2, SameMillisecond, TruncatedTwice
        <5> QED
          BY <1>1, <2>1, <4>2, <5>1
      <4> QED
        BY <2>1, <4>1, <4>2
    <3> QED
      BY <1>1, <1>3, <2>2, <3>1, <3>2 DEF Past, Ordered
  <2>3. CASE dir = "DESC"
    BY <1>1, <1>3, <2>1, <2>3 DEF Past, Ordered
  <2> QED
    BY <2>2, <2>3 DEF Directions
<1> QED
  BY <1>2, <1>3 DEF Sorts
-----------------------------------------------------------------------------
(* What the operators of the walk say of rows *)

LEMMA PrecedesComes ==
    ASSUME walk.sort \in Sorts, NEW r, NEW s
    PROVE  Precedes(r, s) <=> Comes(walk.sort, walk.dir, r, s)
<1>1. CASE walk.sort = "id" \/ walk.sort = "name"
  <2> DEFINE x == IF walk.sort = "id" THEN r.id ELSE r.name
             y == IF walk.sort = "id" THEN s.id ELSE s.name
  <2>1. Columns(walk.sort, r) = <<x>> /\ Columns(walk.sort, s) = <<y>>
    BY <1>1 DEF Columns
  <2>2. Precedes(r, s) <=> Ordered(walk.dir, x, y)
    <3> HIDE DEF x, y
    <3>1. DOMAIN <<x>> = {1} /\ <<x>>[1] = x /\ <<y>>[1] = y /\ 1 .. 1 - 1 = {}
      OBVIOUS
    <3>2. Precedes(r, s) <=> \E i \in {1} : /\ Ordered(walk.dir, <<x>>[i], <<y>>[i])
                                           /\ \A j \in 1 .. i - 1 : <<x>>[j] = <<y>>[j]
      BY <2>1, <3>1 DEF Precedes
    <3> QED
      BY <3>1, <3>2
  <2> QED
    BY <1>1, <2>2 DEF Comes
<1>2. CASE walk.sort = "created_at"
  <2>1. /\ Columns(walk.sort, r) = <<r.createdAt, r.id>>
        /\ Columns(walk.sort, s) = <<s.createdAt, s.id>>
    BY <1>2 DEF Columns
  <2> DEFINE a == <<r.createdAt, r.id>>
             b == <<s.createdAt, s.id>>
  <2>2. DOMAIN a = {1, 2} /\ 1 .. 1 - 1 = {} /\ 1 .. 2 - 1 = {1}
    OBVIOUS
  <2>3. Precedes(r, s) <=> \E i \in {1, 2} : /\ Ordered(walk.dir, a[i], b[i])
                                            /\ \A j \in 1 .. i - 1 : a[j] = b[j]
    BY <2>1, <2>2 DEF Precedes
  <2>4. Precedes(r, s) <=> \/ Ordered(walk.dir, a[1], b[1])
                           \/ Ordered(walk.dir, a[2], b[2]) /\ a[1] = b[1]
    <3> HIDE DEF a, b
    <3> QED
      BY <2>2, <2>3
  <2> QED
    BY <1>2, <2>4 DEF Comes
<1> QED
  BY <1>1, <1>2 DEF Sorts

LEMMA PastCursor ==
    ASSUME NEW sort \in Sorts, NEW dir, NEW l, NEW r
    PROVE  (\A i \in DOMAIN StartingAfter(sort, l) :
               Ordered(dir, StartingAfter(sort, l)[i], Columns(sort, r)[i]))
           <=> Past(sort, dir, l, r)
<1> DEFINE cursor == StartingAfter(sort, l)
           Further == \A i \in DOMAIN cursor : Ordered(dir, cursor[i], Columns(sort, r)[i])
<1>1. CASE sort = "id" \/ sort = "name"
  <2> DEFINE x == IF sort = "id" THEN r.id ELSE r.name
             y == IF sort = "id" THEN l.id ELSE l.name
  <2>1. Columns(sort, r) = <<x>> /\ cursor = <<y>>
    BY <1>1 DEF Columns, StartingAfter
  <2>2. Further <=> Ordered(dir, y, x)
    <3> HIDE DEF x, y
    <3> QED
      BY <2>1 DEF Further
  <2> QED
    BY <1>1, <2>2 DEF Past
<1>2. CASE sort = "created_at"
  <2> DEFINE a == <<r.createdAt, r.id>>
             b == <<Truncated(l.createdAt), l.id>>
  <2>1. Columns(sort, r) = a /\ cursor = b
    BY <1>2 DEF Columns, StartingAfter
  <2>2. DOMAIN b = {1, 2}
    OBVIOUS
  <2>3. Further <=> Ordered(dir, b[1], a[1]) /\ Ordered(dir, b[2], a[2])
    <3> HIDE DEF a, b
    <3> QED
      BY <2>1, <2>2 DEF Further
  <2> QED
    BY <1>2, <2>3 DEF Past
<1> QED
  BY <1>1, <1>2 DEF Sorts

LEMMA BeyondPast ==
    ASSUME walk.sort \in Sorts, NEW l, walk.cursor = StartingAfter(walk.sort, l), NEW r
    PROVE  Beyond(r) <=> Past(walk.sort, walk.dir, l, r)
BY PastCursor DEF Beyond

\* Of finitely many numbers one is the last in a direction.
LEMMA LastNumber ==
    ASSUME NEW dir \in Directions, NEW T, T \subseteq Nat, T # {}, IsFiniteSet(T)
    PROVE  \E e \in T : \A t \in T : ~Ordered(dir, e, t)
<1>1. CASE dir = "ASC"
  <2>1. PICK e \in T : \A t \in T : t <= e
    BY GreatestNatural
  <2>2. \A t \in T : ~(e < t)
    BY <2>1
  <2> QED
    BY <1>1, <2>2 DEF Ordered
<1>2. CASE dir = "DESC"
  <2>1. PICK e \in T : \A t \in T : e <= t
    BY LeastNatural
  <2>2. \A t \in T : ~(e > t)
    BY <2>1
  <2> QED
    BY <1>2, <2>2 DEF Ordered
<1> QED
  BY <1>1, <1>2 DEF Directions

\* The values of a column.
LEMMA FiniteImage ==
    ASSUME NEW P, IsFiniteSet(P), NEW f, NEW T, f \in [P -> T], \A t \in T : \E r \in P : f[r] = t
    PROVE  IsFiniteSet(T)
<1>1. f \in Surjection(P, T)
  BY DEF Surjection
<1> QED
  BY <1>1, FS_Surjection

\* A page has a last row.
LEMMA LastRow ==
    ASSUME NEW sort \in Sorts, NEW dir \in Directions,
           NEW P, P \subseteq Row, P # {}, IsFiniteSet(P)
    PROVE  \E l \in P : \A r \in P : ~Comes(sort, dir, l, r)
<1>1. ASSUME NEW Q, Q \subseteq P, Q # {}
      PROVE  \E l \in Q : \A r \in Q : ~Ordered(dir, l.id, r.id)
  <2> DEFINE T == {r.id : r \in Q}
             f == [r \in Q |-> r.id]
  <2>1. T \subseteq Nat /\ T # {}
    BY <1>1 DEF Row
  <2>2. f \in [Q -> T] /\ (\A t \in T : \E r \in Q : f[r] = t) /\ IsFiniteSet(Q)
    BY <1>1, FS_Subset
  <2>3. IsFiniteSet(T)
    <3> HIDE DEF f, T
    <3> QED
      BY <2>2, FiniteImage
  <2>4. PICK e \in T : \A t \in T : ~Ordered(dir, e, t)
    <3> HIDE DEF f, T
    <3> QED
      BY <2>1, <2>3, LastNumber
  <2> QED
    BY <2>4
<1>2. \E l \in P : \A r \in P : ~Ordered(dir, l.name, r.name)
  <2> DEFINE T == {r.name : r \in P}
             f == [r \in P |-> r.name]
  <2>1. T \subseteq Nat /\ T # {}
    BY DomainPagesAssumption DEF Row
  <2>2. f \in [P -> T] /\ (\A t \in T : \E r \in P : f[r] = t)
    OBVIOUS
  <2>3. IsFiniteSet(T)
    <3> HIDE DEF f, T
    <3> QED
      BY <2>2, FiniteImage
  <2>4. PICK e \in T : \A t \in T : ~Ordered(dir, e, t)
    <3> HIDE DEF f, T
    <3> QED
      BY <2>1, <2>3, LastNumber
  <2> QED
    BY <2>4
<1>3. \E l \in P : \A r \in P : ~Ordered(dir, l.createdAt, r.createdAt)
  <2> DEFINE T == {r.createdAt : r \in P}
             f == [r \in P |-> r.createdAt]
  <2>1. T \subseteq Nat /\ T # {}
    BY DEF Row
  <2>2. f \in [P -> T] /\ (\A t \in T : \E r \in P : f[r] = t)
    OBVIOUS
  <2>3. IsFiniteSet(T)
    <3> HIDE DEF f, T
    <3> QED
      BY <2>2, FiniteImage
  <2>4. PICK e \in T : \A t \in T : ~Ordered(dir, e, t)
    <3> HIDE DEF f, T
    <3> QED
      BY <2>1, <2>3, LastNumber
  <2> QED
    BY <2>4
<1>4. CASE sort = "created_at"
  <2>1. PICK k \in P : \A r \in P : ~Ordered(dir, k.createdAt, r.createdAt)
    BY <1>3
  <2> DEFINE Q == {r \in P : r.createdAt = k.createdAt}
  <2>2. PICK l \in Q : \A r \in Q : ~Ordered(dir, l.id, r.id)
    <3>1. Q \subseteq P /\ Q # {}
      OBVIOUS
    <3> HIDE DEF Q
    <3> QED
      BY <1>1, <3>1
  <2>3. ASSUME NEW r \in P
        PROVE  ~Comes(sort, dir, l, r)
    BY <1>4, <2>1, <2>2 DEF Comes
  <2> QED
    BY <2>3
<1> QED
  BY <1>1, <1>2, <1>4 DEF Sorts, Comes
\* The first rows of a finite set: n of them, or all.
LEMMA FirstRows ==
    ASSUME NEW rows, IsFiniteSet(rows), NEW n \in Nat, NEW s \in Firsts(rows, n)
    PROVE  /\ s \subseteq rows /\ IsFiniteSet(s)
           /\ Cardinality(s) \in Nat /\ Cardinality(s) <= n
           /\ Cardinality(s) = n \/ s = rows
           /\ \A r \in s, q \in rows \ s : ~Precedes(q, r)
<1> DEFINE k == Cardinality(rows)
<1>1. k \in Nat
  BY FS_CardinalityType
<1>2. Min({n, k}) \in {n, k} /\ Min({n, k}) <= n /\ Min({n, k}) <= k
  <2>1. \E x \in {n, k} : \A y \in {n, k} : x <= y
    BY <1>1
  <2>2. Min({n, k}) \in {n, k} /\ \A y \in {n, k} : Min({n, k}) <= y
    <3> HIDE DEF k
    <3> QED
      BY <2>1 DEF Min
  <2> QED
    BY <2>2
<1>3. /\ s \in SUBSET rows /\ Cardinality(s) = Min({n, k})
      /\ \A r \in s, q \in rows \ s : ~Precedes(q, r)
  BY DEF Firsts, kSubset
<1>4. /\ IsFiniteSet(s) /\ Cardinality(s) \in Nat
      /\ Cardinality(s) = Cardinality(rows) => s = rows
  BY <1>3, FS_Subset, FS_CardinalityType
<1> QED
  BY <1>1, <1>2, <1>3, <1>4

-----------------------------------------------------------------------------
(* The inductive invariant *)

Listed == walk.page \cup walk.earlier
AllRows == table \cup UNION {tx[w].rows : w \in Writers}

RowsInv ==
    /\ nextId \in Nat \ {0} /\ now \in Nat \ {0}
    /\ table \subseteq Row /\ IsFiniteSet(table)
    /\ tx \in [Writers -> [start : Nat, rows : SUBSET Row]]
    /\ \A w \in Writers : IsFiniteSet(tx[w].rows) /\ tx[w].start <= now
    /\ \A r \in AllRows : r.id < nextId /\ r.createdAt <= now
    /\ \A r, q \in AllRows : r.id = q.id => r = q
    /\ \A w, v \in Writers : w # v => tx[w].rows \cap tx[v].rows = {}

Walking == walk.pc \in {"ids", "rows"}

WalkInv ==
    /\ walk \in [pc : {"idle", "ids", "rows", "end"}, sort : Sorts, dir : Directions,
                 cursor : {walk.cursor}, ids : SUBSET table, page : SUBSET table,
                 earlier : SUBSET table, atStart : SUBSET table, left : BOOLEAN]
    /\ Walking =>
         \/ walk.cursor = <<>> /\ Listed = {}
         \/ \E l \in Listed : walk.cursor = StartingAfter(walk.sort, l)

\* What is listed is behind the cursor, and what is selected is beyond it.
OnceInv ==
    /\ Walking => \A r \in Listed : ~Beyond(r) \/ \E q \in Listed : Repeated(r, q)
    /\ walk.pc = "rows" => \A r \in walk.ids : Beyond(r)
    /\ ListedOnce

\* What is not listed yet, although it should be, is beyond the cursor; if ids are
\* selected, it is one of them, or there are more than a page and it comes later.
Excused(r) == r \in Listed \/ r.id \in gone \/ \E q \in Listed : Unordered(r, q)
Later(r) == /\ Cardinality(walk.ids) = PerPage + 1
            /\ Beyond(r) /\ \A i \in walk.ids : ~Precedes(r, i)

CompleteInv ==
    ~walk.left =>
      /\ walk.pc = "ids" => \A r \in walk.atStart : Excused(r) \/ Beyond(r)
      /\ walk.pc = "rows" =>
           /\ \A r \in walk.atStart : Excused(r) \/ r \in walk.ids \/ Later(r)
           /\ \A i \in walk.ids : i.id \notin gone
           /\ Cardinality(walk.ids) \in Nat /\ Cardinality(walk.ids) <= PerPage + 1
      /\ walk.pc = "end" => \A r \in walk.atStart : Excused(r)

PagesInv == RowsInv /\ WalkInv /\ OnceInv /\ CompleteInv

LEMMA InitPages == Init => PagesInv
<1> SUFFICES ASSUME Init PROVE PagesInv
  OBVIOUS
<1>1. AllRows = {}
  BY DEF Init, AllRows, Closed
<1>2. RowsInv
  BY <1>1, FS_EmptySet DEF Init, RowsInv, Closed
<1>3. WalkInv
  BY DEF Init, WalkInv, NoWalk, Walking, Sorts, Directions
<1>4. OnceInv /\ CompleteInv
  BY DEF Init, OnceInv, CompleteInv, NoWalk, Walking, ListedOnce
<1> QED
  BY <1>2, <1>3, <1>4 DEF PagesInv

\* The order is a matter of the sort and the direction only.
LEMMA SameOrder ==
    ASSUME walk'.sort = walk.sort, walk'.dir = walk.dir
    PROVE  \A r, q : /\ Precedes(r, q)' <=> Precedes(r, q)
                     /\ Unordered(r, q)' <=> Unordered(r, q)
                     /\ Repeated(r, q)' <=> Repeated(r, q)
BY DEF Precedes, Unordered, Repeated

LEMMA SameCursor ==
    ASSUME walk'.sort = walk.sort, walk'.dir = walk.dir, walk'.cursor = walk.cursor
    PROVE  \A r : Beyond(r)' <=> Beyond(r)
BY DEF Beyond

-----------------------------------------------------------------------------
(* The writers *)

\* A walk knows nothing of the writers.
LEMMA WritersLeaveWalk ==
    ASSUME PagesInv, table \subseteq table', UNCHANGED <<gone, walk>>
    PROVE  WalkInv' /\ OnceInv' /\ CompleteInv'
<1>1. WalkInv'
  BY DEF PagesInv, WalkInv, Walking, Listed
<1>2. /\ \A r, q : /\ Precedes(r, q)' <=> Precedes(r, q)
                   /\ Unordered(r, q)' <=> Unordered(r, q)
                   /\ Repeated(r, q)' <=> Repeated(r, q)
      /\ \A r : Beyond(r)' <=> Beyond(r)
  BY SameOrder, SameCursor
<1>3. OnceInv'
  BY <1>2 DEF PagesInv, OnceInv, Walking, Listed, ListedOnce
<1>4. CompleteInv'
  BY <1>2 DEF PagesInv, CompleteInv, Excused, Later, Listed
<1> QED
  BY <1>1, <1>3, <1>4
LEMMA TickInv ==
    ASSUME PagesInv, Tick
    PROVE  PagesInv'
<1>1. now' = now + 1 /\ UNCHANGED <<table, gone, tx, nextId, walk>> /\ AllRows' = AllRows
  BY DEF Tick, AllRows
<1>2. \A r \in AllRows : r.createdAt \in Nat
  BY DEF PagesInv, RowsInv, AllRows, Row
<1>3. \A w \in Writers : tx[w].start \in Nat
  BY DEF PagesInv, RowsInv
<1>4. RowsInv'
  BY <1>1, <1>2, <1>3 DEF PagesInv, RowsInv
<1> QED
  BY <1>4, WritersLeaveWalk DEF PagesInv, Tick

LEMMA BeginInv ==
    ASSUME PagesInv, NEW w \in Writers, Begin(w)
    PROVE  PagesInv'
<1>1. /\ tx' = [tx EXCEPT ![w].start = now]
      /\ UNCHANGED <<table, gone, nextId, now, walk>>
  BY DEF Begin
<1>2. /\ tx' \in [Writers -> [start : Nat, rows : SUBSET Row]]
      /\ \A v \in Writers : tx'[v].rows = tx[v].rows
      /\ \A v \in Writers : tx'[v].start <= now
  BY <1>1 DEF PagesInv, RowsInv
<1>3. AllRows' = AllRows
  BY <1>1, <1>2 DEF AllRows
<1>4. RowsInv'
  BY <1>1, <1>2, <1>3 DEF PagesInv, RowsInv
<1> QED
  BY <1>1, <1>4, WritersLeaveWalk DEF PagesInv

LEMMA InsertInv ==
    ASSUME PagesInv, NEW w \in Writers, Insert(w)
    PROVE  PagesInv'
<1>1. PICK n \in Names :
        tx' = [tx EXCEPT ![w].rows =
                 @ \cup {[id |-> nextId, createdAt |-> tx[w].start, name |-> n]}]
  BY DEF Insert
<1> DEFINE new == [id |-> nextId, createdAt |-> tx[w].start, name |-> n]
<1>2. UNCHANGED <<table, gone, now, walk>> /\ nextId' = nextId + 1
  BY DEF Insert
<1>3. /\ new \in Row /\ new.id = nextId /\ new.createdAt = tx[w].start
      /\ tx[w].start <= now /\ nextId \in Nat \ {0} /\ now \in Nat
  BY DEF PagesInv, RowsInv, Row
<1> HIDE DEF new
<1>4. /\ tx' \in [Writers -> [start : Nat, rows : SUBSET Row]]
      /\ tx'[w].rows = tx[w].rows \cup {new}
      /\ \A v \in Writers \ {w} : tx'[v].rows = tx[v].rows
      /\ \A v \in Writers : tx'[v].start = tx[v].start
  BY <1>1, <1>3 DEF PagesInv, RowsInv, new
<1>5. AllRows' = AllRows \cup {new}
  BY <1>2, <1>4 DEF AllRows
<1>6. /\ \A r \in AllRows : /\ r \in Row /\ r.id \in Nat /\ r.createdAt \in Nat
                            /\ r.id < nextId /\ r.createdAt <= now
      /\ new \notin AllRows
  <2>1. \A r \in AllRows : r \in Row
    BY DEF PagesInv, RowsInv, AllRows
  <2>2. \A r \in AllRows : r.id \in Nat /\ r.createdAt \in Nat
    BY <2>1 DEF Row
  <2> QED
    BY <1>3, <2>1, <2>2 DEF PagesInv, RowsInv
<1>7. \A r \in AllRows' : r.id < nextId' /\ r.createdAt <= now'
  BY <1>2, <1>3, <1>5, <1>6
<1>8. \A r, q \in AllRows' : r.id = q.id => r = q
  BY <1>3, <1>5, <1>6 DEF PagesInv, RowsInv
<1>9. \A v, u \in Writers : v # u => tx'[v].rows \cap tx'[u].rows = {}
  <2>1. \A v \in Writers : new \notin tx[v].rows
    BY <1>6 DEF AllRows
  <2> QED
    BY <1>4, <2>1 DEF PagesInv, RowsInv
<1>10. \A v \in Writers : IsFiniteSet(tx'[v].rows)
  <2>1. IsFiniteSet(tx[w].rows \cup {new})
    BY FS_AddElement DEF PagesInv, RowsInv
  <2> QED
    BY <1>4, <2>1 DEF PagesInv, RowsInv
<1>11. RowsInv'
  BY <1>2, <1>3, <1>4, <1>7, <1>8, <1>9, <1>10 DEF PagesInv, RowsInv
<1> QED
  BY <1>2, <1>11, WritersLeaveWalk DEF PagesInv

\* The end of a transaction: no row appears that was not there or in it.
LEMMA TransactionEnds ==
    ASSUME PagesInv, NEW w \in Writers, tx' = [tx EXCEPT ![w] = Closed],
           UNCHANGED <<gone, nextId, now, walk>>,
           table' = table \/ table' = table \cup tx[w].rows
    PROVE  PagesInv'
<1>1. /\ tx' \in [Writers -> [start : Nat, rows : SUBSET Row]]
      /\ tx'[w].rows = {} /\ tx'[w].start = 0
      /\ \A v \in Writers \ {w} : tx'[v] = tx[v]
  BY DEF PagesInv, RowsInv, Closed
<1>2. AllRows' \subseteq AllRows
  BY <1>1 DEF AllRows
<1>3. IsFiniteSet(table') /\ table' \subseteq Row /\ table \subseteq table'
  <2>1. IsFiniteSet(table \cup tx[w].rows)
    BY FS_Union DEF PagesInv, RowsInv
  <2> QED
    BY <2>1 DEF PagesInv, RowsInv
<1>4. ASSUME NEW v \in Writers
      PROVE  IsFiniteSet(tx'[v].rows) /\ tx'[v].start <= now'
  <2>1. CASE v = w
    <3>1. IsFiniteSet({}) /\ 0 <= now
      BY FS_EmptySet DEF PagesInv, RowsInv
    <3> QED
      BY <1>1, <2>1, <3>1
  <2>2. CASE v # w
    BY <1>1, <2>2 DEF PagesInv, RowsInv
  <2> QED
    BY <2>1, <2>2
<1>5. RowsInv'
  BY <1>1, <1>2, <1>3, <1>4 DEF PagesInv, RowsInv
<1> QED
  BY <1>3, <1>5, WritersLeaveWalk DEF PagesInv

-----------------------------------------------------------------------------
(* The walk *)

LEMMA StartInv ==
    ASSUME PagesInv, Start
    PROVE  PagesInv'
<1>1. PICK sort \in Sorts, dir \in Directions :
        walk' = [NoWalk EXCEPT !.pc = "ids", !.sort = sort, !.dir = dir, !.atStart = table]
  BY DEF Start, Sorts, Directions
<1>2. UNCHANGED <<table, gone, tx, nextId, now>>
  BY DEF Start
<1>3. RowsInv'
  BY <1>2 DEF PagesInv, RowsInv, AllRows
<1>4. /\ walk' = [pc |-> "ids", sort |-> sort, dir |-> dir, cursor |-> <<>>, ids |-> {},
                  page |-> {}, earlier |-> {}, atStart |-> table, left |-> FALSE]
      /\ Listed' = {}
  BY <1>1 DEF NoWalk, Listed
<1>5. WalkInv'
  BY <1>2, <1>4 DEF WalkInv, Walking
<1>6. \A r : Beyond(r)'
  BY <1>4 DEF Beyond
<1>7. OnceInv' /\ CompleteInv'
  BY <1>4, <1>6 DEF OnceInv, CompleteInv, ListedOnce
<1> QED
  BY <1>3, <1>5, <1>7 DEF PagesInv

LEMMA LeaveInv ==
    ASSUME PagesInv, NEW r \in table, Leave(r)
    PROVE  PagesInv'
<1>1. /\ walk' = [walk EXCEPT !.left = @ \/ r \in walk.ids]
      /\ walk.pc \in {"ids", "rows"} /\ gone' = gone \cup {r.id}
      /\ UNCHANGED <<table, tx, nextId, now>>
  BY DEF Leave
<1>2. RowsInv'
  BY <1>1 DEF PagesInv, RowsInv, AllRows
<1>3. /\ walk'.pc = walk.pc /\ walk'.sort = walk.sort /\ walk'.dir = walk.dir
      /\ walk'.cursor = walk.cursor /\ walk'.ids = walk.ids /\ walk'.page = walk.page
      /\ walk'.earlier = walk.earlier /\ walk'.atStart = walk.atStart
      /\ Listed' = Listed /\ (Walking' <=> Walking)
  BY <1>1 DEF PagesInv, WalkInv, Listed, Walking
<1>4. walk'.left <=> walk.left \/ r \in walk.ids
  BY <1>1 DEF PagesInv, WalkInv
<1>5. WalkInv'
  <2>1. (walk.left \/ r \in walk.ids) \in BOOLEAN
    BY DEF PagesInv, WalkInv
  <2> DEFINE b == walk.left \/ r \in walk.ids
  <2>2. walk' = [walk EXCEPT !.left = b]
    BY <1>1
  <2> HIDE DEF b
  <2>3. b \in BOOLEAN
    BY <2>1 DEF b
  <2>4. walk' \in [pc : {"idle", "ids", "rows", "end"}, sort : Sorts, dir : Directions,
                 cursor : {walk.cursor}, ids : SUBSET table, page : SUBSET table,
                 earlier : SUBSET table, atStart : SUBSET table, left : BOOLEAN]
    BY <2>2, <2>3 DEF PagesInv, WalkInv
  <2> QED
    BY <1>1, <1>3, <2>4 DEF PagesInv, WalkInv
<1>6. /\ \A p, q : /\ Precedes(p, q)' <=> Precedes(p, q)
                   /\ Unordered(p, q)' <=> Unordered(p, q)
                   /\ Repeated(p, q)' <=> Repeated(p, q)
      /\ \A p : Beyond(p)' <=> Beyond(p)
  BY <1>3, SameOrder, SameCursor
<1>7. OnceInv'
  BY <1>3, <1>6 DEF PagesInv, OnceInv, ListedOnce
<1>8. CompleteInv'
  <2>1. \A p : Excused(p) => Excused(p)'
    BY <1>1, <1>3, <1>6 DEF Excused
  <2>2. \A p : Later(p) => Later(p)'
    BY <1>3, <1>6 DEF Later
  <2>3. r \notin walk.ids => \A i \in walk.ids : i.id # r.id
    BY DEF PagesInv, WalkInv, RowsInv, AllRows
  <2> QED
    BY <1>1, <1>3, <1>4, <1>6, <2>1, <2>2, <2>3 DEF PagesInv, CompleteInv
<1> QED
  BY <1>2, <1>5, <1>7, <1>8 DEF PagesInv
LEMMA SelectIdsInv ==
    ASSUME PagesInv, SelectIds
    PROVE  PagesInv'
<1>1. PICK s \in Firsts(Matching, PerPage + 1) :
        walk' = [walk EXCEPT !.pc = "rows", !.ids = s]
  BY DEF SelectIds
<1>2. walk.pc = "ids" /\ UNCHANGED <<table, gone, tx, nextId, now>>
  BY DEF SelectIds
<1>3. PerPage + 1 \in Nat
  BY DomainPagesAssumption
<1>4. Matching \subseteq table /\ IsFiniteSet(Matching)
  <2>1. Matching \in SUBSET table
    BY DEF Matching
  <2> QED
    BY <2>1, FS_Subset DEF PagesInv, RowsInv
<1>5. /\ s \subseteq Matching
      /\ Cardinality(s) \in Nat /\ Cardinality(s) <= PerPage + 1
      /\ Cardinality(s) = PerPage + 1 \/ s = Matching
      /\ \A r \in s, q \in Matching \ s : ~Precedes(q, r)
  BY <1>3, <1>4, FirstRows
<1>6. RowsInv'
  BY <1>2 DEF PagesInv, RowsInv, AllRows
<1>7. /\ walk'.pc = "rows" /\ walk'.sort = walk.sort /\ walk'.dir = walk.dir
      /\ walk'.cursor = walk.cursor /\ walk'.ids = s /\ walk'.page = walk.page
      /\ walk'.earlier = walk.earlier /\ walk'.atStart = walk.atStart
      /\ walk'.left = walk.left /\ Listed' = Listed /\ Walking /\ Walking'
  BY <1>1, <1>2 DEF PagesInv, WalkInv, Listed, Walking
<1>8. WalkInv'
  <2>1. walk' \in [pc : {"idle", "ids", "rows", "end"}, sort : Sorts, dir : Directions,
                   cursor : {walk.cursor}, ids : SUBSET table, page : SUBSET table,
                   earlier : SUBSET table, atStart : SUBSET table, left : BOOLEAN]
    BY <1>1, <1>4, <1>5 DEF PagesInv, WalkInv
  <2> QED
    BY <1>2, <1>7, <2>1 DEF PagesInv, WalkInv
<1>9. /\ \A p, q : /\ Precedes(p, q)' <=> Precedes(p, q)
                   /\ Unordered(p, q)' <=> Unordered(p, q)
                   /\ Repeated(p, q)' <=> Repeated(p, q)
      /\ \A p : Beyond(p)' <=> Beyond(p)
  BY <1>7, SameOrder, SameCursor
<1>10. OnceInv'
  BY <1>5, <1>7, <1>9 DEF PagesInv, OnceInv, ListedOnce, Matching
<1>11. CompleteInv'
  <2> SUFFICES ASSUME ~walk.left
               PROVE  /\ \A r \in walk.atStart : Excused(r)' \/ r \in s \/ Later(r)'
                      /\ \A i \in s : i.id \notin gone
    BY <1>2, <1>5, <1>7 DEF CompleteInv
  <2>1. ASSUME NEW r \in walk.atStart, r.id \notin gone, Beyond(r), r \notin s
        PROVE  Later(r)'
    <3>1. r \in Matching \ s
      BY <2>1 DEF Matching, PagesInv, WalkInv
    <3>2. Cardinality(s) = PerPage + 1 /\ \A i \in s : ~Precedes(r, i)
      BY <1>5, <3>1
    <3> QED
      BY <1>7, <1>9, <2>1, <3>2 DEF Later
  <2>2. \A r : Excused(r) => Excused(r)'
    BY <1>2, <1>7, <1>9 DEF Excused
  <2>3. \A r \in walk.atStart : r.id \in gone => Excused(r)
    BY DEF Excused
  <2> QED
    BY <1>2, <1>5, <2>1, <2>2, <2>3 DEF PagesInv, CompleteInv, Matching
<1> QED
  BY <1>6, <1>8, <1>10, <1>11 DEF PagesInv

\* The rows of a page, and the last of them if there are more.
LEMMA PageRows ==
    ASSUME PagesInv, walk.pc = "rows", NEW page,
           page \in Firsts({r \in walk.ids : r.id \notin gone}, PerPage)
    PROVE  /\ page \subseteq walk.ids /\ page \subseteq Row
           /\ HasMore({r \in walk.ids : r.id \notin gone}) =>
                LastOf(page) \in page /\ \A q \in page : ~Precedes(LastOf(page), q)
           /\ ~walk.left =>
                /\ \A r \in page, q \in walk.ids \ page : ~Precedes(q, r)
                /\ {r \in walk.ids : r.id \notin gone} = walk.ids
                /\ ~HasMore(walk.ids) => page = walk.ids
<1> DEFINE rows == {r \in walk.ids : r.id \notin gone}
<1>1. rows \in SUBSET walk.ids /\ walk.ids \in SUBSET table /\ walk.ids \subseteq Row
  BY DEF PagesInv, WalkInv, RowsInv
<1>2. IsFiniteSet(walk.ids) /\ IsFiniteSet(rows)
  <2>1. IsFiniteSet(walk.ids)
    BY <1>1, FS_Subset DEF PagesInv, RowsInv
  <2> HIDE DEF rows
  <2> QED
    BY <1>1, <2>1, FS_Subset
<1>3. PerPage \in Nat \ {0}
  BY DomainPagesAssumption
<1>4. page \in Firsts(rows, PerPage)
  OBVIOUS
<1>5. ~walk.left => rows = walk.ids
  BY DEF PagesInv, CompleteInv
<1> HIDE DEF rows
<1>6. /\ page \subseteq rows /\ IsFiniteSet(page)
      /\ Cardinality(page) \in Nat /\ Cardinality(page) <= PerPage
      /\ Cardinality(page) = PerPage \/ page = rows
      /\ \A r \in page, q \in rows \ page : ~Precedes(q, r)
      /\ Cardinality(rows) \in Nat
  BY <1>2, <1>3, <1>4, FirstRows, FS_CardinalityType
<1>7. ASSUME HasMore(rows)
      PROVE  LastOf(page) \in page /\ \A q \in page : ~Precedes(LastOf(page), q)
  <2>1. Cardinality(page) = PerPage
    BY <1>3, <1>6, <1>7 DEF HasMore
  <2>2. page # {}
    BY <1>3, <2>1, FS_EmptySet
  <2>3. /\ walk.sort \in Sorts /\ walk.dir \in Directions /\ page \subseteq Row
    BY <1>1, <1>6 DEF PagesInv, WalkInv
  <2>4. \E l \in page : \A r \in page : ~Comes(walk.sort, walk.dir, l, r)
    BY <1>6, <2>2, <2>3, LastRow
  <2>5. \E l \in page : \A r \in page : ~Precedes(l, r)
    BY <2>3, <2>4, PrecedesComes
  <2> QED
    BY <2>5 DEF LastOf
<1>8. ASSUME ~HasMore(rows)
      PROVE  page = rows
  <2>1. CASE Cardinality(page) = PerPage
    <3>1. page \in SUBSET rows /\ Cardinality(page) <= Cardinality(rows)
      BY <1>2, <1>6, FS_Subset
    <3>2. Cardinality(page) = Cardinality(rows)
      BY <1>3, <1>6, <1>8, <2>1, <3>1 DEF HasMore
    <3> QED
      BY <1>2, <3>1, <3>2, FS_Subset
  <2> QED
    BY <1>6, <2>1
<1> QED
  BY <1>1, <1>5, <1>6, <1>7, <1>8 DEF rows
\* The cursor of the last row of a page: what is listed is behind it, and what was
\* beyond the cursor before and is not listed is beyond it.
LEMMA NextCursor ==
    ASSUME PagesInv, walk.pc = "rows", NEW l \in walk.ids,
           walk'.sort = walk.sort, walk'.dir = walk.dir,
           walk'.cursor = StartingAfter(walk.sort, l)
    PROVE  /\ \A r \in Row : ~Precedes(l, r) => ~Beyond(r)' \/ Repeated(r, l)
           /\ \A r \in Row : r.id # l.id /\ ~Precedes(r, l) => Beyond(r)' \/ Unordered(r, l)
           /\ \A r \in Listed : Beyond(r)' => Beyond(r)
<1>1. /\ walk.sort \in Sorts /\ walk.dir \in Directions
      /\ l \in Row /\ Listed \subseteq Row /\ Beyond(l)
  BY DEF PagesInv, WalkInv, OnceInv, RowsInv, Listed
<1>2. \A r : Beyond(r)' <=> Past(walk.sort, walk.dir, l, r)
  <2>1. ASSUME NEW r
        PROVE  Beyond(r)' <=> Past(walk.sort, walk.dir, l, r)
    <3>1. /\ Beyond(r)' <=> \A i \in DOMAIN StartingAfter(walk.sort, l) :
                   Ordered(walk.dir, StartingAfter(walk.sort, l)[i], Columns(walk.sort, r)[i])
      BY DEF Beyond
    <3> QED
      BY <1>1, <3>1, PastCursor
  <2> QED
    BY <2>1
<1>3. \A r, q : Unordered(r, q) <=> Untold(walk.sort, walk.dir, r, q)
  BY DEF Unordered, Untold
<1>4. \A r, q : Repeated(r, q) <=> Twice(walk.sort, walk.dir, r, q)
  BY DEF Repeated, Twice
<1>5. \A r, q : Precedes(r, q) <=> Comes(walk.sort, walk.dir, r, q)
  BY <1>1, PrecedesComes
<1>6. \A r \in Row : ~Precedes(l, r) => ~Beyond(r)' \/ Repeated(r, l)
  BY <1>1, <1>2, <1>4, <1>5, NotBeyondUnlessTwice
<1>7. \A r \in Row : r.id # l.id /\ ~Precedes(r, l) => Beyond(r)' \/ Unordered(r, l)
  BY <1>1, <1>2, <1>3, <1>5, BeyondUnlessUntold
<1>8. ASSUME NEW r \in Listed, Beyond(r)'
      PROVE  Beyond(r)
  <2>1. PICK k \in Listed : walk.cursor = StartingAfter(walk.sort, k)
    BY DEF PagesInv, WalkInv, Walking
  <2>2. k \in Row /\ r \in Row
    BY <1>1
  <2>3. Past(walk.sort, walk.dir, k, l) /\ Past(walk.sort, walk.dir, l, r)
    BY <1>1, <1>2, <1>8, <2>1, BeyondPast
  <2>4. Past(walk.sort, walk.dir, k, r)
    BY <1>1, <2>2, <2>3, CursorAdvances
  <2> QED
    BY <1>1, <2>1, <2>4, BeyondPast
<1> QED
  BY <1>6, <1>7, <1>8

LEMMA LoadRowsInv ==
    ASSUME PagesInv, LoadRows
    PROVE  PagesInv'
<1> DEFINE rows == {r \in walk.ids : r.id \notin gone}
           more == HasMore(rows)
<1>1. PICK page \in Firsts(rows, PerPage) :
        walk' = [walk EXCEPT
             !.pc = IF more THEN "ids" ELSE "end",
             !.ids = {},
             !.page = page,
             !.earlier = @ \cup walk.page,
             !.cursor = IF more THEN StartingAfter(walk.sort, LastOf(page)) ELSE @]
  BY DEF LoadRows
<1>2. walk.pc = "rows" /\ UNCHANGED <<table, gone, tx, nextId, now>>
  BY DEF LoadRows
<1>3. /\ page \subseteq walk.ids /\ page \subseteq Row
      /\ more => LastOf(page) \in page /\ \A q \in page : ~Precedes(LastOf(page), q)
      /\ ~walk.left => /\ \A r \in page, q \in walk.ids \ page : ~Precedes(q, r)
                       /\ ~more => page = walk.ids
  BY <1>2, PageRows
<1> HIDE DEF more
<1>4. /\ walk'.pc = IF more THEN "ids" ELSE "end"
      /\ walk'.sort = walk.sort /\ walk'.dir = walk.dir
      /\ walk'.cursor = IF more THEN StartingAfter(walk.sort, LastOf(page)) ELSE walk.cursor
      /\ walk'.ids = {} /\ walk'.page = page
      /\ walk'.earlier = Listed /\ walk'.atStart = walk.atStart
      /\ walk'.left = walk.left /\ Listed' = Listed \cup page
      /\ Walking /\ (Walking' <=> more)
  BY <1>1, <1>2 DEF PagesInv, WalkInv, Listed, Walking
<1>5. RowsInv'
  BY <1>2 DEF PagesInv, RowsInv, AllRows
<1>6. WalkInv'
  <2>1. walk' \in [pc : {"idle", "ids", "rows", "end"}, sort : Sorts, dir : Directions,
                   cursor : {walk'.cursor}, ids : SUBSET table, page : SUBSET table,
                   earlier : SUBSET table, atStart : SUBSET table, left : BOOLEAN]
    <3>1. page \subseteq table /\ walk.earlier \cup walk.page \subseteq table
      BY <1>3 DEF PagesInv, WalkInv
    <3> DEFINE pc2 == IF more THEN "ids" ELSE "end"
               cursor2 == IF more THEN StartingAfter(walk.sort, LastOf(page)) ELSE walk.cursor
    <3>2. pc2 \in {"ids", "end"}
      OBVIOUS
    <3>3. walk' = [walk EXCEPT !.pc = pc2, !.ids = {}, !.page = page,
                               !.earlier = walk.earlier \cup walk.page, !.cursor = cursor2]
      BY <1>1
    <3> HIDE DEF pc2, cursor2
    <3> QED
      BY <3>1, <3>2, <3>3 DEF PagesInv, WalkInv
  <2> QED
    BY <1>2, <1>3, <1>4, <2>1 DEF WalkInv
<1>7. \A p, q : /\ Precedes(p, q)' <=> Precedes(p, q)
                /\ Unordered(p, q)' <=> Unordered(p, q)
                /\ Repeated(p, q)' <=> Repeated(p, q)
  BY <1>4, SameOrder
<1>8. more => /\ LastOf(page) \in page
              /\ \A r \in Row : ~Precedes(LastOf(page), r) =>
                   ~Beyond(r)' \/ Repeated(r, LastOf(page))
              /\ \A r \in Row : r.id # LastOf(page).id /\ ~Precedes(r, LastOf(page)) =>
                   Beyond(r)' \/ Unordered(r, LastOf(page))
              /\ \A r \in Listed : Beyond(r)' => Beyond(r)
  BY <1>2, <1>3, <1>4, NextCursor
<1>9. OnceInv'
  <2>1. ListedOnce'
    BY <1>2, <1>3, <1>4, <1>7 DEF PagesInv, OnceInv, Walking, ListedOnce
  <2>2. ASSUME more, NEW r \in Listed \cup page
        PROVE  ~Beyond(r)' \/ \E q \in Listed \cup page : Repeated(r, q)
    <3>1. CASE r \in Listed
      BY <1>4, <1>8, <2>2, <3>1 DEF PagesInv, OnceInv
    <3>2. CASE r \in page
      BY <1>3, <1>8, <2>2, <3>2
    <3> QED
      BY <2>2, <3>1, <3>2
  <2> QED
    BY <1>4, <1>7, <2>1, <2>2 DEF OnceInv
<1>10. CompleteInv'
  <2> SUFFICES ASSUME ~walk.left, NEW r \in walk.atStart, ~Excused(r)'
               PROVE  more /\ Beyond(r)'
    BY <1>4 DEF CompleteInv
  <2>1. /\ r \notin Listed /\ r \notin page /\ r.id \notin gone
        /\ \A q \in Listed \cup page : ~Unordered(r, q)
    BY <1>2, <1>4, <1>7 DEF Excused
  <2>2. r \in walk.ids \/ Later(r)
    BY <1>2, <2>1 DEF PagesInv, CompleteInv, Excused
  <2>3. more
    <3>1. CASE r \in walk.ids
      BY <1>3, <2>1, <3>1
    <3>2. CASE Later(r)
      <4>1. rows = walk.ids
        BY <1>2 DEF PagesInv, CompleteInv
      <4>2. Cardinality(walk.ids) = PerPage + 1
        BY <3>2 DEF Later
      <4> HIDE DEF rows
      <4>3. more <=> HasMore(walk.ids)
        BY <4>1 DEF more
      <4> QED
        BY <4>2, <4>3, DomainPagesAssumption DEF HasMore
    <3> QED
      BY <2>2, <3>1, <3>2
  <2>4. LastOf(page) \in page /\ LastOf(page) \in walk.ids
    BY <1>3, <2>3
  <2>5. ~Precedes(r, LastOf(page))
    BY <1>3, <2>1, <2>2, <2>4 DEF Later
  <2>6. r \in Row /\ r.id # LastOf(page).id
    BY <2>1, <2>4 DEF PagesInv, WalkInv, RowsInv, AllRows
  <2> QED
    BY <1>8, <2>1, <2>3, <2>4, <2>5, <2>6
<1> QED
  BY <1>5, <1>6, <1>9, <1>10 DEF PagesInv

-----------------------------------------------------------------------------
LEMMA PagesInvStep == PagesInv /\ [Next]_vars => PagesInv'
<1> SUFFICES ASSUME PagesInv, [Next]_vars PROVE PagesInv'
  OBVIOUS
<1>1. CASE Tick
  BY <1>1, TickInv
<1>2. ASSUME NEW w \in Writers, Begin(w) \/ Insert(w) \/ Commit(w) \/ Rollback(w)
      PROVE  PagesInv'
  <2>1. CASE Begin(w) \/ Insert(w)
    BY <2>1, BeginInv, InsertInv
  <2>2. CASE Commit(w) \/ Rollback(w)
    BY <2>2, TransactionEnds DEF Commit, Rollback
  <2> QED
    BY <1>2, <2>1, <2>2
<1>3. ASSUME NEW r \in table, Leave(r)
      PROVE  PagesInv'
  BY <1>3, LeaveInv
<1>4. CASE WalkStep
  BY <1>4, StartInv, SelectIdsInv, LoadRowsInv DEF WalkStep
<1>5. CASE UNCHANGED vars
  <2>1. RowsInv'
    BY <1>5 DEF vars, PagesInv, RowsInv, AllRows
  <2> QED
    BY <1>5, <2>1, WritersLeaveWalk DEF vars, PagesInv
<1> QED
  BY <1>1, <1>2, <1>3, <1>4, <1>5 DEF Next

LEMMA PagesInvariant == Spec => []PagesInv
BY InitPages, PagesInvStep, PTL DEF Spec

\* No two rows, committed or not, have the same id, and none is from the future,
\* however transactions begin, insert, commit and roll back.
THEOREM PagesTyped == Spec => []TypeOK
<1>1. PagesInv => TypeOK
  <2> SUFFICES ASSUME PagesInv PROVE TypeOK
    OBVIOUS
  <2>1. \A r \in AllRows : r.name \in Names
    BY DEF PagesInv, RowsInv, AllRows, Row
  <2> QED
    BY <2>1 DEF TypeOK, PagesInv, RowsInv, WalkInv, AllRows
<1> QED
  BY <1>1, PagesInvariant, PTL

\* No domain is on two pages (Domains.ts:106), whatever the workers insert between
\* the pages and between the two queries of one; except for the rows of a millisecond
\* that got their ids in another order.
THEOREM PagesDisjoint == Spec => []ListedOnce
<1>1. PagesInv => ListedOnce
  BY DEF PagesInv, OnceInv
<1> QED
  BY <1>1, PagesInvariant, PTL

\* A walk to the last page lists all that was there when it began and still matches
\* (DomainsController.ts:168), but for rows that the columns of the sort do not tell
\* apart from a listed one, provided that no selected row left before it was loaded.
THEOREM WalkComplete == Spec => []Complete
<1>1. PagesInv => Complete
  <2> SUFFICES ASSUME PagesInv, walk.pc = "end", ~walk.left,
                      NEW r \in walk.atStart \ (walk.page \cup walk.earlier)
               PROVE  r.id \in gone \/ \E q \in walk.page \cup walk.earlier : Unordered(r, q)
    BY DEF Complete
  <2>1. Excused(r)
    BY DEF PagesInv, CompleteInv
  <2> QED
    BY <2>1 DEF Excused, Listed
<1> QED
  BY <1>1, PagesInvariant, PTL
=============================================================================

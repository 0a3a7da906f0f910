------------------------- MODULE DomainApi_proofs -------------------------
(***************************************************************************)
(* Theorems about the rows that the workers of two chains and the script   *)
(* make, and about what the API answers from them, for any tokens, owners, *)
(* moves over the bridge and order of the writers' steps.                  *)
(***************************************************************************)
EXTENDS DomainApi, FiniteSetTheorems, SequenceTheorems,
        WellFoundedInduction, TLAPS

-----------------------------------------------------------------------------
(* The inductive invariant: the chains.  B is the sequence of blocks of one. *)

Addresses == UNION {Owners[t] : t \in Tokens}
Marks(t) == Owners[t] \cup {Null, Bridge}

Removal(a) == [type |-> "RemoveReverse", addr |-> a]
Setting(t, a) == [type |-> "SetReverse", token |-> t, addr |-> a]

\* The blocks there are: a mint, a transfer, one that takes a reverse record with it,
\* and a new reverse record.
IsMintBlock(b, t, o) == b = <<Transfer(t, Null, o), NewUri(t)>>
IsMoveBlock(b, t, from, to) == b = <<Transfer(t, from, to)>>
IsLeaveBlock(b, t, from, to) == b = <<Removal(from), Transfer(t, from, to)>>
IsSetBlock(b, t, o) == b = <<Setting(t, o)>>

IsBlock(b) ==
    \E t \in Tokens :
        \/ \E o \in Owners[t] : IsMintBlock(b, t, o)
        \/ \E from, to \in Marks(t) : IsMoveBlock(b, t, from, to)
        \/ \E from \in Owners[t], to \in Marks(t) : IsLeaveBlock(b, t, from, to)
        \/ \E o \in Owners[t] : IsSetBlock(b, t, o)

IsChain(B) ==
    /\ Len(B) \in Nat /\ B = [n \in 1 .. Len(B) |-> B[n]]
    /\ \A n \in 1 .. Len(B) : IsBlock(B[n])

\* The last event of the first n blocks that is in S.
In(b, S) == Range(b) \cap S # {}
LastIn(B, n, S) ==
    LET blocks == {i \in 1 .. n : In(B[i], S)}
    IN IF blocks = {} THEN NoEvent ELSE CHOOSE e \in Range(B[Max(blocks)]) : e \in S

\* The owner of a token and the reverse record of an address after n blocks.
TransfersOf(t) == {Transfer(t, from, to) : from \in Marks(t), to \in Marks(t)}
OwnerAt(B, n, t) ==
    LET last == LastIn(B, n, TransfersOf(t)) IN IF last = NoEvent THEN None ELSE last.to
ReversesOf(a) == {Removal(a)} \cup {Setting(t, a) : t \in Tokens}
ReverseAt(B, n, a) ==
    LET last == LastIn(B, n, ReversesOf(a))
    IN IF last.type = "SetReverse" THEN last.token ELSE None

\* Who owns a token now, by the contracts of both chains.
OwnersOn(c, p) ==
    IF p.on = c THEN {p.owner}
    ELSE IF c = "ETH" THEN {None, Null, Bridge} ELSE {None, Null}
PlaceInv(t) ==
    /\ place[t] = [on |-> place[t].on, owner |-> place[t].owner]
    /\ place[t].on \in Chains \cup {None, "toMATIC", "toETH"}
    /\ place[t].on # None => place[t].owner \in Owners[t]
    /\ \A c \in Chains : OwnerAt(chain[c], Len(chain[c]), t) \in OwnersOn(c, place[t])

\* A reverse record is of an owner, at any height, and a new one was not set before.
HistoryInv(B) ==
    /\ \A n \in 0 .. Len(B) : \A a \in Addresses : \A t \in Tokens :
         ReverseAt(B, n, a) = t => OwnerAt(B, n, t) = a
    /\ \A n \in 1 .. Len(B) : \A t \in Tokens : \A a \in Owners[t] :
         IsSetBlock(B[n], t, a) => OwnerAt(B, n - 1, t) = a /\ ReverseAt(B, n - 1, a) # t

ChainInv ==
    /\ chain = [c \in Chains |-> chain[c]]
    /\ \A c \in Chains : IsChain(chain[c]) /\ HistoryInv(chain[c])
    /\ place = [t \in Tokens |-> place[t]]
    /\ \A t \in Tokens : PlaceInv(t)
    /\ \A c \in Chains : \A a \in Addresses : \A t \in Tokens :
         ReverseAt(chain[c], Len(chain[c]), a) = t => place[t].on = c

-----------------------------------------------------------------------------
(* The inductive invariant: the tables of a worker *)

SetBy(B, t, a) == \E n \in 1 .. Len(B) : IsSetBlock(B[n], t, a)
OwnerIn(rows, t) == IF t \in DOMAIN rows THEN rows[t].owner ELSE None
Ahead(B, n, t) == \E i \in n + 1 .. Len(B) : In(B[i], TransfersOf(t))

\* A row has the owner after n blocks, unless the last transfer was lost or the row
\* is of the script, which was ahead of the worker and will be overtaken.
RowsTold(B, n, rows, lost) ==
    \A t \in Tokens \ lost : OwnerIn(rows, t) = OwnerAt(B, n, t) \/ Ahead(B, n, t)

\* So has an address its reverse row, and no other.
ReverseTold(B, n, rev, astray) ==
    \A a \in Addresses \ astray :
       /\ \A r \in rev : r[1] = a => r[2] = ReverseAt(B, n, a)
       /\ \A t \in Tokens :
            ReverseAt(B, n, a) = t /\ (\A b \in astray : ~SetBy(B, t, b)) => <<a, t>> \in rev

MintsNamed(B, n, known) ==
    \A i \in 1 .. n : \A t \in Tokens : NewUri(t) \in Range(B[i]) => t \in known

\* What holds of the tables, committed or not, whatever was lost.
TablesOK(B, rows, rev, known) ==
    /\ rows = [t \in DOMAIN rows |-> rows[t]] /\ DOMAIN rows \subseteq known
    /\ \A t \in DOMAIN rows : OwnerAt(B, Len(B), t) # None
    /\ \A r \in rev :
         /\ r = <<r[1], r[2]>> /\ r[1] \in Addresses /\ r[2] \in known
         /\ SetBy(B, r[2], r[1])

DbInv(c) ==
    LET d == db[c]
        B == chain[c]
    IN
    /\ d = [block |-> d.block, rows |-> d.rows, rev |-> d.rev, lost |-> d.lost,
            skipped |-> d.skipped]
    /\ d.block \in 0 .. Len(B)
    /\ d.lost \subseteq Tokens
    /\ TablesOK(B, d.rows, d.rev, names)
    /\ RowsTold(B, d.block, d.rows, d.lost)
    /\ ReverseTold(B, d.block, d.rev, d.skipped \cup pull.addresses)
    /\ MintsNamed(B, d.block, names)

\* The tables as the open transaction sees them, after n blocks.
\* stored, known and pulled are what is committed now.
SeenOK(B, stored, known, pulled, v, n, lost, skipped) ==
    /\ v = [names |-> v.names, rows |-> v.rows, rev |-> v.rev, broken |-> v.broken]
    /\ v.broken \in BOOLEAN
    /\ v.names \subseteq Tokens /\ lost \subseteq Tokens
    /\ TablesOK(B, v.rows, v.rev, v.names)
    /\ \A r \in stored : r[2] \notin v.names => r[1] \in pulled
    /\ ~v.broken =>
         /\ RowsTold(B, n, v.rows, lost)
         /\ ReverseTold(B, n, v.rev, skipped \cup pulled)
         /\ MintsNamed(B, n, known \cup v.names)
SeenInv(c, v, n, lost, skipped) ==
    SeenOK(chain[c], db[c].rev, names, pull.addresses, v, n, lost, skipped)

TxInv(c) ==
    LET x == tx[c] IN
    /\ x = [pc |-> x.pc, to |-> x.to, block |-> x.block, tables |-> x.tables,
            found |-> x.found, lost |-> x.lost, skipped |-> x.skipped]
    /\ x.pc \in {"idle", "block", "insert"}
    /\ x.to \in 0 .. Len(chain[c]) /\ x.block \in 0 .. x.to
    /\ x.pc = "insert" => x.block < x.to /\ Inserts(c)
    /\ x.found => x.pc = "insert" /\ TokenOf(c) \in names
    /\ x.pc # "idle" =>
         /\ db[c].block <= x.block
         /\ SeenInv(c, x.tables, x.block, x.lost, x.skipped)

PullInv ==
    /\ pull = [pc |-> pull.pc, token |-> pull.token, on |-> pull.on, owner |-> pull.owner,
               reverse |-> pull.reverse, addresses |-> pull.addresses]
    /\ pull.pc \in {"idle", "ask", "reverse", "save"}
    /\ pull.pc # "idle" => pull.token \in Pulled
    /\ pull.pc \in {"reverse", "save"} =>
         pull.on \in Chains /\ OwnerAt(chain[pull.on], Len(chain[pull.on]), pull.token) # None
    /\ pull.pc = "save" /\ pull.reverse =>
         pull.owner \in Addresses /\ SetBy(chain[pull.on], pull.token, pull.owner)

WorkersInv ==
    /\ names \subseteq Tokens
    /\ db = [c \in Chains |-> db[c]] /\ tx = [c \in Chains |-> tx[c]]
    /\ \A c \in Chains : DbInv(c) /\ TxInv(c)
    /\ PullInv

-----------------------------------------------------------------------------
(* The inductive invariant: the look-up *)

\* No mint of the token that is looked up lies below the blocks to be asked for.
Since(c) ==
    \A n \in 1 .. Len(chain[c]) :
        NewUri(lookup.token) \in Range(chain[c][n]) => lookup.from[c] <= n

Missed == lookup.miss = "read" /\ ~lookup.overtaken

LookupInv ==
    /\ missed \subseteq Asked
    /\ lookup = [pc |-> lookup.pc, token |-> lookup.token,
                 from |-> [c \in Chains |-> lookup.from[c]], minted |-> lookup.minted,
                 miss |-> lookup.miss, overtaken |-> lookup.overtaken,
                 failed |-> lookup.failed]
    /\ lookup.pc \in {"idle", "node", "maticBlock", "ethBlock", "query", "unknown"}
    /\ lookup.token \in IF At("idle") THEN {None} ELSE Asked
    /\ \A c \in Chains : lookup.from[c] \in 0 .. Len(chain[c])
    /\ lookup.minted => EverMinted(lookup.token)
    /\ At("maticBlock") \/ At("ethBlock") \/ At("query") =>
         /\ lookup.miss \in {"cached", "read"}
         /\ Missed => lookup.token \notin names
    /\ (At("ethBlock") \/ At("query")) /\ Missed => Since("MATIC")
    /\ At("query") /\ Missed => Since("ETH")
    /\ FoundUnlessOvertaken

ApiInv == ChainInv /\ WorkersInv /\ LookupInv

-----------------------------------------------------------------------------
(* The last event of a kind *)

\* Numbers have a least one: the one with the fewest numbers up to it.
LEMMA LeastNatural ==
    ASSUME NEW T, T \subseteq Nat, T # {}
    PROVE  \E m \in T : \A n \in T : m <= n
<1> DEFINE F == {0 .. n : n \in T}
<1>1. F # {} /\ F \subseteq FiniteSubsetsOf(Nat)
  <2>1. \A n \in T : IsFiniteSet(0 .. n) /\ 0 .. n \subseteq Nat
    BY FS_Interval
  <2> QED
    BY <2>1 DEF FiniteSubsetsOf
<1>2. PICK V \in F : \A U \in F : <<U, V>> \notin StrictSubsetOrdering(Nat)
  <2> HIDE DEF F
  <2> QED
    BY <1>1, FS_StrictSubsetOrderingWellFounded, WFMin
<1>3. PICK m \in T : V = 0 .. m
  OBVIOUS
<1>4. ASSUME NEW n \in T, n < m
      PROVE  FALSE
  <2> DEFINE U == 0 .. n
  <2>1. n \in Nat /\ m \in Nat
    OBVIOUS
  <2>2. U \in F /\ U \subseteq V /\ V \subseteq Nat /\ m \in V /\ m \notin U
    BY <1>3, <1>4, <2>1
  <2>3. <<U, V>> \notin StrictSubsetOrdering(Nat)
    BY <1>2, <2>2
  <2> HIDE DEF U
  <2> QED
    BY <2>2, <2>3 DEF StrictSubsetOrdering
<1> QED
  BY <1>4

LEMMA MaxOf ==
    ASSUME NEW n \in Nat, NEW T, T \subseteq 1 .. n, T # {}
    PROVE  Max(T) \in T /\ \A i \in T : i <= Max(T)
<1> DEFINE D == {n - i : i \in T}
<1>1. T \subseteq Nat /\ D \subseteq Nat /\ D # {}
  <2>1. \A i \in T : i \in Nat /\ i <= n
    OBVIOUS
  <2>2. \A i \in T : n - i \in Nat
    BY <2>1
  <2> QED
    BY <2>1, <2>2
<1>2. PICK k \in D : \A j \in D : k <= j
  <2> HIDE DEF D
  <2> QED
    BY <1>1, LeastNatural
<1>3. PICK m \in T : \A i \in T : i <= m
  <2>1. PICK m \in T : k = n - m
    OBVIOUS
  <2>2. \A i \in T : n - m <= n - i
    BY <1>2, <2>1
  <2>3. \A i \in T : i <= m
    BY <1>1, <2>2
  <2> QED
    BY <2>3
<1>4. m >= m /\ \A i \in T : m >= i
  BY <1>1, <1>3
<1> QED
  BY <1>1, <1>4 DEF Max

\* A block has one event of a kind.
OneIn(b, S) == \A e, f \in Range(b) : e \in S /\ f \in S => e = f

LEMMA LastNone ==
    ASSUME NEW B, NEW n, NEW S, \A i \in 1 .. n : ~In(B[i], S)
    PROVE  LastIn(B, n, S) = NoEvent
BY DEF LastIn

LEMMA LastIs ==
    ASSUME NEW B, NEW n \in Nat, NEW S, NEW m \in 1 .. n,
           NEW e \in Range(B[m]), e \in S, OneIn(B[m], S),
           \A i \in m + 1 .. n : ~In(B[i], S)
    PROVE  LastIn(B, n, S) = e
<1> DEFINE T == {i \in 1 .. n : In(B[i], S)}
<1>1. m \in T /\ \A i \in T : i <= m
  BY DEF In
<1>2. Max(T) \in T /\ \A i \in T : i <= Max(T)
  <2> HIDE DEF T
  <2>1. T # {}
    BY <1>1
  <2>2. T \subseteq 1 .. n
    BY DEF T
  <2> QED
    BY <2>1, <2>2, MaxOf
<1>3. Max(T) = m
  BY <1>1, <1>2
<1>4. T # {}
  BY <1>1
<1> HIDE DEF T
<1>5. LastIn(B, n, S) = CHOOSE f \in Range(B[m]) : f \in S
  BY <1>3, <1>4 DEF LastIn, T
<1>6. (CHOOSE f \in Range(B[m]) : f \in S) \in Range(B[m]) \cap S
  OBVIOUS
<1> QED
  BY <1>5, <1>6 DEF OneIn

\* There is none, or it is in some block, and no later one has any.
LEMMA LastFound ==
    ASSUME NEW B, NEW n \in Nat, NEW S, \A i \in 1 .. n : OneIn(B[i], S)
    PROVE  \/ LastIn(B, n, S) = NoEvent /\ \A i \in 1 .. n : ~In(B[i], S)
           \/ \E m \in 1 .. n :
                /\ LastIn(B, n, S) \in Range(B[m]) \cap S
                /\ \A i \in m + 1 .. n : ~In(B[i], S)
<1> DEFINE T == {i \in 1 .. n : In(B[i], S)}
<1>1. CASE T = {}
  BY <1>1, LastNone
<1>2. CASE T # {}
  <2>1. T \subseteq 1 .. n
    OBVIOUS
  <2>2. PICK m \in T : \A i \in T : i <= m
    <3> HIDE DEF T
    <3> QED
      BY <1>2, <2>1, MaxOf
  <2>3. PICK e \in Range(B[m]) : e \in S
    BY DEF In
  <2>4. m \in 1 .. n /\ \A i \in m + 1 .. n : ~In(B[i], S)
    BY <2>2
  <2>5. LastIn(B, n, S) = e
    <3> HIDE DEF T
    <3> QED
      BY <2>3, <2>4, LastIs
  <2> QED
    BY <2>3, <2>4, <2>5
<1> QED
  BY <1>1, <1>2

\* Blocks without one do not count.
LEMMA LastSkips ==
    ASSUME NEW B, NEW m \in Nat, NEW n \in Nat, m <= n, NEW S,
           \A i \in m + 1 .. n : ~In(B[i], S)
    PROVE  LastIn(B, n, S) = LastIn(B, m, S)
<1> DEFINE Of(k) == {i \in 1 .. k : In(B[i], S)}
           Event(T) == IF T = {} THEN NoEvent ELSE CHOOSE e \in Range(B[Max(T)]) : e \in S
<1>1. Of(n) = Of(m)
  OBVIOUS
<1>2. \A k : LastIn(B, k, S) = Event(Of(k))
  BY DEF LastIn
<1> HIDE DEF Of, Event
<1> QED
  BY <1>1, <1>2

\* Nor do later blocks.
LEMMA LastSame ==
    ASSUME NEW B, NEW D, NEW n \in Nat, NEW S, \A i \in 1 .. n : B[i] = D[i]
    PROVE  LastIn(B, n, S) = LastIn(D, n, S)
<1> DEFINE Of(F) == {i \in 1 .. n : In(F[i], S)}
           Event(b) == CHOOSE e \in Range(b) : e \in S
<1>1. Of(B) = Of(D)
  OBVIOUS
<1>2. Of(B) # {} => B[Max(Of(B))] = D[Max(Of(B))]
  <2>1. Of(B) \subseteq 1 .. n
    OBVIOUS
  <2> HIDE DEF Of
  <2> QED
    BY <2>1, MaxOf
<1>3. \A F : LastIn(F, n, S) = IF Of(F) = {} THEN NoEvent ELSE Event(F[Max(Of(F))])
  BY DEF LastIn
<1> HIDE DEF Of, Event
<1> QED
  BY <1>1, <1>2, <1>3

-----------------------------------------------------------------------------
(* Blocks and their events *)

LEMMA MarksDiffer ==
    /\ None # Null /\ None # Repo!Keep /\ Null # Repo!Keep
    /\ Bridge \notin {None, Null, Repo!Keep}
    /\ None \notin Tokens
    /\ \A t \in Tokens : \A a \in Owners[t] : a \notin {None, Null, Repo!Keep, Bridge}
    /\ \A t \in Tokens : None \notin Marks(t) /\ Repo!Keep \notin Marks(t)
    /\ None \notin Addresses
BY BridgedAssumption DEF None, Null, Bridge, Marks, Addresses, Repo!Absent,
   Repo!NullAddress, Repo!Keep

LEMMA RangeOne ==
    ASSUME NEW e, NEW b, b = <<e>>
    PROVE  Range(b) = {e} /\ Len(b) = 1
BY DEF Range

LEMMA RangeTwo ==
    ASSUME NEW e, NEW f, NEW b, b = <<e, f>>
    PROVE  Range(b) = {e, f} /\ Len(b) = 2
BY DEF Range

LEMMA EventKinds ==
    /\ \A t, from, to : Transfer(t, from, to).type = "Transfer"
                        /\ Transfer(t, from, to).token = t
                        /\ Transfer(t, from, to).to = to
                        /\ Transfer(t, from, to).from = from
    /\ \A t : NewUri(t).type = "NewURI" /\ NewUri(t).token = t
    /\ \A a : Removal(a).type = "RemoveReverse" /\ Removal(a).addr = a
    /\ \A t, a : Setting(t, a).type = "SetReverse" /\ Setting(t, a).token = t
                 /\ Setting(t, a).addr = a
    /\ NoEvent.type = "none"
BY DEF Transfer, NewUri, Removal, Setting, NoEvent

\* What a block has of transfers and of reverse records.
LEMMA MintBlock ==
    ASSUME NEW b, NEW t \in Tokens, NEW o \in Owners[t], IsMintBlock(b, t, o)
    PROVE  /\ Range(b) = {Transfer(t, Null, o), NewUri(t)}
           /\ \A u \in Tokens : Range(b) \cap TransfersOf(u) =
                                   IF u = t THEN {Transfer(t, Null, o)} ELSE {}
           /\ \A a : Range(b) \cap ReversesOf(a) = {}
<1>1. Range(b) = {Transfer(t, Null, o), NewUri(t)}
  BY RangeTwo DEF IsMintBlock
<1>2. Transfer(t, Null, o) \in TransfersOf(t)
  BY DEF TransfersOf, Marks
<1>3. \A u : NewUri(t) \notin TransfersOf(u)
  BY EventKinds DEF TransfersOf
<1>4. \A u : u # t => Transfer(t, Null, o) \notin TransfersOf(u)
  BY EventKinds DEF TransfersOf
<1>5. \A a : Transfer(t, Null, o) \notin ReversesOf(a) /\ NewUri(t) \notin ReversesOf(a)
  BY EventKinds DEF ReversesOf
<1> QED
  BY <1>1, <1>2, <1>3, <1>4, <1>5

LEMMA MoveBlock ==
    ASSUME NEW b, NEW t \in Tokens, NEW from \in Marks(t), NEW to \in Marks(t),
           IsMoveBlock(b, t, from, to)
    PROVE  /\ Range(b) = {Transfer(t, from, to)}
           /\ \A u \in Tokens : Range(b) \cap TransfersOf(u) =
                                   IF u = t THEN {Transfer(t, from, to)} ELSE {}
           /\ \A a : Range(b) \cap ReversesOf(a) = {}
<1>1. Range(b) = {Transfer(t, from, to)}
  BY RangeOne DEF IsMoveBlock
<1>2. Transfer(t, from, to) \in TransfersOf(t)
  BY DEF TransfersOf
<1>3. \A u : u # t => Transfer(t, from, to) \notin TransfersOf(u)
  BY EventKinds DEF TransfersOf
<1>4. \A a : Transfer(t, from, to) \notin ReversesOf(a)
  BY EventKinds DEF ReversesOf
<1> QED
  BY <1>1, <1>2, <1>3, <1>4

LEMMA LeaveBlock ==
    ASSUME NEW b, NEW t \in Tokens, NEW from \in Owners[t], NEW to \in Marks(t),
           IsLeaveBlock(b, t, from, to)
    PROVE  /\ Range(b) = {Removal(from), Transfer(t, from, to)}
           /\ \A u \in Tokens : Range(b) \cap TransfersOf(u) =
                                   IF u = t THEN {Transfer(t, from, to)} ELSE {}
           /\ \A a : Range(b) \cap ReversesOf(a) = IF a = from THEN {Removal(a)} ELSE {}
<1>1. Range(b) = {Removal(from), Transfer(t, from, to)}
  BY RangeTwo DEF IsLeaveBlock
<1>2. Transfer(t, from, to) \in TransfersOf(t)
  BY DEF TransfersOf, Marks
<1>3. \A u : u # t => Transfer(t, from, to) \notin TransfersOf(u)
  BY EventKinds DEF TransfersOf
<1>4. \A a : Transfer(t, from, to) \notin ReversesOf(a)
  BY EventKinds DEF ReversesOf
<1>5. \A u : Removal(from) \notin TransfersOf(u)
  BY EventKinds DEF TransfersOf
<1>6. \A a : Removal(from) \in ReversesOf(a) <=> a = from
  BY EventKinds DEF ReversesOf
<1> QED
  BY <1>1, <1>2, <1>3, <1>4, <1>5, <1>6

LEMMA SetBlock ==
    ASSUME NEW b, NEW t \in Tokens, NEW o \in Owners[t], IsSetBlock(b, t, o)
    PROVE  /\ Range(b) = {Setting(t, o)}
           /\ \A u \in Tokens : Range(b) \cap TransfersOf(u) = {}
           /\ \A a : Range(b) \cap ReversesOf(a) = IF a = o THEN {Setting(t, a)} ELSE {}
<1>1. Range(b) = {Setting(t, o)}
  BY RangeOne DEF IsSetBlock
<1>2. \A u : Setting(t, o) \notin TransfersOf(u)
  BY EventKinds DEF TransfersOf
<1>3. \A a : Setting(t, o) \in ReversesOf(a) <=> a = o
  BY EventKinds DEF ReversesOf
<1> QED
  BY <1>1, <1>2, <1>3

LEMMA OneEach ==
    ASSUME NEW b, IsBlock(b)
    PROVE  /\ \A t \in Tokens : OneIn(b, TransfersOf(t))
           /\ \A a : OneIn(b, ReversesOf(a))
<1>1. PICK t \in Tokens :
        \/ \E o \in Owners[t] : IsMintBlock(b, t, o)
        \/ \E from, to \in Marks(t) : IsMoveBlock(b, t, from, to)
        \/ \E from \in Owners[t], to \in Marks(t) : IsLeaveBlock(b, t, from, to)
        \/ \E o \in Owners[t] : IsSetBlock(b, t, o)
  BY DEF IsBlock
<1>2. CASE \E o \in Owners[t] : IsMintBlock(b, t, o)
  BY <1>2, MintBlock DEF OneIn
<1>3. CASE \E from, to \in Marks(t) : IsMoveBlock(b, t, from, to)
  BY <1>3, MoveBlock DEF OneIn
<1>4. CASE \E from \in Owners[t], to \in Marks(t) : IsLeaveBlock(b, t, from, to)
  BY <1>4, LeaveBlock DEF OneIn
<1>5. CASE \E o \in Owners[t] : IsSetBlock(b, t, o)
  BY <1>5, SetBlock DEF OneIn
<1> QED
  BY <1>1, <1>2, <1>3, <1>4, <1>5

-----------------------------------------------------------------------------
(* Owners and reverse records, block by block *)

LEMMA NothingAtFirst ==
    ASSUME NEW B, NEW x
    PROVE  OwnerAt(B, 0, x) = None /\ ReverseAt(B, 0, x) = None
<1>1. \A S : LastIn(B, 0, S) = NoEvent
  BY LastNone
<1> QED
  BY <1>1, EventKinds DEF OwnerAt, ReverseAt

LEMMA LaterBlocks ==
    ASSUME NEW B, NEW D, NEW n \in Nat, NEW x, \A i \in 1 .. n : B[i] = D[i]
    PROVE  OwnerAt(B, n, x) = OwnerAt(D, n, x) /\ ReverseAt(B, n, x) = ReverseAt(D, n, x)
<1>1. \A S : LastIn(B, n, S) = LastIn(D, n, S)
  BY LastSame
<1> QED
  BY <1>1 DEF OwnerAt, ReverseAt

\* What block n makes of the owner of t and the reverse record of a, given those before.
OwnerAfter(b, t, old) ==
    IF In(b, TransfersOf(t)) THEN (CHOOSE e \in Range(b) : e \in TransfersOf(t)).to ELSE old
ReverseAfter(b, a, old) ==
    IF In(b, ReversesOf(a))
    THEN LET e == CHOOSE e \in Range(b) : e \in ReversesOf(a)
         IN IF e.type = "SetReverse" THEN e.token ELSE None
    ELSE old

LEMMA BlockByBlock ==
    ASSUME NEW B, NEW n \in Nat \ {0}, IsBlock(B[n]), NEW t \in Tokens, NEW a
    PROVE  /\ OwnerAt(B, n, t) = OwnerAfter(B[n], t, OwnerAt(B, n - 1, t))
           /\ ReverseAt(B, n, a) = ReverseAfter(B[n], a, ReverseAt(B, n - 1, a))
<1>1. ASSUME NEW S, OneIn(B[n], S)
      PROVE  LastIn(B, n, S) = IF In(B[n], S) THEN CHOOSE e \in Range(B[n]) : e \in S
                               ELSE LastIn(B, n - 1, S)
  <2>1. CASE In(B[n], S)
    <3> DEFINE e == CHOOSE e \in Range(B[n]) : e \in S
    <3>1. e \in Range(B[n]) /\ e \in S
      BY <2>1 DEF In
    <3>2. LastIn(B, n, S) = e
      <4> HIDE DEF e
      <4> QED
        BY <1>1, <3>1, LastIs
    <3> QED
      BY <2>1, <3>2
  <2>2. CASE ~In(B[n], S)
    <3>1. n - 1 \in Nat /\ n - 1 <= n /\ \A i \in (n - 1) + 1 .. n : i = n
      OBVIOUS
    <3>2. LastIn(B, n, S) = LastIn(B, n - 1, S)
      BY <2>2, <3>1, LastSkips
    <3> QED
      BY <2>2, <3>2
  <2> QED
    BY <2>1, <2>2
<1>2. OwnerAt(B, n, t) = OwnerAfter(B[n], t, OwnerAt(B, n - 1, t))
  <2> DEFINE S == TransfersOf(t)
             e == CHOOSE e \in Range(B[n]) : e \in S
  <2>1. LastIn(B, n, S) = IF In(B[n], S) THEN e ELSE LastIn(B, n - 1, S)
    BY <1>1, OneEach
  <2>2. In(B[n], S) => e # NoEvent
    <3>1. In(B[n], S) => e \in S
      BY DEF In
    <3>2. NoEvent \notin S
      BY EventKinds DEF TransfersOf
    <3> QED
      BY <3>1, <3>2
  <2> QED
    BY <2>1, <2>2 DEF OwnerAt, OwnerAfter
<1>3. ReverseAt(B, n, a) = ReverseAfter(B[n], a, ReverseAt(B, n - 1, a))
  <2> DEFINE S == ReversesOf(a)
             e == CHOOSE e \in Range(B[n]) : e \in S
  <2>1. LastIn(B, n, S) = IF In(B[n], S) THEN e ELSE LastIn(B, n - 1, S)
    BY <1>1, OneEach
  <2> QED
    BY <2>1 DEF ReverseAt, ReverseAfter
<1> QED
  BY <1>2, <1>3

\* The same by the kind of the block.
LEMMA AfterMinting ==
    ASSUME NEW b, NEW t \in Tokens, NEW o \in Owners[t], IsMintBlock(b, t, o)
    PROVE  /\ \A u \in Tokens : \A old : OwnerAfter(b, u, old) = IF u = t THEN o ELSE old
           /\ \A a, old : ReverseAfter(b, a, old) = old
<1>1. ASSUME NEW u \in Tokens, NEW old
      PROVE  OwnerAfter(b, u, old) = IF u = t THEN o ELSE old
  <2>1. u = t => (CHOOSE e \in Range(b) : e \in TransfersOf(u)) = Transfer(t, Null, o)
    BY MintBlock
  <2>2. In(b, TransfersOf(u)) <=> u = t
    BY MintBlock DEF In
  <2>3. Transfer(t, Null, o).to = o
    BY EventKinds
  <2> QED
    BY <2>1, <2>2, <2>3 DEF OwnerAfter
<1> QED
  BY <1>1, MintBlock DEF ReverseAfter, In

LEMMA AfterMoving ==
    ASSUME NEW b, NEW t \in Tokens, NEW from \in Marks(t), NEW to \in Marks(t),
           IsMoveBlock(b, t, from, to)
    PROVE  /\ \A u \in Tokens : \A old : OwnerAfter(b, u, old) = IF u = t THEN to ELSE old
           /\ \A a, old : ReverseAfter(b, a, old) = old
<1>1. ASSUME NEW u \in Tokens, NEW old
      PROVE  OwnerAfter(b, u, old) = IF u = t THEN to ELSE old
  <2>1. u = t => (CHOOSE e \in Range(b) : e \in TransfersOf(u)) = Transfer(t, from, to)
    BY MoveBlock
  <2> QED
    BY <2>1, MoveBlock, EventKinds DEF OwnerAfter, In
<1> QED
  BY <1>1, MoveBlock DEF ReverseAfter, In

LEMMA AfterLeaving ==
    ASSUME NEW b, NEW t \in Tokens, NEW from \in Owners[t], NEW to \in Marks(t),
           IsLeaveBlock(b, t, from, to)
    PROVE  /\ \A u \in Tokens : \A old : OwnerAfter(b, u, old) = IF u = t THEN to ELSE old
           /\ \A a, old : ReverseAfter(b, a, old) = IF a = from THEN None ELSE old
<1>1. ASSUME NEW u \in Tokens, NEW old
      PROVE  OwnerAfter(b, u, old) = IF u = t THEN to ELSE old
  <2>1. u = t => (CHOOSE e \in Range(b) : e \in TransfersOf(u)) = Transfer(t, from, to)
    BY LeaveBlock
  <2>2. In(b, TransfersOf(u)) <=> u = t
    BY LeaveBlock DEF In
  <2>3. Transfer(t, from, to).to = to
    BY EventKinds
  <2> QED
    BY <2>1, <2>2, <2>3 DEF OwnerAfter
<1>2. ASSUME NEW a, NEW old
      PROVE  ReverseAfter(b, a, old) = IF a = from THEN None ELSE old
  <2>1. a = from => (CHOOSE e \in Range(b) : e \in ReversesOf(a)) = Removal(a)
    BY LeaveBlock
  <2>2. In(b, ReversesOf(a)) <=> a = from
    BY LeaveBlock DEF In
  <2>3. Removal(a).type # "SetReverse"
    BY EventKinds
  <2> QED
    BY <2>1, <2>2, <2>3 DEF ReverseAfter
<1> QED
  BY <1>1, <1>2

LEMMA AfterSetting ==
    ASSUME NEW b, NEW t \in Tokens, NEW o \in Owners[t], IsSetBlock(b, t, o)
    PROVE  /\ \A u \in Tokens : \A old : OwnerAfter(b, u, old) = old
           /\ \A a, old : ReverseAfter(b, a, old) = IF a = o THEN t ELSE old
<1>1. ASSUME NEW u \in Tokens, NEW old
      PROVE  OwnerAfter(b, u, old) = old
  <2>1. ~In(b, TransfersOf(u))
    BY SetBlock DEF In
  <2> QED
    BY <2>1 DEF OwnerAfter
<1>2. ASSUME NEW a, NEW old
      PROVE  ReverseAfter(b, a, old) = IF a = o THEN t ELSE old
  <2>1. a = o => (CHOOSE e \in Range(b) : e \in ReversesOf(a)) = Setting(t, a)
    BY SetBlock
  <2>2. In(b, ReversesOf(a)) <=> a = o
    BY SetBlock DEF In
  <2>3. Setting(t, a).type = "SetReverse" /\ Setting(t, a).token = t
    BY EventKinds
  <2> QED
    BY <2>1, <2>2, <2>3 DEF ReverseAfter
<1> QED
  BY <1>1, <1>2

LEMMA BlockIsOfAKind ==
    ASSUME NEW b, IsBlock(b)
    PROVE  \E t \in Tokens :
               \/ \E o \in Owners[t] : IsMintBlock(b, t, o)
               \/ \E from, to \in Marks(t) : IsMoveBlock(b, t, from, to)
               \/ \E from \in Owners[t], to \in Marks(t) : IsLeaveBlock(b, t, from, to)
               \/ \E o \in Owners[t] : IsSetBlock(b, t, o)
BY DEF IsBlock

-----------------------------------------------------------------------------
(* The model's operators in these terms *)

LEMMA IsTransfer ==
    ASSUME NEW b, IsBlock(b), NEW t \in Tokens, NEW e \in Range(b)
    PROVE  IsTransferOf(e, t) <=> e \in TransfersOf(t)
<1>1. e \in TransfersOf(t) => IsTransferOf(e, t)
  BY EventKinds DEF TransfersOf, IsTransferOf
<1>2. ASSUME IsTransferOf(e, t)
      PROVE  e \in TransfersOf(t)
  <2>1. PICK u \in Tokens :
          \/ \E o \in Owners[u] : IsMintBlock(b, u, o)
          \/ \E from, to \in Marks(u) : IsMoveBlock(b, u, from, to)
          \/ \E from \in Owners[u], to \in Marks(u) : IsLeaveBlock(b, u, from, to)
          \/ \E o \in Owners[u] : IsSetBlock(b, u, o)
    BY BlockIsOfAKind
  <2>2. \E from, to \in Marks(u) : e = Transfer(u, from, to)
    <3>1. CASE \E o \in Owners[u] : IsMintBlock(b, u, o)
      BY <1>2, <3>1, MintBlock, EventKinds DEF IsTransferOf, Marks
    <3>2. CASE \E from, to \in Marks(u) : IsMoveBlock(b, u, from, to)
      BY <1>2, <3>2, MoveBlock
    <3>3. CASE \E from \in Owners[u], to \in Marks(u) : IsLeaveBlock(b, u, from, to)
      BY <1>2, <3>3, LeaveBlock, EventKinds DEF IsTransferOf, Marks
    <3>4. CASE \E o \in Owners[u] : IsSetBlock(b, u, o)
      BY <1>2, <3>4, SetBlock, EventKinds DEF IsTransferOf
    <3> QED
      BY <2>1, <3>1, <3>2, <3>3, <3>4
  <2>3. u = t
    BY <1>2, <2>2, EventKinds DEF IsTransferOf
  <2> QED
    BY <2>2, <2>3 DEF TransfersOf
<1> QED
  BY <1>1, <1>2

LEMMA IsReverse ==
    ASSUME NEW b, IsBlock(b), NEW a, NEW e \in Range(b)
    PROVE  (e.type \in {"SetReverse", "RemoveReverse"} /\ e.addr = a) <=> e \in ReversesOf(a)
<1>1. e \in ReversesOf(a) => e.type \in {"SetReverse", "RemoveReverse"} /\ e.addr = a
  BY EventKinds DEF ReversesOf
<1>2. ASSUME e.type \in {"SetReverse", "RemoveReverse"}, e.addr = a
      PROVE  e \in ReversesOf(a)
  <2>1. PICK u \in Tokens :
          \/ \E o \in Owners[u] : IsMintBlock(b, u, o)
          \/ \E from, to \in Marks(u) : IsMoveBlock(b, u, from, to)
          \/ \E from \in Owners[u], to \in Marks(u) : IsLeaveBlock(b, u, from, to)
          \/ \E o \in Owners[u] : IsSetBlock(b, u, o)
    BY BlockIsOfAKind
  <2>2. CASE \E o \in Owners[u] : IsMintBlock(b, u, o)
    BY <1>2, <2>2, MintBlock, EventKinds
  <2>3. CASE \E from, to \in Marks(u) : IsMoveBlock(b, u, from, to)
    BY <1>2, <2>3, MoveBlock, EventKinds
  <2>4. CASE \E from \in Owners[u], to \in Marks(u) : IsLeaveBlock(b, u, from, to)
    BY <1>2, <2>4, LeaveBlock, EventKinds DEF ReversesOf
  <2>5. CASE \E o \in Owners[u] : IsSetBlock(b, u, o)
    BY <1>2, <2>5, SetBlock, EventKinds DEF ReversesOf
  <2> QED
    BY <2>1, <2>2, <2>3, <2>4, <2>5
<1> QED
  BY <1>1, <1>2

LEMMA OwnerOnIs ==
    ASSUME ChainInv, NEW c \in Chains, NEW t \in Tokens
    PROVE  OwnerOn(c, t) = OwnerAt(chain[c], Len(chain[c]), t)
<1> DEFINE B == chain[c]
           S == {n \in 1 .. Len(B) : \E e \in Range(B[n]) : IsTransferOf(e, t)}
           T == {i \in 1 .. Len(B) : In(B[i], TransfersOf(t))}
           Of(b) == CHOOSE e \in Range(b) : IsTransferOf(e, t)
           Among(b) == CHOOSE e \in Range(b) : e \in TransfersOf(t)
<1>1. IsChain(B)
  BY DEF ChainInv
<1>2. \A i \in 1 .. Len(B) : \A e \in Range(B[i]) : IsTransferOf(e, t) <=> e \in TransfersOf(t)
  BY <1>1, IsTransfer DEF IsChain
<1>3. S = T
  BY <1>2 DEF In
<1>4. T # {} => Of(B[Max(T)]) = Among(B[Max(T)])
  <2>1. T \subseteq 1 .. Len(B) /\ Len(B) \in Nat
    BY <1>1 DEF IsChain
  <2>2. T # {} => Max(T) \in 1 .. Len(B)
    <3> HIDE DEF T
    <3> QED
      BY <2>1, MaxOf
  <2> QED
    BY <1>2, <2>2
<1>5. OwnerOn(c, t) =
        IF (IF S = {} THEN NoEvent ELSE Of(B[Max(S)])) = NoEvent THEN None
        ELSE (IF S = {} THEN NoEvent ELSE Of(B[Max(S)])).to
  BY DEF OwnerOn, LastOf, BlocksOf, EventAt
<1>6. OwnerAt(B, Len(B), t) =
        IF (IF T = {} THEN NoEvent ELSE Among(B[Max(T)])) = NoEvent THEN None
        ELSE (IF T = {} THEN NoEvent ELSE Among(B[Max(T)])).to
  BY DEF OwnerAt, LastIn
<1> HIDE DEF S, T, Of, Among
<1> QED
  BY <1>3, <1>4, <1>5, <1>6

LEMMA ReverseOfIs ==
    ASSUME ChainInv, NEW c \in Chains, NEW a
    PROVE  ReverseOf(c, a) = ReverseAt(chain[c], Len(chain[c]), a)
<1> DEFINE B == chain[c]
           Is(e) == e.type \in {"SetReverse", "RemoveReverse"} /\ e.addr = a
           S == {n \in 1 .. Len(B) : \E e \in Range(B[n]) : Is(e)}
           T == {i \in 1 .. Len(B) : In(B[i], ReversesOf(a))}
           Of(b) == CHOOSE e \in Range(b) : Is(e)
           Among(b) == CHOOSE e \in Range(b) : e \in ReversesOf(a)
<1>1. IsChain(B)
  BY DEF ChainInv
<1>2. \A i \in 1 .. Len(B) : \A e \in Range(B[i]) : Is(e) <=> e \in ReversesOf(a)
  BY <1>1, IsReverse DEF IsChain
<1>3. S = T
  BY <1>2 DEF In
<1>4. T # {} => Of(B[Max(T)]) = Among(B[Max(T)])
  <2>1. T \subseteq 1 .. Len(B) /\ Len(B) \in Nat
    BY <1>1 DEF IsChain
  <2>2. T # {} => Max(T) \in 1 .. Len(B)
    <3> HIDE DEF T
    <3> QED
      BY <2>1, MaxOf
  <2> QED
    BY <1>2, <2>2
<1>5. ReverseOf(c, a) =
        IF (IF S = {} THEN NoEvent ELSE Of(B[Max(S)])).type = "SetReverse"
        THEN (IF S = {} THEN NoEvent ELSE Of(B[Max(S)])).token ELSE None
  BY DEF ReverseOf, LastOf, BlocksOf, EventAt
<1>6. ReverseAt(B, Len(B), a) =
        IF (IF T = {} THEN NoEvent ELSE Among(B[Max(T)])).type = "SetReverse"
        THEN (IF T = {} THEN NoEvent ELSE Among(B[Max(T)])).token ELSE None
  BY DEF ReverseAt, LastIn
<1> HIDE DEF S, T, Of, Among
<1> QED
  BY <1>3, <1>4, <1>5, <1>6

-----------------------------------------------------------------------------
(* A block more *)

Grown(B, b, D) == D = Append(B, b)

LEMMA Appended ==
    ASSUME NEW B, NEW b, IsChain(B), IsBlock(b), NEW D, Grown(B, b, D)
    PROVE  /\ IsChain(D) /\ Len(D) = Len(B) + 1 /\ D[Len(B) + 1] = b
           /\ \A i \in 1 .. Len(B) : D[i] = B[i]
<1> DEFINE S == {B[n] : n \in 1 .. Len(B)}
<1>1. B \in Seq(S)
  <2>1. Len(B) \in Nat /\ B = [n \in 1 .. Len(B) |-> B[n]]
    BY DEF IsChain
  <2>2. B \in [1 .. Len(B) -> S]
    BY <2>1
  <2> QED
    BY <2>1, <2>2, SeqDef
<1>2. Len(B) \in Nat
  BY DEF IsChain
<1>3. /\ D \in Seq(S \cup {b}) /\ Len(D) = Len(B) + 1 /\ D[Len(B) + 1] = b
      /\ \A i \in 1 .. Len(B) : D[i] = B[i]
  <2>1. B \in Seq(S \cup {b})
    <3> HIDE DEF S
    <3> QED
      BY <1>1
  <2>2. b \in S \cup {b}
    OBVIOUS
  <2> HIDE DEF S
  <2> QED
    BY <2>1, <2>2 DEF Grown
<1>4. D = [n \in 1 .. Len(D) |-> D[n]]
  <2> HIDE DEF S
  <2>1. D \in [1 .. Len(D) -> S \cup {b}]
    BY <1>3
  <2> QED
    BY <2>1
<1>5. \A n \in 1 .. Len(D) : IsBlock(D[n])
  <2> HIDE DEF S
  <2> QED
    BY <1>2, <1>3 DEF IsChain
<1> QED
  BY <1>2, <1>3, <1>4, <1>5 DEF IsChain

LEMMA OwnersGrow ==
    ASSUME NEW B, NEW b, IsChain(B), IsBlock(b), NEW D, Grown(B, b, D)
    PROVE  /\ \A n \in 0 .. Len(B) : \A x :
                OwnerAt(D, n, x) = OwnerAt(B, n, x) /\ ReverseAt(D, n, x) = ReverseAt(B, n, x)
           /\ \A t \in Tokens :
                OwnerAt(D, Len(D), t) = OwnerAfter(b, t, OwnerAt(B, Len(B), t))
           /\ \A a : ReverseAt(D, Len(D), a) = ReverseAfter(b, a, ReverseAt(B, Len(B), a))
<1>1. /\ Len(D) = Len(B) + 1 /\ D[Len(D)] = b /\ Len(B) \in Nat
      /\ \A i \in 1 .. Len(B) : D[i] = B[i]
  BY Appended DEF IsChain
<1>2. ASSUME NEW n \in 0 .. Len(B), NEW x
      PROVE  OwnerAt(D, n, x) = OwnerAt(B, n, x) /\ ReverseAt(D, n, x) = ReverseAt(B, n, x)
  <2>1. n \in Nat /\ \A i \in 1 .. n : D[i] = B[i]
    BY <1>1
  <2> QED
    BY <2>1, LaterBlocks
<1>3. Len(D) \in Nat \ {0} /\ Len(D) - 1 = Len(B) /\ Len(B) \in 0 .. Len(B)
  BY <1>1
<1>4. ASSUME NEW t \in Tokens
      PROVE  OwnerAt(D, Len(D), t) = OwnerAfter(b, t, OwnerAt(B, Len(B), t))
  <2>1. OwnerAt(D, Len(D), t) = OwnerAfter(D[Len(D)], t, OwnerAt(D, Len(D) - 1, t))
    BY <1>1, <1>3, BlockByBlock
  <2> QED
    BY <1>1, <1>2, <1>3, <2>1
<1>5. ASSUME NEW a
      PROVE  ReverseAt(D, Len(D), a) = ReverseAfter(b, a, ReverseAt(B, Len(B), a))
  <2>1. PICK t : t \in Tokens
    BY BlockIsOfAKind
  <2>2. ReverseAt(D, Len(D), a) = ReverseAfter(D[Len(D)], a, ReverseAt(D, Len(D) - 1, a))
    BY <1>1, <1>3, <2>1, BlockByBlock
  <2> QED
    BY <1>1, <1>2, <1>3, <2>2
<1> QED
  BY <1>2, <1>4, <1>5

\* The block hands t over to x and nobody keeps a reverse record of t.
HandsOver(B, b, t, x) ==
    /\ IsBlock(b)
    /\ \A u \in Tokens : \A old : OwnerAfter(b, u, old) = IF u = t THEN x ELSE old
    /\ \A a \in Addresses : LET old == ReverseAt(B, Len(B), a)
                            IN ReverseAfter(b, a, old) \in {None, old} \ {t}
    /\ \A u \in Tokens : \A a \in Owners[u] : ~IsSetBlock(b, u, a)

AfterHandover(B, D, t, x) ==
    /\ \A u \in Tokens : OwnerAt(D, Len(D), u) =
                            IF u = t THEN x ELSE OwnerAt(B, Len(B), u)
    /\ \A a \in Addresses : \A u \in Tokens :
         ReverseAt(D, Len(D), a) = u => u # t /\ ReverseAt(B, Len(B), a) = u

LEMMA HandedOver ==
    ASSUME NEW B, IsChain(B), HistoryInv(B), NEW b, NEW t \in Tokens, NEW x,
           HandsOver(B, b, t, x), NEW D, Grown(B, b, D)
    PROVE  IsChain(D) /\ HistoryInv(D) /\ AfterHandover(B, D, t, x)
<1>1. IsBlock(b)
  BY DEF HandsOver
<1>2. /\ IsChain(D) /\ Len(D) = Len(B) + 1 /\ D[Len(B) + 1] = b
      /\ \A i \in 1 .. Len(B) : D[i] = B[i]
  BY <1>1, Appended
<1>3. Len(B) \in Nat
  BY DEF IsChain
<1>4. ASSUME NEW u \in Tokens
      PROVE  OwnerAt(D, Len(D), u) = IF u = t THEN x ELSE OwnerAt(B, Len(B), u)
  BY <1>1, OwnersGrow DEF HandsOver
<1>5. ASSUME NEW a \in Addresses, NEW u \in Tokens, ReverseAt(D, Len(D), a) = u
      PROVE  u # t /\ ReverseAt(B, Len(B), a) = u
  <2>1. ReverseAt(D, Len(D), a) = ReverseAfter(b, a, ReverseAt(B, Len(B), a))
    BY <1>1, OwnersGrow
  <2>2. ReverseAfter(b, a, ReverseAt(B, Len(B), a)) \in {None, ReverseAt(B, Len(B), a)} \ {t}
    BY DEF HandsOver
  <2> QED
    BY <1>5, <2>1, <2>2, MarksDiffer
<1>6. HistoryInv(D)
  <2>1. ASSUME NEW n \in 0 .. Len(D), NEW a \in Addresses, NEW u \in Tokens,
               ReverseAt(D, n, a) = u
        PROVE  OwnerAt(D, n, u) = a
    <3>1. CASE n = Len(D)
      <4>1. u # t /\ ReverseAt(B, Len(B), a) = u
        BY <1>5, <2>1, <3>1
      <4>2. OwnerAt(B, Len(B), u) = a
        BY <1>3, <4>1 DEF HistoryInv
      <4> QED
        BY <1>4, <3>1, <4>1, <4>2
    <3>2. CASE n \in 0 .. Len(B)
      BY <1>1, <2>1, <3>2, OwnersGrow DEF HistoryInv
    <3> QED
      BY <1>2, <1>3, <3>1, <3>2
  <2>2. ASSUME NEW n \in 1 .. Len(D), NEW u \in Tokens, NEW a \in Owners[u],
               IsSetBlock(D[n], u, a)
        PROVE  OwnerAt(D, n - 1, u) = a /\ ReverseAt(D, n - 1, a) # u
    <3>1. n \in 1 .. Len(B)
      BY <1>2, <1>3, <2>2 DEF HandsOver
    <3>2. IsSetBlock(B[n], u, a)
      BY <1>2, <2>2, <3>1
    <3>3. n - 1 \in 0 .. Len(B)
      BY <1>3, <3>1
    <3> QED
      BY <1>1, <3>1, <3>2, <3>3, OwnersGrow DEF HistoryInv
  <2> QED
    BY <2>1, <2>2 DEF HistoryInv
<1> QED
  BY <1>2, <1>4, <1>5, <1>6 DEF AfterHandover

LEMMA RecordSet ==
    ASSUME NEW B, IsChain(B), HistoryInv(B), NEW b, NEW t \in Tokens, NEW o \in Owners[t],
           IsSetBlock(b, t, o), OwnerAt(B, Len(B), t) = o, ReverseAt(B, Len(B), o) # t,
           NEW D, Grown(B, b, D)
    PROVE  /\ IsChain(D) /\ HistoryInv(D)
           /\ \A u \in Tokens : OwnerAt(D, Len(D), u) = OwnerAt(B, Len(B), u)
           /\ \A a : ReverseAt(D, Len(D), a) = IF a = o THEN t ELSE ReverseAt(B, Len(B), a)
<1>1. IsBlock(b)
  BY DEF IsBlock
<1>2. /\ IsChain(D) /\ Len(D) = Len(B) + 1 /\ D[Len(B) + 1] = b
      /\ \A i \in 1 .. Len(B) : D[i] = B[i]
  BY <1>1, Appended
<1>3. Len(B) \in Nat
  BY DEF IsChain
<1>4. /\ \A u \in Tokens : OwnerAt(D, Len(D), u) = OwnerAt(B, Len(B), u)
      /\ \A a : ReverseAt(D, Len(D), a) = IF a = o THEN t ELSE ReverseAt(B, Len(B), a)
  BY <1>1, OwnersGrow, AfterSetting
<1>5. HistoryInv(D)
  <2>1. ASSUME NEW n \in 0 .. Len(D), NEW a \in Addresses, NEW u \in Tokens,
               ReverseAt(D, n, a) = u
        PROVE  OwnerAt(D, n, u) = a
    <3>1. CASE n = Len(D)
      <4>1. CASE a = o
        BY <1>4, <2>1, <3>1, <4>1
      <4>2. CASE a # o
        <5>1. ReverseAt(B, Len(B), a) = u
          BY <1>4, <2>1, <3>1, <4>2
        <5>2. OwnerAt(B, Len(B), u) = a
          BY <1>3, <5>1 DEF HistoryInv
        <5> QED
          BY <1>4, <3>1, <5>2
      <4> QED
        BY <4>1, <4>2
    <3>2. CASE n \in 0 .. Len(B)
      BY <1>1, <2>1, <3>2, OwnersGrow DEF HistoryInv
    <3> QED
      BY <1>2, <1>3, <3>1, <3>2
  <2>2. ASSUME NEW n \in 1 .. Len(D), NEW u \in Tokens, NEW a \in Owners[u],
               IsSetBlock(D[n], u, a)
        PROVE  OwnerAt(D, n - 1, u) = a /\ ReverseAt(D, n - 1, a) # u
    <3>1. CASE n \in 1 .. Len(B)
      <4>1. IsSetBlock(B[n], u, a)
        BY <1>2, <2>2, <3>1
      <4>2. n - 1 \in 0 .. Len(B)
        BY <1>3, <3>1
      <4> QED
        BY <1>1, <3>1, <4>1, <4>2, OwnersGrow DEF HistoryInv
    <3>2. CASE n = Len(B) + 1
      <4>1. Setting(u, a) = Setting(t, o)
        BY <1>2, <2>2, <3>2 DEF IsSetBlock
      <4>2. u = t /\ a = o
        BY <4>1, EventKinds
      <4>3. n - 1 = Len(B) /\ n - 1 \in 0 .. Len(B)
        BY <1>3, <3>2
      <4> QED
        BY <1>1, <4>2, <4>3, OwnersGrow
    <3> QED
      BY <1>2, <1>3, <3>1, <3>2
  <2> QED
    BY <2>1, <2>2 DEF HistoryInv
<1> QED
  BY <1>2, <1>4, <1>5

-----------------------------------------------------------------------------
(* A step of the chains *)

Extends(B, D) ==
    /\ IsChain(B) /\ IsChain(D)
    /\ Len(B) <= Len(D) /\ \A i \in 1 .. Len(B) : D[i] = B[i]
    /\ \A n \in 0 .. Len(B) : \A x :
         OwnerAt(D, n, x) = OwnerAt(B, n, x) /\ ReverseAt(D, n, x) = ReverseAt(B, n, x)
    /\ \A t \in Tokens : OwnerAt(B, Len(B), t) # None => OwnerAt(D, Len(D), t) # None

LEMMA ExtendsItself ==
    ASSUME NEW B, IsChain(B)
    PROVE  Extends(B, B)
BY DEF Extends, IsChain

LEMMA GrownExtends ==
    ASSUME NEW B, NEW b, IsChain(B), IsBlock(b), NEW D, Grown(B, b, D),
           \A t \in Tokens : OwnerAt(B, Len(B), t) # None => OwnerAt(D, Len(D), t) # None
    PROVE  Extends(B, D)
<1>1. IsChain(D) /\ Len(D) = Len(B) + 1 /\ \A i \in 1 .. Len(B) : D[i] = B[i]
  BY Appended
<1>2. Len(B) \in Nat
  BY DEF IsChain
<1>3. \A n \in 0 .. Len(B) : \A x :
         OwnerAt(D, n, x) = OwnerAt(B, n, x) /\ ReverseAt(D, n, x) = ReverseAt(B, n, x)
  BY OwnersGrow
<1> QED
  BY <1>1, <1>2, <1>3 DEF Extends

LEMMA MinedGrows ==
    ASSUME ChainInv, NEW c \in Chains, NEW b, Mined(c, b)
    PROVE  /\ Grown(chain[c], b, chain'[c])
           /\ \A d \in Chains : d # c => chain'[d] = chain[d]
           /\ chain' = [d \in Chains |-> chain'[d]]
<1>1. chain = [d \in Chains |-> chain[d]]
  BY DEF ChainInv
<1>2. chain' = [d \in Chains |-> IF d = c THEN Append(chain[c], b) ELSE chain[d]]
  BY <1>1 DEF Mined
<1> QED
  BY <1>2 DEF Grown

LEMMA PlaceNow ==
    ASSUME ChainInv, NEW t \in Tokens, NEW on, NEW owner, Now(t, on, owner)
    PROVE  /\ place' = [u \in Tokens |-> place'[u]]
           /\ place'[t] = [on |-> on, owner |-> owner]
           /\ \A u \in Tokens : u # t => place'[u] = place[u]
<1>1. place = [u \in Tokens |-> place[u]]
  BY DEF ChainInv
<1>2. place' = [u \in Tokens |-> IF u = t THEN [on |-> on, owner |-> owner] ELSE place[u]]
  BY <1>1 DEF Now
<1> QED
  BY <1>2

Whereabouts == Chains \cup {None, "toMATIC", "toETH"}

LEMMA Transferred ==
    ASSUME ChainInv, NEW t \in Tokens, NEW c \in Chains, NEW b, NEW x \in Marks(t),
           NEW on \in Whereabouts, NEW owner,
           on # None => owner \in Owners[t],
           Mined(c, b), HandsOver(chain[c], b, t, x), Now(t, on, owner),
           x \in OwnersOn(c, [on |-> on, owner |-> owner]),
           \A d \in Chains \ {c} :
             /\ place[t].on # d
             /\ OwnerAt(chain[d], Len(chain[d]), t) \in OwnersOn(d, [on |-> on, owner |-> owner])
    PROVE  ChainInv' /\ \A d \in Chains : Extends(chain[d], chain'[d])
<1> DEFINE B == chain[c]
           D == chain'[c]
<1>1. /\ Grown(B, b, D) /\ chain' = [d \in Chains |-> chain'[d]]
      /\ \A d \in Chains : d # c => chain'[d] = chain[d]
  BY MinedGrows
<1>2. /\ place' = [u \in Tokens |-> place'[u]]
      /\ place'[t] = [on |-> on, owner |-> owner]
      /\ \A u \in Tokens : u # t => place'[u] = place[u]
  BY PlaceNow
<1>3. IsChain(B) /\ HistoryInv(B)
  BY DEF ChainInv
<1>3a. IsChain(D) /\ HistoryInv(D) /\ AfterHandover(B, D, t, x)
  <2>1. HandsOver(B, b, t, x)
    OBVIOUS
  <2> HIDE DEF B, D
  <2> QED
    BY <1>1, <1>3, <2>1, HandedOver
<1>4. /\ IsChain(D) /\ HistoryInv(D)
      /\ \A u \in Tokens : OwnerAt(D, Len(D), u) = IF u = t THEN x ELSE OwnerAt(B, Len(B), u)
      /\ \A a \in Addresses : \A u \in Tokens :
           ReverseAt(D, Len(D), a) = u => u # t /\ ReverseAt(B, Len(B), a) = u
  BY <1>3a DEF AfterHandover
<1>5. ASSUME NEW d \in Chains
      PROVE  IsChain(chain'[d]) /\ HistoryInv(chain'[d])
  BY <1>1, <1>4 DEF ChainInv
<1>6. ASSUME NEW u \in Tokens
      PROVE  PlaceInv(u)'
  <2>1. CASE u = t
    <3>1. ASSUME NEW d \in Chains
          PROVE  OwnerAt(chain'[d], Len(chain'[d]), t) \in OwnersOn(d, place'[t])
      BY <1>1, <1>2, <1>4
    <3> QED
      BY <1>2, <2>1, <3>1 DEF PlaceInv, Whereabouts
  <2>2. CASE u # t
    <3>1. PlaceInv(u)
      BY DEF ChainInv
    <3>2. ASSUME NEW d \in Chains
          PROVE  OwnerAt(chain'[d], Len(chain'[d]), u) = OwnerAt(chain[d], Len(chain[d]), u)
      BY <1>1, <1>4, <2>2
    <3> QED
      BY <1>2, <2>2, <3>1, <3>2 DEF PlaceInv
  <2> QED
    BY <2>1, <2>2
<1>7. ASSUME NEW d \in Chains, NEW a \in Addresses, NEW u \in Tokens,
             ReverseAt(chain'[d], Len(chain'[d]), a) = u
      PROVE  place'[u].on = d
  <2>1. ReverseAt(chain[d], Len(chain[d]), a) = u
    BY <1>1, <1>4, <1>7
  <2>2. place[u].on = d
    BY <2>1 DEF ChainInv
  <2>3. u # t
    BY <1>1, <1>4, <1>7, <2>2
  <2> QED
    BY <1>2, <2>2, <2>3
<1>8. ASSUME NEW d \in Chains
      PROVE  Extends(chain[d], chain'[d])
  <2>1. CASE d = c
    <3>1. IsBlock(b)
      BY DEF HandsOver
    <3>2. \A u \in Tokens : OwnerAt(B, Len(B), u) # None => OwnerAt(D, Len(D), u) # None
      BY <1>4, MarksDiffer
    <3>3. Extends(B, D)
      <4> HIDE DEF B, D
      <4> QED
        BY <1>1, <1>3, <3>1, <3>2, GrownExtends
    <3> QED
      BY <2>1, <3>3
  <2>2. CASE d # c
    BY <1>1, <2>2, ExtendsItself DEF ChainInv
  <2> QED
    BY <2>1, <2>2
<1> QED
  BY <1>1, <1>2, <1>5, <1>6, <1>7, <1>8 DEF ChainInv

\* A token that is not on a chain has no reverse record there.
LEMMA NotThere ==
    ASSUME ChainInv, NEW t \in Tokens, NEW c \in Chains, place[t].on # c
    PROVE  \A a \in Addresses : ReverseAt(chain[c], Len(chain[c]), a) # t
BY DEF ChainInv

LEMMA Arrives ==
    ASSUME ChainInv, NEW t \in Tokens, NEW c \in Chains, place[t].on # c,
           NEW b, NEW o \in Owners[t],
           IsMintBlock(b, t, o) \/ \E from \in {Null, Bridge} : IsMoveBlock(b, t, from, o)
    PROVE  HandsOver(chain[c], b, t, o)
<1>1. Null \in Marks(t) /\ Bridge \in Marks(t) /\ o \in Marks(t)
  BY DEF Marks
<1>2. IsBlock(b)
  BY <1>1 DEF IsBlock
<1>3. /\ \A u \in Tokens : \A old : OwnerAfter(b, u, old) = IF u = t THEN o ELSE old
      /\ \A a, old : ReverseAfter(b, a, old) = old
      /\ \A u : \A a : Setting(u, a) \notin Range(b)
  <2>1. CASE IsMintBlock(b, t, o)
    <3>1. ASSUME NEW u, NEW a
          PROVE  Setting(u, a) \notin Range(b)
      <4>1. Setting(u, a).type = "SetReverse" /\ NewUri(t).type = "NewURI"
            /\ Transfer(t, Null, o).type = "Transfer"
        BY EventKinds
      <4> QED
        BY <2>1, <4>1, MintBlock
    <3> QED
      BY <2>1, <3>1, AfterMinting
  <2>2. CASE \E from \in {Null, Bridge} : IsMoveBlock(b, t, from, o)
    <3>1. PICK from \in Marks(t) : IsMoveBlock(b, t, from, o)
      BY <1>1, <2>2
    <3>2. \A u, a : Setting(u, a) \notin Range(b)
      BY <1>1, <3>1, MoveBlock, EventKinds
    <3> QED
      BY <1>1, <3>1, <3>2, AfterMoving
  <2> QED
    BY <2>1, <2>2
<1>4. \A u \in Tokens : \A a \in Owners[u] : ~IsSetBlock(b, u, a)
  BY <1>3, SetBlock
<1> QED
  BY <1>2, <1>3, <1>4, NotThere DEF HandsOver

LEMMA Leaves ==
    ASSUME ChainInv, NEW t \in Tokens, NEW c \in Chains, place[t].on = c, NEW to \in Marks(t)
    PROVE  /\ HandsOver(chain[c], Leaving(c, t, to), t, to)
           /\ place[t].owner \in Owners[t]
<1> DEFINE from == place[t].owner
           b == Leaving(c, t, to)
           B == chain[c]
<1>1. PlaceInv(t)
  BY DEF ChainInv
<1>2. from \in Owners[t] /\ from \in Marks(t) /\ from \in Addresses
  BY <1>1, MarksDiffer DEF PlaceInv, Marks, Addresses, Chains, None, Repo!Absent
<1>3. OwnerAt(B, Len(B), t) = from
  BY <1>1 DEF PlaceInv, OwnersOn
<1>4. ReverseOf(c, from) = ReverseAt(B, Len(B), from)
  BY ReverseOfIs
<1>5. \A a \in Addresses : ReverseAt(B, Len(B), a) = t => a = from
  BY <1>3 DEF ChainInv, HistoryInv, IsChain
<1>6. CASE ReverseAt(B, Len(B), from) = t
  <2>1. IsLeaveBlock(b, t, from, to)
    <3>1. b = <<Removal(from)>> \o <<Transfer(t, from, to)>>
      BY <1>4, <1>6 DEF Leaving, Removal
    <3>2. ASSUME NEW e, NEW f
          PROVE  <<e>> \o <<f>> = <<e, f>>
      <4> DEFINE s == <<e>> \o <<f>>
                 S == {e, f}
      <4>1. <<e>> \in Seq(S) /\ <<f>> \in Seq(S)
        OBVIOUS
      <4>2. s \in Seq(S) /\ Len(s) = 2 /\ s[1] = e /\ s[2] = f
        BY <4>1
      <4> HIDE DEF s, S
      <4>3. s \in [1 .. Len(s) -> S]
        BY <4>2, LenProperties
      <4>4. s = <<s[1], s[2]>>
        BY <4>2, <4>3
      <4> QED
        BY <4>2, <4>4 DEF s
    <3> HIDE DEF b, from
    <3> QED
      BY <3>1, <3>2 DEF IsLeaveBlock
  <2>2. IsBlock(b)
    BY <1>2, <2>1 DEF IsBlock
  <2> HIDE DEF b, from, B
  <2>3. /\ \A u \in Tokens : \A old : OwnerAfter(b, u, old) = IF u = t THEN to ELSE old
        /\ \A a, old : ReverseAfter(b, a, old) = IF a = from THEN None ELSE old
    BY <1>2, <2>1, AfterLeaving
  <2>4. \A u, a : Setting(u, a) \notin Range(b)
    BY <1>2, <2>1, LeaveBlock, EventKinds
  <2>5. \A u \in Tokens : \A a \in Owners[u] : ~IsSetBlock(b, u, a)
    BY <2>4, SetBlock
  <2>6. HandsOver(B, b, t, to)
    BY <1>5, <2>2, <2>3, <2>5, MarksDiffer DEF HandsOver
  <2> QED
    BY <1>2, <2>6 DEF b, from, B
<1>7. CASE ReverseAt(B, Len(B), from) # t
  <2>1. IsMoveBlock(b, t, from, to)
    BY <1>4, <1>7 DEF Leaving, IsMoveBlock
  <2>2. IsBlock(b)
    BY <1>2, <2>1 DEF IsBlock
  <2> HIDE DEF b, from, B
  <2>3. /\ \A u \in Tokens : \A old : OwnerAfter(b, u, old) = IF u = t THEN to ELSE old
        /\ \A a, old : ReverseAfter(b, a, old) = old
    BY <1>2, <2>1, AfterMoving
  <2>4. \A u, a : Setting(u, a) \notin Range(b)
    BY <1>2, <2>1, MoveBlock, EventKinds
  <2>5. \A u \in Tokens : \A a \in Owners[u] : ~IsSetBlock(b, u, a)
    BY <2>4, SetBlock
  <2>6. HandsOver(B, b, t, to)
    BY <1>5, <1>7, <2>2, <2>3, <2>5 DEF HandsOver
  <2> QED
    BY <1>2, <2>6 DEF b, from, B
<1> QED
  BY <1>6, <1>7

\* What it takes to be elsewhere, and what the contracts say then.
LEMMA Elsewhere ==
    ASSUME ChainInv, NEW t \in Tokens, NEW c \in Chains
    PROVE  /\ PlaceInv(t)
           /\ None \notin Chains /\ "toMATIC" \notin Chains /\ "toETH" \notin Chains
           /\ "toMATIC" # None /\ "toETH" # None
           /\ place[t].on # c =>
                /\ OwnerAt(chain[c], Len(chain[c]), t) \in {None, Null, Bridge}
                /\ c = "MATIC" => OwnerAt(chain[c], Len(chain[c]), t) \in {None, Null}
           /\ \A on, owner : on # c =>
                OwnersOn(c, [on |-> on, owner |-> owner]) =
                  IF c = "ETH" THEN {None, Null, Bridge} ELSE {None, Null}
<1>1. PlaceInv(t)
  BY DEF ChainInv
<1>2. \A on, owner : on # c =>
        OwnersOn(c, [on |-> on, owner |-> owner]) =
          IF c = "ETH" THEN {None, Null, Bridge} ELSE {None, Null}
  BY DEF OwnersOn
<1>3. place[t].on # c => OwnerAt(chain[c], Len(chain[c]), t) \in
                           IF c = "ETH" THEN {None, Null, Bridge} ELSE {None, Null}
  BY <1>1 DEF PlaceInv, OwnersOn
<1> QED
  BY <1>1, <1>2, <1>3 DEF Chains, None, Repo!Absent

\* A domain leaves one place for another.
LEMMA Departs ==
    ASSUME ChainInv, NEW t \in Tokens, NEW c \in Chains, place[t].on = c,
           NEW to \in Marks(t), NEW on \in Whereabouts, NEW owner,
           on # None => owner \in Owners[t],
           Mined(c, Leaving(c, t, to)), Now(t, on, owner),
           on \notin Chains \ {c},
           to \in OwnersOn(c, [on |-> on, owner |-> owner])
    PROVE  ChainInv' /\ \A d \in Chains : Extends(chain[d], chain'[d])
<1> DEFINE b == Leaving(c, t, to)
<1>1. HandsOver(chain[c], b, t, to)
  BY Leaves
<1>2. ASSUME NEW d \in Chains \ {c}
      PROVE  /\ place[t].on # d
             /\ OwnerAt(chain[d], Len(chain[d]), t) \in OwnersOn(d, [on |-> on, owner |-> owner])
  BY Elsewhere DEF Chains
<1>3. Mined(c, b)
  OBVIOUS
<1> HIDE DEF b
<1> QED
  BY <1>1, <1>2, <1>3, Transferred

LEMMA MintStep ==
    ASSUME ChainInv, NEW t \in Tokens, NEW c \in Chains, NEW o \in Owners[t], Mint(c, t, o)
    PROVE  ChainInv' /\ \A d \in Chains : Extends(chain[d], chain'[d])
<1> DEFINE b == <<Transfer(t, Null, o), NewUri(t)>>
<1>1. place[t].on = None /\ Mined(c, b) /\ Now(t, c, o)
  BY DEF Mint, On
<1>2. HandsOver(chain[c], b, t, o)
  <2>1. IsMintBlock(b, t, o)
    BY DEF IsMintBlock
  <2> HIDE DEF b
  <2> QED
    BY <1>1, <2>1, Elsewhere, Arrives
<1>3. ASSUME NEW d \in Chains \ {c}
      PROVE  /\ place[t].on # d
             /\ OwnerAt(chain[d], Len(chain[d]), t) \in OwnersOn(d, [on |-> c, owner |-> o])
  BY <1>1, Elsewhere DEF Chains
<1>4. o \in OwnersOn(c, [on |-> c, owner |-> o]) /\ o \in Marks(t) /\ c \in Whereabouts
  BY DEF OwnersOn, Marks, Whereabouts
<1> HIDE DEF b
<1> QED
  BY <1>1, <1>2, <1>3, <1>4, Transferred

LEMMA SellStep ==
    ASSUME ChainInv, NEW t \in Tokens, NEW c \in Chains, NEW o \in Owners[t], Sell(c, t, o)
    PROVE  ChainInv' /\ \A d \in Chains : Extends(chain[d], chain'[d])
<1>1. place[t].on = c /\ Mined(c, Leaving(c, t, o)) /\ Now(t, c, o)
  BY DEF Sell, On
<1>2. o \in OwnersOn(c, [on |-> c, owner |-> o]) /\ o \in Marks(t) /\ c \in Whereabouts
  BY DEF OwnersOn, Marks, Whereabouts
<1> QED
  BY <1>1, <1>2, Departs

LEMMA BurnStep ==
    ASSUME ChainInv, NEW t \in Tokens, NEW c \in Chains, Burn(c, t)
    PROVE  ChainInv' /\ \A d \in Chains : Extends(chain[d], chain'[d])
<1>1. place[t].on = c /\ Mined(c, Leaving(c, t, Null)) /\ Now(t, None, Null)
  BY DEF Burn, On
<1>2. None \notin Chains \ {c} /\ None \in Whereabouts /\ Null \in Marks(t)
      /\ Null \in OwnersOn(c, [on |-> None, owner |-> Null])
  BY Elsewhere DEF Whereabouts, Marks
<1> QED
  BY <1>1, <1>2, Departs

LEMMA DepositStep ==
    ASSUME ChainInv, NEW t \in Tokens, Deposit(t)
    PROVE  ChainInv' /\ \A d \in Chains : Extends(chain[d], chain'[d])
<1> DEFINE owner == place[t].owner
<1>0. "ETH" \in Chains
  BY DEF Chains
<1>1. /\ place[t].on = "ETH" /\ Mined("ETH", Leaving("ETH", t, Bridge))
      /\ Now(t, "toMATIC", owner)
  BY DEF Deposit, On
<1>2. /\ "toMATIC" \notin Chains \ {"ETH"} /\ "toMATIC" \in Whereabouts /\ Bridge \in Marks(t)
      /\ Bridge \in OwnersOn("ETH", [on |-> "toMATIC", owner |-> owner])
  BY <1>0, Elsewhere DEF Whereabouts, Marks
<1>3. owner \in Owners[t]
  BY <1>0, <1>1, <1>2, Leaves
<1> HIDE DEF owner
<1> QED
  BY <1>0, <1>1, <1>2, <1>3, Departs

LEMMA WithdrawStep ==
    ASSUME ChainInv, NEW t \in Tokens, Withdraw(t)
    PROVE  ChainInv' /\ \A d \in Chains : Extends(chain[d], chain'[d])
<1> DEFINE owner == place[t].owner
<1>0. "MATIC" \in Chains
  BY DEF Chains
<1>1. /\ place[t].on = "MATIC" /\ Mined("MATIC", Leaving("MATIC", t, Null))
      /\ Now(t, "toETH", owner)
  BY DEF Withdraw, On
<1>2. /\ "toETH" \notin Chains \ {"MATIC"} /\ "toETH" \in Whereabouts /\ Null \in Marks(t)
      /\ Null \in OwnersOn("MATIC", [on |-> "toETH", owner |-> owner])
  BY <1>0, Elsewhere DEF Whereabouts, Marks
<1>3. owner \in Owners[t]
  BY <1>0, <1>1, Leaves, <1>2
<1> HIDE DEF owner
<1> QED
  BY <1>0, <1>1, <1>2, <1>3, Departs

\* A domain that comes over the bridge.
LEMMA ComesIn ==
    ASSUME ChainInv, NEW t \in Tokens, NEW c \in Chains, NEW from \in {Null, Bridge},
           place[t].on \in {"toMATIC", "toETH"},
           Mined(c, <<Transfer(t, from, place[t].owner)>>), Now(t, c, place[t].owner)
    PROVE  ChainInv' /\ \A d \in Chains : Extends(chain[d], chain'[d])
<1> DEFINE o == place[t].owner
           b == <<Transfer(t, from, o)>>
<1>1. PlaceInv(t) /\ \A d \in Chains : place[t].on # d
  BY Elsewhere
<1>2. o \in Owners[t]
  BY <1>1, Elsewhere DEF PlaceInv
<1>3. Mined(c, b) /\ Now(t, c, o)
  OBVIOUS
<1>4. HandsOver(chain[c], b, t, o)
  <2>1. IsMoveBlock(b, t, from, o)
    BY DEF IsMoveBlock
  <2> HIDE DEF b, o
  <2> QED
    BY <1>1, <1>2, <2>1, Arrives
<1>5. ASSUME NEW d \in Chains \ {c}
      PROVE  /\ place[t].on # d
             /\ OwnerAt(chain[d], Len(chain[d]), t) \in OwnersOn(d, [on |-> c, owner |-> o])
  BY <1>1, Elsewhere DEF Chains
<1>6. o \in OwnersOn(c, [on |-> c, owner |-> o]) /\ o \in Marks(t) /\ c \in Whereabouts
  BY <1>2 DEF OwnersOn, Marks, Whereabouts
<1> HIDE DEF b, o
<1> QED
  BY <1>2, <1>3, <1>4, <1>5, <1>6, Transferred

LEMMA SetReverseStep ==
    ASSUME ChainInv, NEW t \in Tokens, NEW c \in Chains, SetReverse(c, t)
    PROVE  ChainInv' /\ \A d \in Chains : Extends(chain[d], chain'[d])
<1> DEFINE o == place[t].owner
           b == <<Setting(t, o)>>
           B == chain[c]
           D == chain'[c]
<1>1. /\ place[t].on = c /\ ReverseOf(c, o) # t /\ Mined(c, b)
      /\ UNCHANGED place
  BY DEF SetReverse, On, Setting
<1>2. /\ Grown(B, b, D) /\ chain' = [d \in Chains |-> chain'[d]]
      /\ \A d \in Chains : d # c => chain'[d] = chain[d]
  BY <1>1, MinedGrows
<1>3. PlaceInv(t) /\ place[t].on # None
  BY <1>1, Elsewhere
<1>4. o \in Owners[t] /\ OwnerAt(B, Len(B), t) = o /\ ReverseAt(B, Len(B), o) # t
  BY <1>1, <1>3, ReverseOfIs DEF PlaceInv, OwnersOn
<1>5. IsChain(B) /\ HistoryInv(B)
  BY DEF ChainInv
<1>6. IsSetBlock(b, t, o) /\ IsBlock(b)
  BY <1>4 DEF IsSetBlock, IsBlock
<1> HIDE DEF o, b, B, D
<1>7. /\ IsChain(D) /\ HistoryInv(D)
      /\ \A u \in Tokens : OwnerAt(D, Len(D), u) = OwnerAt(B, Len(B), u)
      /\ \A a : ReverseAt(D, Len(D), a) = IF a = o THEN t ELSE ReverseAt(B, Len(B), a)
  BY <1>2, <1>4, <1>5, <1>6, RecordSet
<1>8. Extends(B, D)
  BY <1>2, <1>5, <1>6, <1>7, GrownExtends
<1>9. ASSUME NEW d \in Chains
      PROVE  /\ IsChain(chain'[d]) /\ HistoryInv(chain'[d]) /\ Extends(chain[d], chain'[d])
             /\ \A u \in Tokens : OwnerAt(chain'[d], Len(chain'[d]), u)
                                    = OwnerAt(chain[d], Len(chain[d]), u)
             /\ \A a \in Addresses : \A u \in Tokens :
                  ReverseAt(chain'[d], Len(chain'[d]), a) = u => place'[u].on = d
  <2>1. CASE d = c
    <3>1. \A a \in Addresses : \A u \in Tokens :
            ReverseAt(B, Len(B), a) = u => place[u].on = c
      BY DEF ChainInv, B
    <3> QED
      BY <1>1, <1>7, <1>8, <2>1, <3>1 DEF B, D
  <2>2. CASE d # c
    <3>1. /\ IsChain(chain[d]) /\ HistoryInv(chain[d])
          /\ \A a \in Addresses : \A u \in Tokens :
               ReverseAt(chain[d], Len(chain[d]), a) = u => place[u].on = d
      BY DEF ChainInv
    <3> QED
      BY <1>1, <1>2, <2>2, <3>1, ExtendsItself
  <2> QED
    BY <2>1, <2>2
<1>10. ASSUME NEW u \in Tokens
       PROVE  PlaceInv(u)'
  <2>1. PlaceInv(u)
    BY DEF ChainInv
  <2> QED
    BY <1>1, <1>9, <2>1 DEF PlaceInv
<1>11. place' = [u \in Tokens |-> place'[u]]
  BY <1>1 DEF ChainInv
<1> QED
  BY <1>2, <1>9, <1>10, <1>11 DEF ChainInv

LEMMA ChainMoves ==
    ASSUME ChainInv, ChainStep
    PROVE  ChainInv' /\ \A d \in Chains : Extends(chain[d], chain'[d])
<1>1. PICK t \in Tokens :
         \/ \E c \in Chains : \/ \E o \in Owners[t] : Mint(c, t, o) \/ Sell(c, t, o)
                              \/ Burn(c, t)
                              \/ SetReverse(c, t)
         \/ Deposit(t) \/ Deposited(t) \/ Withdraw(t) \/ Withdrawn(t)
  BY DEF ChainStep
<1>2. ASSUME NEW c \in Chains, NEW o \in Owners[t], Mint(c, t, o)
      PROVE  ChainInv' /\ \A d \in Chains : Extends(chain[d], chain'[d])
  BY <1>2, MintStep
<1>3. ASSUME NEW c \in Chains, NEW o \in Owners[t], Sell(c, t, o)
      PROVE  ChainInv' /\ \A d \in Chains : Extends(chain[d], chain'[d])
  BY <1>3, SellStep
<1>4. ASSUME NEW c \in Chains, Burn(c, t)
      PROVE  ChainInv' /\ \A d \in Chains : Extends(chain[d], chain'[d])
  BY <1>4, BurnStep
<1>5. ASSUME NEW c \in Chains, SetReverse(c, t)
      PROVE  ChainInv' /\ \A d \in Chains : Extends(chain[d], chain'[d])
  BY <1>5, SetReverseStep
<1>6. CASE Deposit(t)
  BY <1>6, DepositStep
<1>7. CASE Deposited(t)
  <2>1. /\ place[t].on = "toMATIC" /\ Now(t, "MATIC", place[t].owner)
        /\ Mined("MATIC", <<Transfer(t, Null, place[t].owner)>>)
    BY <1>7 DEF Deposited, On
  <2>2. "MATIC" \in Chains
    BY DEF Chains
  <2> QED
    BY <2>1, <2>2, ComesIn
<1>8. CASE Withdraw(t)
  BY <1>8, WithdrawStep
<1>9. CASE Withdrawn(t)
  <2>1. PICK from \in {Null, Bridge} :
          /\ place[t].on = "toETH" /\ Now(t, "ETH", place[t].owner)
          /\ Mined("ETH", <<Transfer(t, from, place[t].owner)>>)
    BY <1>9 DEF Withdrawn, On
  <2>2. "ETH" \in Chains
    BY DEF Chains
  <2> QED
    BY <2>1, <2>2, ComesIn
<1> QED
  BY <1>1, <1>2, <1>3, <1>4, <1>5, <1>6, <1>7, <1>8, <1>9

-----------------------------------------------------------------------------
(* What the writers have stays true when the chains grow *)

LEMMA StillTold ==
    ASSUME NEW B, NEW D, Extends(B, D), NEW n \in 0 .. Len(B)
    PROVE  /\ \A rows, lost : RowsTold(B, n, rows, lost) => RowsTold(D, n, rows, lost)
           /\ \A rev, astray : ReverseTold(B, n, rev, astray) => ReverseTold(D, n, rev, astray)
           /\ \A known : MintsNamed(B, n, known) => MintsNamed(D, n, known)
           /\ \A rows, rev, known : known \subseteq Tokens /\ TablesOK(B, rows, rev, known)
                                    => TablesOK(D, rows, rev, known)
           /\ \A t, a : SetBy(B, t, a) => SetBy(D, t, a)
<1>1. /\ Len(B) \in Nat /\ Len(D) \in Nat /\ Len(B) <= Len(D)
      /\ \A i \in 1 .. Len(B) : D[i] = B[i]
  BY DEF Extends, IsChain
<1>2. \A x : OwnerAt(D, n, x) = OwnerAt(B, n, x) /\ ReverseAt(D, n, x) = ReverseAt(B, n, x)
  BY DEF Extends
<1>3. \A t \in Tokens : Ahead(B, n, t) => Ahead(D, n, t)
  <2>1. \A i \in n + 1 .. Len(B) : i \in n + 1 .. Len(D) /\ i \in 1 .. Len(B)
    BY <1>1
  <2> QED
    BY <1>1, <2>1 DEF Ahead
<1>4. \A t, a : SetBy(B, t, a) => SetBy(D, t, a)
  BY <1>1 DEF SetBy
<1>5. ASSUME NEW rows, NEW lost, RowsTold(B, n, rows, lost)
      PROVE  RowsTold(D, n, rows, lost)
  BY <1>2, <1>3, <1>5 DEF RowsTold
<1>6. ASSUME NEW rev, NEW astray, ReverseTold(B, n, rev, astray)
      PROVE  ReverseTold(D, n, rev, astray)
  BY <1>2, <1>4, <1>6 DEF ReverseTold
<1>7. ASSUME NEW known, MintsNamed(B, n, known)
      PROVE  MintsNamed(D, n, known)
  BY <1>1, <1>7 DEF MintsNamed
<1>8. ASSUME NEW rows, NEW rev, NEW known, TablesOK(B, rows, rev, known), known \subseteq Tokens
      PROVE  TablesOK(D, rows, rev, known)
  <2>1. \A t \in DOMAIN rows : OwnerAt(D, Len(D), t) # None
    BY <1>8 DEF TablesOK, Extends
  <2> QED
    BY <1>4, <1>8, <2>1 DEF TablesOK
<1> QED
  BY <1>4, <1>5, <1>6, <1>7, <1>8

LEMMA EventsStay ==
    ASSUME WorkersInv, NEW c \in Chains, Extends(chain[c], chain'[c]), UNCHANGED tx,
           tx[c].block < tx[c].to
    PROVE  Events(c)' = Events(c)
<1>1. tx[c].to \in 0 .. Len(chain[c]) /\ tx[c].block \in 0 .. tx[c].to
  BY DEF WorkersInv, TxInv
<1>2. Len(chain[c]) \in Nat
  BY DEF Extends, IsChain
<1>3. tx[c].block + 1 \in 1 .. Len(chain[c])
  BY <1>1, <1>2
<1> QED
  BY <1>3 DEF Events, Extends

LEMMA WorkersStay ==
    ASSUME WorkersInv, \A c \in Chains : Extends(chain[c], chain'[c]), UNCHANGED workerVars
    PROVE  WorkersInv'
<1>1. UNCHANGED <<names, db, tx, pull>>
  BY DEF workerVars
<1>2. names \subseteq Tokens
  BY DEF WorkersInv
<1>3. ASSUME NEW c \in Chains
      PROVE  Len(chain[c]) \in Nat /\ Len(chain'[c]) \in Nat /\ Len(chain[c]) <= Len(chain'[c])
  BY DEF Extends, IsChain
<1>4. ASSUME NEW c \in Chains
      PROVE  DbInv(c)'
  <2> DEFINE d == db[c]
             B == chain[c]
             D == chain'[c]
  <2>1. /\ d = [block |-> d.block, rows |-> d.rows, rev |-> d.rev, lost |-> d.lost,
                skipped |-> d.skipped]
        /\ d.block \in 0 .. Len(B)
        /\ d.lost \subseteq Tokens
        /\ TablesOK(B, d.rows, d.rev, names)
        /\ RowsTold(B, d.block, d.rows, d.lost)
        /\ ReverseTold(B, d.block, d.rev, d.skipped \cup pull.addresses)
        /\ MintsNamed(B, d.block, names)
    BY DEF WorkersInv, DbInv
  <2>2. Extends(B, D)
    OBVIOUS
  <2>3. d.block \in 0 .. Len(D)
    BY <1>3, <2>1
  <2> HIDE DEF B, D, d
  <2>4. /\ TablesOK(D, d.rows, d.rev, names)
        /\ RowsTold(D, d.block, d.rows, d.lost)
        /\ ReverseTold(D, d.block, d.rev, d.skipped \cup pull.addresses)
        /\ MintsNamed(D, d.block, names)
    BY <1>2, <2>1, <2>2, StillTold
  <2> QED
    BY <1>1, <2>1, <2>3, <2>4 DEF DbInv, B, D, d
<1>5. ASSUME NEW c \in Chains
      PROVE  TxInv(c)'
  <2>1. TxInv(c)
    BY DEF WorkersInv
  <2>2. tx[c].to \in 0 .. Len(chain[c]) /\ tx[c].block \in 0 .. tx[c].to
        /\ tx[c].to \in 0 .. Len(chain'[c]) /\ tx[c].block \in 0 .. Len(chain[c])
    BY <1>3, <2>1 DEF TxInv
  <2>3. ASSUME tx[c].pc # "idle"
        PROVE  SeenInv(c, tx[c].tables, tx[c].block, tx[c].lost, tx[c].skipped)'
    <3> DEFINE v == tx[c].tables
               n == tx[c].block
               lost == tx[c].lost
               skipped == tx[c].skipped
               B == chain[c]
               D == chain'[c]
    <3>1. SeenInv(c, v, n, lost, skipped)
      BY <2>1, <2>3 DEF TxInv
    <3>2. Extends(B, D) /\ n \in 0 .. Len(B)
      BY <2>2
    <3>3. /\ v = [names |-> v.names, rows |-> v.rows, rev |-> v.rev, broken |-> v.broken]
          /\ v.broken \in BOOLEAN
          /\ v.names \subseteq Tokens /\ lost \subseteq Tokens
          /\ TablesOK(B, v.rows, v.rev, v.names)
          /\ \A r \in db[c].rev : r[2] \notin v.names => r[1] \in pull.addresses
      BY <3>1 DEF SeenInv, SeenOK
    <3>4. ~v.broken =>
            /\ RowsTold(B, n, v.rows, lost)
            /\ ReverseTold(B, n, v.rev, skipped \cup pull.addresses)
            /\ MintsNamed(B, n, names \cup v.names)
      BY <3>1 DEF SeenInv, SeenOK
    <3>5. SeenInv(c, v, n, lost, skipped)'
              <=> /\ v = [names |-> v.names, rows |-> v.rows, rev |-> v.rev,
                          broken |-> v.broken]
                  /\ v.broken \in BOOLEAN
                  /\ v.names \subseteq Tokens /\ lost \subseteq Tokens
                  /\ TablesOK(D, v.rows, v.rev, v.names)
                  /\ \A r \in db[c].rev : r[2] \notin v.names => r[1] \in pull.addresses
                  /\ ~v.broken =>
                      /\ RowsTold(D, n, v.rows, lost)
                      /\ ReverseTold(D, n, v.rev, skipped \cup pull.addresses)
                      /\ MintsNamed(D, n, names \cup v.names)
      BY <1>1 DEF SeenInv, SeenOK
    <3> HIDE DEF v, n, lost, skipped, B, D
    <3>6. /\ TablesOK(D, v.rows, v.rev, v.names)
          /\ ~v.broken =>
              /\ RowsTold(D, n, v.rows, lost)
              /\ ReverseTold(D, n, v.rev, skipped \cup pull.addresses)
              /\ MintsNamed(D, n, names \cup v.names)
      BY <3>2, <3>3, <3>4, StillTold
    <3>7. SeenInv(c, v, n, lost, skipped)'
      BY <3>3, <3>5, <3>6
    <3> QED
      BY <3>7 DEF v, n, lost, skipped
  <2>4. tx[c].block < tx[c].to => Events(c)' = Events(c)
    BY <1>1, EventsStay
  <2>5. tx[c].pc = "insert" => tx[c].block < tx[c].to /\ Inserts(c)'
    BY <2>1, <2>4 DEF TxInv, Inserts
  <2>6. tx[c].found => tx[c].pc = "insert" /\ TokenOf(c)' \in names
    BY <2>1, <2>4 DEF TxInv, TokenOf
  <2> QED
    BY <1>1, <2>1, <2>2, <2>3, <2>5, <2>6 DEF TxInv
<1>6. PullInv'
  <2>1. PullInv
    BY DEF WorkersInv
  <2>2. ASSUME pull.on \in Chains,
               OwnerAt(chain[pull.on], Len(chain[pull.on]), pull.token) # None,
               pull.token \in Tokens
        PROVE  OwnerAt(chain'[pull.on], Len(chain'[pull.on]), pull.token) # None
    BY <2>2 DEF Extends
  <2>3. ASSUME pull.on \in Chains, SetBy(chain[pull.on], pull.token, pull.owner)
        PROVE  SetBy(chain'[pull.on], pull.token, pull.owner)
    <3>1. 0 \in 0 .. Len(chain[pull.on])
      BY <1>3, <2>3
    <3> QED
      BY <2>3, <3>1, StillTold
  <2>4. pull.pc # "idle" => pull.token \in Tokens
    BY <2>1, BridgedAssumption DEF PullInv
  <2> QED
    BY <1>1, <2>1, <2>2, <2>3, <2>4 DEF PullInv
<1> QED
  BY <1>1, <1>4, <1>5, <1>6 DEF WorkersInv

LEMMA MintedIs ==
    ASSUME NEW B, IsChain(B), NEW e
    PROVE  e \in UNION {Range(b) : b \in Range(B)} <=> \E n \in 1 .. Len(B) : e \in Range(B[n])
BY DEF IsChain, Range

LEMMA LookupStays ==
    ASSUME ChainInv, ChainInv', LookupInv,
           \A c \in Chains : Extends(chain[c], chain'[c]), UNCHANGED <<names, apiVars>>
    PROVE  LookupInv'
<1>1. UNCHANGED <<names, missed, lookup>>
  BY DEF apiVars
<1>2. ASSUME NEW c \in Chains
      PROVE  /\ Len(chain[c]) \in Nat /\ Len(chain'[c]) \in Nat
             /\ Len(chain[c]) <= Len(chain'[c])
             /\ \A i \in 1 .. Len(chain[c]) : chain'[c][i] = chain[c][i]
             /\ IsChain(chain[c]) /\ IsChain(chain'[c])
  BY DEF Extends, IsChain
<1>3. EverMinted(lookup.token) => EverMinted(lookup.token)'
  <2>1. ASSUME NEW c \in Chains, MintedOn(c, lookup.token)
        PROVE  MintedOn(c, lookup.token)'
    <3>1. PICK n \in 1 .. Len(chain[c]) : NewUri(lookup.token) \in Range(chain[c][n])
      BY <1>2, <2>1, MintedIs DEF MintedOn, EventsOf
    <3>2. n \in 1 .. Len(chain'[c]) /\ NewUri(lookup.token) \in Range(chain'[c][n])
      BY <1>2, <3>1
    <3>3. NewUri(lookup.token) \in EventsOf(c)'
      BY <1>2, <3>2, MintedIs DEF EventsOf
    <3> QED
      BY <1>1, <3>3 DEF MintedOn, NewUri
  <2> QED
    BY <1>1, <2>1 DEF EverMinted
<1>4. ASSUME NEW c \in Chains
      PROVE  lookup.from[c] \in 0 .. Len(chain'[c]) /\ (Since(c) => Since(c)')
  <2>1. lookup.from[c] \in 0 .. Len(chain[c])
    BY DEF LookupInv
  <2>2. lookup.from[c] \in 0 .. Len(chain'[c])
    BY <1>2, <2>1
  <2>3. ASSUME Since(c), NEW n \in 1 .. Len(chain'[c]),
               NewUri(lookup.token) \in Range(chain'[c][n])
        PROVE  lookup.from[c] <= n
    <3>1. CASE n \in 1 .. Len(chain[c])
      BY <1>2, <2>3, <3>1 DEF Since
    <3>2. CASE n > Len(chain[c])
      BY <1>2, <2>1, <3>2
    <3> QED
      BY <1>2, <3>1, <3>2
  <2> QED
    BY <1>1, <2>2, <2>3 DEF Since, NewUri
<1>5. "ETH" \in Chains /\ "MATIC" \in Chains
  BY DEF Chains
<1> QED
  BY <1>1, <1>3, <1>4, <1>5 DEF LookupInv, At, Missed, FoundUnlessOvertaken

-----------------------------------------------------------------------------
(* The writes of the handlers *)

IsTables(v) ==
    /\ v = [names |-> v.names, rows |-> v.rows, rev |-> v.rev, broken |-> v.broken]
    /\ v.rows = [t \in DOMAIN v.rows |-> v.rows[t]]
    /\ v.broken \in BOOLEAN

\* The owner of t is x wherever the domain is known, and the reverse rows are rev.
OwnerWritten(v, w, t, x, rev) ==
    /\ IsTables(w) /\ w.rev = rev
    /\ v.names \subseteq w.names /\ w.names \subseteq v.names \cup {t}
    /\ DOMAIN w.rows \subseteq DOMAIN v.rows \cup ({t} \cap w.names)
    /\ v.broken => w.broken
    /\ ~w.broken => \A u : u # t => OwnerIn(w.rows, u) = OwnerIn(v.rows, u)
    /\ ~w.broken /\ t \in w.names => OwnerIn(w.rows, t) = x

LEMMA ResolutionSaved ==
    ASSUME NEW v, IsTables(v), NEW t, NEW new, new.owner # Repo!Keep
    PROVE  LET w == Repo!SaveResolution(v, t, new)
           IN  /\ OwnerWritten(v, w, t, new.owner, v.rev)
               /\ w.names = v.names /\ w.broken = v.broken
<1> DEFINE old == IF t \in DOMAIN v.rows THEN v.rows[t] ELSE Repo!NewRow
           row == [owner    |-> Repo!Changed(new.owner, old.owner),
                   registry |-> Repo!Changed(new.registry, old.registry),
                   resolver |-> Repo!Changed(new.resolver, old.resolver),
                   records  |-> Repo!MergedRecords(new, old.records)]
           w == Repo!SaveResolution(v, t, new)
<1>1. Repo!Updated(new)
  BY DEF Repo!Updated, Repo!NoChange
<1>2. row.owner = new.owner
  BY DEF Repo!Changed
<1>3. w = IF v.broken THEN v
          ELSE IF t \in v.names THEN [v EXCEPT !.rows = Put(@, t, row)] ELSE v
  <2>1. w = IF v.broken THEN v
            ELSE IF Repo!Updated(new) /\ t \in v.names
            THEN [v EXCEPT !.rows = Put(@, t, row)] ELSE v
    BY DEF Repo!SaveResolution, Repo!Executed, Repo!KnownNode, Repo!Put, Put
  <2> HIDE DEF w, row
  <2> QED
    BY <1>1, <2>1
<1> HIDE DEF w, row
<1>4. CASE v.broken \/ t \notin v.names
  <2>1. w = v
    BY <1>3, <1>4
  <2> QED
    BY <1>4, <2>1 DEF OwnerWritten, w
<1>5. CASE ~v.broken /\ t \in v.names
  <2> DEFINE rows == Put(v.rows, t, row)
  <2>1. w = [names |-> v.names, rows |-> rows, rev |-> v.rev, broken |-> v.broken]
    <3>1. w = [v EXCEPT !.rows = rows]
      BY <1>3, <1>5
    <3> HIDE DEF rows
    <3> QED
      BY <3>1 DEF IsTables
  <2>2. /\ DOMAIN rows = DOMAIN v.rows \cup {t} /\ rows[t] = row
        /\ \A u \in DOMAIN v.rows : u # t => rows[u] = v.rows[u]
        /\ rows = [u \in DOMAIN rows |-> rows[u]]
    BY DEF Put
  <2> HIDE DEF rows
  <2>3. \A u : OwnerIn(rows, u) = IF u = t THEN new.owner ELSE OwnerIn(v.rows, u)
    BY <1>2, <2>2 DEF OwnerIn
  <2>4. IsTables(w)
    BY <2>1, <2>2 DEF IsTables
  <2> QED
    BY <1>5, <2>1, <2>2, <2>3, <2>4 DEF OwnerWritten, w
<1> QED
  BY <1>4, <1>5

LEMMA TransferSaved ==
    ASSUME NEW v, IsTables(v), NEW t \in Tokens, NEW from, NEW to \in Marks(t)
    PROVE  LET w == AfterTransfer(v, Transfer(t, from, to))
           IN  /\ OwnerWritten(v, w, t, to, v.rev)
               /\ w.names = v.names /\ w.broken = v.broken
<1> DEFINE e == Transfer(t, from, to)
           new == TransferChange(e)
<1>1. e.token = t /\ e.from = from /\ e.to = to /\ e.registry = "uns"
  BY DEF Transfer
<1> HIDE DEF e
<1>2. new.owner = to
  BY <1>1 DEF TransferChange, Minted, Repo!NoChange
<1>3. AfterTransfer(v, e) = Repo!SaveResolution(v, t, new)
  BY <1>1 DEF AfterTransfer
<1>4. new.owner # Repo!Keep
  BY <1>2, MarksDiffer
<1> HIDE DEF new
<1> QED
  BY <1>2, <1>3, <1>4, ResolutionSaved DEF e

\* A mint with its uri: the transfer, the domain and the resolution once more.
LEMMA MintSaved ==
    ASSUME NEW c, NEW v, IsTables(v), NEW t \in Tokens, NEW o \in Owners[t],
           TokenOf(c) = t, tx[c].found => t \in names,
           NEW last, last = Transfer(t, Null, o)
    PROVE  LET w == AfterNewUri(Saved(c, AfterTransfer(v, last)), {t}, last, NewUri(t))
           IN  OwnerWritten(v, w, t, o, v.rev) /\ (~w.broken => t \in names \cup w.names)
<1> DEFINE u == AfterTransfer(v, last)
           s == Saved(c, u)
           w == AfterNewUri(s, {t}, last, NewUri(t))
<1>1. OwnerWritten(v, u, t, o, v.rev) /\ u.names = v.names /\ u.broken = v.broken
  BY TransferSaved DEF Marks
<1> HIDE DEF u
<1>2. IsTables(u) /\ u.rev = v.rev
  BY <1>1 DEF OwnerWritten
<1>3. \/ s = u /\ (u.broken \/ t \in names)
      \/ s = [u EXCEPT !.broken = TRUE]
      \/ s = [u EXCEPT !.names = @ \cup {t}]
  BY DEF Saved, Repo!SaveDomain, Repo!Executed
<1>4. /\ IsTables(s) /\ s.rev = u.rev /\ s.rows = u.rows
      /\ u.names \subseteq s.names /\ s.names \subseteq u.names \cup {t}
      /\ u.broken => s.broken
      /\ ~s.broken => t \in names \cup s.names
  BY <1>2, <1>3 DEF IsTables
<1> HIDE DEF s
<1>5. w = Repo!SaveResolution(s, t, Minted(o, "uns"))
  <2>1. IsMint(last) /\ last.to = o /\ NewUri(t).token = t /\ NewUri(t).registry = "uns"
    BY DEF IsMint, Transfer, NewUri, Null
  <2>2. Repo!SaveDomain(s, {t}, t) = s
    BY DEF Repo!SaveDomain, Repo!Executed
  <2> QED
    BY <2>1, <2>2 DEF AfterNewUri
<1>6. Minted(o, "uns").owner = o /\ o # Repo!Keep
  BY MarksDiffer DEF Minted, Repo!NoChange
<1>7. OwnerWritten(s, w, t, o, s.rev) /\ w.names = s.names /\ w.broken = s.broken
  <2> DEFINE new == Minted(o, "uns")
  <2>1. new.owner = o /\ new.owner # Repo!Keep
    BY <1>6
  <2> HIDE DEF new, w
  <2>2. w = Repo!SaveResolution(s, t, new)
    BY <1>5 DEF new
  <2> QED
    BY <1>4, <2>1, <2>2, ResolutionSaved
<1> HIDE DEF w
<1>8. OwnerWritten(v, w, t, o, v.rev)
  <2>1. \A x : x # t => (~w.broken => OwnerIn(w.rows, x) = OwnerIn(v.rows, x))
    BY <1>1, <1>4, <1>7 DEF OwnerWritten
  <2> QED
    BY <1>1, <1>2, <1>4, <1>7, <2>1 DEF OwnerWritten
<1> QED
  BY <1>4, <1>7, <1>8 DEF w, s, u

LEMMA RemovalSaved ==
    ASSUME NEW v, IsTables(v), NEW a, NEW w, w = Repo!RemoveReverse(v, a)
    PROVE  /\ IsTables(w) /\ w.names = v.names /\ w.rows = v.rows /\ w.broken = v.broken
           /\ \A r : r \in w.rev <=> r \in v.rev /\ (v.broken \/ r[1] # a)
BY DEF Repo!RemoveReverse, Repo!Executed, IsTables

LEMMA SettingSaved ==
    ASSUME NEW v, IsTables(v), NEW a, NEW t
    PROVE  \E old \in SUBSET {r \in v.rev : r[1] = a} :
              /\ old = {} <=> {r \in v.rev : r[1] = a} = {}
              /\ ReverseSaved(v, Setting(t, a)) =
                   IF ~v.broken /\ t \in v.names
                   THEN [v EXCEPT !.rev = (IF \E r \in v.rev : r[2] = t
                                           THEN v.rev ELSE v.rev \cup {<<a, t>>}) \ old]
                   ELSE v
<1> DEFINE ofAddr == {r \in v.rev : r[1] = a}
           saved == IF \E r \in v.rev : r[2] = t THEN v.rev ELSE v.rev \cup {<<a, t>>}
           olds == IF ofAddr = {} THEN {{}} ELSE {{r} : r \in ofAddr}
           After(old) == Repo!Executed(v, IF t \in v.names THEN [v EXCEPT !.rev = saved \ old]
                                          ELSE v)
           w == ReverseSaved(v, Setting(t, a))
<1>1. Repo!SaveReverse(v, a, t) = {After(old) : old \in olds}
  BY DEF Repo!SaveReverse
<1>2. w = CHOOSE x \in Repo!SaveReverse(v, a, t) : TRUE
  BY EventKinds DEF ReverseSaved
<1>3. olds # {}
  OBVIOUS
<1>4. \E old \in olds : w = After(old)
  <2> HIDE DEF olds, After, w
  <2> QED
    BY <1>1, <1>2, <1>3
<1>5. PICK old \in olds : w = After(old)
  BY <1>4
<1>6. old \in SUBSET ofAddr /\ (old = {} <=> ofAddr = {})
  <2> HIDE DEF ofAddr, w
  <2> QED
    OBVIOUS
<1>7. w = IF ~v.broken /\ t \in v.names THEN [v EXCEPT !.rev = saved \ old] ELSE v
  BY <1>5 DEF Repo!Executed
<1> QED
  BY <1>6, <1>7

-----------------------------------------------------------------------------
(* A block more in the tables of the transaction *)

LEMMA OnceTransferred ==
    ASSUME NEW B, IsChain(B), NEW t \in Tokens, NEW i \in 1 .. Len(B),
           In(B[i], TransfersOf(t)), NEW n \in i .. Len(B)
    PROVE  OwnerAt(B, n, t) # None
<1> DEFINE S == TransfersOf(t)
<1>1. n \in Nat /\ i \in 1 .. n /\ \A j \in 1 .. n : OneIn(B[j], S)
  BY OneEach DEF IsChain
<1> HIDE DEF S
<1>2. PICK m \in 1 .. n : LastIn(B, n, S) \in Range(B[m]) \cap S
  BY <1>1, LastFound DEF S
<1>3. LastIn(B, n, S) \in TransfersOf(t)
  BY <1>2 DEF S
<1>4. LastIn(B, n, S) # NoEvent /\ LastIn(B, n, S).to \in Marks(t)
  BY <1>3, EventKinds DEF TransfersOf
<1> QED
  BY <1>4, MarksDiffer DEF OwnerAt, S

LEMMA Further ==
    ASSUME NEW B, IsChain(B), NEW n \in Nat, n < Len(B)
    PROVE  /\ n + 1 \in 1 .. Len(B) /\ IsBlock(B[n + 1])
           /\ \A t \in Tokens : OwnerAt(B, n + 1, t) = OwnerAfter(B[n + 1], t, OwnerAt(B, n, t))
           /\ \A a : ReverseAt(B, n + 1, a) = ReverseAfter(B[n + 1], a, ReverseAt(B, n, a))
           /\ \A t : ~In(B[n + 1], TransfersOf(t)) /\ Ahead(B, n, t) => Ahead(B, n + 1, t)
<1>1. n + 1 \in 1 .. Len(B) /\ IsBlock(B[n + 1])
  BY DEF IsChain
<1>2. n + 1 \in Nat \ {0} /\ (n + 1) - 1 = n
  OBVIOUS
<1>3. \A t \in Tokens : OwnerAt(B, n + 1, t) = OwnerAfter(B[n + 1], t, OwnerAt(B, n, t))
  <2> DEFINE m == n + 1
  <2>1. m \in Nat \ {0} /\ m - 1 = n /\ IsBlock(B[m])
    BY <1>1, <1>2
  <2> HIDE DEF m
  <2>2. ASSUME NEW t \in Tokens
        PROVE  OwnerAt(B, m, t) = OwnerAfter(B[m], t, OwnerAt(B, m - 1, t))
    BY <2>1, BlockByBlock
  <2> QED
    BY <2>1, <2>2 DEF m
<1>4. ASSUME NEW a
      PROVE  ReverseAt(B, n + 1, a) = ReverseAfter(B[n + 1], a, ReverseAt(B, n, a))
  <2> DEFINE m == n + 1
  <2>1. m \in Nat \ {0} /\ m - 1 = n /\ IsBlock(B[m])
    BY <1>1, <1>2
  <2> HIDE DEF m
  <2>2. PICK t : t \in Tokens
    BY <2>1, BlockIsOfAKind
  <2>3. ReverseAt(B, m, a) = ReverseAfter(B[m], a, ReverseAt(B, m - 1, a))
    BY <2>1, <2>2, BlockByBlock
  <2> QED
    BY <2>1, <2>3 DEF m
<1>5. ASSUME NEW t, ~In(B[n + 1], TransfersOf(t)), Ahead(B, n, t)
      PROVE  Ahead(B, n + 1, t)
  <2>1. Len(B) \in Nat
    BY DEF IsChain
  <2>2. PICK i \in n + 1 .. Len(B) : In(B[i], TransfersOf(t))
    BY <1>5 DEF Ahead
  <2>3. i # n + 1
    BY <1>5, <2>2
  <2>4. i \in (n + 1) + 1 .. Len(B)
    BY <2>1, <2>2, <2>3
  <2> QED
    BY <2>2, <2>4 DEF Ahead
<1> QED
  BY <1>1, <1>3, <1>4, <1>5

\* A new reverse record of an address is the one that it has, or it has none.
Kept(b, a, old, new) ==
    \/ /\ \A r : ReverseAfter(b, a, r) = r
       /\ \A r : r[1] = a => (r \in new <=> r \in old)
    \/ /\ \A r : ReverseAfter(b, a, r) = None
       /\ \A r \in new : r[1] # a

\* What the block of an owner tells, and the rows after it.
OwnerBlock(b, t, x) ==
    /\ \A u \in Tokens : \A old : OwnerAfter(b, u, old) = IF u = t THEN x ELSE old
    /\ \A u \in Tokens : In(b, TransfersOf(u)) <=> u = t
ReversesKept(b, v, rev) ==
    rev \subseteq v.rev /\ (~v.broken => \A a \in Addresses : Kept(b, a, v.rev, rev))
MintKnown(b, t, w, known) ==
    \A u \in Tokens : NewUri(u) \in Range(b) => u = t /\ (~w.broken => t \in known \cup w.names)
LostWith(t, w, lost) == {u \in Tokens : IF u = t THEN t \notin w.names ELSE u \in lost}

LEMMA OwnerSeen ==
    ASSUME ChainInv, NEW c \in Chains, NEW n \in Nat, n < Len(chain[c]),
           NEW b, b = chain[c][n + 1],
           NEW t \in Tokens, NEW x, NEW v, NEW w, NEW rev,
           NEW lost, NEW skipped,
           SeenInv(c, v, n, lost, skipped),
           OwnerBlock(b, t, x), OwnerWritten(v, w, t, x, rev), ReversesKept(b, v, rev),
           MintKnown(b, t, w, names)
    PROVE  SeenInv(c, w, n + 1, LostWith(t, w, lost), skipped)
<1>0. /\ \A u \in Tokens : \A old : OwnerAfter(b, u, old) = IF u = t THEN x ELSE old
      /\ \A u \in Tokens : In(b, TransfersOf(u)) <=> u = t
      /\ rev \subseteq v.rev
      /\ ~v.broken => \A a \in Addresses : Kept(b, a, v.rev, rev)
      /\ \A u \in Tokens : NewUri(u) \in Range(b) => u = t
      /\ \A u \in Tokens : NewUri(u) \in Range(b) /\ ~w.broken => t \in names \cup w.names
  BY DEF OwnerBlock, ReversesKept, MintKnown
<1> DEFINE lost2 == LostWith(t, w, lost)
<1>0a. lost2 = {u \in Tokens : IF u = t THEN t \notin w.names ELSE u \in lost}
  BY DEF LostWith
<1> HIDE DEF lost2
<1> DEFINE B == chain[c]
           astray == skipped \cup pull.addresses
<1>1. IsChain(B) /\ Len(B) \in Nat
  BY DEF ChainInv, IsChain
<1>2. /\ n + 1 \in 1 .. Len(B)
      /\ \A u \in Tokens : OwnerAt(B, n + 1, u) = IF u = t THEN x ELSE OwnerAt(B, n, u)
      /\ \A a : ReverseAt(B, n + 1, a) = ReverseAfter(b, a, ReverseAt(B, n, a))
      /\ \A u \in Tokens : u # t /\ Ahead(B, n, u) => Ahead(B, n + 1, u)
  BY <1>0, <1>1, Further
<1>3. OwnerAt(B, Len(B), t) # None
  <2>1. In(B[n + 1], TransfersOf(t)) /\ Len(B) \in n + 1 .. Len(B)
    BY <1>0, <1>1, <1>2
  <2> QED
    BY <1>1, <1>2, <2>1, OnceTransferred
<1>4. /\ TablesOK(B, v.rows, v.rev, v.names)
      /\ v.names \subseteq Tokens
      /\ \A r \in db[c].rev : r[2] \notin v.names => r[1] \in pull.addresses
      /\ ~v.broken =>
           /\ RowsTold(B, n, v.rows, lost)
           /\ ReverseTold(B, n, v.rev, astray)
           /\ MintsNamed(B, n, names \cup v.names)
  BY DEF SeenInv, SeenOK
<1>5. /\ IsTables(w) /\ w.rev = rev
      /\ v.names \subseteq w.names /\ w.names \subseteq v.names \cup {t}
      /\ DOMAIN w.rows \subseteq DOMAIN v.rows \cup ({t} \cap w.names)
      /\ v.broken => w.broken
  BY DEF OwnerWritten
<1>6. TablesOK(B, w.rows, w.rev, w.names)
  <2>1. w.rows = [u \in DOMAIN w.rows |-> w.rows[u]] /\ DOMAIN w.rows \subseteq w.names
    BY <1>4, <1>5 DEF IsTables, TablesOK
  <2>2. \A u \in DOMAIN w.rows : OwnerAt(B, Len(B), u) # None
    BY <1>3, <1>4, <1>5 DEF TablesOK
  <2>3. \A r \in w.rev : /\ r = <<r[1], r[2]>> /\ r[1] \in Addresses /\ r[2] \in w.names
                         /\ SetBy(B, r[2], r[1])
    BY <1>0, <1>4, <1>5 DEF TablesOK
  <2> QED
    BY <2>1, <2>2, <2>3 DEF TablesOK
<1>7. ASSUME ~w.broken
      PROVE  RowsTold(B, n + 1, w.rows, lost2)
  <2>1. \A u : u # t => OwnerIn(w.rows, u) = OwnerIn(v.rows, u)
    BY <1>7 DEF OwnerWritten
  <2>2. t \in w.names => OwnerIn(w.rows, t) = x
    BY <1>7 DEF OwnerWritten
  <2>3. ASSUME NEW u \in Tokens \ lost2
        PROVE  OwnerIn(w.rows, u) = OwnerAt(B, n + 1, u) \/ Ahead(B, n + 1, u)
    <3>1. CASE u = t
      BY <1>0a, <1>2, <2>2, <3>1
    <3>2. CASE u # t
      <4>1. u \in Tokens \ lost
        BY <1>0a, <3>2
      <4>2. OwnerIn(v.rows, u) = OwnerAt(B, n, u) \/ Ahead(B, n, u)
        BY <1>4, <1>5, <1>7, <4>1 DEF RowsTold
      <4> QED
        BY <1>2, <2>1, <3>2, <4>2
    <3> QED
      BY <3>1, <3>2
  <2> QED
    BY <2>3 DEF RowsTold
<1>8. ASSUME ~w.broken
      PROVE  ReverseTold(B, n + 1, w.rev, astray)
  <2>1. ReverseTold(B, n, v.rev, astray)
    BY <1>4, <1>5, <1>8
  <2>2. ASSUME NEW a \in Addresses \ astray
        PROVE  /\ \A r \in w.rev : r[1] = a => r[2] = ReverseAt(B, n + 1, a)
               /\ \A u \in Tokens :
                    ReverseAt(B, n + 1, a) = u /\ (\A d \in astray : ~SetBy(B, u, d))
                      => <<a, u>> \in w.rev
    <3>1. /\ \A r \in v.rev : r[1] = a => r[2] = ReverseAt(B, n, a)
          /\ \A u \in Tokens :
               ReverseAt(B, n, a) = u /\ (\A d \in astray : ~SetBy(B, u, d))
                 => <<a, u>> \in v.rev
      BY <2>1 DEF ReverseTold
    <3>2. CASE /\ \A r : ReverseAfter(b, a, r) = r
               /\ \A r : r[1] = a => (r \in rev <=> r \in v.rev)
      <4>1. ReverseAt(B, n + 1, a) = ReverseAt(B, n, a)
        BY <1>2, <3>2
      <4>2. \A u : <<a, u>>[1] = a
        OBVIOUS
      <4> HIDE DEF B, astray
      <4> QED
        BY <1>5, <3>1, <3>2, <4>1, <4>2
    <3>3. CASE /\ \A r : ReverseAfter(b, a, r) = None
               /\ \A r \in rev : r[1] # a
      <4>1. ReverseAt(B, n + 1, a) = None
        BY <1>2, <3>3
      <4> HIDE DEF B, astray
      <4> QED
        BY <1>5, <3>3, <4>1, MarksDiffer
    <3>4. Kept(b, a, v.rev, rev)
      BY <1>0, <1>5, <1>8
    <3> QED
      BY <3>2, <3>3, <3>4 DEF Kept
  <2> QED
    BY <2>2 DEF ReverseTold
<1>9. ASSUME ~w.broken
      PROVE  MintsNamed(B, n + 1, names \cup w.names)
  <2>1. MintsNamed(B, n, names \cup v.names)
    BY <1>4, <1>5, <1>9
  <2>2. ASSUME NEW i \in 1 .. n + 1, NEW u \in Tokens, NewUri(u) \in Range(B[i])
        PROVE  u \in names \cup w.names
    <3>1. CASE i \in 1 .. n
      BY <1>5, <2>1, <2>2, <3>1 DEF MintsNamed
    <3>2. CASE i = n + 1
      BY <1>0, <1>9, <2>2, <3>2
    <3> QED
      BY <3>1, <3>2
  <2> QED
    BY <2>2 DEF MintsNamed
<1>10. /\ w = [names |-> w.names, rows |-> w.rows, rev |-> w.rev, broken |-> w.broken]
       /\ w.broken \in BOOLEAN /\ w.names \subseteq Tokens /\ lost2 \subseteq Tokens
       /\ \A r \in db[c].rev : r[2] \notin w.names => r[1] \in pull.addresses
  BY <1>0a, <1>4, <1>5 DEF IsTables
<1> QED
  BY <1>6, <1>7, <1>8, <1>9, <1>10 DEF SeenInv, SeenOK, lost2

LEMMA SettingReverse ==
    ASSUME NEW b, NEW t \in Tokens, NEW o \in Owners[t], IsSetBlock(b, t, o), NEW a, NEW old
    PROVE  ReverseAfter(b, a, old) = IF a = o THEN t ELSE old
BY AfterSetting

LEMMA RecordSeen ==
    ASSUME ChainInv, NEW c \in Chains, NEW n \in Nat, n < Len(chain[c]),
           NEW b, b = chain[c][n + 1],
           NEW t \in Tokens, NEW o \in Owners[t], IsSetBlock(b, t, o),
           NEW v, NEW w, NEW lost, NEW skipped, NEW skipped2,
           SeenInv(c, v, n, lost, skipped),
           w = ReverseSaved(v, Setting(t, o)),
           skipped2 = skipped \cup (IF t \in v.names THEN {} ELSE {o})
    PROVE  SeenInv(c, w, n + 1, lost, skipped2)
<1> DEFINE B == chain[c]
           astray == skipped \cup pull.addresses
           astray2 == skipped2 \cup pull.addresses
<1>1. IsChain(B) /\ Len(B) \in Nat /\ HistoryInv(B)
  BY DEF ChainInv, IsChain
<1>2. /\ n + 1 \in 1 .. Len(B)
      /\ \A u \in Tokens : OwnerAt(B, n + 1, u) = OwnerAt(B, n, u)
      /\ \A a : ReverseAt(B, n + 1, a) = IF a = o THEN t ELSE ReverseAt(B, n, a)
      /\ \A u \in Tokens : Ahead(B, n, u) => Ahead(B, n + 1, u)
  <2>1. \A u \in Tokens : ~In(b, TransfersOf(u))
    BY SetBlock DEF In
  <2>2. \A u \in Tokens : \A old : OwnerAfter(b, u, old) = old
    BY AfterSetting
  <2>3. ASSUME NEW a, NEW old
        PROVE  ReverseAfter(b, a, old) = IF a = o THEN t ELSE old
    BY SettingReverse
  <2> QED
    BY <1>1, <2>1, <2>2, <2>3, Further
<1>3. /\ IsTables(v)
      /\ TablesOK(B, v.rows, v.rev, v.names)
      /\ v.names \subseteq Tokens /\ lost \subseteq Tokens
      /\ \A r \in db[c].rev : r[2] \notin v.names => r[1] \in pull.addresses
      /\ ~v.broken =>
           /\ RowsTold(B, n, v.rows, lost)
           /\ ReverseTold(B, n, v.rev, astray)
           /\ MintsNamed(B, n, names \cup v.names)
  BY DEF SeenInv, SeenOK, TablesOK, IsTables
<1>4. PICK old \in SUBSET {r \in v.rev : r[1] = o} :
        /\ old = {} <=> {r \in v.rev : r[1] = o} = {}
        /\ w = IF ~v.broken /\ t \in v.names
               THEN [v EXCEPT !.rev = (IF \E r \in v.rev : r[2] = t
                                       THEN v.rev ELSE v.rev \cup {<<o, t>>}) \ old]
               ELSE v
  BY <1>3, SettingSaved
<1>5. IsTables(w) /\ w.names = v.names /\ w.rows = v.rows /\ w.broken = v.broken
  BY <1>3, <1>4 DEF IsTables
<1>6. o \in Addresses /\ SetBy(B, t, o)
  BY <1>2 DEF Addresses, SetBy
<1>7. w.rev \subseteq v.rev \cup (IF t \in v.names THEN {<<o, t>>} ELSE {})
  BY <1>3, <1>4 DEF IsTables
<1>8. TablesOK(B, w.rows, w.rev, w.names)
  <2>1. ASSUME NEW r \in w.rev
        PROVE  /\ r = <<r[1], r[2]>> /\ r[1] \in Addresses /\ r[2] \in v.names
               /\ SetBy(B, r[2], r[1])
    <3>1. CASE r \in v.rev
      BY <1>3, <3>1 DEF TablesOK
    <3>2. CASE t \in v.names /\ r = <<o, t>>
      BY <1>6, <3>2
    <3> QED
      BY <1>7, <3>1, <3>2
  <2> QED
    BY <1>3, <1>5, <2>1 DEF TablesOK
<1>9. ~w.broken => RowsTold(B, n + 1, w.rows, lost)
  BY <1>2, <1>3, <1>5 DEF RowsTold
<1>10. ASSUME ~w.broken
       PROVE  MintsNamed(B, n + 1, names \cup w.names)
  <2>1. MintsNamed(B, n, names \cup w.names)
    BY <1>3, <1>5, <1>10
  <2>2. ASSUME NEW u \in Tokens
        PROVE  NewUri(u) \notin Range(B[n + 1])
    <3>1. Setting(t, o).type # NewUri(u).type
      BY EventKinds
    <3> QED
      BY <3>1, SetBlock
  <2>3. \A i \in 1 .. n + 1 : i \in 1 .. n \/ i = n + 1
    OBVIOUS
  <2> QED
    BY <2>1, <2>2, <2>3 DEF MintsNamed
<1>11. ASSUME ~w.broken
       PROVE  ReverseTold(B, n + 1, w.rev, astray2)
  <2>1. ~v.broken /\ ReverseTold(B, n, v.rev, astray)
    BY <1>3, <1>5, <1>11
  <2>2. astray \subseteq astray2 /\ (t \notin v.names => o \in astray2)
    OBVIOUS
  <2>3. ASSUME NEW a \in Addresses \ astray2
        PROVE  /\ \A r \in v.rev : r[1] = a => r[2] = ReverseAt(B, n, a)
               /\ \A u \in Tokens :
                    ReverseAt(B, n, a) = u /\ (\A d \in astray : ~SetBy(B, u, d))
                      => <<a, u>> \in v.rev
    <3>1. a \in Addresses \ astray
      BY <2>2
    <3> HIDE DEF astray, astray2, B
    <3> QED
      BY <2>1, <3>1 DEF ReverseTold
  <2>4. ASSUME NEW a \in Addresses \ astray2, a # o
        PROVE  /\ \A r \in w.rev : r[1] = a => r[2] = ReverseAt(B, n + 1, a)
               /\ \A u \in Tokens :
                    ReverseAt(B, n + 1, a) = u /\ (\A d \in astray2 : ~SetBy(B, u, d))
                      => <<a, u>> \in w.rev
    <3>1. ReverseAt(B, n + 1, a) = ReverseAt(B, n, a)
      BY <1>2, <2>4
    <3>2. ASSUME NEW r \in w.rev, r[1] = a
          PROVE  r[2] = ReverseAt(B, n + 1, a)
      <4>1. r # <<o, t>>
        BY <2>4, <3>2
      <4>2. r \in v.rev
        BY <1>7, <4>1
      <4> QED
        BY <2>3, <3>1, <3>2, <4>2
    <3>3. ASSUME NEW u \in Tokens, ReverseAt(B, n + 1, a) = u,
                 \A d \in astray2 : ~SetBy(B, u, d)
          PROVE  <<a, u>> \in w.rev
      <4>1. <<a, u>> \in v.rev
        BY <2>2, <2>3, <3>1, <3>3
      <4>2. <<a, u>> \notin old
        <5>1. <<a, u>>[1] # o
          BY <2>4
        <5> QED
          BY <5>1
      <4> QED
        BY <1>3, <1>4, <4>1, <4>2 DEF IsTables
    <3> QED
      BY <3>2, <3>3
  <2>5. ASSUME o \notin astray2
        PROVE  /\ \A r \in w.rev : r[1] = o => r[2] = ReverseAt(B, n + 1, o)
               /\ \A u \in Tokens :
                    ReverseAt(B, n + 1, o) = u /\ (\A d \in astray2 : ~SetBy(B, u, d))
                      => <<o, u>> \in w.rev
    <3>1. t \in v.names /\ ReverseAt(B, n + 1, o) = t
      BY <1>2, <2>2, <2>5
    <3>2. OwnerAt(B, n, t) = o /\ ReverseAt(B, n, o) # t
      <4> DEFINE m == n + 1
      <4>1. m \in 1 .. Len(B) /\ m - 1 = n /\ IsSetBlock(B[m], t, o)
        BY <1>2
      <4> HIDE DEF m, B
      <4> QED
        BY <1>1, <4>1 DEF HistoryInv
    <3>3. \A r \in v.rev : r[1] = o => r[2] = ReverseAt(B, n, o)
      BY <1>6, <2>3, <2>5
    <3>4. w.rev = (IF \E r \in v.rev : r[2] = t THEN v.rev ELSE v.rev \cup {<<o, t>>}) \ old
      BY <1>3, <1>4, <2>1, <3>1 DEF IsTables
    <3>5. ASSUME NEW r \in w.rev, r[1] = o
          PROVE  r[2] = t
      <4>1. CASE r \in v.rev
        <5>1. {x \in v.rev : x[1] = o} # {}
          BY <3>5, <4>1
        <5>2. PICK x \in old : TRUE
          BY <1>4, <5>1
        <5>3. x \in v.rev /\ x[1] = o /\ x[2] = r[2]
          BY <3>3, <3>5, <4>1, <5>2
        <5>4. x = r
          <6>1. x = <<x[1], x[2]>> /\ r = <<r[1], r[2]>>
            BY <1>3, <4>1, <5>3 DEF TablesOK
          <6> QED
            BY <3>5, <5>3, <6>1
        <5>5. r \notin old
          BY <3>4
        <5> QED
          BY <5>2, <5>4, <5>5
      <4>2. CASE r = <<o, t>>
        BY <4>2
      <4> QED
        BY <1>7, <4>1, <4>2
    <3>6. ASSUME \A d \in astray2 : ~SetBy(B, t, d)
          PROVE  <<o, t>> \in w.rev
      <4>1. ASSUME NEW r \in v.rev, r[2] = t
            PROVE  FALSE
        <5>1. r[1] \in Addresses /\ SetBy(B, t, r[1])
          BY <1>3, <4>1 DEF TablesOK
        <5>2. r[1] \in Addresses \ astray2
          BY <3>6, <5>1
        <5>3. ReverseAt(B, n, r[1]) = t
          <6> HIDE DEF astray2, B
          <6> QED
            BY <2>3, <4>1, <5>2
        <5>4. OwnerAt(B, n, t) = r[1]
          BY <1>1, <5>1, <5>3 DEF HistoryInv
        <5> QED
          BY <3>2, <5>3, <5>4
      <4>2. <<o, t>> \notin old
        <5>1. <<o, t>>[2] = t
          OBVIOUS
        <5> QED
          BY <4>1, <5>1
      <4> QED
        BY <3>4, <4>1, <4>2
    <3> QED
      BY <3>1, <3>5, <3>6
  <2>6. ASSUME NEW a \in Addresses \ astray2
        PROVE  /\ \A r \in w.rev : r[1] = a => r[2] = ReverseAt(B, n + 1, a)
               /\ \A u \in Tokens :
                    ReverseAt(B, n + 1, a) = u /\ (\A d \in astray2 : ~SetBy(B, u, d))
                      => <<a, u>> \in w.rev
    <3> HIDE DEF astray, astray2, B
    <3> QED
      BY <2>4, <2>5
  <2> HIDE DEF astray, astray2, B
  <2> QED
    BY <2>6 DEF ReverseTold
<1> QED
  BY <1>3, <1>5, <1>8, <1>9, <1>10, <1>11 DEF SeenInv, SeenOK, IsTables

-----------------------------------------------------------------------------
(* The handlers of a block, one after the other *)

\* A block has one event or two: what the recursive function of Processed is then.
LEMMA ProcessedOne ==
    ASSUME NEW c, NEW e, Events(c) = <<e>>
    PROVE  Processed(c) = Handled(c, tx[c].tables, NoEvent, e)
<1> DEFINE events == Events(c)
           last(i) == IF i = 1 THEN NoEvent ELSE events[i - 1]
           Step(f) == [i \in 0 .. Len(events) |->
                         IF i = 0 THEN tx[c].tables
                         ELSE Handled(c, f[i - 1], last(i), events[i])]
           after == CHOOSE f : f = Step(f)
           h == Handled(c, tx[c].tables, NoEvent, e)
           g == [i \in 0 .. 1 |-> IF i = 0 THEN tx[c].tables ELSE h]
<1>1. Processed(c) = after[Len(events)]
  BY DEF Processed
<1>2. Len(events) = 1 /\ events[1] = e
  OBVIOUS
<1>3. g = Step(g)
  <2>1. ASSUME NEW i \in 0 .. 1
        PROVE  g[i] = IF i = 0 THEN tx[c].tables ELSE Handled(c, g[i - 1], last(i), events[i])
    <3>1. CASE i = 0
      BY <3>1
    <3>2. CASE i = 1
      <4>1. g[0] = tx[c].tables /\ g[1] = h /\ last(1) = NoEvent
        OBVIOUS
      <4>2. i - 1 = 0
        BY <3>2
      <4> HIDE DEF g, last, events
      <4> QED
        BY <1>2, <3>2, <4>1, <4>2
    <3> QED
      BY <3>1, <3>2
  <2>2. Step(g) = [i \in 0 .. 1 |->
                     IF i = 0 THEN tx[c].tables
                     ELSE Handled(c, g[i - 1], last(i), events[i])]
    <3> HIDE DEF g, last, events
    <3> QED
      BY <1>2
  <2>3. g = [i \in 0 .. 1 |-> g[i]]
    OBVIOUS
  <2> HIDE DEF g, last, events, Step
  <2> QED
    BY <2>1, <2>2, <2>3
<1>4. after = Step(after)
  <2> HIDE DEF Step, g
  <2> QED
    BY <1>3
<1>5. after[0] = tx[c].tables /\ after[1] = Handled(c, after[0], last(1), events[1])
  <2> HIDE DEF after, last, events
  <2>1. \A i \in 0 .. 1 : after[i] = IF i = 0 THEN tx[c].tables
                                     ELSE Handled(c, after[i - 1], last(i), events[i])
    BY <1>2, <1>4
  <2>2. 0 \in 0 .. 1 /\ 1 \in 0 .. 1 /\ 1 - 1 = 0
    OBVIOUS
  <2> HIDE DEF Step
  <2> QED
    BY <2>1, <2>2
<1>6. last(1) = NoEvent
  OBVIOUS
<1> HIDE DEF after, last, events
<1> QED
  BY <1>1, <1>2, <1>5, <1>6

LEMMA ProcessedTwo ==
    ASSUME NEW c, NEW e, NEW f, Events(c) = <<e, f>>
    PROVE  Processed(c) = Handled(c, Handled(c, tx[c].tables, NoEvent, e), e, f)
<1> DEFINE events == Events(c)
           last(i) == IF i = 1 THEN NoEvent ELSE events[i - 1]
           Step(k) == [i \in 0 .. Len(events) |->
                         IF i = 0 THEN tx[c].tables
                         ELSE Handled(c, k[i - 1], last(i), events[i])]
           after == CHOOSE k : k = Step(k)
           h == Handled(c, tx[c].tables, NoEvent, e)
           j == Handled(c, h, e, f)
           g == [i \in 0 .. 2 |-> IF i = 0 THEN tx[c].tables ELSE IF i = 1 THEN h ELSE j]
<1>1. Processed(c) = after[Len(events)]
  BY DEF Processed
<1>2. Len(events) = 2 /\ events[1] = e /\ events[2] = f
  OBVIOUS
<1>3. last(1) = NoEvent /\ last(2) = e
  OBVIOUS
<1>4. g = Step(g)
  <2>1. ASSUME NEW i \in 0 .. 2
        PROVE  g[i] = IF i = 0 THEN tx[c].tables ELSE Handled(c, g[i - 1], last(i), events[i])
    <3>0. g[0] = tx[c].tables /\ g[1] = h /\ g[2] = j
      OBVIOUS
    <3>1. CASE i = 0
      BY <3>1
    <3>2. CASE i = 1
      <4>1. i - 1 = 0
        BY <3>2
      <4> HIDE DEF g, last, events
      <4> QED
        BY <1>2, <1>3, <3>0, <3>2, <4>1
    <3>3. CASE i = 2
      <4>1. i - 1 = 1
        BY <3>3
      <4> HIDE DEF g, last, events, h
      <4> QED
        BY <1>2, <1>3, <3>0, <3>3, <4>1
    <3> QED
      BY <3>1, <3>2, <3>3
  <2>2. Step(g) = [i \in 0 .. 2 |->
                     IF i = 0 THEN tx[c].tables
                     ELSE Handled(c, g[i - 1], last(i), events[i])]
    <3> HIDE DEF g, last, events
    <3> QED
      BY <1>2
  <2>3. g = [i \in 0 .. 2 |-> g[i]]
    OBVIOUS
  <2> HIDE DEF g, last, events, Step
  <2> QED
    BY <2>1, <2>2, <2>3
<1>5. after = Step(after)
  <2> HIDE DEF Step, g
  <2> QED
    BY <1>4
<1>6. /\ after[0] = tx[c].tables
      /\ after[1] = Handled(c, after[0], last(1), events[1])
      /\ after[2] = Handled(c, after[1], last(2), events[2])
  <2> HIDE DEF after, last, events
  <2>1. \A i \in 0 .. 2 : after[i] = IF i = 0 THEN tx[c].tables
                                     ELSE Handled(c, after[i - 1], last(i), events[i])
    BY <1>2, <1>5
  <2>2. 0 \in 0 .. 2 /\ 1 \in 0 .. 2 /\ 2 \in 0 .. 2 /\ 1 - 1 = 0 /\ 2 - 1 = 1
    OBVIOUS
  <2> HIDE DEF Step
  <2> QED
    BY <2>1, <2>2
<1> HIDE DEF after, last, events
<1> QED
  BY <1>1, <1>2, <1>3, <1>6

LEMMA HandledAs ==
    ASSUME NEW c, NEW v, NEW last
    PROVE  /\ \A t, from, to :
                Handled(c, v, last, Transfer(t, from, to))
                  = AfterTransfer(v, Transfer(t, from, to))
           /\ \A t : Handled(c, v, last, NewUri(t))
                       = AfterNewUri(Saved(c, v), {t}, last, NewUri(t))
           /\ \A t, a : Handled(c, v, last, Setting(t, a)) = ReverseSaved(v, Setting(t, a))
           /\ \A a : Handled(c, v, last, Removal(a)) = Repo!RemoveReverse(v, a)
<1>1. ASSUME NEW t, NEW from, NEW to
      PROVE  Handled(c, v, last, Transfer(t, from, to))
               = AfterTransfer(v, Transfer(t, from, to))
  <2> DEFINE e == Transfer(t, from, to)
  <2>1. e.type = "Transfer"
    BY EventKinds
  <2> HIDE DEF e
  <2>2. Handled(c, v, last, e) = AfterTransfer(v, e)
    BY <2>1 DEF Handled
  <2> QED
    BY <2>2 DEF e
<1>2. ASSUME NEW t
      PROVE  Handled(c, v, last, NewUri(t)) = AfterNewUri(Saved(c, v), {t}, last, NewUri(t))
  <2> DEFINE e == NewUri(t)
  <2>1. e.type = "NewURI" /\ e.token = t
    BY EventKinds
  <2> HIDE DEF e
  <2>2. Handled(c, v, last, e) = AfterNewUri(Saved(c, v), {e.token}, last, e)
    BY <2>1 DEF Handled
  <2> QED
    BY <2>1, <2>2 DEF e
<1>3. ASSUME NEW t, NEW a
      PROVE  Handled(c, v, last, Setting(t, a)) = ReverseSaved(v, Setting(t, a))
  <2> DEFINE e == Setting(t, a)
  <2>1. e.type = "SetReverse"
    BY EventKinds
  <2> HIDE DEF e
  <2>2. Handled(c, v, last, e) = ReverseSaved(v, e)
    BY <2>1 DEF Handled
  <2> QED
    BY <2>2 DEF e
<1>4. ASSUME NEW a
      PROVE  Handled(c, v, last, Removal(a)) = Repo!RemoveReverse(v, a)
  <2> DEFINE e == Removal(a)
  <2>1. e.type = "RemoveReverse" /\ e.addr = a
    BY EventKinds
  <2> HIDE DEF e
  <2>2. Handled(c, v, last, e) = Repo!RemoveReverse(v, e.addr)
    BY <2>1 DEF Handled
  <2> QED
    BY <2>1, <2>2 DEF e
<1> QED
  BY <1>1, <1>2, <1>3, <1>4

-----------------------------------------------------------------------------
(* What the tables have after a block *)

LEMMA LostIs ==
    ASSUME NEW c, IsBlock(Events(c))
    PROVE  LostAfter(c) = {u \in Tokens : IF In(Events(c), TransfersOf(u))
                                          THEN u \notin Processed(c).names ELSE u \in tx[c].lost}
<1>1. ASSUME NEW u \in Tokens
      PROVE  (\E e \in Transfers(c) : e.token = u) <=> In(Events(c), TransfersOf(u))
  BY IsTransfer DEF Transfers, In, IsTransferOf
<1> QED
  BY <1>1 DEF LostAfter

LEMMA SkippedIs ==
    ASSUME NEW c, \A e \in Range(Events(c)) : e.type # "SetReverse"
    PROVE  SkippedAfter(c) = tx[c].skipped
BY DEF SkippedAfter

\* The blocks of an owner, as the handlers meet them.
LEMMA OwnerBlocks ==
    ASSUME NEW b, NEW t \in Tokens
    PROVE  /\ \A o \in Owners[t] : IsMintBlock(b, t, o) => OwnerBlock(b, t, o)
           /\ \A from, to \in Marks(t) : IsMoveBlock(b, t, from, to) => OwnerBlock(b, t, to)
           /\ \A from \in Owners[t], to \in Marks(t) :
                IsLeaveBlock(b, t, from, to) => OwnerBlock(b, t, to)
<1>1. ASSUME NEW o \in Owners[t], IsMintBlock(b, t, o)
      PROVE  OwnerBlock(b, t, o)
  <2>1. \A u \in Tokens : In(b, TransfersOf(u)) <=> u = t
    BY <1>1, MintBlock DEF In
  <2> QED
    BY <1>1, <2>1, AfterMinting DEF OwnerBlock
<1>2. ASSUME NEW from \in Marks(t), NEW to \in Marks(t), IsMoveBlock(b, t, from, to)
      PROVE  OwnerBlock(b, t, to)
  <2>1. \A u \in Tokens : In(b, TransfersOf(u)) <=> u = t
    BY <1>2, MoveBlock DEF In
  <2> QED
    BY <1>2, <2>1, AfterMoving DEF OwnerBlock
<1>3. ASSUME NEW from \in Owners[t], NEW to \in Marks(t), IsLeaveBlock(b, t, from, to)
      PROVE  OwnerBlock(b, t, to)
  <2>1. \A u \in Tokens : In(b, TransfersOf(u)) <=> u = t
    BY <1>3, LeaveBlock DEF In
  <2> QED
    BY <1>3, <2>1, AfterLeaving DEF OwnerBlock
<1> QED
  BY <1>1, <1>2, <1>3

LEMMA NothingReversed ==
    ASSUME NEW b, NEW v, \A a, old : ReverseAfter(b, a, old) = old
    PROVE  ReversesKept(b, v, v.rev)
BY DEF ReversesKept, Kept

LEMMA MintSeen ==
    ASSUME ChainInv, NEW c \in Chains,
           NEW n \in Nat, n = tx[c].block, n < Len(chain[c]),
           NEW t \in Tokens, NEW o \in Owners[t], IsMintBlock(Events(c), t, o),
           SeenInv(c, tx[c].tables, n, tx[c].lost, tx[c].skipped),
           tx[c].found => TokenOf(c) \in names
    PROVE  SeenInv(c, Processed(c), n + 1, LostAfter(c), SkippedAfter(c))
<1> DEFINE b == Events(c)
           v == tx[c].tables
           w == Processed(c)
           T == Transfer(t, Null, o)
<1>1. b = chain[c][n + 1] /\ b = <<T, NewUri(t)>>
  BY DEF Events, IsMintBlock
<1>2. IsTables(v)
  BY DEF SeenInv, SeenOK, TablesOK, IsTables
<1>3. Range(b) = {T, NewUri(t)} /\ IsBlock(b)
  BY MintBlock DEF IsBlock
<1>4. TokenOf(c) = t
  <2>1. T.type = "Transfer" /\ NewUri(t).type # "Transfer" /\ T.token = t
    BY EventKinds
  <2>2. (CHOOSE e \in Range(b) : e.type = "Transfer") = T
    <3> HIDE DEF T, b
    <3> QED
      BY <1>3, <2>1
  <2> QED
    BY <2>1, <2>2 DEF TokenOf
<1>5. w = AfterNewUri(Saved(c, AfterTransfer(v, T)), {t}, T, NewUri(t))
  <2> DEFINE u == Handled(c, v, NoEvent, T)
  <2>1. w = Handled(c, u, T, NewUri(t))
    BY <1>1, ProcessedTwo
  <2>2. u = AfterTransfer(v, T)
    BY HandledAs
  <2> HIDE DEF u, w, T
  <2>3. Handled(c, u, T, NewUri(t)) = AfterNewUri(Saved(c, u), {t}, T, NewUri(t))
    BY HandledAs
  <2> QED
    BY <2>1, <2>2, <2>3
<1>6. OwnerWritten(v, w, t, o, v.rev) /\ (~w.broken => t \in names \cup w.names)
  <2> HIDE DEF w, T, v
  <2>1. T = Transfer(t, Null, o)
    BY DEF T
  <2> QED
    BY <1>2, <1>4, <1>5, <2>1, MintSaved
<1>7. OwnerBlock(b, t, o)
  BY OwnerBlocks
<1>8. ReversesKept(b, v, v.rev)
  <2>1. \A a, old : ReverseAfter(b, a, old) = old
    BY AfterMinting
  <2> HIDE DEF b
  <2> QED
    BY <2>1, NothingReversed
<1>9. MintKnown(b, t, w, names)
  <2>1. \A u : NewUri(u).type = "NewURI" /\ NewUri(u).token = u /\ T.type = "Transfer"
    BY EventKinds
  <2> HIDE DEF T, b, w
  <2>2. \A u \in Tokens : NewUri(u) \in Range(b) => u = t
    BY <1>3, <2>1
  <2> QED
    BY <1>6, <2>2 DEF MintKnown
<1>10. LostAfter(c) = LostWith(t, w, tx[c].lost)
  BY <1>3, <1>7, LostIs DEF OwnerBlock, LostWith
<1>11. SkippedAfter(c) = tx[c].skipped
  <2>1. T.type # "SetReverse" /\ NewUri(t).type # "SetReverse"
    BY EventKinds
  <2> QED
    BY <1>3, <2>1, SkippedIs
<1>12. SeenInv(c, v, n, tx[c].lost, tx[c].skipped)
  OBVIOUS
<1> HIDE DEF b, v, w, T
<1>13. SeenInv(c, w, n + 1, LostWith(t, w, tx[c].lost), tx[c].skipped)
  BY <1>1, <1>6, <1>7, <1>8, <1>9, <1>12, OwnerSeen
<1> QED
  BY <1>10, <1>11, <1>13 DEF w

LEMMA MoveSeen ==
    ASSUME ChainInv, NEW c \in Chains,
           NEW n \in Nat, n = tx[c].block, n < Len(chain[c]),
           NEW t \in Tokens, NEW from \in Marks(t), NEW to \in Marks(t),
           IsMoveBlock(Events(c), t, from, to),
           SeenInv(c, tx[c].tables, n, tx[c].lost, tx[c].skipped)
    PROVE  SeenInv(c, Processed(c), n + 1, LostAfter(c), SkippedAfter(c))
<1> DEFINE b == Events(c)
           v == tx[c].tables
           w == Processed(c)
           T == Transfer(t, from, to)
<1>1. b = chain[c][n + 1] /\ b = <<T>>
  BY DEF Events, IsMoveBlock
<1>2. IsTables(v)
  BY DEF SeenInv, SeenOK, TablesOK, IsTables
<1>3. Range(b) = {T} /\ IsBlock(b)
  BY MoveBlock DEF IsBlock
<1>4. w = AfterTransfer(v, T)
  <2>1. w = Handled(c, v, NoEvent, T)
    BY <1>1, ProcessedOne
  <2> HIDE DEF w
  <2> QED
    BY <2>1, HandledAs
<1>5. OwnerWritten(v, w, t, to, v.rev)
  <2> HIDE DEF w, v
  <2> QED
    BY <1>2, <1>4, TransferSaved
<1>6. OwnerBlock(b, t, to)
  BY OwnerBlocks
<1>7. ReversesKept(b, v, v.rev)
  <2>1. \A a, old : ReverseAfter(b, a, old) = old
    BY AfterMoving
  <2> HIDE DEF b
  <2> QED
    BY <2>1, NothingReversed
<1>8. MintKnown(b, t, w, names)
  <2>1. \A u : NewUri(u).type # T.type
    BY EventKinds
  <2> HIDE DEF T, b, w
  <2> QED
    BY <1>3, <2>1 DEF MintKnown
<1>9. LostAfter(c) = LostWith(t, w, tx[c].lost)
  BY <1>3, <1>6, LostIs DEF OwnerBlock, LostWith
<1>10. SkippedAfter(c) = tx[c].skipped
  <2>1. T.type # "SetReverse"
    BY EventKinds
  <2> QED
    BY <1>3, <2>1, SkippedIs
<1>11. SeenInv(c, v, n, tx[c].lost, tx[c].skipped)
  OBVIOUS
<1> HIDE DEF b, v, w, T
<1>12. SeenInv(c, w, n + 1, LostWith(t, w, tx[c].lost), tx[c].skipped)
  BY <1>1, <1>5, <1>6, <1>7, <1>8, <1>11, OwnerSeen
<1> QED
  BY <1>9, <1>10, <1>12 DEF w

LEMMA LeaveSeen ==
    ASSUME ChainInv, NEW c \in Chains,
           NEW n \in Nat, n = tx[c].block, n < Len(chain[c]),
           NEW t \in Tokens, NEW from \in Owners[t], NEW to \in Marks(t),
           IsLeaveBlock(Events(c), t, from, to),
           SeenInv(c, tx[c].tables, n, tx[c].lost, tx[c].skipped)
    PROVE  SeenInv(c, Processed(c), n + 1, LostAfter(c), SkippedAfter(c))
<1> DEFINE b == Events(c)
           v == tx[c].tables
           R == Removal(from)
           T == Transfer(t, from, to)
           r == Repo!RemoveReverse(v, from)
           w == Processed(c)
<1>1. b = chain[c][n + 1] /\ b = <<R, T>>
  BY DEF Events, IsLeaveBlock
<1>2. IsTables(v)
  BY DEF SeenInv, SeenOK, TablesOK, IsTables
<1>3. Range(b) = {R, T} /\ IsBlock(b)
  BY LeaveBlock DEF IsBlock
<1>4. w = AfterTransfer(r, T)
  <2> DEFINE u == Handled(c, v, NoEvent, R)
  <2>1. w = Handled(c, u, R, T)
    BY <1>1, ProcessedTwo
  <2>2. u = r
    BY HandledAs
  <2> HIDE DEF w, u, r, R
  <2> QED
    BY <2>1, <2>2, HandledAs
<1> DEFINE rev == r.rev
<1>5. /\ IsTables(r) /\ r.names = v.names /\ r.rows = v.rows /\ r.broken = v.broken
      /\ \A x : x \in r.rev <=> x \in v.rev /\ (v.broken \/ x[1] # from)
  <2> HIDE DEF v, r
  <2> QED
    BY <1>2, RemovalSaved DEF r
<1>6. /\ rev \subseteq v.rev
      /\ ~v.broken => \A x : x \in rev <=> x \in v.rev /\ x[1] # from
  <2> HIDE DEF v, r
  <2> QED
    BY <1>5
<1>7. OwnerWritten(r, w, t, to, rev)
  <2> HIDE DEF w, r
  <2> QED
    BY <1>4, <1>5, TransferSaved DEF Marks
<1>8. OwnerWritten(v, w, t, to, rev) /\ rev \subseteq v.rev
  <2> HIDE DEF w, r, v
  <2> QED
    BY <1>5, <1>6, <1>7 DEF OwnerWritten
<1>9. OwnerBlock(b, t, to) /\ IsLeaveBlock(b, t, from, to)
  BY OwnerBlocks DEF Marks
<1>10. ReversesKept(b, v, rev)
  <2> HIDE DEF b
  <2>1. \A a, old : ReverseAfter(b, a, old) = IF a = from THEN None ELSE old
    BY <1>9, AfterLeaving
  <2>2. ASSUME ~v.broken, NEW a \in Addresses
        PROVE  Kept(b, a, v.rev, rev)
    <3>1. \A x : x \in rev <=> x \in v.rev /\ x[1] # from
      BY <1>6, <2>2
    <3> HIDE DEF v, rev
    <3>2. CASE a = from
      BY <2>1, <3>1, <3>2 DEF Kept
    <3>3. CASE a # from
      BY <2>1, <3>1, <3>3 DEF Kept
    <3> QED
      BY <3>2, <3>3
  <2> HIDE DEF v, rev
  <2> QED
    BY <1>8, <2>2 DEF ReversesKept
<1>11. MintKnown(b, t, w, names)
  <2>1. \A u : NewUri(u).type = "NewURI" /\ T.type = "Transfer" /\ R.type = "RemoveReverse"
    BY EventKinds
  <2> HIDE DEF T, R, b, w
  <2> QED
    BY <1>3, <2>1 DEF MintKnown
<1>12. LostAfter(c) = LostWith(t, w, tx[c].lost)
  BY <1>3, <1>9, LostIs DEF OwnerBlock, LostWith
<1>13. SkippedAfter(c) = tx[c].skipped
  <2>1. T.type # "SetReverse" /\ R.type # "SetReverse"
    BY EventKinds
  <2> QED
    BY <1>3, <2>1, SkippedIs
<1>14. SeenInv(c, v, n, tx[c].lost, tx[c].skipped)
  OBVIOUS
<1> HIDE DEF b, v, w, T, R, r, rev
<1>15. SeenInv(c, w, n + 1, LostWith(t, w, tx[c].lost), tx[c].skipped)
  BY <1>1, <1>8, <1>9, <1>10, <1>11, <1>14, OwnerSeen
<1> QED
  BY <1>12, <1>13, <1>15 DEF w

LEMMA SetSeen ==
    ASSUME ChainInv, NEW c \in Chains,
           NEW n \in Nat, n = tx[c].block, n < Len(chain[c]),
           NEW t \in Tokens, NEW o \in Owners[t], IsSetBlock(Events(c), t, o),
           SeenInv(c, tx[c].tables, n, tx[c].lost, tx[c].skipped)
    PROVE  SeenInv(c, Processed(c), n + 1, LostAfter(c), SkippedAfter(c))
<1> DEFINE b == Events(c)
           v == tx[c].tables
           w == Processed(c)
           S == Setting(t, o)
<1>1. b = chain[c][n + 1] /\ b = <<S>>
  BY DEF Events, IsSetBlock
<1>2. Range(b) = {S} /\ IsBlock(b)
  BY SetBlock DEF IsBlock
<1>3. w = ReverseSaved(v, S)
  <2>1. w = Handled(c, v, NoEvent, S)
    BY <1>1, ProcessedOne
  <2> HIDE DEF w
  <2> QED
    BY <2>1, HandledAs
<1>4. LostAfter(c) = tx[c].lost
  <2>1. \A u \in Tokens : ~In(b, TransfersOf(u))
    BY SetBlock DEF In
  <2>2. tx[c].lost \subseteq Tokens
    BY DEF SeenInv, SeenOK
  <2> QED
    BY <1>2, <2>1, <2>2, LostIs
<1>5. SkippedAfter(c) = tx[c].skipped \cup (IF t \in v.names THEN {} ELSE {o})
  <2>1. S.type = "SetReverse" /\ S.token = t /\ S.addr = o
    BY EventKinds
  <2> HIDE DEF S, b, v
  <2>2. {e.addr : e \in {e \in Range(b) : e.type = "SetReverse" /\ e.token \notin v.names}}
          = IF t \in v.names THEN {} ELSE {o}
    BY <1>2, <2>1
  <2> QED
    BY <2>2 DEF SkippedAfter, b, v
<1>6. SeenInv(c, v, n, tx[c].lost, tx[c].skipped) /\ IsSetBlock(b, t, o)
  OBVIOUS
<1> HIDE DEF b, v, w
<1> QED
  BY <1>1, <1>3, <1>4, <1>5, <1>6, RecordSeen DEF w

LEMMA BlockSeen ==
    ASSUME ChainInv, WorkersInv, NEW c \in Chains,
           tx[c].pc # "idle", tx[c].block < tx[c].to
    PROVE  SeenInv(c, Processed(c), tx[c].block + 1, LostAfter(c), SkippedAfter(c))
<1> DEFINE n == tx[c].block
           b == Events(c)
<1>1. /\ n \in Nat /\ n < Len(chain[c]) /\ n + 1 \in 1 .. Len(chain[c])
      /\ SeenInv(c, tx[c].tables, n, tx[c].lost, tx[c].skipped)
      /\ tx[c].found => TokenOf(c) \in names
  <2>1. TxInv(c) /\ Len(chain[c]) \in Nat
    BY DEF WorkersInv, ChainInv, IsChain
  <2> QED
    BY <2>1 DEF TxInv
<1>2. IsBlock(b)
  BY <1>1 DEF ChainInv, IsChain, Events
<1>3. PICK t \in Tokens :
        \/ \E o \in Owners[t] : IsMintBlock(b, t, o)
        \/ \E from, to \in Marks(t) : IsMoveBlock(b, t, from, to)
        \/ \E from \in Owners[t], to \in Marks(t) : IsLeaveBlock(b, t, from, to)
        \/ \E o \in Owners[t] : IsSetBlock(b, t, o)
  BY <1>2, BlockIsOfAKind
<1>4. CASE \E o \in Owners[t] : IsMintBlock(b, t, o)
  BY <1>1, <1>4, MintSeen
<1>5. CASE \E from, to \in Marks(t) : IsMoveBlock(b, t, from, to)
  BY <1>1, <1>5, MoveSeen
<1>6. CASE \E from \in Owners[t], to \in Marks(t) : IsLeaveBlock(b, t, from, to)
  BY <1>1, <1>6, LeaveSeen
<1>7. CASE \E o \in Owners[t] : IsSetBlock(b, t, o)
  BY <1>1, <1>7, SetSeen
<1> QED
  BY <1>3, <1>4, <1>5, <1>6, <1>7

-----------------------------------------------------------------------------
(* What a writer leaves alone *)

LEMMA ToldMore ==
    ASSUME NEW B, NEW known, NEW more, known \subseteq more, NEW astray, NEW away,
           astray \subseteq away, NEW n
    PROVE  /\ \A rows, rev : TablesOK(B, rows, rev, known) => TablesOK(B, rows, rev, more)
           /\ \A rev : ReverseTold(B, n, rev, astray) => ReverseTold(B, n, rev, away)
           /\ MintsNamed(B, n, known) => MintsNamed(B, n, more)
<1>1. \A rows, rev : TablesOK(B, rows, rev, known) => TablesOK(B, rows, rev, more)
  BY DEF TablesOK
<1>2. \A rev : ReverseTold(B, n, rev, astray) => ReverseTold(B, n, rev, away)
  BY DEF ReverseTold
<1>3. MintsNamed(B, n, known) => MintsNamed(B, n, more)
  BY DEF MintsNamed
<1> QED
  BY <1>1, <1>2, <1>3

LEMMA ChainStays ==
    ASSUME ChainInv, UNCHANGED chainVars
    PROVE  ChainInv'
BY DEF ChainInv, PlaceInv, chainVars

LEMMA DbStays ==
    ASSUME WorkersInv, NEW d \in Chains, UNCHANGED chain, db'[d] = db[d],
           names \subseteq names', pull.addresses \subseteq pull'.addresses
    PROVE  DbInv(d)'
<1> DEFINE x == db[d]
           B == chain[d]
<1>1. /\ x = [block |-> x.block, rows |-> x.rows, rev |-> x.rev, lost |-> x.lost,
              skipped |-> x.skipped]
      /\ x.block \in 0 .. Len(B)
      /\ x.lost \subseteq Tokens
      /\ TablesOK(B, x.rows, x.rev, names)
      /\ RowsTold(B, x.block, x.rows, x.lost)
      /\ ReverseTold(B, x.block, x.rev, x.skipped \cup pull.addresses)
      /\ MintsNamed(B, x.block, names)
  BY DEF WorkersInv, DbInv
<1>2. x.skipped \cup pull.addresses \subseteq x.skipped \cup pull'.addresses
  OBVIOUS
<1>3. /\ TablesOK(B, x.rows, x.rev, names')
      /\ ReverseTold(B, x.block, x.rev, x.skipped \cup pull'.addresses)
      /\ MintsNamed(B, x.block, names')
  <2> HIDE DEF x, B
  <2> QED
    BY <1>1, <1>2, ToldMore
<1> QED
  BY <1>1, <1>3 DEF DbInv

LEMMA SeenMore ==
    ASSUME NEW B, NEW stored, NEW known, NEW pulled, NEW stored2, NEW known2, NEW pulled2,
           known \subseteq known2, pulled \subseteq pulled2,
           \A r \in stored2 : r \in stored \/ r[1] \in pulled2,
           NEW v, NEW n, NEW lost, NEW skipped,
           SeenOK(B, stored, known, pulled, v, n, lost, skipped)
    PROVE  SeenOK(B, stored2, known2, pulled2, v, n, lost, skipped)
<1>1. /\ v = [names |-> v.names, rows |-> v.rows, rev |-> v.rev, broken |-> v.broken]
      /\ v.broken \in BOOLEAN
      /\ v.names \subseteq Tokens /\ lost \subseteq Tokens
      /\ TablesOK(B, v.rows, v.rev, v.names)
      /\ \A r \in stored : r[2] \notin v.names => r[1] \in pulled
      /\ ~v.broken =>
           /\ RowsTold(B, n, v.rows, lost)
           /\ ReverseTold(B, n, v.rev, skipped \cup pulled)
           /\ MintsNamed(B, n, known \cup v.names)
  BY DEF SeenOK
<1>2. /\ skipped \cup pulled \subseteq skipped \cup pulled2
      /\ known \cup v.names \subseteq known2 \cup v.names
  OBVIOUS
<1>3. ~v.broken =>
        /\ ReverseTold(B, n, v.rev, skipped \cup pulled2)
        /\ MintsNamed(B, n, known2 \cup v.names)
  BY <1>1, <1>2, ToldMore
<1>4. \A r \in stored2 : r[2] \notin v.names => r[1] \in pulled2
  BY <1>1
<1> QED
  BY <1>1, <1>3, <1>4 DEF SeenOK

LEMMA TxStays ==
    ASSUME WorkersInv, NEW d \in Chains, UNCHANGED chain, tx'[d] = tx[d],
           db'[d].block = db[d].block,
           names \subseteq names', pull.addresses \subseteq pull'.addresses,
           \A r \in db'[d].rev : r \in db[d].rev \/ r[1] \in pull'.addresses
    PROVE  TxInv(d)'
<1> DEFINE x == tx[d]
<1>1. TxInv(d)
  BY DEF WorkersInv
<1>2. /\ x = [pc |-> x.pc, to |-> x.to, block |-> x.block, tables |-> x.tables,
              found |-> x.found, lost |-> x.lost, skipped |-> x.skipped]
      /\ x.pc \in {"idle", "block", "insert"}
      /\ x.to \in 0 .. Len(chain[d]) /\ x.block \in 0 .. x.to
      /\ x.pc = "insert" => x.block < x.to /\ Inserts(d)
      /\ x.found => x.pc = "insert" /\ TokenOf(d) \in names
      /\ x.pc # "idle" =>
           /\ db[d].block <= x.block
           /\ SeenInv(d, x.tables, x.block, x.lost, x.skipped)
  BY <1>1 DEF TxInv
<1>3. Events(d)' = Events(d)
  BY DEF Events
<1>4. Inserts(d)' <=> Inserts(d)
  BY <1>3 DEF Inserts
<1>5. TokenOf(d)' = TokenOf(d)
  BY <1>3 DEF TokenOf
<1>6. x.pc # "idle" => SeenInv(d, tx[d].tables, tx[d].block, tx[d].lost, tx[d].skipped)'
  <2>1. x.pc # "idle" => SeenOK(chain[d], db[d].rev, names, pull.addresses,
                                x.tables, x.block, x.lost, x.skipped)
    BY <1>2 DEF SeenInv
  <2>2. x.pc # "idle" => SeenOK(chain[d], db'[d].rev, names', pull'.addresses,
                                x.tables, x.block, x.lost, x.skipped)
    <3> HIDE DEF x
    <3> QED
      BY <2>1, SeenMore
  <2> QED
    BY <2>2 DEF SeenInv
<1> QED
  BY <1>2, <1>4, <1>5, <1>6 DEF TxInv

LEMMA PullStays ==
    ASSUME WorkersInv, UNCHANGED <<chain, pull>>
    PROVE  PullInv'
BY DEF WorkersInv, PullInv

-----------------------------------------------------------------------------
(* The steps of a worker *)

\* A step of the run of c: nothing but its tx.
LEMMA RunSteps ==
    ASSUME WorkersInv, NEW c \in Chains, UNCHANGED <<chain, names, db, pull>>,
           NEW x, tx' = [tx EXCEPT ![c] = x], TxInv(c)'
    PROVE  WorkersInv'
<1>1. tx = [d \in Chains |-> tx[d]] /\ db = [d \in Chains |-> db[d]] /\ names \subseteq Tokens
  BY DEF WorkersInv
<1>2. tx' = [d \in Chains |-> tx'[d]] /\ \A d \in Chains : d # c => tx'[d] = tx[d]
  BY <1>1
<1>3. ASSUME NEW d \in Chains
      PROVE  DbInv(d)'
  BY DbStays
<1>4. ASSUME NEW d \in Chains
      PROVE  TxInv(d)'
  <2>1. CASE d = c
    BY <2>1
  <2>2. CASE d # c
    BY <1>2, <2>2, TxStays
  <2> QED
    BY <2>1, <2>2
<1>5. PullInv'
  BY PullStays
<1> QED
  BY <1>1, <1>2, <1>3, <1>4, <1>5 DEF WorkersInv

LEMMA BeginStep ==
    ASSUME ChainInv, WorkersInv, NEW c \in Chains, Begin(c)
    PROVE  WorkersInv'
<1> DEFINE v == [names |-> names, rows |-> db[c].rows, rev |-> db[c].rev, broken |-> FALSE]
           x == [pc |-> "block", to |-> Len(chain[c]), block |-> db[c].block, tables |-> v,
                 found |-> FALSE, lost |-> db[c].lost, skipped |-> db[c].skipped]
<1>0. [Idle EXCEPT !.pc = "block", !.to = Len(chain[c]), !.block = db[c].block,
                   !.lost = db[c].lost, !.skipped = db[c].skipped,
                   !.tables = [@ EXCEPT !.names = names, !.rows = db[c].rows,
                                        !.rev = db[c].rev]] = x
  <2> DEFINE empty == Repo!EmptyTables
             u == [empty EXCEPT !.names = names, !.rows = db[c].rows, !.rev = db[c].rev]
             z == [Idle EXCEPT !.pc = "block", !.to = Len(chain[c]), !.block = db[c].block,
                               !.lost = db[c].lost, !.skipped = db[c].skipped, !.tables = u]
  <2>1. Idle.tables = empty
    BY DEF Idle
  <2>2. empty = [names |-> {}, rows |-> <<>>, rev |-> {}, broken |-> FALSE]
    BY DEF Repo!EmptyTables
  <2>3. u = [empty EXCEPT !.names = names, !.rows = db[c].rows, !.rev = db[c].rev]
    OBVIOUS
  <2>4. z = [Idle EXCEPT !.pc = "block", !.to = Len(chain[c]), !.block = db[c].block,
                         !.lost = db[c].lost, !.skipped = db[c].skipped, !.tables = u]
    OBVIOUS
  <2> HIDE DEF empty, u, z
  <2>5. u = v
    BY <2>2, <2>3
  <2>6. z = x
    BY <2>4, <2>5 DEF Idle
  <2>7. [Idle.tables EXCEPT !.names = names, !.rows = db[c].rows, !.rev = db[c].rev] = u
    BY <2>1, <2>3
  <2> HIDE DEF x
  <2> QED
    BY <2>6, <2>7 DEF z
<1>1. UNCHANGED <<chain, names, db, pull>> /\ tx' = [tx EXCEPT ![c] = x]
  <2> HIDE DEF x
  <2> QED
    BY <1>0 DEF Begin, chainVars
<1>2. tx'[c] = x
  BY <1>1 DEF WorkersInv
<1>3. DbInv(c) /\ names \subseteq Tokens /\ Len(chain[c]) \in Nat
  BY DEF WorkersInv, ChainInv, IsChain
<1>4. SeenOK(chain[c], db[c].rev, names, pull.addresses, v, db[c].block, db[c].lost,
             db[c].skipped)
  <2>1. /\ db[c].lost \subseteq Tokens
        /\ TablesOK(chain[c], db[c].rows, db[c].rev, names)
        /\ RowsTold(chain[c], db[c].block, db[c].rows, db[c].lost)
        /\ ReverseTold(chain[c], db[c].block, db[c].rev, db[c].skipped \cup pull.addresses)
        /\ MintsNamed(chain[c], db[c].block, names)
    BY <1>3 DEF DbInv
  <2>2. \A r \in db[c].rev : r[2] \in names
    BY <2>1 DEF TablesOK
  <2>3. names \cup v.names = names
    OBVIOUS
  <2> QED
    BY <1>3, <2>1, <2>2, <2>3 DEF SeenOK
<1>5. TxInv(c)'
  <2>1. db[c].block \in 0 .. Len(chain[c])
    BY <1>3 DEF DbInv
  <2>2. /\ x.pc = "block" /\ ~x.found /\ x.to = Len(chain[c]) /\ x.block = db[c].block
        /\ x.tables = v /\ x.lost = db[c].lost /\ x.skipped = db[c].skipped
        /\ x = [pc |-> x.pc, to |-> x.to, block |-> x.block, tables |-> x.tables,
                found |-> x.found, lost |-> x.lost, skipped |-> x.skipped]
    OBVIOUS
  <2> HIDE DEF x, v
  <2>3. SeenInv(c, tx[c].tables, tx[c].block, tx[c].lost, tx[c].skipped)'
    BY <1>1, <1>2, <1>4, <2>2 DEF SeenInv
  <2> QED
    BY <1>1, <1>2, <1>3, <2>1, <2>2, <2>3 DEF TxInv
<1> HIDE DEF x
<1> QED
  BY <1>1, <1>5, RunSteps

LEMMA FindStep ==
    ASSUME ChainInv, WorkersInv, NEW c \in Chains, FindByNode(c)
    PROVE  WorkersInv'
<1> DEFINE x == [tx[c] EXCEPT !.pc = "insert", !.found = LookUp(c)]
<1>1. /\ UNCHANGED <<chain, names, db, pull>>
      /\ tx' = [tx EXCEPT ![c].pc = "insert", ![c].found = LookUp(c)]
      /\ tx[c].pc = "block" /\ tx[c].block < tx[c].to /\ Inserts(c)
  BY DEF FindByNode, InRun, chainVars
<1>2. tx' = [tx EXCEPT ![c] = x] /\ tx'[c] = x
  BY <1>1 DEF WorkersInv
<1>3. TxInv(c)
  BY DEF WorkersInv
<1>3a. tx[c] = [pc |-> tx[c].pc, to |-> tx[c].to, block |-> tx[c].block,
                tables |-> tx[c].tables, found |-> tx[c].found, lost |-> tx[c].lost,
                skipped |-> tx[c].skipped]
  BY <1>3 DEF TxInv
<1>4. /\ x = [pc |-> "insert", to |-> tx[c].to, block |-> tx[c].block,
              tables |-> tx[c].tables, found |-> LookUp(c), lost |-> tx[c].lost,
              skipped |-> tx[c].skipped]
  <2> DEFINE y == tx[c]
  <2>1. y = [pc |-> y.pc, to |-> y.to, block |-> y.block, tables |-> y.tables,
             found |-> y.found, lost |-> y.lost, skipped |-> y.skipped]
    BY <1>3a
  <2>2. x = [y EXCEPT !.pc = "insert", !.found = LookUp(c)]
    OBVIOUS
  <2> HIDE DEF x, y
  <2>3. x = [pc |-> "insert", to |-> y.to, block |-> y.block, tables |-> y.tables,
             found |-> LookUp(c), lost |-> y.lost, skipped |-> y.skipped]
    BY <2>1, <2>2
  <2> QED
    BY <2>3 DEF y
<1>5. Events(c)' = Events(c)
  BY <1>1, <1>2, <1>4 DEF Events
<1>6. Inserts(c)' /\ TokenOf(c)' = TokenOf(c)
  BY <1>1, <1>5 DEF Inserts, TokenOf
<1>7. SeenInv(c, tx[c].tables, tx[c].block, tx[c].lost, tx[c].skipped)'
  <2>1. SeenInv(c, tx[c].tables, tx[c].block, tx[c].lost, tx[c].skipped)
    BY <1>1, <1>3 DEF TxInv
  <2> QED
    BY <1>1, <1>2, <1>4, <2>1 DEF SeenInv
<1>8. TxInv(c)'
  <2> HIDE DEF x
  <2>1. x.pc = "insert" /\ x.to = tx[c].to /\ x.block = tx[c].block /\ x.found = LookUp(c)
    BY <1>4
  <2>2. /\ tx[c].to \in 0 .. Len(chain[c]) /\ tx[c].block \in 0 .. tx[c].to
        /\ db[c].block <= tx[c].block
    BY <1>1, <1>3 DEF TxInv
  <2>3. x = [pc |-> x.pc, to |-> x.to, block |-> x.block, tables |-> x.tables,
             found |-> x.found, lost |-> x.lost, skipped |-> x.skipped]
    BY <1>4
  <2> QED
    BY <1>1, <1>2, <1>6, <1>7, <2>1, <2>2, <2>3 DEF TxInv, LookUp
<1> HIDE DEF x
<1> QED
  BY <1>1, <1>2, <1>8, RunSteps

LEMMA ProcessStep ==
    ASSUME ChainInv, WorkersInv, NEW c \in Chains, ProcessBlock(c)
    PROVE  WorkersInv'
<1> DEFINE w == Processed(c)
           lost == LostAfter(c)
           skipped == SkippedAfter(c)
           x == [tx[c] EXCEPT !.pc = "block", !.block = @ + 1, !.found = FALSE,
                              !.tables = w, !.lost = lost, !.skipped = skipped]
<1>1. /\ UNCHANGED <<chain, names, db, pull>>
      /\ tx' = [tx EXCEPT ![c].pc = "block", ![c].block = @ + 1, ![c].found = FALSE,
                          ![c].tables = w, ![c].lost = lost, ![c].skipped = skipped]
      /\ tx[c].pc # "idle" /\ tx[c].block < tx[c].to
  BY DEF ProcessBlock, InRun, chainVars
<1>2. SeenInv(c, w, tx[c].block + 1, lost, skipped)
  BY <1>1, BlockSeen
<1> HIDE DEF w, lost, skipped
<1>3. tx' = [tx EXCEPT ![c] = x] /\ tx'[c] = x
  BY <1>1 DEF WorkersInv
<1>4. TxInv(c)
  BY DEF WorkersInv
<1>5. x = [pc |-> "block", to |-> tx[c].to, block |-> tx[c].block + 1,
           tables |-> w, found |-> FALSE, lost |-> lost, skipped |-> skipped]
  <2>1. tx[c] = [pc |-> tx[c].pc, to |-> tx[c].to, block |-> tx[c].block,
                 tables |-> tx[c].tables, found |-> tx[c].found, lost |-> tx[c].lost,
                 skipped |-> tx[c].skipped]
    BY <1>4 DEF TxInv
  <2> DEFINE y == tx[c]
  <2>2. y = [pc |-> y.pc, to |-> y.to, block |-> y.block, tables |-> y.tables,
             found |-> y.found, lost |-> y.lost, skipped |-> y.skipped]
    BY <2>1
  <2>3. x = [y EXCEPT !.pc = "block", !.block = @ + 1, !.found = FALSE,
                      !.tables = w, !.lost = lost, !.skipped = skipped]
    OBVIOUS
  <2> HIDE DEF x, y
  <2>4. x = [pc |-> "block", to |-> y.to, block |-> y.block + 1,
             tables |-> w, found |-> FALSE, lost |-> lost, skipped |-> skipped]
    BY <2>2, <2>3
  <2> QED
    BY <2>4 DEF y
<1>6. /\ tx[c].to \in 0 .. Len(chain[c]) /\ tx[c].block \in 0 .. tx[c].to
      /\ db[c].block <= tx[c].block
  BY <1>1, <1>4 DEF TxInv
<1>7. /\ tx[c].block + 1 \in 0 .. tx[c].to /\ db[c].block <= tx[c].block + 1
  <2>1. IsChain(chain[c]) /\ DbInv(c)
    BY DEF WorkersInv, ChainInv
  <2>2. Len(chain[c]) \in Nat
    BY <2>1 DEF IsChain
  <2>3. db[c].block \in 0 .. Len(chain[c])
    BY <2>1 DEF DbInv
  <2>4. tx[c].block < tx[c].to
    BY <1>1
  <2> QED
    BY <1>6, <2>2, <2>3, <2>4
<1> HIDE DEF x
<1>8. SeenInv(c, tx[c].tables, tx[c].block, tx[c].lost, tx[c].skipped)'
  BY <1>1, <1>2, <1>3, <1>5 DEF SeenInv
<1>9. TxInv(c)'
  <2>1. x.pc = "block" /\ x.to = tx[c].to /\ x.block = tx[c].block + 1 /\ ~x.found
    BY <1>5
  <2>2. x = [pc |-> x.pc, to |-> x.to, block |-> x.block, tables |-> x.tables,
             found |-> x.found, lost |-> x.lost, skipped |-> x.skipped]
    BY <1>5
  <2>3. /\ tx'[c].to \in 0 .. Len(chain'[c]) /\ tx'[c].block \in 0 .. tx'[c].to
        /\ db'[c].block <= tx'[c].block
    BY <1>1, <1>3, <1>6, <1>7, <2>1
  <2> QED
    BY <1>3, <1>8, <2>1, <2>2, <2>3 DEF TxInv
<1> QED
  BY <1>1, <1>3, <1>9, RunSteps

LEMMA IdleNext ==
    ASSUME ChainInv', NEW c \in Chains, tx'[c] = Idle
    PROVE  TxInv(c)'
<1>1. /\ Idle = [pc |-> Idle.pc, to |-> Idle.to, block |-> Idle.block,
                 tables |-> Idle.tables, found |-> Idle.found, lost |-> Idle.lost,
                 skipped |-> Idle.skipped]
      /\ Idle.pc = "idle" /\ Idle.to = 0 /\ Idle.block = 0 /\ ~Idle.found
  BY DEF Idle
<1>2. Len(chain'[c]) \in Nat
  BY DEF ChainInv, IsChain
<1> QED
  BY <1>1, <1>2 DEF TxInv

LEMMA RollbackStep ==
    ASSUME ChainInv, WorkersInv, NEW c \in Chains, Rollback(c)
    PROVE  WorkersInv'
<1>1. UNCHANGED chainVars /\ UNCHANGED <<chain, names, db, pull>>
      /\ tx' = [tx EXCEPT ![c] = Idle]
  BY DEF Rollback, chainVars
<1>2. tx'[c] = Idle
  BY <1>1 DEF WorkersInv
<1> QED
  BY <1>1, <1>2, ChainStays, IdleNext, RunSteps

\* Where nothing is ahead the owner is the one at the end of the chain.
LEMMA NothingAhead ==
    ASSUME NEW B, IsChain(B), NEW n \in 0 .. Len(B), NEW t, ~Ahead(B, n, t)
    PROVE  OwnerAt(B, n, t) = OwnerAt(B, Len(B), t)
<1>1. Len(B) \in Nat /\ n \in Nat /\ n <= Len(B)
  BY DEF IsChain
<1>2. \A i \in n + 1 .. Len(B) : ~In(B[i], TransfersOf(t))
  BY DEF Ahead
<1>3. LastIn(B, Len(B), TransfersOf(t)) = LastIn(B, n, TransfersOf(t))
  <2> DEFINE m == Len(B)
             S == TransfersOf(t)
  <2>1. m \in Nat /\ n <= m /\ \A i \in n + 1 .. m : ~In(B[i], S)
    BY <1>1, <1>2
  <2> HIDE DEF m, S
  <2>2. LastIn(B, m, S) = LastIn(B, n, S)
    BY <1>1, <2>1, LastSkips
  <2> QED
    BY <2>2 DEF m, S
<1> QED
  BY <1>3 DEF OwnerAt

LEMMA Committed ==
    ASSUME NEW B, IsChain(B), NEW n \in 0 .. Len(B),
           NEW old, NEW known, NEW pulled, NEW v, NEW lost, NEW skipped, NEW unseen,
           TablesOK(B, old.rows, old.rev, known),
           SeenOK(B, old.rev, known, pulled, v, n, lost, skipped), ~v.broken,
           unseen = {r \in old.rev : r[2] \notin v.names},
           NEW rows, rows = Over(v.rows, old.rows), NEW rev, rev = v.rev \cup unseen
    PROVE  /\ TablesOK(B, rows, rev, known \cup v.names)
           /\ RowsTold(B, n, rows, lost)
           /\ ReverseTold(B, n, rev, skipped \cup pulled)
           /\ MintsNamed(B, n, known \cup v.names)
<1>1. /\ TablesOK(B, v.rows, v.rev, v.names)
      /\ \A r \in unseen : r[1] \in pulled
      /\ RowsTold(B, n, v.rows, lost)
      /\ ReverseTold(B, n, v.rev, skipped \cup pulled)
      /\ MintsNamed(B, n, known \cup v.names)
  BY DEF SeenOK
<1>2. /\ DOMAIN rows = DOMAIN v.rows \cup DOMAIN old.rows
      /\ \A t \in DOMAIN rows : rows[t] = IF t \in DOMAIN v.rows THEN v.rows[t] ELSE old.rows[t]
      /\ rows = [t \in DOMAIN rows |-> rows[t]]
  BY DEF Over
<1>3. TablesOK(B, rows, rev, known \cup v.names)
  <2>1. /\ DOMAIN rows \subseteq known \cup v.names
        /\ \A t \in DOMAIN rows : OwnerAt(B, Len(B), t) # None
    BY <1>1, <1>2 DEF TablesOK
  <2>2. ASSUME NEW r \in rev
        PROVE  /\ r = <<r[1], r[2]>> /\ r[1] \in Addresses /\ r[2] \in known \cup v.names
               /\ SetBy(B, r[2], r[1])
    <3>1. CASE r \in v.rev
      BY <1>1, <3>1 DEF TablesOK
    <3>2. CASE r \in old.rev
      BY <3>2 DEF TablesOK
    <3> QED
      BY <3>1, <3>2
  <2> QED
    BY <1>2, <2>1, <2>2 DEF TablesOK
<1>4. ASSUME NEW t \in Tokens \ lost
      PROVE  OwnerIn(rows, t) = OwnerAt(B, n, t) \/ Ahead(B, n, t)
  <2>1. OwnerIn(v.rows, t) = OwnerAt(B, n, t) \/ Ahead(B, n, t)
    BY <1>1 DEF RowsTold
  <2>2. CASE t \in DOMAIN v.rows
    BY <1>2, <2>1, <2>2 DEF OwnerIn
  <2>3. CASE t \notin DOMAIN v.rows /\ t \in DOMAIN old.rows
    <3>1. OwnerAt(B, Len(B), t) # None
      BY <2>3 DEF TablesOK
    <3>2. OwnerIn(v.rows, t) = None
      BY <2>3 DEF OwnerIn
    <3> QED
      BY <2>1, <3>1, <3>2, NothingAhead
  <2>4. CASE t \notin DOMAIN v.rows /\ t \notin DOMAIN old.rows
    BY <1>2, <2>1, <2>4 DEF OwnerIn
  <2> QED
    BY <2>2, <2>3, <2>4
<1>5. RowsTold(B, n, rows, lost)
  BY <1>4 DEF RowsTold
<1>6. ReverseTold(B, n, rev, skipped \cup pulled)
  <2> DEFINE astray == skipped \cup pulled
  <2>1. \A r \in unseen : r[1] \in astray
    BY <1>1
  <2>2. ReverseTold(B, n, v.rev, astray)
    BY <1>1
  <2> HIDE DEF astray
  <2>3. ReverseTold(B, n, rev, astray)
    BY <2>1, <2>2 DEF ReverseTold
  <2> QED
    BY <2>3 DEF astray
<1> QED
  BY <1>1, <1>3, <1>5, <1>6

LEMMA CommitStep ==
    ASSUME ChainInv, WorkersInv, NEW c \in Chains, Commit(c)
    PROVE  WorkersInv'
<1> DEFINE v == tx[c].tables
           n == tx[c].block
           rows == Over(v.rows, db[c].rows)
           rev == v.rev \cup UnseenRev(c)
           d == [block |-> n, rows |-> rows, rev |-> rev, lost |-> tx[c].lost,
                 skipped |-> tx[c].skipped]
<1>1. /\ UNCHANGED chainVars /\ UNCHANGED <<chain, pull>>
      /\ tx[c].pc = "block" /\ ~v.broken
      /\ names' = names \cup v.names
      /\ tx' = [tx EXCEPT ![c] = Idle]
      /\ db' = [db EXCEPT ![c] = d]
  BY DEF Commit, Done, chainVars
<1>2. DbInv(c) /\ TxInv(c) /\ names \subseteq Tokens /\ IsChain(chain[c])
      /\ tx = [e \in Chains |-> tx[e]] /\ db = [e \in Chains |-> db[e]]
  BY DEF WorkersInv, ChainInv
<1>3. SeenOK(chain[c], db[c].rev, names, pull.addresses, v, n, tx[c].lost, tx[c].skipped)
  BY <1>1, <1>2 DEF TxInv, SeenInv
<1>4. n \in 0 .. Len(chain[c])
  <2>1. Len(chain[c]) \in Nat
    BY <1>2 DEF IsChain
  <2> QED
    BY <1>2, <2>1 DEF TxInv
<1>5. /\ v.names \subseteq Tokens /\ tx[c].lost \subseteq Tokens
      /\ \A r \in db[c].rev : r[2] \notin v.names => r[1] \in pull.addresses
  BY <1>3 DEF SeenOK
<1>6. /\ TablesOK(chain[c], rows, rev, names')
      /\ RowsTold(chain[c], n, rows, tx[c].lost)
      /\ ReverseTold(chain[c], n, rev, tx[c].skipped \cup pull.addresses)
      /\ MintsNamed(chain[c], n, names')
  <2>1. TablesOK(chain[c], db[c].rows, db[c].rev, names)
    BY <1>2 DEF DbInv
  <2>2. UnseenRev(c) = {r \in db[c].rev : r[2] \notin v.names}
    BY DEF UnseenRev
  <2>3. rows = Over(v.rows, db[c].rows) /\ rev = v.rev \cup UnseenRev(c)
    OBVIOUS
  <2>4. ~v.broken /\ names' = names \cup v.names
    BY <1>1
  <2> DEFINE B == chain[c]
             old == db[c]
             unseen == UnseenRev(c)
             lost == tx[c].lost
             skipped == tx[c].skipped
  <2>5. /\ IsChain(B) /\ TablesOK(B, old.rows, old.rev, names) /\ n \in 0 .. Len(B)
        /\ SeenOK(B, old.rev, names, pull.addresses, v, n, lost, skipped)
        /\ unseen = {r \in old.rev : r[2] \notin v.names}
        /\ rows = Over(v.rows, old.rows) /\ rev = v.rev \cup unseen
    BY <1>2, <1>3, <1>4, <2>1, <2>2, <2>3
  <2> HIDE DEF v, n, rows, rev, B, old, unseen, lost, skipped
  <2>6. /\ TablesOK(B, rows, rev, names \cup v.names)
        /\ RowsTold(B, n, rows, lost)
        /\ ReverseTold(B, n, rev, skipped \cup pull.addresses)
        /\ MintsNamed(B, n, names \cup v.names)
    BY <2>4, <2>5, Committed
  <2> QED
    BY <2>4, <2>6 DEF B, lost, skipped
<1>7. db'[c] = d /\ tx'[c] = Idle
  BY <1>1, <1>2
<1>8. ASSUME NEW e \in Chains, e # c
      PROVE  db'[e] = db[e] /\ tx'[e] = tx[e]
  BY <1>1, <1>2, <1>8
<1>9. ChainInv' /\ names \subseteq names' /\ names' \subseteq Tokens
  BY <1>1, <1>2, <1>5, ChainStays
<1> HIDE DEF rows, rev, v, n
<1>10. DbInv(c)'
  <2>1. d = [block |-> d.block, rows |-> d.rows, rev |-> d.rev, lost |-> d.lost,
             skipped |-> d.skipped]
    OBVIOUS
  <2>2. d.block = n /\ d.rows = rows /\ d.rev = rev /\ d.lost = tx[c].lost
        /\ d.skipped = tx[c].skipped
    OBVIOUS
  <2> HIDE DEF d
  <2> QED
    BY <1>1, <1>4, <1>5, <1>6, <1>7, <2>1, <2>2 DEF DbInv
<1>11. ASSUME NEW e \in Chains
       PROVE  DbInv(e)'
  <2>1. CASE e = c
    BY <1>10, <2>1
  <2>2. CASE e # c
    BY <1>1, <1>8, <1>9, <2>2, DbStays
  <2> QED
    BY <2>1, <2>2
<1>12. ASSUME NEW e \in Chains
       PROVE  TxInv(e)'
  <2>1. CASE e = c
    BY <1>7, <1>9, <2>1, IdleNext
  <2>2. CASE e # c
    BY <1>1, <1>8, <1>9, <2>2, TxStays
  <2> QED
    BY <2>1, <2>2
<1>13. PullInv'
  BY <1>1, PullStays
<1>14. tx' = [e \in Chains |-> tx'[e]] /\ db' = [e \in Chains |-> db'[e]]
  <2> HIDE DEF d
  <2> QED
    BY <1>1, <1>2
<1> QED
  BY <1>9, <1>11, <1>12, <1>13, <1>14 DEF WorkersInv

-----------------------------------------------------------------------------
(* The steps of the script *)

\* What is the reverse record of an address was set by one of its blocks.
LEMMA SetSomewhere ==
    ASSUME NEW B, IsChain(B), NEW n \in 0 .. Len(B), NEW a, NEW t \in Tokens,
           ReverseAt(B, n, a) = t
    PROVE  a \in Owners[t] /\ SetBy(B, t, a)
<1> DEFINE last == LastIn(B, n, ReversesOf(a))
<1>1. n \in Nat /\ Len(B) \in Nat /\ \A i \in 1 .. n : i \in 1 .. Len(B) /\ IsBlock(B[i])
  BY DEF IsChain
<1>2. \A i \in 1 .. n : OneIn(B[i], ReversesOf(a))
  BY <1>1, OneEach
<1>3. last.type = "SetReverse" /\ last.token = t
  BY MarksDiffer DEF ReverseAt
<1>4. PICK m \in 1 .. n : last \in Range(B[m]) \cap ReversesOf(a)
  <2>1. last # NoEvent
    BY <1>3, EventKinds
  <2>2. \/ last = NoEvent /\ \A i \in 1 .. n : ~In(B[i], ReversesOf(a))
        \/ \E m \in 1 .. n :
             /\ last \in Range(B[m]) \cap ReversesOf(a)
             /\ \A i \in m + 1 .. n : ~In(B[i], ReversesOf(a))
    BY <1>1, <1>2, LastFound
  <2> QED
    BY <2>1, <2>2
<1> HIDE DEF last
<1>5. last = Setting(t, a)
  BY <1>3, <1>4, EventKinds DEF ReversesOf
<1>6. PICK u \in Tokens :
        \/ \E o \in Owners[u] : IsMintBlock(B[m], u, o)
        \/ \E from, to \in Marks(u) : IsMoveBlock(B[m], u, from, to)
        \/ \E from \in Owners[u], to \in Marks(u) : IsLeaveBlock(B[m], u, from, to)
        \/ \E o \in Owners[u] : IsSetBlock(B[m], u, o)
  BY <1>1, BlockIsOfAKind
<1>7. CASE \E o \in Owners[u] : IsMintBlock(B[m], u, o)
  BY <1>4, <1>7, MintBlock
<1>8. CASE \E from, to \in Marks(u) : IsMoveBlock(B[m], u, from, to)
  BY <1>4, <1>8, MoveBlock
<1>9. CASE \E from \in Owners[u], to \in Marks(u) : IsLeaveBlock(B[m], u, from, to)
  BY <1>4, <1>5, <1>9, LeaveBlock, EventKinds
<1>10. CASE \E o \in Owners[u] : IsSetBlock(B[m], u, o)
  <2>1. PICK o \in Owners[u] : IsSetBlock(B[m], u, o)
    BY <1>10
  <2>2. Setting(t, a) = Setting(u, o)
    BY <1>4, <1>5, <2>1, SetBlock
  <2>3. u = t /\ o = a
    BY <2>2, EventKinds
  <2> QED
    BY <1>1, <2>1, <2>3 DEF SetBy
<1> QED
  BY <1>6, <1>7, <1>8, <1>9, <1>10

\* A step of the script that only reads.
LEMMA ReadSteps ==
    ASSUME WorkersInv, UNCHANGED <<chain, names, db, tx>>,
           pull'.addresses = pull.addresses, PullInv'
    PROVE  WorkersInv'
<1>1. /\ tx = [d \in Chains |-> tx[d]] /\ db = [d \in Chains |-> db[d]]
      /\ names \subseteq Tokens
  BY DEF WorkersInv
<1>2. ASSUME NEW d \in Chains
      PROVE  DbInv(d)' /\ TxInv(d)'
  BY DbStays, TxStays
<1> QED
  BY <1>1, <1>2 DEF WorkersInv

LEMMA EndedIs ==
    /\ Ended = [pc |-> "idle", token |-> None, on |-> None, owner |-> None,
                reverse |-> FALSE, addresses |-> pull.addresses]
<1> DEFINE y == NoPull
           a == pull.addresses
           z == [y EXCEPT !.addresses = a]
<1>1. y = [pc |-> "idle", token |-> None, on |-> None, owner |-> None,
           reverse |-> FALSE, addresses |-> {}] /\ z = [y EXCEPT !.addresses = a]
  BY DEF NoPull
<1>2. Ended = z
  BY DEF Ended
<1> HIDE DEF y, z
<1> QED
  BY <1>1, <1>2

LEMMA AskPolygonStep ==
    ASSUME ChainInv, WorkersInv, NEW t \in Pulled, AskPolygon(t)
    PROVE  WorkersInv'
<1> DEFINE owner == OwnerOn("MATIC", t)
           pc == IF IsNullAddress(owner) THEN "ask" ELSE "reverse"
           e == Ended
           z == [e EXCEPT !.token = t, !.owner = owner, !.on = "MATIC", !.pc = pc]
<1>1. UNCHANGED <<chain, names, db, tx>> /\ pull' = z
  BY DEF AskPolygon, chainVars
<1>2. e = [pc |-> "idle", token |-> None, on |-> None, owner |-> None,
           reverse |-> FALSE, addresses |-> pull.addresses]
  BY EndedIs
<1>3. z = [e EXCEPT !.token = t, !.owner = owner, !.on = "MATIC", !.pc = pc]
  OBVIOUS
<1>4. t \in Tokens /\ "MATIC" \in Chains
  BY BridgedAssumption DEF Chains
<1>5. owner = OwnerAt(chain["MATIC"], Len(chain["MATIC"]), t)
  BY <1>4, OwnerOnIs
<1>6. pc \in {"ask", "reverse"} /\ (pc = "reverse" => owner # None)
  BY DEF IsNullAddress
<1> HIDE DEF owner, pc, e, z
<1>7. z = [pc |-> pc, token |-> t, on |-> "MATIC", owner |-> owner,
           reverse |-> FALSE, addresses |-> pull.addresses]
  BY <1>2, <1>3
<1>8. /\ z.pc = pc /\ z.token = t /\ z.on = "MATIC" /\ z.addresses = pull.addresses
      /\ z = [pc |-> z.pc, token |-> z.token, on |-> z.on, owner |-> z.owner,
              reverse |-> z.reverse, addresses |-> z.addresses]
  BY <1>7
<1>9. PullInv'
  BY <1>1, <1>4, <1>5, <1>6, <1>8 DEF PullInv
<1> QED
  BY <1>1, <1>8, <1>9, ReadSteps

LEMMA EndedNext ==
    ASSUME pull' = Ended
    PROVE  PullInv' /\ pull'.addresses = pull.addresses
BY EndedIs DEF PullInv

LEMMA AskEthereumStep ==
    ASSUME ChainInv, WorkersInv, AskEthereum
    PROVE  WorkersInv'
<1> DEFINE owner == OwnerOn("ETH", pull.token)
<1>1. UNCHANGED <<chain, names, db, tx>> /\ pull.pc = "ask"
  BY DEF AskEthereum, chainVars, PullAt
<1>2. CASE IsNullAddress(owner)
  <2>1. pull' = Ended
    BY <1>2 DEF AskEthereum
  <2> QED
    BY <1>1, <2>1, EndedNext, ReadSteps
<1>3. CASE ~IsNullAddress(owner)
  <2> DEFINE y == pull
             z == [y EXCEPT !.pc = "reverse", !.owner = owner, !.on = "ETH"]
  <2>1. pull' = z /\ z = [y EXCEPT !.pc = "reverse", !.owner = owner, !.on = "ETH"]
    BY <1>3 DEF AskEthereum
  <2>2. y = [pc |-> y.pc, token |-> y.token, on |-> y.on, owner |-> y.owner,
             reverse |-> y.reverse, addresses |-> y.addresses] /\ y.token \in Pulled
    BY <1>1 DEF WorkersInv, PullInv
  <2>3. y.token \in Tokens /\ "ETH" \in Chains
    BY <2>2, BridgedAssumption DEF Chains
  <2>4. owner = OwnerAt(chain["ETH"], Len(chain["ETH"]), y.token) /\ owner # None
    BY <1>3, <2>3, OwnerOnIs DEF IsNullAddress
  <2>a. y.addresses = pull.addresses
    OBVIOUS
  <2> HIDE DEF owner, y, z
  <2>5. z = [pc |-> "reverse", token |-> y.token, on |-> "ETH", owner |-> owner,
             reverse |-> y.reverse, addresses |-> y.addresses]
    BY <2>1, <2>2
  <2>6. /\ z.pc = "reverse" /\ z.token = y.token /\ z.on = "ETH"
        /\ z.addresses = y.addresses
        /\ z = [pc |-> z.pc, token |-> z.token, on |-> z.on, owner |-> z.owner,
                reverse |-> z.reverse, addresses |-> z.addresses]
    BY <2>5
  <2>7. PullInv'
    BY <1>1, <2>1, <2>2, <2>3, <2>4, <2>6 DEF PullInv
  <2> QED
    BY <1>1, <2>1, <2>6, <2>7, <2>a, ReadSteps
<1> QED
  BY <1>2, <1>3

LEMMA GetReverseStep ==
    ASSUME ChainInv, WorkersInv, GetReverseOf
    PROVE  WorkersInv'
<1> DEFINE y == pull
           is == ReverseOf(pull.on, pull.owner) = pull.token
           z == [y EXCEPT !.pc = "save", !.reverse = is]
<1>1. UNCHANGED <<chain, names, db, tx>> /\ y.pc = "reverse" /\ pull' = z
      /\ z = [y EXCEPT !.pc = "save", !.reverse = is]
  BY DEF GetReverseOf, chainVars, PullAt
<1>2. /\ y = [pc |-> y.pc, token |-> y.token, on |-> y.on, owner |-> y.owner,
              reverse |-> y.reverse, addresses |-> y.addresses]
      /\ y.token \in Pulled /\ y.on \in Chains
      /\ OwnerAt(chain[y.on], Len(chain[y.on]), y.token) # None
  BY <1>1 DEF WorkersInv, PullInv
<1>3. y.token \in Tokens
  BY <1>2, BridgedAssumption
<1>4. is => y.owner \in Addresses /\ SetBy(chain[y.on], y.token, y.owner)
  <2>1. is => ReverseAt(chain[y.on], Len(chain[y.on]), y.owner) = y.token
    BY <1>2, ReverseOfIs
  <2>2. IsChain(chain[y.on]) /\ Len(chain[y.on]) \in 0 .. Len(chain[y.on])
    BY <1>2 DEF ChainInv, IsChain
  <2> HIDE DEF y, is
  <2>3. is => y.owner \in Owners[y.token] /\ SetBy(chain[y.on], y.token, y.owner)
    BY <1>3, <2>1, <2>2, SetSomewhere
  <2> QED
    BY <1>3, <2>3 DEF Addresses
<1>a. y.addresses = pull.addresses
  OBVIOUS
<1> HIDE DEF y, is, z
<1>5. z = [pc |-> "save", token |-> y.token, on |-> y.on, owner |-> y.owner,
           reverse |-> is, addresses |-> y.addresses]
  BY <1>1, <1>2
<1>6. /\ z.pc = "save" /\ z.token = y.token /\ z.on = y.on /\ z.owner = y.owner
      /\ z.reverse = is /\ z.addresses = y.addresses
      /\ z = [pc |-> z.pc, token |-> z.token, on |-> z.on, owner |-> z.owner,
              reverse |-> z.reverse, addresses |-> z.addresses]
  BY <1>5
<1>7. PullInv'
  BY <1>1, <1>2, <1>4, <1>6 DEF PullInv
<1> QED
  BY <1>1, <1>6, <1>7, <1>a, ReadSteps

\* The rows with those of a domain that the database did not know.
\* All that is told by the committed tables.
Told(B, n, rows, rev, lost, astray, known) ==
    /\ TablesOK(B, rows, rev, known)
    /\ RowsTold(B, n, rows, lost)
    /\ ReverseTold(B, n, rev, astray)
    /\ MintsNamed(B, n, known)

LEMMA PulledRows ==
    ASSUME NEW B, IsChain(B), NEW n \in 0 .. Len(B), NEW known, NEW rows, NEW rev,
           NEW lost, NEW astray, NEW away, astray \subseteq away,
           Told(B, n, rows, rev, lost, astray, known),
           NEW t \in Tokens, t \notin known, OwnerAt(B, Len(B), t) # None,
           NEW row, NEW rows2, rows2 = Put(rows, t, row),
           NEW more, NEW a, more = {} \/ more = {<<a, t>>},
           more # {} => a \in Addresses /\ SetBy(B, t, a) /\ a \in away,
           NEW rev2, rev2 = rev \cup more, NEW known2, known2 = known \cup {t}
    PROVE  Told(B, n, rows2, rev2, lost, away, known2)
<1>0. /\ TablesOK(B, rows, rev, known)
      /\ RowsTold(B, n, rows, lost)
      /\ ReverseTold(B, n, rev, astray)
      /\ MintsNamed(B, n, known)
  BY DEF Told
<1>1. /\ DOMAIN rows2 = DOMAIN rows \cup {t} /\ rows2 = [u \in DOMAIN rows2 |-> rows2[u]]
      /\ \A u \in DOMAIN rows : u # t => rows2[u] = rows[u]
  BY DEF Put
<1>2. t \notin DOMAIN rows
  BY <1>0 DEF TablesOK
<1>3. TablesOK(B, rows2, rev \cup more, known \cup {t})
  <2>1. DOMAIN rows2 \subseteq known \cup {t} /\ \A u \in DOMAIN rows2 : OwnerAt(B, Len(B), u) # None
    BY <1>0, <1>1 DEF TablesOK
  <2>2. ASSUME NEW r \in rev \cup more
        PROVE  /\ r = <<r[1], r[2]>> /\ r[1] \in Addresses /\ r[2] \in known \cup {t}
               /\ SetBy(B, r[2], r[1])
    <3>1. CASE r \in rev
      BY <1>0, <3>1 DEF TablesOK
    <3>2. CASE r \in more
      <4>1. r = <<a, t>>
        BY <3>2
      <4> QED
        BY <3>2, <4>1
    <3> QED
      BY <3>1, <3>2
  <2> QED
    BY <1>1, <2>1, <2>2 DEF TablesOK
<1>4. RowsTold(B, n, rows2, lost)
  <2>1. ASSUME NEW u \in Tokens \ lost
        PROVE  OwnerIn(rows2, u) = OwnerAt(B, n, u) \/ Ahead(B, n, u)
    <3>1. OwnerIn(rows, u) = OwnerAt(B, n, u) \/ Ahead(B, n, u)
      BY <1>0 DEF RowsTold
    <3>2. CASE u # t
      BY <1>1, <3>1, <3>2 DEF OwnerIn
    <3>3. CASE u = t
      <4>1. OwnerIn(rows, t) = None
        BY <1>2 DEF OwnerIn
      <4> QED
        BY <3>1, <3>3, <4>1, NothingAhead
    <3> QED
      BY <3>2, <3>3
  <2> QED
    BY <2>1 DEF RowsTold
<1>5. ReverseTold(B, n, rev, away) /\ MintsNamed(B, n, known \cup {t})
  <2>1. known \subseteq known \cup {t}
    OBVIOUS
  <2> QED
    BY <1>0, <2>1, ToldMore
<1>6. ReverseTold(B, n, rev \cup more, away)
  <2>1. \A r \in more : r[1] \in away
    OBVIOUS
  <2> QED
    BY <1>5, <2>1 DEF ReverseTold
<1> QED
  BY <1>3, <1>4, <1>5, <1>6 DEF Told

LEMMA SavePulledStep ==
    ASSUME ChainInv, WorkersInv, SavePulled
    PROVE  WorkersInv'
<1> DEFINE t == pull.token
           c == pull.on
           a == pull.owner
           old == db[c]
           row == NewRowOf(a)
           rows == Put(old.rows, t, row)
           more == IF pull.reverse THEN {<<a, t>>} ELSE {}
           more2 == IF pull.reverse THEN {a} ELSE {}
<1>0. UNCHANGED <<chain, tx>> /\ pull.pc = "save"
  BY DEF SavePulled, chainVars, PullAt
<1>1. CASE t \in names
  <2>1. UNCHANGED <<names, db>> /\ pull' = Ended
    BY <1>1 DEF SavePulled
  <2> QED
    BY <1>0, <2>1, EndedNext, ReadSteps
<1>2. CASE t \notin names
  <2>1. /\ names' = names \cup {t}
        /\ db' = [db EXCEPT ![c].rows = rows,
                            ![c].rev = IF pull.reverse THEN @ \cup {<<a, t>>} ELSE @]
        /\ pull' = [Ended EXCEPT !.addresses = IF pull.reverse THEN @ \cup {a} ELSE @]
    <3>1. /\ names' = names \cup {t}
          /\ db' = [db EXCEPT ![c].rows = Put(@, t, row),
                              ![c].rev = IF pull.reverse THEN @ \cup {<<a, t>>} ELSE @]
          /\ pull' = [Ended EXCEPT !.addresses = IF pull.reverse THEN @ \cup {a} ELSE @]
      BY <1>2 DEF SavePulled
    <3> QED
      BY <3>1
  <2>2. /\ t \in Tokens /\ c \in Chains /\ OwnerAt(chain[c], Len(chain[c]), t) # None
        /\ pull.reverse => a \in Addresses /\ SetBy(chain[c], t, a)
    BY <1>0, BridgedAssumption DEF WorkersInv, PullInv
  <2>3. /\ tx = [d \in Chains |-> tx[d]] /\ db = [d \in Chains |-> db[d]]
        /\ names \subseteq Tokens /\ DbInv(c) /\ IsChain(chain[c])
    BY <2>2 DEF WorkersInv, ChainInv
  <2>4. /\ old = [block |-> old.block, rows |-> old.rows, rev |-> old.rev,
                  lost |-> old.lost, skipped |-> old.skipped]
        /\ old.block \in 0 .. Len(chain[c])
        /\ old.lost \subseteq Tokens
        /\ TablesOK(chain[c], old.rows, old.rev, names)
        /\ RowsTold(chain[c], old.block, old.rows, old.lost)
        /\ ReverseTold(chain[c], old.block, old.rev, old.skipped \cup pull.addresses)
        /\ MintsNamed(chain[c], old.block, names)
    BY <2>3 DEF DbInv
  <2>5. pull' = [pc |-> "idle", token |-> None, on |-> None, owner |-> None,
                 reverse |-> FALSE, addresses |-> pull.addresses \cup more2]
    <3> DEFINE e == Ended
               s == pull.addresses \cup more2
               z == [e EXCEPT !.addresses = s]
    <3>1. e = [pc |-> "idle", token |-> None, on |-> None, owner |-> None,
               reverse |-> FALSE, addresses |-> pull.addresses]
      BY EndedIs
    <3>2. (IF pull.reverse THEN e.addresses \cup {a} ELSE e.addresses) = s
      BY <3>1
    <3>3. pull' = [e EXCEPT !.addresses = IF pull.reverse THEN e.addresses \cup {a}
                                          ELSE e.addresses]
      BY <2>1
    <3>4. z = [e EXCEPT !.addresses = s]
      OBVIOUS
    <3> HIDE DEF e, s, z
    <3>5. pull' = z
      BY <3>2, <3>3, <3>4
    <3>6. z = [pc |-> "idle", token |-> None, on |-> None, owner |-> None,
               reverse |-> FALSE, addresses |-> s]
      BY <3>1, <3>4
    <3> QED
      BY <3>5, <3>6 DEF s
  <2>6. /\ db' = [d \in Chains |-> db'[d]] /\ \A d \in Chains : d # c => db'[d] = db[d]
        /\ db'[c] = [block |-> old.block, rows |-> rows, rev |-> old.rev \cup more,
                     lost |-> old.lost, skipped |-> old.skipped]
    <3> DEFINE rev == IF pull.reverse THEN old.rev \cup {<<a, t>>} ELSE old.rev
               z == [old EXCEPT !.rows = rows, !.rev = rev]
    <3>1. rev = old.rev \cup more
      OBVIOUS
    <3>2. z = [old EXCEPT !.rows = rows, !.rev = rev]
      OBVIOUS
    <3>3. /\ db' = [db EXCEPT ![c] = z]
      BY <2>1
    <3> HIDE DEF old, rows, rev, z, more
    <3>4. z = [block |-> old.block, rows |-> rows, rev |-> rev,
               lost |-> old.lost, skipped |-> old.skipped]
      BY <2>4, <3>2
    <3> QED
      BY <2>2, <2>3, <3>1, <3>3, <3>4
  <2>7. pull.addresses \subseteq pull'.addresses /\ more2 \subseteq pull'.addresses
    BY <2>5
  <2>8. /\ TablesOK(chain[c], rows, old.rev \cup more, names')
        /\ RowsTold(chain[c], old.block, rows, old.lost)
        /\ ReverseTold(chain[c], old.block, old.rev \cup more,
                       old.skipped \cup pull'.addresses)
        /\ MintsNamed(chain[c], old.block, names')
    <3>1. /\ more = {} \/ more = {<<a, t>>}
          /\ more # {} => /\ a \in Addresses /\ SetBy(chain[c], t, a)
                          /\ a \in old.skipped \cup pull'.addresses
      BY <2>2, <2>7
    <3>2. old.skipped \cup pull.addresses \subseteq old.skipped \cup pull'.addresses
      BY <2>7
    <3>3. rows = Put(old.rows, t, row)
      OBVIOUS
    <3>a. t \notin names
      BY <1>2
    <3>b. names' = names \cup {t}
      BY <2>1
    <3> DEFINE B == chain[c]
               astray == old.skipped \cup pull.addresses
               away == old.skipped \cup pull'.addresses
               known == names
    <3> HIDE DEF t, c, a, old, row, rows, more, B, astray, away, known
    <3>4. /\ IsChain(B) /\ old.block \in 0 .. Len(B) /\ astray \subseteq away
          /\ Told(B, old.block, old.rows, old.rev, old.lost, astray, known)
          /\ t \in Tokens /\ t \notin known /\ OwnerAt(B, Len(B), t) # None
          /\ more # {} => a \in Addresses /\ SetBy(B, t, a) /\ a \in away
      BY <2>2, <2>3, <2>4, <3>1, <3>2, <3>a DEF B, astray, away, known, Told
    <3> DEFINE rev2 == old.rev \cup more
               known2 == known \cup {t}
    <3>5. /\ rev2 = old.rev \cup more /\ known2 = known \cup {t}
          /\ more = {} \/ more = {<<a, t>>}
      BY <3>1
    <3> HIDE DEF rev2, known2
    <3>6. Told(B, old.block, rows, rev2, old.lost, away, known2)
      BY <3>3, <3>4, <3>5, PulledRows
    <3> QED
      BY <3>6, <3>b DEF B, astray, away, known, rev2, known2, Told
  <2>9. ASSUME NEW d \in Chains
        PROVE  DbInv(d)'
    <3>1. CASE d # c
      BY <1>0, <2>1, <2>6, <2>7, <3>1, DbStays
    <3>2. CASE d = c
      <4> DEFINE new == db'[c]
      <4>1. /\ new = [block |-> new.block, rows |-> new.rows, rev |-> new.rev,
                      lost |-> new.lost, skipped |-> new.skipped]
            /\ new.block = old.block /\ new.rows = rows /\ new.rev = old.rev \cup more
            /\ new.lost = old.lost /\ new.skipped = old.skipped
        BY <2>6
      <4> HIDE DEF old, rows, more
      <4> QED
        BY <1>0, <2>4, <2>8, <3>2, <4>1 DEF DbInv
    <3> QED
      BY <3>1, <3>2
  <2>10. ASSUME NEW d \in Chains
         PROVE  TxInv(d)'
    <3>1. db'[d].block = db[d].block
      BY <2>6
    <3>2. \A r \in db'[d].rev : r \in db[d].rev \/ r[1] \in pull'.addresses
      <4>1. \A r \in more : r[1] \in pull'.addresses
        BY <2>7
      <4>2. d = c => db'[d].rev = db[d].rev \cup more
        BY <2>6
      <4> HIDE DEF more
      <4> QED
        BY <2>6, <4>1, <4>2
    <3>3. names \subseteq names'
      BY <2>1
    <3> QED
      BY <1>0, <2>7, <3>1, <3>2, <3>3, TxStays
  <2>11. PullInv'
    BY <2>5 DEF PullInv
  <2>12. /\ names' \subseteq Tokens /\ db' = [d \in Chains |-> db'[d]]
         /\ tx' = [d \in Chains |-> tx'[d]]
    <3>1. names' \subseteq Tokens
      BY <2>1, <2>2, <2>3
    <3>2. tx' = [d \in Chains |-> tx'[d]]
      BY <1>0, <2>3
    <3> QED
      BY <2>6, <3>1, <3>2
  <2> QED
    BY <2>9, <2>10, <2>11, <2>12 DEF WorkersInv
<1> QED
  BY <1>1, <1>2

-----------------------------------------------------------------------------
(* The steps of the look-up, and the commits it may see *)

LEMMA LookupIs ==
    ASSUME LookupInv
    PROVE  /\ missed \subseteq Asked
           /\ lookup = [pc |-> lookup.pc, token |-> lookup.token, from |-> lookup.from,
                        minted |-> lookup.minted, miss |-> lookup.miss,
                        overtaken |-> lookup.overtaken, failed |-> lookup.failed]
           /\ lookup.from = [c \in Chains |-> lookup.from[c]]
           /\ ~At("idle") => lookup.token \in Asked
<1> DEFINE f == [c \in Chains |-> lookup.from[c]]
<1>1. /\ missed \subseteq Asked
      /\ lookup = [pc |-> lookup.pc, token |-> lookup.token, from |-> f,
                   minted |-> lookup.minted, miss |-> lookup.miss,
                   overtaken |-> lookup.overtaken, failed |-> lookup.failed]
      /\ ~At("idle") => lookup.token \in Asked
  BY DEF LookupInv
<1>2. lookup.from = f
  <2> HIDE DEF f
  <2> QED
    BY <1>1
<1> HIDE DEF f
<1>3. lookup = [pc |-> lookup.pc, token |-> lookup.token, from |-> lookup.from,
                minted |-> lookup.minted, miss |-> lookup.miss,
                overtaken |-> lookup.overtaken, failed |-> lookup.failed]
  BY <1>1, <1>2
<1> QED
  BY <1>1, <1>2, <1>3 DEF f

LEMMA NoLookupIs ==
    /\ NoLookup = [pc |-> NoLookup.pc, token |-> NoLookup.token, from |-> NoLookup.from,
                   minted |-> NoLookup.minted, miss |-> NoLookup.miss,
                   overtaken |-> NoLookup.overtaken, failed |-> NoLookup.failed]
    /\ NoLookup.pc = "idle" /\ NoLookup.token = None /\ ~NoLookup.minted
    /\ NoLookup.from = [c \in Chains |-> 0] /\ ~NoLookup.overtaken /\ ~NoLookup.failed
BY DEF NoLookup

LEMMA NoLookupNext ==
    ASSUME ChainInv', missed' \subseteq Asked, lookup' = NoLookup
    PROVE  LookupInv'
<1>1. \A c \in Chains : Len(chain'[c]) \in Nat
  BY DEF ChainInv, IsChain
<1>2. /\ lookup'.pc = "idle" /\ lookup'.token = None /\ ~lookup'.minted
      /\ lookup'.from = [c \in Chains |-> 0]
  BY NoLookupIs
<1>3. lookup'.from = [c \in Chains |-> lookup'.from[c]]
  BY <1>2
<1>4. lookup' = [pc |-> lookup'.pc, token |-> lookup'.token,
                 from |-> [c \in Chains |-> lookup'.from[c]], minted |-> lookup'.minted,
                 miss |-> lookup'.miss, overtaken |-> lookup'.overtaken,
                 failed |-> lookup'.failed]
  <2>1. lookup' = [pc |-> lookup'.pc, token |-> lookup'.token,
                   from |-> lookup'.from, minted |-> lookup'.minted,
                   miss |-> lookup'.miss, overtaken |-> lookup'.overtaken,
                   failed |-> lookup'.failed]
    BY NoLookupIs
  <2> QED
    BY <1>3, <2>1
<1>5. \A c \in Chains : lookup'.from[c] \in 0 .. Len(chain'[c])
  BY <1>1, <1>2
<1> QED
  BY <1>2, <1>4, <1>5 DEF LookupInv, At, FoundUnlessOvertaken

\* The parts of the invariant about the look-up k that comes after a step.
AtLookup(k) ==
    /\ k = [pc |-> k.pc, token |-> k.token, from |-> k.from, minted |-> k.minted,
            miss |-> k.miss, overtaken |-> k.overtaken, failed |-> k.failed]
    /\ k.from = [c \in Chains |-> k.from[c]]
    /\ k.pc \in {"node", "maticBlock", "ethBlock", "query", "unknown"}
    /\ k.token \in Asked

Below(c, k) ==
    \A n \in 1 .. Len(chain[c]) : NewUri(k.token) \in Range(chain[c][n]) => k.from[c] <= n

ToldOf(k) ==
    LET passed == k.miss = "read" /\ ~k.overtaken IN
    /\ \A c \in Chains : k.from[c] \in 0 .. Len(chain[c])
    /\ k.minted => EverMinted(k.token)
    /\ k.pc \in {"maticBlock", "ethBlock", "query"} =>
         k.miss \in {"cached", "read"} /\ (passed => k.token \notin names)
    /\ k.pc \in {"ethBlock", "query"} /\ passed => Below("MATIC", k)
    /\ k.pc = "query" /\ passed => Below("ETH", k)
    /\ k.pc = "unknown" /\ k.minted => k.miss = "cached" \/ k.overtaken \/ k.failed

LEMMA LookupNext ==
    ASSUME UNCHANGED <<chain, names>>, missed' \subseteq Asked, NEW z, lookup' = z,
           AtLookup(z), ToldOf(z)
    PROVE  LookupInv'
<1>1. EverMinted(z.token) => EverMinted(lookup.token)'
  BY DEF EverMinted, MintedOn, EventsOf
<1>2. \A c \in Chains : Below(c, z) => Since(c)'
  BY DEF Below, Since
<1>3. /\ z = [pc |-> z.pc, token |-> z.token, from |-> z.from, minted |-> z.minted,
              miss |-> z.miss, overtaken |-> z.overtaken, failed |-> z.failed]
      /\ z.from = [c \in Chains |-> z.from[c]]
      /\ z.pc \in {"node", "maticBlock", "ethBlock", "query", "unknown"}
      /\ z.token \in Asked
  BY DEF AtLookup
<1>4. /\ \A c \in Chains : z.from[c] \in 0 .. Len(chain[c])
      /\ z.minted => EverMinted(z.token)
      /\ z.pc \in {"maticBlock", "ethBlock", "query"} =>
           z.miss \in {"cached", "read"} /\ (z.miss = "read" /\ ~z.overtaken => z.token \notin names)
      /\ z.pc \in {"ethBlock", "query"} /\ z.miss = "read" /\ ~z.overtaken => Below("MATIC", z)
      /\ z.pc = "query" /\ z.miss = "read" /\ ~z.overtaken => Below("ETH", z)
      /\ z.pc = "unknown" /\ z.minted => z.miss = "cached" \/ z.overtaken \/ z.failed
  BY DEF ToldOf
<1>5. lookup' = [pc |-> lookup'.pc, token |-> lookup'.token,
                 from |-> [c \in Chains |-> lookup'.from[c]], minted |-> lookup'.minted,
                 miss |-> lookup'.miss, overtaken |-> lookup'.overtaken,
                 failed |-> lookup'.failed]
  BY <1>3
<1>6. "ETH" \in Chains /\ "MATIC" \in Chains
  BY DEF Chains
<1> QED
  BY <1>1, <1>2, <1>3, <1>4, <1>5, <1>6 DEF LookupInv, At, FoundUnlessOvertaken, Missed

LEMMA LookupNow ==
    ASSUME LookupInv, ~At("idle")
    PROVE  AtLookup(lookup) /\ ToldOf(lookup)
<1>1. \A c \in Chains : Since(c) => Below(c, lookup)
  BY DEF Below, Since
<1>2. "ETH" \in Chains /\ "MATIC" \in Chains
  BY DEF Chains
<1>3. AtLookup(lookup)
  BY LookupIs DEF LookupInv, AtLookup, At
<1>4. ToldOf(lookup)
  BY <1>1, <1>2 DEF LookupInv, ToldOf, At, Missed, FoundUnlessOvertaken
<1> QED
  BY <1>3, <1>4

LEMMA AskStep ==
    ASSUME ChainInv, LookupInv, NEW t \in Asked, Ask(t)
    PROVE  LookupInv'
<1> DEFINE y == NoLookup
           m == EverMinted(t)
           z == [y EXCEPT !.pc = "node", !.token = t, !.minted = m]
<1>1. UNCHANGED <<vars, missed>> /\ lookup' = z
      /\ z = [y EXCEPT !.pc = "node", !.token = t, !.minted = m]
  BY DEF Ask
<1>2. /\ y = [pc |-> y.pc, token |-> y.token, from |-> y.from, minted |-> y.minted,
              miss |-> y.miss, overtaken |-> y.overtaken, failed |-> y.failed]
      /\ y.from = [c \in Chains |-> 0]
  BY NoLookupIs
<1>3. UNCHANGED <<chain, names>>
  BY <1>1 DEF vars, chainVars, workerVars
<1>5. missed \subseteq Asked /\ \A c \in Chains : Len(chain[c]) \in Nat
  BY LookupIs DEF ChainInv, IsChain
<1>a. m => EverMinted(t)
  OBVIOUS
<1> HIDE DEF y, m, z
<1>6. z = [pc |-> "node", token |-> t, from |-> y.from, minted |-> m,
           miss |-> y.miss, overtaken |-> y.overtaken, failed |-> y.failed]
  BY <1>1, <1>2
<1>7. /\ z.pc = "node" /\ z.token = t /\ z.from = y.from /\ z.minted = m
      /\ z = [pc |-> z.pc, token |-> z.token, from |-> z.from, minted |-> z.minted,
              miss |-> z.miss, overtaken |-> z.overtaken, failed |-> z.failed]
  BY <1>6
<1>8. /\ z.from = [c \in Chains |-> z.from[c]]
      /\ \A c \in Chains : z.from[c] \in 0 .. Len(chain[c])
  BY <1>2, <1>5, <1>7
<1>9. AtLookup(z) /\ ToldOf(z)
  BY <1>7, <1>8, <1>a DEF AtLookup, ToldOf
<1> QED
  BY <1>1, <1>3, <1>5, <1>9, LookupNext

LEMMA QueryNodeStep ==
    ASSUME ChainInv, LookupInv, QueryNode
    PROVE  LookupInv'
<1> DEFINE y == lookup
           t == y.token
           miss == IF t \in missed THEN "cached" ELSE "read"
           z == [y EXCEPT !.pc = "maticBlock", !.miss = miss]
<1>1. UNCHANGED <<chain, names>> /\ At("node") /\ missed \subseteq Asked
  BY LookupIs DEF QueryNode, vars, chainVars, workerVars
<1>2. AtLookup(y) /\ ToldOf(y) /\ y.pc = "node" /\ t \in Asked
  BY <1>1, LookupNow DEF At, AtLookup
<1>3. CASE t \in names \ missed
  <2>1. lookup' = NoLookup /\ missed' = missed /\ UNCHANGED chainVars
    BY <1>3 DEF QueryNode, vars
  <2> QED
    BY <1>1, <2>1, ChainStays, NoLookupNext
<1>4. CASE t \notin names \ missed
  <2>1. missed' = missed \cup {t} /\ lookup' = z
        /\ z = [y EXCEPT !.pc = "maticBlock", !.miss = miss]
    BY <1>4 DEF QueryNode
  <2>2. miss \in {"cached", "read"} /\ (miss = "read" => t \notin names)
    BY <1>4
  <2> HIDE DEF miss, z, y
  <2>3. z = [pc |-> "maticBlock", token |-> t, from |-> y.from, minted |-> y.minted,
             miss |-> miss, overtaken |-> y.overtaken, failed |-> y.failed]
    BY <1>2, <2>1 DEF AtLookup
  <2>4. /\ z.pc = "maticBlock" /\ z.token = y.token /\ z.from = y.from
        /\ z.minted = y.minted /\ z.miss = miss
        /\ z = [pc |-> z.pc, token |-> z.token, from |-> z.from, minted |-> z.minted,
                miss |-> z.miss, overtaken |-> z.overtaken, failed |-> z.failed]
    BY <2>3
  <2>5. AtLookup(z) /\ ToldOf(z)
    BY <1>2, <2>2, <2>4 DEF AtLookup, ToldOf
  <2> QED
    BY <1>1, <1>2, <2>1, <2>5, LookupNext
<1> QED
  BY <1>3, <1>4

LEMMA ExpireStep ==
    ASSUME ChainInv, WorkersInv, LookupInv, NEW t \in Asked, Expire(t)
    PROVE  LookupInv'
<1>1. UNCHANGED <<chain, names, lookup, chainVars>> /\ missed' \subseteq Asked
  BY LookupIs DEF Expire, vars, chainVars, workerVars
<1>2. CASE At("idle")
  <2>1. missed' \subseteq Asked /\ UNCHANGED <<chain, names, lookup>>
    BY <1>1
  <2> QED
    BY <2>1 DEF LookupInv, At, EverMinted, MintedOn, EventsOf, Missed, Since,
                FoundUnlessOvertaken
<1>3. CASE ~At("idle")
  BY <1>1, <1>3, LookupNow, LookupNext
<1> QED
  BY <1>2, <1>3

\* Below the mirrored block every mint is in the database.
LEMMA MirroredBelow ==
    ASSUME ChainInv, WorkersInv, NEW c \in Chains, NEW t \in Asked, t \notin names,
           NEW n \in 1 .. Len(chain[c]), NewUri(t) \in Range(chain[c][n])
    PROVE  db[c].block <= n
<1>1. db[c].block \in 0 .. Len(chain[c]) /\ MintsNamed(chain[c], db[c].block, names)
  BY DEF WorkersInv, DbInv
<1>2. Len(chain[c]) \in Nat /\ t \in Tokens
  BY DomainApiAssumption DEF ChainInv, IsChain
<1>3. n \notin 1 .. db[c].block
  BY <1>1, <1>2 DEF MintsNamed
<1> QED
  BY <1>1, <1>2, <1>3

LEMMA ReadBlockStep ==
    ASSUME ChainInv, WorkersInv, LookupInv,
           NEW c \in Chains, NEW pc, NEW next, ReadBlock(c, pc, next),
           \/ c = "MATIC" /\ pc = "maticBlock" /\ next = "ethBlock"
           \/ c = "ETH" /\ pc = "ethBlock" /\ next = "query"
    PROVE  LookupInv'
<1> DEFINE y == lookup
           n == db[c].block
           from == [y.from EXCEPT ![c] = n]
           z == [y EXCEPT !.pc = next, !.from = from]
<1>1. /\ UNCHANGED <<chain, names, missed>> /\ missed \subseteq Asked /\ At(pc)
      /\ pc # "idle" /\ lookup' = z /\ z = [y EXCEPT !.pc = next, !.from = from]
  BY LookupIs DEF ReadBlock, FromBlock, vars, chainVars, workerVars
<1>2. AtLookup(y) /\ ToldOf(y) /\ y.pc = pc
  BY <1>1, LookupNow DEF At
<1>3. n \in 0 .. Len(chain[c])
  BY DEF WorkersInv, DbInv
<1>4. from = [y.from EXCEPT ![c] = n]
  OBVIOUS
<1>5. \A t \in Asked : t \notin names =>
        \A i \in 1 .. Len(chain[c]) : NewUri(t) \in Range(chain[c][i]) => n <= i
  BY MirroredBelow
<1> HIDE DEF y, n, from, z
<1>6. /\ from = [d \in Chains |-> from[d]] /\ from[c] = n
      /\ \A d \in Chains : d # c => from[d] = y.from[d]
  BY <1>2, <1>4 DEF AtLookup
<1>7. z = [pc |-> next, token |-> y.token, from |-> from, minted |-> y.minted,
           miss |-> y.miss, overtaken |-> y.overtaken, failed |-> y.failed]
  BY <1>1, <1>2 DEF AtLookup
<1>8. /\ z.pc = next /\ z.token = y.token /\ z.from = from /\ z.minted = y.minted
      /\ z.miss = y.miss /\ z.overtaken = y.overtaken /\ z.failed = y.failed
      /\ z = [pc |-> z.pc, token |-> z.token, from |-> z.from, minted |-> z.minted,
              miss |-> z.miss, overtaken |-> z.overtaken, failed |-> z.failed]
  BY <1>7
<1>9. AtLookup(z)
  BY <1>2, <1>6, <1>8 DEF AtLookup
<1>10. y.token \notin names => Below(c, z)
  <2>1. y.token \in Asked
    BY <1>2 DEF AtLookup
  <2> QED
    BY <1>5, <1>6, <1>8, <2>1 DEF Below
<1>11. \A d \in Chains : d # c /\ Below(d, y) => Below(d, z)
  BY <1>6, <1>8 DEF Below
<1>12. "ETH" \in Chains /\ "MATIC" \in Chains
  BY DEF Chains
<1>13. \A d \in Chains : z.from[d] \in 0 .. Len(chain[d])
  <2>1. \A d \in Chains : y.from[d] \in 0 .. Len(chain[d])
    BY <1>2 DEF ToldOf
  <2> QED
    BY <1>3, <1>6, <1>8, <2>1
<1>14. ToldOf(z)
  BY <1>2, <1>8, <1>10, <1>11, <1>12, <1>13 DEF ToldOf
<1> QED
  BY <1>1, <1>9, <1>14, LookupNext

\* The chains, asked from where the look-up read the blocks, have the mint it missed.
LEMMA MintFound ==
    ASSUME ChainInv, AtLookup(lookup), ToldOf(lookup), lookup.pc = "query", lookup.minted,
           lookup.miss = "read", ~lookup.overtaken
    PROVE  \E c \in Chains : FoundFrom(c)
<1>1. PICK c \in Chains : MintedOn(c, lookup.token)
  BY DEF ToldOf, EverMinted
<1>2. IsChain(chain[c])
  BY DEF ChainInv
<1>3. PICK n \in 1 .. Len(chain[c]) : NewUri(lookup.token) \in Range(chain[c][n])
  <2> DEFINE B == chain[c]
             e == NewUri(lookup.token)
  <2>1. e \in UNION {Range(b) : b \in Range(B)} /\ IsChain(B)
    BY <1>1, <1>2 DEF MintedOn, EventsOf
  <2> HIDE DEF B, e
  <2>2. \E n \in 1 .. Len(B) : e \in Range(B[n])
    BY <2>1, MintedIs
  <2> QED
    BY <2>2 DEF B, e
<1>4. Below(c, lookup)
  BY DEF ToldOf, Chains
<1>5. lookup.from[c] <= n
  BY <1>3, <1>4 DEF Below
<1>6. lookup.from[c] \in 0 .. Len(chain[c]) /\ Len(chain[c]) \in Nat
  BY <1>2 DEF ToldOf, IsChain
<1>7. n >= lookup.from[c] /\ n \in DOMAIN chain[c]
  BY <1>2, <1>5, <1>6 DEF IsChain
<1> QED
  BY <1>3, <1>7 DEF FoundFrom

LEMMA UnknownNext ==
    ASSUME ChainInv, LookupInv, At("query"), UNCHANGED <<chain, names, missed>>,
           NEW failed \in BOOLEAN, lookup' = Unknown(failed),
           failed \/ ~\E c \in Chains : FoundFrom(c)
    PROVE  LookupInv'
<1> DEFINE y == lookup
           from == NoLookup.from
           z == [y EXCEPT !.pc = "unknown", !.from = from, !.failed = failed]
<1>1. AtLookup(y) /\ ToldOf(y) /\ y.pc = "query" /\ missed \subseteq Asked
  BY LookupIs, LookupNow DEF At
<1>2. y.minted => y.miss = "cached" \/ y.overtaken \/ failed
  <2>1. y.miss \in {"cached", "read"}
    BY <1>1 DEF ToldOf
  <2> QED
    BY <1>1, <2>1, MintFound
<1>3. lookup' = z /\ z = [y EXCEPT !.pc = "unknown", !.from = from, !.failed = failed]
  BY DEF Unknown
<1>4. from = [c \in Chains |-> 0]
  BY NoLookupIs
<1>5. \A c \in Chains : Len(chain[c]) \in Nat
  BY DEF ChainInv, IsChain
<1> HIDE DEF y, from, z
<1>6. z = [pc |-> "unknown", token |-> y.token, from |-> from, minted |-> y.minted,
           miss |-> y.miss, overtaken |-> y.overtaken, failed |-> failed]
  BY <1>1, <1>3 DEF AtLookup
<1>7. /\ z.pc = "unknown" /\ z.token = y.token /\ z.from = from /\ z.minted = y.minted
      /\ z.miss = y.miss /\ z.overtaken = y.overtaken /\ z.failed = failed
      /\ z = [pc |-> z.pc, token |-> z.token, from |-> z.from, minted |-> z.minted,
              miss |-> z.miss, overtaken |-> z.overtaken, failed |-> z.failed]
  BY <1>6
<1>8. z.from = [c \in Chains |-> z.from[c]] /\ \A c \in Chains : z.from[c] \in 0 .. Len(chain[c])
  BY <1>4, <1>5, <1>7
<1>9. AtLookup(z) /\ ToldOf(z)
  BY <1>1, <1>2, <1>7, <1>8 DEF AtLookup, ToldOf
<1> QED
  BY <1>1, <1>3, <1>9, LookupNext

LEMMA LookupSteps ==
    ASSUME ChainInv, WorkersInv, LookupInv, LookupStep
    PROVE  LookupInv'
<1>1. CASE QueryNode
  BY <1>1, QueryNodeStep
<1>2. CASE ReadBlock("MATIC", "maticBlock", "ethBlock")
  BY <1>2, ReadBlockStep DEF Chains
<1>3. CASE ReadBlock("ETH", "ethBlock", "query")
  BY <1>3, ReadBlockStep DEF Chains
<1>4. CASE QueryNewUriEvent
  <2>1. /\ UNCHANGED chainVars /\ UNCHANGED <<chain, names, missed>> /\ At("query")
        /\ lookup' = IF \E c \in Chains : FoundFrom(c) THEN NoLookup ELSE Unknown(FALSE)
    BY <1>4 DEF QueryNewUriEvent, vars, chainVars, workerVars
  <2>2. CASE \E c \in Chains : FoundFrom(c)
    BY <2>1, <2>2, LookupIs, ChainStays, NoLookupNext
  <2>3. CASE ~\E c \in Chains : FoundFrom(c)
    BY <2>1, <2>3, UnknownNext
  <2> QED
    BY <2>2, <2>3
<1>5. CASE QueryFails
  <2>1. UNCHANGED <<chain, names, missed>> /\ At("query") /\ lookup' = Unknown(TRUE)
    BY <1>5 DEF QueryFails, vars, chainVars, workerVars
  <2> QED
    BY <2>1, UnknownNext
<1>6. CASE RespondUnknown
  <2>1. UNCHANGED chainVars /\ UNCHANGED missed /\ lookup' = NoLookup
    BY <1>6 DEF RespondUnknown, vars
  <2> QED
    BY <2>1, LookupIs, ChainStays, NoLookupNext
<1> QED
  BY <1>1, <1>2, <1>3, <1>4, <1>5, <1>6 DEF LookupStep

\* A commit, of a domain or of none, seen by the look-up.
LEMMA SeenStep ==
    ASSUME ChainInv, LookupInv, UNCHANGED chain, names \subseteq names', Seen
    PROVE  LookupInv'
<1> DEFINE y == lookup
           new == y.overtaken \/ y.token \in names' \ names
           z == [y EXCEPT !.overtaken = new]
<1>1. /\ missed' \subseteq Asked /\ lookup' = z /\ z = [y EXCEPT !.overtaken = new]
      /\ \A c \in Chains : y.from[c] \in 0 .. Len(chain[c])
  BY LookupIs DEF Seen, LookupInv
<1>2. /\ y = [pc |-> y.pc, token |-> y.token, from |-> y.from, minted |-> y.minted,
              miss |-> y.miss, overtaken |-> y.overtaken, failed |-> y.failed]
      /\ y.from = [c \in Chains |-> y.from[c]]
  BY LookupIs
<1>3. (new <=> y.overtaken \/ y.token \in names' \ names)
  OBVIOUS
<1>4. /\ y.pc \in {"idle", "node", "maticBlock", "ethBlock", "query", "unknown"}
      /\ y.token \in IF y.pc = "idle" THEN {None} ELSE Asked
      /\ y.minted => EverMinted(y.token)
      /\ y.pc \in {"maticBlock", "ethBlock", "query"} =>
           /\ y.miss \in {"cached", "read"}
           /\ y.miss = "read" /\ ~y.overtaken => y.token \notin names
      /\ y.pc \in {"ethBlock", "query"} /\ y.miss = "read" /\ ~y.overtaken => Below("MATIC", y)
      /\ y.pc = "query" /\ y.miss = "read" /\ ~y.overtaken => Below("ETH", y)
      /\ y.pc = "unknown" /\ y.minted => y.miss = "cached" \/ y.overtaken \/ y.failed
  BY DEF LookupInv, At, Missed, FoundUnlessOvertaken, Since, Below
<1> HIDE DEF y, new, z
<1>5. z = [pc |-> y.pc, token |-> y.token, from |-> y.from, minted |-> y.minted,
           miss |-> y.miss, overtaken |-> new, failed |-> y.failed]
  BY <1>1, <1>2
<1>6. /\ z.pc = y.pc /\ z.token = y.token /\ z.from = y.from /\ z.minted = y.minted
      /\ z.miss = y.miss /\ z.overtaken = new /\ z.failed = y.failed
      /\ z = [pc |-> z.pc, token |-> z.token, from |-> z.from, minted |-> z.minted,
              miss |-> z.miss, overtaken |-> z.overtaken, failed |-> z.failed]
  BY <1>5
<1>7. lookup' = [pc |-> lookup'.pc, token |-> lookup'.token,
                 from |-> [c \in Chains |-> lookup'.from[c]], minted |-> lookup'.minted,
                 miss |-> lookup'.miss, overtaken |-> lookup'.overtaken,
                 failed |-> lookup'.failed]
  BY <1>1, <1>2, <1>6
<1>8. EverMinted(y.token) => EverMinted(lookup.token)'
  <2>1. lookup'.token = y.token
    BY <1>1, <1>6
  <2> QED
    BY <2>1 DEF EverMinted, MintedOn, EventsOf
<1>9. \A c \in Chains : Below(c, y) => Since(c)'
  <2>1. lookup'.token = y.token /\ lookup'.from = y.from
    BY <1>1, <1>6
  <2> QED
    BY <2>1 DEF Below, Since
<1>10. /\ lookup'.pc = y.pc /\ lookup'.token = y.token /\ lookup'.from = y.from
       /\ lookup'.minted = y.minted /\ lookup'.miss = y.miss /\ lookup'.failed = y.failed
       /\ (lookup'.overtaken <=> new)
  BY <1>1, <1>6
<1>11. "ETH" \in Chains /\ "MATIC" \in Chains
  BY DEF Chains
<1> QED
  BY <1>1, <1>3, <1>4, <1>7, <1>8, <1>9, <1>10, <1>11
     DEF LookupInv, At, FoundUnlessOvertaken, Missed

-----------------------------------------------------------------------------
(* The invariant holds *)

LEMMA InitInv ==
    ASSUME ApiInit
    PROVE  ApiInv
<1>1. /\ chain = [c \in Chains |-> <<>>]
      /\ place = [t \in Tokens |-> [on |-> None, owner |-> None]]
      /\ names = {} /\ tx = [c \in Chains |-> Idle] /\ pull = NoPull
      /\ db = [c \in Chains |-> [block |-> 0, rows |-> <<>>, rev |-> {}, lost |-> {},
                                skipped |-> {}]]
      /\ missed = {} /\ lookup = NoLookup
  BY DEF ApiInit, Init
<1>2. /\ \A t : OwnerAt(<<>>, 0, t) = None
      /\ \A a : ReverseAt(<<>>, 0, a) = None
  <2>1. \A S : LastIn(<<>>, 0, S) = NoEvent
    BY LastNone
  <2> QED
    BY <2>1, EventKinds DEF OwnerAt, ReverseAt
<1>3. \A c \in Chains : chain[c] = <<>> /\ Len(chain[c]) = 0
  BY <1>1
<1>4. IsChain(<<>>) /\ HistoryInv(<<>>)
  <2>1. Len(<<>>) = 0
    OBVIOUS
  <2>2. \A t \in Tokens : None # t
    BY MarksDiffer
  <2>3. IsChain(<<>>)
    BY <2>1 DEF IsChain
  <2> QED
    BY <1>2, <2>1, <2>2, <2>3 DEF HistoryInv
<1>5. ChainInv
  <2>1. ASSUME NEW t \in Tokens
        PROVE  PlaceInv(t)
    <3>1. place[t] = [on |-> None, owner |-> None]
      BY <1>1
    <3>2. None \notin Chains
      BY DEF None, Repo!Absent, Chains
    <3>3. \A c \in Chains : OwnerAt(chain[c], Len(chain[c]), t) = None
      BY <1>2, <1>3
    <3>4. \A c \in Chains : None \in OwnersOn(c, place[t])
      BY <3>1, <3>2 DEF OwnersOn
    <3> QED
      BY <3>1, <3>3, <3>4 DEF PlaceInv
  <2>2. \A c \in Chains : \A a \in Addresses : \A t \in Tokens :
          ReverseAt(chain[c], Len(chain[c]), a) # t
    BY <1>2, <1>3, MarksDiffer
  <2>3. chain = [c \in Chains |-> chain[c]] /\ place = [t \in Tokens |-> place[t]]
    BY <1>1
  <2> QED
    BY <1>3, <1>4, <2>1, <2>2, <2>3 DEF ChainInv
<1>6. WorkersInv
  <2>1. ASSUME NEW c \in Chains
        PROVE  DbInv(c)
    <3> DEFINE none == <<>>
               d == [block |-> 0, rows |-> none, rev |-> {}, lost |-> {}, skipped |-> {}]
    <3>1. db[c] = d
      BY <1>1
    <3>2. DOMAIN none = {} /\ none = [t \in DOMAIN none |-> none[t]]
      OBVIOUS
    <3>3. TablesOK(<<>>, none, {}, {})
      BY <3>2 DEF TablesOK
    <3>4. RowsTold(<<>>, 0, none, {})
      BY <1>2, <3>2 DEF RowsTold, OwnerIn
    <3>5. \A astray : ReverseTold(<<>>, 0, {}, astray)
      BY <1>2, MarksDiffer DEF ReverseTold
    <3>6. MintsNamed(<<>>, 0, {})
      BY DEF MintsNamed
    <3> HIDE DEF none
    <3>7. /\ d.block = 0 /\ d.rows = none /\ d.rev = {} /\ d.lost = {} /\ d.skipped = {}
          /\ d = [block |-> d.block, rows |-> d.rows, rev |-> d.rev, lost |-> d.lost,
                  skipped |-> d.skipped]
      OBVIOUS
    <3> HIDE DEF d
    <3>8. chain[c] = <<>> /\ Len(chain[c]) = 0 /\ names = {}
      BY <1>1, <1>3
    <3> QED
      BY <3>1, <3>3, <3>4, <3>5, <3>6, <3>7, <3>8 DEF DbInv
  <2>2. ASSUME NEW c \in Chains
        PROVE  TxInv(c)
    <3>1. tx[c] = Idle
      BY <1>1
    <3>2. /\ Idle = [pc |-> Idle.pc, to |-> Idle.to, block |-> Idle.block,
                     tables |-> Idle.tables, found |-> Idle.found, lost |-> Idle.lost,
                     skipped |-> Idle.skipped]
          /\ Idle.pc = "idle" /\ Idle.to = 0 /\ Idle.block = 0 /\ ~Idle.found
      BY DEF Idle
    <3> QED
      BY <1>3, <3>1, <3>2 DEF TxInv
  <2>3. PullInv
    BY <1>1 DEF PullInv, NoPull
  <2>4. names \subseteq Tokens /\ db = [c \in Chains |-> db[c]] /\ tx = [c \in Chains |-> tx[c]]
    BY <1>1
  <2> QED
    BY <2>1, <2>2, <2>3, <2>4 DEF WorkersInv
<1>7. LookupInv
  <2>1. /\ lookup.pc = "idle" /\ lookup.token = None /\ ~lookup.minted
        /\ lookup.from = [c \in Chains |-> 0]
    BY <1>1, NoLookupIs
  <2>2. lookup.from = [c \in Chains |-> lookup.from[c]]
    BY <2>1
  <2>3. lookup = [pc |-> lookup.pc, token |-> lookup.token,
                  from |-> lookup.from, minted |-> lookup.minted,
                  miss |-> lookup.miss, overtaken |-> lookup.overtaken,
                  failed |-> lookup.failed]
    BY <1>1, NoLookupIs
  <2>4. lookup = [pc |-> lookup.pc, token |-> lookup.token,
                  from |-> [c \in Chains |-> lookup.from[c]], minted |-> lookup.minted,
                  miss |-> lookup.miss, overtaken |-> lookup.overtaken,
                  failed |-> lookup.failed]
    BY <2>2, <2>3
  <2>5. \A c \in Chains : lookup.from[c] \in 0 .. Len(chain[c])
    BY <1>3, <2>1
  <2> QED
    BY <1>1, <2>1, <2>4, <2>5 DEF LookupInv, At, FoundUnlessOvertaken
<1> QED
  BY <1>5, <1>6, <1>7 DEF ApiInv

LEMMA NothingMoves ==
    ASSUME ChainInv
    PROVE  \A c \in Chains : Extends(chain[c], chain[c])
BY ExtendsItself DEF ChainInv

\* A step of a worker or of the script that commits nothing.
LEMMA UnseenStep ==
    ASSUME ChainInv, LookupInv, WorkersInv', UNCHANGED <<chainVars, names, apiVars>>
    PROVE  ApiInv'
<1>1. UNCHANGED chain /\ ChainInv'
  BY ChainStays DEF chainVars
<1>2. \A c \in Chains : Extends(chain[c], chain'[c])
  BY <1>1, NothingMoves
<1>3. LookupInv'
  BY <1>1, <1>2, LookupStays
<1> QED
  BY <1>1, <1>3 DEF ApiInv

LEMMA CommittedStep ==
    ASSUME ChainInv, LookupInv, WorkersInv', UNCHANGED chainVars, names \subseteq names', Seen
    PROVE  ApiInv'
<1>1. UNCHANGED chain /\ ChainInv'
  BY ChainStays DEF chainVars
<1>2. LookupInv'
  BY <1>1, SeenStep
<1> QED
  BY <1>1, <1>2 DEF ApiInv

LEMMA WorkerSteps ==
    ASSUME ApiInv, NEW c \in Chains, WorkerStep(c)
    PROVE  ApiInv'
<1>1. ChainInv /\ WorkersInv /\ LookupInv
  BY DEF ApiInv
<1>2. CASE Commit(c) /\ Seen
  <2>1. UNCHANGED chainVars /\ names \subseteq names'
    BY <1>2 DEF Commit
  <2> QED
    BY <1>1, <1>2, <2>1, CommitStep, CommittedStep
<1>3. CASE Begin(c) /\ UNCHANGED apiVars
  <2>1. UNCHANGED <<chainVars, names>>
    BY <1>3 DEF Begin
  <2> QED
    BY <1>1, <1>3, <2>1, BeginStep, UnseenStep
<1>4. CASE RunStep(c) /\ UNCHANGED apiVars
  <2>1. UNCHANGED <<chainVars, names>>
    BY <1>4 DEF RunStep, FindByNode, ProcessBlock, Rollback
  <2>2. WorkersInv'
    BY <1>1, <1>4, FindStep, ProcessStep, RollbackStep DEF RunStep
  <2> QED
    BY <1>1, <1>4, <2>1, <2>2, UnseenStep
<1> QED
  BY <1>2, <1>3, <1>4 DEF WorkerStep

LEMMA ScriptSteps ==
    ASSUME ApiInv, ScriptStep
    PROVE  ApiInv'
<1>1. ChainInv /\ WorkersInv /\ LookupInv
  BY DEF ApiInv
<1>2. CASE SavePulled /\ Seen
  <2>1. UNCHANGED chainVars /\ names \subseteq names'
    BY <1>2 DEF SavePulled
  <2> QED
    BY <1>1, <1>2, <2>1, SavePulledStep, CommittedStep
<1>3. CASE ScriptReads /\ UNCHANGED apiVars
  <2>1. UNCHANGED <<chainVars, names>>
    <3>1. CASE \E t \in Pulled : AskPolygon(t)
      BY <3>1 DEF AskPolygon
    <3>2. CASE AskEthereum
      BY <3>2 DEF AskEthereum
    <3>3. CASE GetReverseOf
      BY <3>3 DEF GetReverseOf
    <3> QED
      BY <1>3, <3>1, <3>2, <3>3 DEF ScriptReads
  <2>2. WorkersInv'
    BY <1>1, <1>3, AskPolygonStep, AskEthereumStep, GetReverseStep DEF ScriptReads
  <2> QED
    BY <1>1, <1>3, <2>1, <2>2, UnseenStep
<1> QED
  BY <1>2, <1>3 DEF ScriptStep

\* A step of the API reads only.
LEMMA ApiSteps ==
    ASSUME ApiInv, UNCHANGED vars, LookupInv'
    PROVE  ApiInv'
<1>1. UNCHANGED chainVars /\ UNCHANGED chain /\ UNCHANGED workerVars
  BY DEF vars, chainVars
<1>2. ChainInv /\ WorkersInv
  BY DEF ApiInv
<1>3. \A c \in Chains : Extends(chain[c], chain'[c])
  BY <1>1, <1>2, NothingMoves
<1> QED
  BY <1>1, <1>2, <1>3, ChainStays, WorkersStay DEF ApiInv

LEMMA NextInv ==
    ASSUME ApiInv, [Next]_allVars
    PROVE  ApiInv'
<1>1. ChainInv /\ WorkersInv /\ LookupInv
  BY DEF ApiInv
<1>2. CASE ChainStep /\ UNCHANGED <<workerVars, apiVars>>
  <2>1. ChainInv' /\ \A d \in Chains : Extends(chain[d], chain'[d])
    BY <1>1, <1>2, ChainMoves
  <2>2. UNCHANGED workerVars /\ UNCHANGED <<names, apiVars>>
    BY <1>2 DEF workerVars
  <2> QED
    BY <1>1, <2>1, <2>2, WorkersStay, LookupStays DEF ApiInv
<1>3. CASE \E c \in Chains : WorkerStep(c)
  BY <1>3, WorkerSteps
<1>4. CASE ScriptStep
  BY <1>4, ScriptSteps
<1>5. ASSUME NEW t \in Asked, Ask(t) \/ Expire(t)
      PROVE  ApiInv'
  <2>1. UNCHANGED vars
    BY <1>5 DEF Ask, Expire
  <2>2. LookupInv'
    BY <1>1, <1>5, AskStep, ExpireStep
  <2> QED
    BY <2>1, <2>2, ApiSteps
<1>6. CASE LookupStep
  <2>1. UNCHANGED vars
    BY <1>6 DEF LookupStep, QueryNode, ReadBlock, QueryNewUriEvent, QueryFails, RespondUnknown
  <2> QED
    BY <1>1, <1>6, <2>1, LookupSteps, ApiSteps
<1>7. CASE UNCHANGED allVars
  <2>1. UNCHANGED <<chainVars, names, apiVars>> /\ UNCHANGED chain /\ UNCHANGED workerVars
    BY <1>7 DEF allVars, vars, workerVars, chainVars
  <2>2. WorkersInv'
    BY <1>1, <2>1, NothingMoves, WorkersStay
  <2> QED
    BY <1>1, <2>1, <2>2, UnseenStep
<1> QED
  BY <1>2, <1>3, <1>4, <1>5, <1>6, <1>7 DEF Next

-----------------------------------------------------------------------------
(* What the API answers *)

\* The last transfer of a token in the first n blocks of a chain.
LEMMA TransferAt ==
    ASSUME ChainInv, NEW c \in Chains, NEW t \in Tokens, NEW n \in 0 .. Len(chain[c]),
           OwnerAt(chain[c], n, t) # None
    PROVE  LET S == BlocksOf(c, n, LAMBDA e : IsTransferOf(e, t))
           IN /\ S # {}
              /\ EventAt(c, Max(S), LAMBDA e : IsTransferOf(e, t)).to = OwnerAt(chain[c], n, t)
<1> DEFINE B == chain[c]
           S == {i \in 1 .. n : \E e \in Range(B[i]) : IsTransferOf(e, t)}
           T == {i \in 1 .. n : In(B[i], TransfersOf(t))}
           Of(b) == CHOOSE e \in Range(b) : IsTransferOf(e, t)
           Among(b) == CHOOSE e \in Range(b) : e \in TransfersOf(t)
<1>1. IsChain(B) /\ n \in Nat /\ \A i \in 1 .. n : i \in 1 .. Len(B)
  BY DEF ChainInv, IsChain
<1>2. \A i \in 1 .. n : \A e \in Range(B[i]) : IsTransferOf(e, t) <=> e \in TransfersOf(t)
  BY <1>1, IsTransfer DEF IsChain
<1>3. S = T
  BY <1>2 DEF In
<1>4. T # {} => Of(B[Max(T)]) = Among(B[Max(T)])
  <2>1. T \subseteq 1 .. n
    OBVIOUS
  <2>2. T # {} => Max(T) \in 1 .. n
    <3> HIDE DEF T
    <3> QED
      BY <1>1, <2>1, MaxOf
  <2> QED
    BY <1>2, <2>2
<1>5. /\ BlocksOf(c, n, LAMBDA e : IsTransferOf(e, t)) = S
      /\ EventAt(c, Max(S), LAMBDA e : IsTransferOf(e, t)) = Of(B[Max(S)])
  BY DEF BlocksOf, EventAt
<1>6. OwnerAt(B, n, t) =
        IF (IF T = {} THEN NoEvent ELSE Among(B[Max(T)])) = NoEvent THEN None
        ELSE (IF T = {} THEN NoEvent ELSE Among(B[Max(T)])).to
  BY DEF OwnerAt, LastIn
<1> HIDE DEF S, T, Of, Among
<1>7. T # {} /\ Among(B[Max(T)]).to = OwnerAt(B, n, t)
  BY <1>6
<1> QED
  BY <1>3, <1>4, <1>5, <1>7

\* Where a chain is mirrored as to a token, the row has the owner that the chain has.
LEMMA OwnerMirrored ==
    ASSUME ChainInv, WorkersInv, NEW t \in Tokens, Mirrored(t), NEW c \in Chains
    PROVE  /\ OwnerAt(chain[c], db[c].block, t) \in OwnersOn(c, place[t])
           /\ ~Lost(t) => OwnerIn(db[c].rows, t) \in OwnersOn(c, place[t])
<1> DEFINE B == chain[c]
           n == db[c].block
<1>0. IsChain(B) /\ n \in 0 .. Len(B) /\ RowsTold(B, n, db[c].rows, db[c].lost)
  BY DEF ChainInv, WorkersInv, DbInv
<1>1. /\ IsChain(B) /\ n \in 0 .. Len(B) /\ RowsTold(B, n, db[c].rows, db[c].lost)
      /\ n \in Nat /\ Len(B) \in Nat
  BY <1>0 DEF IsChain
<1>2. ~Ahead(B, n, t)
  <2>1. ASSUME NEW i \in n + 1 .. Len(B), NEW e \in Range(B[i]), e \in TransfersOf(t)
        PROVE  FALSE
    <3>1. i \in 1 .. Len(B)
      BY <1>1
    <3>2. IsTransferOf(e, t)
      BY <1>1, <2>1, <3>1, IsTransfer DEF IsChain
    <3> QED
      BY <2>1, <3>2 DEF Mirrored
  <2> QED
    BY <2>1 DEF Ahead, In
<1>3. OwnerAt(B, n, t) = OwnerAt(B, Len(B), t)
  <2> HIDE DEF B, n
  <2> QED
    BY <1>1, <1>2, NothingAhead
<1>4. OwnerAt(B, n, t) \in OwnersOn(c, place[t])
  BY <1>3 DEF ChainInv, PlaceInv
<1>5. ASSUME ~Lost(t)
      PROVE  OwnerIn(db[c].rows, t) \in OwnersOn(c, place[t])
  <2>1. CASE t \notin db[c].lost
    BY <1>1, <1>2, <1>4, <2>1 DEF RowsTold
  <2>2. CASE t \in db[c].lost
    BY <1>5, <2>2 DEF Lost, OwnerIn, OwnersOn
  <2> QED
    BY <2>1, <2>2
<1> QED
  BY <1>4, <1>5

LEMMA OwnerShown ==
    ASSUME ChainInv, WorkersInv, NEW t \in Tokens, Mirrored(t), ~Lost(t)
    PROVE  IF place[t].on \in Chains
           THEN t \in names /\ GetDomainResolution(t).owner = place[t].owner
           ELSE GetDomainResolution(t).owner \in {None, Null, Bridge}
<1>1. /\ OwnerIn(db["MATIC"].rows, t) \in OwnersOn("MATIC", place[t])
      /\ OwnerIn(db["ETH"].rows, t) \in OwnersOn("ETH", place[t])
      /\ DOMAIN db["MATIC"].rows \subseteq names /\ DOMAIN db["ETH"].rows \subseteq names
  BY OwnerMirrored DEF Chains, WorkersInv, DbInv, TablesOK
<1>2. \A c \in Chains : RowOf(c, t).owner = OwnerIn(db[c].rows, t)
  BY DEF RowOf, OwnerIn, Repo!NewRow, None
<1>3. RowOf("MATIC", t).owner = OwnerIn(db["MATIC"].rows, t)
      /\ RowOf("ETH", t).owner = OwnerIn(db["ETH"].rows, t)
  BY <1>2 DEF Chains
<1>4. place[t].on \in Chains => place[t].owner \notin {None, Null}
  <2>1. place[t].on \in Chains => place[t].on # None
    BY DEF Chains, None, Repo!Absent
  <2> QED
    BY <2>1, MarksDiffer DEF ChainInv, PlaceInv
<1>5. GetDomainResolution(t) = IF RowOf("MATIC", t).owner \in {None, Null} THEN RowOf("ETH", t)
                               ELSE RowOf("MATIC", t)
  BY DEF GetDomainResolution, ChosenChain, IsNullAddress
<1>6. CASE place[t].on = "MATIC"
  <2>1. OwnerIn(db["MATIC"].rows, t) = place[t].owner
    BY <1>1, <1>6 DEF OwnersOn
  <2>2. t \in names
    BY <1>1, <1>4, <1>6, <2>1 DEF OwnerIn, Chains
  <2> QED
    BY <1>3, <1>4, <1>5, <1>6, <2>1, <2>2 DEF Chains
<1>7. CASE place[t].on = "ETH"
  <2>1. OwnerIn(db["ETH"].rows, t) = place[t].owner
        /\ OwnerIn(db["MATIC"].rows, t) \in {None, Null}
    BY <1>1, <1>7 DEF OwnersOn
  <2>2. t \in names
    BY <1>1, <1>4, <1>7, <2>1 DEF OwnerIn, Chains
  <2> QED
    BY <1>3, <1>4, <1>5, <1>7, <2>1, <2>2 DEF Chains
<1>8. CASE place[t].on \notin Chains
  <2>1. /\ OwnerIn(db["ETH"].rows, t) \in {None, Null, Bridge}
        /\ OwnerIn(db["MATIC"].rows, t) \in {None, Null}
    BY <1>1, <1>8 DEF OwnersOn, Chains
  <2> QED
    BY <1>3, <1>5, <1>8, <2>1
<1> QED
  BY <1>6, <1>7, <1>8 DEF Chains

LEMMA OwnerSettled ==
    ASSUME ChainInv, WorkersInv
    PROVE  SettledOwner
<1> SUFFICES ASSUME NEW t \in Supported, Mirrored(t)
             PROVE  IF place[t].on \in Chains
                    THEN /\ Lost(t) \/ GetDomain(t).owner = place[t].owner
                         /\ LastTransfer(place[t].on, t).to = place[t].owner
                    ELSE Lost(t) \/ GetDomain(t).owner \in {None, Null, Bridge}
  BY DEF SettledOwner
<1>1. t \in Tokens
  BY DomainApiAssumption
<1>2. Repo!NewRow.owner = None
  BY DEF Repo!NewRow, None
<1>3. GetDomain(t) = IF t \in names THEN GetDomainResolution(t) ELSE Repo!NewRow
  BY DEF GetDomain
<1>4. CASE place[t].on \notin Chains
  BY <1>1, <1>2, <1>3, <1>4, OwnerShown
<1>5. CASE place[t].on \in Chains
  <2> DEFINE c == place[t].on
             n == db[c].block
  <2>1. Lost(t) \/ GetDomain(t).owner = place[t].owner
    BY <1>1, <1>3, <1>5, OwnerShown
  <2>2. OwnerAt(chain[c], n, t) = place[t].owner
    BY <1>1, <1>5, OwnerMirrored DEF OwnersOn
  <2>3. place[t].owner # None /\ n \in 0 .. Len(chain[c])
    <3>1. place[t].on # None
      BY <1>5 DEF Chains, None, Repo!Absent
    <3>2. place[t].owner \in Owners[t]
      BY <1>1, <3>1 DEF ChainInv, PlaceInv
    <3> QED
      BY <1>1, <1>5, <3>2, MarksDiffer DEF WorkersInv, DbInv
  <2> DEFINE S == BlocksOf(c, n, LAMBDA e : IsTransferOf(e, t))
  <2>4. /\ S # {}
        /\ EventAt(c, Max(S), LAMBDA e : IsTransferOf(e, t)).to = OwnerAt(chain[c], n, t)
    BY <1>1, <1>5, <2>2, <2>3, TransferAt
  <2>5. LastTransfer(c, t) = IF S = {} THEN NoEvent
                             ELSE EventAt(c, Max(S), LAMBDA e : IsTransferOf(e, t))
    BY DEF LastTransfer, TransferBlocks
  <2>6. LastTransfer(c, t).to = place[t].owner
    BY <2>2, <2>4, <2>5
  <2> QED
    BY <1>5, <2>1, <2>6
<1> QED
  BY <1>4, <1>5

LEMMA NamesAddress ==
    ASSUME NEW B, IsChain(B), NEW n \in 0 .. Len(B), NEW a
    PROVE  ReverseAt(B, n, a) \in Tokens \cup {None}
<1> DEFINE last == LastIn(B, n, ReversesOf(a))
<1>1. n \in Nat /\ Len(B) \in Nat /\ \A i \in 1 .. n : i \in 1 .. Len(B) /\ IsBlock(B[i])
  BY DEF IsChain
<1>2. \A i \in 1 .. n : OneIn(B[i], ReversesOf(a))
  BY <1>1, OneEach
<1>3. last = NoEvent \/ last \in ReversesOf(a)
  BY <1>1, <1>2, LastFound
<1> HIDE DEF last
<1>4. last.type = "SetReverse" => last.token \in Tokens
  BY <1>3, EventKinds DEF ReversesOf
<1> QED
  BY <1>4 DEF ReverseAt, last

\* Where a chain is mirrored an address that never went astray has the reverse row
\* that it set on the chain, unless the domain was ever the one of an address that did.
LEMMA ReverseMirrored ==
    ASSUME ChainInv, WorkersInv, Settled, NEW c \in Chains, NEW a \in Addresses \ Astray
    PROVE  LET t == ReverseAt(chain[c], Len(chain[c]), a)
           IN /\ t \in Tokens \cup {None}
              /\ t = None => RowsOfAddress(c, a) = {}
              /\ t # None /\ ~EverReverseOf(t, Astray) => RowsOfAddress(c, a) = {<<a, t>>}
<1> DEFINE B == chain[c]
           n == Len(B)
           t == ReverseAt(B, n, a)
           rev == db[c].rev
           astray == db[c].skipped \cup pull.addresses
<1>1. IsChain(B) /\ n \in 0 .. n
  BY DEF ChainInv, IsChain
<1>2. t \in Tokens \cup {None}
  BY <1>1, NamesAddress
<1>3. ReverseTold(B, n, rev, astray) /\ TablesOK(B, db[c].rows, rev, names) /\ names \subseteq Tokens
  BY DEF WorkersInv, DbInv, Settled
<1>4. a \in Addresses \ astray /\ astray \subseteq Astray
  BY DEF Astray
<1>5. \A r \in rev : r = <<r[1], r[2]>> /\ r[2] \in Tokens /\ (r[1] = a => r[2] = t)
  BY <1>3, <1>4 DEF TablesOK, ReverseTold
<1>6. ASSUME t = None
      PROVE  RowsOfAddress(c, a) = {}
  BY <1>5, <1>6, MarksDiffer DEF RowsOfAddress
<1>7. ASSUME t # None, ~EverReverseOf(t, Astray)
      PROVE  RowsOfAddress(c, a) = {<<a, t>>}
  <2>1. ASSUME NEW b \in astray, SetBy(B, t, b)
        PROVE  FALSE
    <3>1. PICK i \in 1 .. Len(B) : IsSetBlock(B[i], t, b)
      BY <2>1 DEF SetBy
    <3>2. Setting(t, b) \in Range(B[i])
      BY <3>1, RangeOne DEF IsSetBlock
    <3>3. Setting(t, b) \in EventsOf(c)
      <4> DEFINE e == Setting(t, b)
                 D == chain[c]
      <4>1. IsChain(D) /\ \E j \in 1 .. Len(D) : e \in Range(D[j])
        BY <1>1, <3>2
      <4> HIDE DEF e, D
      <4>2. e \in UNION {Range(f) : f \in Range(D)}
        BY <4>1, MintedIs
      <4> QED
        BY <4>2 DEF e, D, EventsOf
    <3>4. b \in Astray
      BY <1>4
    <3> QED
      BY <1>7, <3>3, <3>4, EventKinds DEF EverReverseOf
  <2>2. <<a, t>> \in rev
    BY <1>2, <1>3, <1>4, <1>7, <2>1 DEF ReverseTold
  <2> HIDE DEF t
  <2>3. \A r \in RowsOfAddress(c, a) : r = <<a, t>>
    BY <1>5 DEF RowsOfAddress
  <2>4. <<a, t>> \in RowsOfAddress(c, a)
    BY <2>2 DEF RowsOfAddress
  <2> QED
    BY <2>3, <2>4
<1> QED
  BY <1>2, <1>6, <1>7

LEMMA ReverseSettled ==
    ASSUME ChainInv, WorkersInv
    PROVE  SettledReverse
<1> DEFINE Set(c, a) == ReverseAt(chain[c], Len(chain[c]), a)
           Named(a) == IF Set("ETH", a) # None THEN Set("ETH", a) ELSE Set("MATIC", a)
<1>1. \A c \in Chains : \A a : ReverseOf(c, a) = Set(c, a)
  BY ReverseOfIs
<1>2. "ETH" \in Chains /\ "MATIC" \in Chains
  BY DEF Chains
<1>3. ASSUME Settled, NEW a \in Addresses \ Astray, NEW t, t = Named(a),
             ~EverReverseOf(t, Astray)
      PROVE  /\ GetReverseResolution(a) = {t} \cap Supported
             /\ GetReverse(a) = GetReverses(a) \/ Lost(t)
  <2> DEFINE eth == RowsOfAddress("ETH", a)
             matic == RowsOfAddress("MATIC", a)
             found == IF eth # {} THEN eth ELSE matic
  <2>1. /\ Set("ETH", a) \in Tokens \cup {None}
        /\ Set("ETH", a) = None => eth = {}
        /\ Set("ETH", a) # None /\ ~EverReverseOf(Set("ETH", a), Astray) => eth = {<<a, Set("ETH", a)>>}
    BY <1>2, <1>3, ReverseMirrored
  <2>2. /\ Set("MATIC", a) \in Tokens \cup {None}
        /\ Set("MATIC", a) = None => matic = {}
        /\ Set("MATIC", a) # None /\ ~EverReverseOf(Set("MATIC", a), Astray)
             => matic = {<<a, Set("MATIC", a)>>}
    BY <1>2, <1>3, ReverseMirrored
  <2>3. GetReverseResolution(a) = {r[2] : r \in found} \cap Supported
    BY DEF GetReverseResolution
  <2>4. \/ t = Set("ETH", a) /\ t # None
        \/ Set("ETH", a) = None /\ t = Set("MATIC", a)
    BY <1>3
  <2> HIDE DEF Set, Named, eth, matic
  <2>5. t \in Tokens \cup {None} /\ found = IF t = None THEN {} ELSE {<<a, t>>}
    BY <1>3, <2>1, <2>2, <2>4
  <2>6. {r[2] : r \in found} = IF t = None THEN {} ELSE {t}
    <3> HIDE DEF found
    <3>1. CASE t = None
      BY <2>5, <3>1
    <3>2. CASE t # None
      <4>1. found = {<<a, t>>}
        BY <2>5, <3>2
      <4>2. <<a, t>>[2] = t
        OBVIOUS
      <4> QED
        BY <3>2, <4>1, <4>2
    <3> QED
      BY <3>1, <3>2
  <2>7. None \notin Supported
    BY MarksDiffer, DomainApiAssumption
  <2>8. GetReverseResolution(a) = {t} \cap Supported
    BY <2>3, <2>6, <2>7
  <2>9. ASSUME t \in Supported, ~Lost(t)
        PROVE  GetDomainResolution(t).owner = a
    <3>1. t \in Tokens /\ t # None
      BY <2>7, <2>9, DomainApiAssumption
    <3>2. PICK c \in Chains : t = Set(c, a)
      BY <1>2, <2>4
    <3>3. /\ place[t].on = c
          /\ OwnerAt(chain[c], Len(chain[c]), t) = a
      <4>1. ReverseAt(chain[c], Len(chain[c]), a) = t
        BY <3>2 DEF Set
      <4>2. Len(chain[c]) \in 0 .. Len(chain[c]) /\ HistoryInv(chain[c])
        BY DEF ChainInv, IsChain
      <4> QED
        BY <1>3, <3>1, <4>1, <4>2 DEF ChainInv, HistoryInv
    <3>4. place[t].owner = a
      BY <3>1, <3>3 DEF ChainInv, PlaceInv, OwnersOn
    <3>5. Mirrored(t)
      <4>1. \A d \in Chains : Len(chain[d]) \in Nat /\ db[d].block = Len(chain[d])
        BY <1>3 DEF ChainInv, IsChain, Settled
      <4>2. \A d \in Chains : db[d].block + 1 .. Len(chain[d]) = {}
        BY <4>1
      <4> QED
        BY <4>2 DEF Mirrored
    <3> QED
      BY <2>9, <3>1, <3>3, <3>4, <3>5, OwnerShown
  <2>10. GetReverse(a) = GetReverses(a) \/ Lost(t)
    BY <2>8, <2>9 DEF GetReverse, GetReverses
  <2> QED
    BY <2>8, <2>10
<1>4. \A a : (IF ReverseOf("ETH", a) # None THEN ReverseOf("ETH", a) ELSE ReverseOf("MATIC", a))
               = Named(a)
  BY <1>1, <1>2
<1> HIDE DEF Named
<1>5. ASSUME Settled, NEW a \in Addresses \ Astray
      PROVE  LET t == IF ReverseOf("ETH", a) # None THEN ReverseOf("ETH", a)
                      ELSE ReverseOf("MATIC", a)
             IN ~EverReverseOf(t, Astray) =>
                  /\ GetReverseResolution(a) = {t} \cap Supported
                  /\ GetReverse(a) = GetReverses(a) \/ Lost(t)
  <2> DEFINE t == IF ReverseOf("ETH", a) # None THEN ReverseOf("ETH", a)
                  ELSE ReverseOf("MATIC", a)
  <2>1. t = Named(a)
    BY <1>4
  <2> HIDE DEF t
  <2>2. ~EverReverseOf(t, Astray) =>
          /\ GetReverseResolution(a) = {t} \cap Supported
          /\ GetReverse(a) = GetReverses(a) \/ Lost(t)
    BY <1>3, <1>5, <2>1
  <2> QED
    BY <2>2 DEF t
<1> QED
  BY <1>5 DEF SettledReverse, Addresses

LEMMA TypeIs ==
    ASSUME ApiInv
    PROVE  TypeOK
<1>1. ChainInv /\ WorkersInv /\ LookupInv
  BY DEF ApiInv
<1>2. ASSUME NEW c \in Chains
      PROVE  /\ db[c].block <= tx[c].to \/ tx[c].pc = "idle"
             /\ tx[c].to <= Len(chain[c])
             /\ DOMAIN db[c].rows \subseteq names
             /\ {r[2] : r \in db[c].rev} \subseteq names
             /\ tx[c].pc \in {"idle", "block", "insert"}
  <2>1. DbInv(c) /\ TxInv(c) /\ Len(chain[c]) \in Nat
    BY <1>1 DEF WorkersInv, ChainInv, IsChain
  <2>2. /\ db[c].block \in 0 .. Len(chain[c])
        /\ tx[c].pc \in {"idle", "block", "insert"}
        /\ tx[c].to \in 0 .. Len(chain[c]) /\ tx[c].block \in 0 .. tx[c].to
        /\ tx[c].pc # "idle" => db[c].block <= tx[c].block
    BY <2>1 DEF DbInv, TxInv
  <2>3. DOMAIN db[c].rows \subseteq names /\ \A r \in db[c].rev : r[2] \in names
    BY <2>1 DEF DbInv, TablesOK
  <2> QED
    BY <2>1, <2>2, <2>3
<1>3. names \subseteq Tokens /\ missed \subseteq Asked /\ lookup.token \in Asked \cup {None}
  BY <1>1 DEF WorkersInv, LookupInv
<1> QED
  BY <1>2, <1>3 DEF TypeOK

-----------------------------------------------------------------------------
(* The theorems *)

\* Every state satisfies the inductive invariant: what each chain has told of the
\* owners and of the reverse records, what the committed tables and the open
\* transactions of both workers have of it, however their steps, those of the script
\* and the moves over the bridge interleave, and what the look-up at hand may
\* still find.
THEOREM ApiInvariant == Spec => []ApiInv
<1>1. ApiInit => ApiInv
  BY InitInv
<1>2. ApiInv /\ [Next]_allVars => ApiInv'
  BY NextInv
<1> QED
  BY <1>1, <1>2, PTL DEF Spec

\* A run ends before the end of its chain, and every row is of a domain in the table.
THEOREM ApiTypes == Spec => []TypeOK
<1>1. ApiInv => TypeOK
  BY TypeIs
<1> QED
  BY <1>1, ApiInvariant, PTL

\* Once every transfer of a domain is mirrored the API shows the owner it has, on
\* whatever chain it is (Resolution.ts:19), however often it went over the bridge:
\* for any tokens, owners and chains of any length.
THEOREM OwnersSettled == Spec => []SettledOwner
<1>1. ApiInv => SettledOwner
  BY OwnerSettled DEF ApiInv
<1> QED
  BY <1>1, ApiInvariant, PTL

\* Once both chains are mirrored an address has the reverse record that it set, of
\* a domain that it owns (Resolution.ts:54), unless the script wrote one for it or
\* a worker dropped one.
THEOREM ReversesSettled == Spec => []SettledReverse
<1>1. ApiInv => SettledReverse
  BY ReverseSettled DEF ApiInv
<1> QED
  BY <1>1, ApiInvariant, PTL

\* The look-up for the metadata finds a minted domain, in the database or on a
\* chain, unless its miss was cached, its commit came between or the chains did not
\* answer (DomainService.ts:25).
THEOREM MintsFound == Spec => []FoundUnlessOvertaken
<1>1. ApiInv => FoundUnlessOvertaken
  BY DEF ApiInv, LookupInv
<1> QED
  BY <1>1, ApiInvariant, PTL

=============================================================================

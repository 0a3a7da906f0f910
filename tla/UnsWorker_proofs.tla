-------------------------- MODULE UnsWorker_proofs --------------------------
(***************************************************************************)
(* Theorems about the worker of an EVM chain, for any number of tokens,    *)
(* owners, records, resolvers, blocks and crashes: its tables follow the   *)
(* events, and for CNS tokens, whose events tell little, the head of the   *)
(* chain.                                                                  *)
(***************************************************************************)
EXTENDS UnsWorker, SequenceTheorems, TLAPS

-----------------------------------------------------------------------------
(* What the events of a block tell of the registry *)

\* A row of a CNS token without what its events do not tell.
ViewRow(row) == IF row.registry = "cns" THEN Row(row.owner, "cns", None, NoRecords) ELSE row
View(R) == [t \in DOMAIN R |-> ViewRow(R[t])]

MintRow(o, registry) ==
    Row(o, registry, IF registry = "uns" THEN "uns" ELSE None, NoRecords)

Owned(row, o) == Row(o, row.registry, row.resolver, row.records)
Recorded(row, records) == Row(row.owner, row.registry, row.resolver, records)

\* The rows R after event e, which follows event last.
Told(R, last, e) ==
    IF e.type = "Transfer"
    THEN IF e.from = Null
         THEN IF e.token \in DOMAIN R
              THEN Put(R, e.token, MintRow(e.to, e.registry)) ELSE R
         ELSE Put(R, e.token, IF e.to = Null THEN Burnt ELSE Owned(R[e.token], e.to))
    ELSE IF e.type = "NewURI" THEN Put(R, e.token, MintRow(last.to, e.registry))
    ELSE IF e.type = "ResetRecords"
    THEN Put(R, e.token, Recorded(R[e.token], NoRecords))
    ELSE IF e.type = "Set"
    THEN Put(R, e.token, Recorded(R[e.token],
                                  Put(R[e.token].records, e.key, e.value)))
    ELSE R

\* What the event may rely on.
Legal(R, last, e) ==
    \/ /\ e.type = "Transfer" /\ e.from = Null
       /\ e.to \in Owners /\ e.registry \in {"uns", "cns"} /\ e.token \in Tokens
       /\ e.token \in DOMAIN R => R[e.token] = Burnt
    \/ /\ e.type = "Transfer" /\ e.from # Null
       /\ e.to \in Owners \cup {Null} /\ e.token \in DOMAIN R
    \/ /\ e.type = "NewURI" /\ IsMint(last)
       /\ last.to \in Owners /\ e.registry \in {"uns", "cns"} /\ e.token \in Tokens
       /\ e.token \in DOMAIN R => R[e.token] = MintRow(last.to, e.registry)
    \/ /\ e.type \in {"ResetRecords", "Set"}
       /\ e.token \in DOMAIN R /\ R[e.token].registry # "cns"
       /\ e.type = "Set" => e.key \in Keys /\ e.value \in Values
    \/ e.type = "SetReverse" /\ e.token \in DOMAIN R /\ e.addr \in Owners
    \/ e.type = "RemoveReverse"
    \/ /\ e.type \in {"Resolve", "Sync"}
       /\ e.token \in Tokens /\ e.token \in DOMAIN R /\ R[e.token].registry = "cns"
       /\ e.type = "Sync" => e.updateId \in Keys \cup {0}

Before(ev, i) == IF i = 0 THEN NoEvent ELSE ev[i]

\* The rows after the first i events of a block.
RowsAfter(R, ev, i) ==
    LET R1 == Told(R, NoEvent, ev[1])
        R2 == Told(R1, ev[1], ev[2])
    IN CASE i = 0 -> R
         [] i = 1 -> R1
         [] i = 2 -> R2
         [] i = 3 -> Told(R2, ev[2], ev[3])

Tells(R, ev, S) ==
    /\ Len(ev) \in 1 .. 3 /\ ev = [j \in 1 .. Len(ev) |-> ev[j]]
    /\ \A i \in 0 .. Len(ev) - 1 : Legal(RowsAfter(R, ev, i), Before(ev, i), ev[i + 1])
    /\ RowsAfter(R, ev, Len(ev)) = S

\* The same of reverse records.
ToldReverse(P, e) ==
    CASE e.type = "SetReverse" -> {r \in P : r[1] # e.addr} \cup {<<e.addr, e.token>>}
      [] e.type = "RemoveReverse" -> {r \in P : r[1] # e.addr}
      [] OTHER -> P

ReverseAfter(P, ev, i) ==
    IF i > 0 THEN ToldReverse(P, ev[1]) ELSE P

TellsReverse(P, ev, Q) ==
    /\ \A j \in 2 .. Len(ev) : ev[j].type \notin {"SetReverse", "RemoveReverse"}
    /\ ev[1].type = "SetReverse" => \A r \in P : r[2] # ev[1].token
    /\ \A r, s \in P : r[1] = s[1] => r = s
    /\ ToldReverse(P, ev[1]) = Q

\* The state after block n, and the rows after the first i events of the next.
StateAfter(B, n) == IF n = 0 THEN [rows |-> NoRecords, rev |-> {}] ELSE B[n].after

RowsAt(B, n, i) == RowsAfter(View(StateAfter(B, n).rows), B[n + 1].events, i)
ReverseAt(B, n, i) == ReverseAfter(StateAfter(B, n).rev, B[n + 1].events, i)

-----------------------------------------------------------------------------
(* The inductive invariant *)

IsRecords(m) ==
    /\ m = [k \in DOMAIN m |-> m[k]] /\ DOMAIN m \subseteq Keys
    /\ \A k \in DOMAIN m : m[k] \in Values

\* A row of token t at the head of the chain, where the resolvers keep K.
IsHeadRow(row, t, K) ==
    \/ row = Burnt
    \/ /\ row = Row(row.owner, row.registry, row.resolver, row.records)
       /\ row.owner \in Owners /\ row.registry \in {"uns", "cns"}
       /\ IsRecords(row.records)
       /\ row.registry = "uns" => row.resolver = "uns"
       /\ row.registry = "cns" =>
            /\ Resolvers # {}
            /\ \/ row.resolver = None /\ row.records = NoRecords
               \/ row.resolver \in Resolvers /\ row.records = K[row.resolver][t]

HeadInv ==
    /\ rows = [t \in DOMAIN rows |-> rows[t]] /\ DOMAIN rows \subseteq Tokens
    /\ \A t \in DOMAIN rows : IsHeadRow(rows[t], t, kept)
    /\ rev = [a \in Owners |-> rev[a]]
    /\ \A a \in Owners : rev[a] # None =>
         /\ rev[a] \in DOMAIN rows
         /\ rows[rev[a]].owner = a /\ rows[rev[a]].registry = "uns"
    /\ kept = [r \in Resolvers |-> [t \in Tokens |-> kept[r][t]]]
    /\ \A r \in Resolvers, t \in Tokens : IsRecords(kept[r][t])

\* The blocks tell how it came about.
BlocksInv ==
    /\ Len(blocks) \in Nat /\ blocks = [n \in 1 .. Len(blocks) |-> blocks[n]]
    /\ StateAfter(blocks, Len(blocks)) = RegistryState
    /\ \A n \in 0 .. Len(blocks) :
         LET R == StateAfter(blocks, n).rows IN
         /\ R = [t \in DOMAIN R |-> R[t]]
         /\ \A t \in DOMAIN R : R[t].registry = "cns" => Resolvers # {}
    /\ \A n \in 0 .. Len(blocks) - 1 :
         Tells(View(StateAfter(blocks, n).rows), blocks[n + 1].events,
               View(StateAfter(blocks, n + 1).rows))

\* Token t is one of CNS in the rows R.
IsCns(R, t) == t \in DOMAIN R /\ R[t].owner # Null /\ R[t].registry = "cns"

ResolverIn(R, t) == IF IsCns(R, t) THEN R[t].resolver ELSE None

\* Event e changes the resolver of t, or a record whose key is in K.
Touches(e, t, K) ==
    \/ e.type = "Transfer" /\ e.token = t /\ Null \in {e.from, e.to}
    \/ e.type = "Resolve" /\ e.token = t
    \/ e.type = "Sync" /\ e.token = t /\ e.updateId \in K

\* Nothing after the first i events of block n + 1 does.
Rests(B, t, K, n, i) ==
    \A p \in 1 .. Len(B) : \A j \in 1 .. Len(B[p].events) :
        (p > n + 1 \/ (p = n + 1 /\ j > i)) => ~Touches(B[p].events[j], t, K)

\* A token has no resolver after its mint until one is told, and after a Sync
\* that drops all records only those that were written.
FreshInv ==
    \A n \in 0 .. Len(blocks) - 1 : \A j \in 1 .. Len(blocks[n + 1].events) :
        LET e == blocks[n + 1].events[j]
            t == e.token
        IN /\ (e.type = "NewURI" \/ IsMint(e)) /\ IsCns(rows, t)
                   /\ Rests(blocks, t, {}, n, j) =>
                rows[t].resolver = None
           /\ e.type = "Sync" /\ e.updateId = 0 /\ IsCns(rows, t) =>
                \A k \in DOMAIN rows[t].records : ~Rests(blocks, t, {k, 0}, n, j)

IsFullRow(row) ==
    /\ IsRow(row)
    /\ row = Row(row.owner, row.registry, row.resolver, row.records)
    /\ row.records = [k \in DOMAIN row.records |-> row.records[k]]

IsTables(v) ==
    /\ v = [names |-> v.names, rows |-> v.rows, rev |-> v.rev, broken |-> v.broken]
    /\ v.names \subseteq Tokens
    /\ v.rows = [t \in DOMAIN v.rows |-> v.rows[t]]
    /\ DOMAIN v.rows \subseteq v.names
    /\ \A t \in DOMAIN v.rows : IsFullRow(v.rows[t])
    /\ v.rev \subseteq Owners \X v.names
    /\ v.broken \in BOOLEAN

IsCopy(d, top) ==
    /\ d = [block |-> d.block, tables |-> d.tables, lost |-> d.lost]
    /\ d.block \in 0 .. top
    /\ d.lost \subseteq Tokens
    /\ IsTables(d.tables)

WorkerInv ==
    /\ IsCopy(db, Len(blocks)) /\ IsCopy(tx, Len(blocks))
    /\ ~db.tables.broken
    /\ db.block <= tx.block
    /\ db.tables.names \subseteq tx.tables.names
    /\ pc \in {"idle", "events", "resolver"}
    /\ to \in 0 .. Len(blocks)
    /\ pc = "idle" => tx = db /\ at = 0
    /\ pc # "idle" => tx.block <= to
    /\ at \in Nat
    /\ at = 0 => ~tx.tables.broken
    /\ at # 0 \/ pc = "resolver" =>
         tx.block < to /\ at <= Len(blocks[tx.block + 1].events)
    /\ answer \in Resolvers \cup {None}
    /\ crashes \in Nat

\* A domain and a row for every token there is by then.
Shows(tables, R) ==
    /\ tables.names = DOMAIN R
    /\ View(tables.rows) = R

\* What the row of t that has the first i events of block n + 1 was told of the
\* head, where nothing that changes it is to come.
RowUpToHead(R, B, row, t, n, i) ==
    row.registry = "cns" /\ IsCns(R, t) =>
        /\ Rests(B, t, {}, n, i) => row.resolver = R[t].resolver
        /\ \A k \in DOMAIN R[t].records :
             Rests(B, t, {k, 0}, n, i) =>
                k \in DOMAIN row.records /\ row.records[k] = R[t].records[k]

UpToHead(R, B, d, i) ==
    \A t \in DOMAIN d.tables.rows \ d.lost :
        RowUpToHead(R, B, d.tables.rows[t], t, d.block, i)

Mirrors(R, B, d, i) ==
    /\ Shows(d.tables, RowsAt(B, d.block, i))
    /\ UpToHead(R, B, d, i)

MirrorInv ==
    /\ Mirrors(rows, blocks, db, 0)
    /\ ~tx.tables.broken => Mirrors(rows, blocks, tx, at)

AnswerInv ==
    pc = "resolver" =>
        LET e == blocks[tx.block + 1].events[at + 1] IN
        /\ at < Len(blocks[tx.block + 1].events)
        /\ e.type \in {"Resolve", "Sync"}
        /\ \/ answer = ResolverIn(rows, e.token)
           \/ ~Rests(blocks, e.token, {}, tx.block, at + 1)

UnsInv == HeadInv /\ BlocksInv /\ FreshInv /\ WorkerInv /\ MirrorInv /\ AnswerInv

-----------------------------------------------------------------------------
(* The same of reverse records, which an owner is not to set twice *)

ReverseInv ==
    /\ \A n \in 0 .. Len(blocks) - 1 :
         TellsReverse(StateAfter(blocks, n).rev, blocks[n + 1].events,
                      StateAfter(blocks, n + 1).rev)
    /\ db.tables.rev = StateAfter(blocks, db.block).rev
    /\ ~tx.tables.broken => tx.tables.rev = ReverseAt(blocks, tx.block, at)

-----------------------------------------------------------------------------
(* Sequences of a few *)

LEMMA PairOf == ASSUME NEW a, NEW b PROVE <<a>> \o <<b>> = <<a, b>>
<1>1. <<a>> \in Seq({a, b}) /\ <<b>> \in Seq({a, b}) /\ <<a, b>> \in Seq({a, b})
  OBVIOUS
<1> DEFINE s == <<a>> \o <<b>>
<1>2. s \in Seq({a, b}) /\ Len(s) = 2 /\ s[1] = a /\ s[2] = b
  BY <1>1, ConcatProperties
<1>3. Len(<<a, b>>) = 2 /\ <<a, b>>[1] = a /\ <<a, b>>[2] = b
  OBVIOUS
<1>4. \A i \in 1 .. Len(s) : s[i] = <<a, b>>[i]
  BY <1>2, <1>3
<1> HIDE DEF s
<1>5. s = <<a, b>>
  BY <1>1, <1>2, <1>3, <1>4, SeqEqual
<1> QED
  BY <1>5 DEF s

LEMMA TripleOf == ASSUME NEW a, NEW b, NEW c PROVE <<a, b>> \o <<c>> = <<a, b, c>>
<1>1. /\ <<a, b>> \in Seq({a, b, c}) /\ <<c>> \in Seq({a, b, c})
      /\ <<a, b, c>> \in Seq({a, b, c})
  OBVIOUS
<1> DEFINE s == <<a, b>> \o <<c>>
<1>2. s \in Seq({a, b, c}) /\ Len(s) = 3 /\ s[1] = a /\ s[2] = b /\ s[3] = c
  BY <1>1, ConcatProperties
<1>3. Len(<<a, b, c>>) = 3 /\ <<a, b, c>>[1] = a /\ <<a, b, c>>[2] = b /\ <<a, b, c>>[3] = c
  OBVIOUS
<1>4. \A i \in 1 .. Len(s) : s[i] = <<a, b, c>>[i]
  BY <1>2, <1>3
<1> HIDE DEF s
<1>5. s = <<a, b, c>>
  BY <1>1, <1>2, <1>3, <1>4, SeqEqual
<1> QED
  BY <1>5 DEF s

LEMMA NothingBefore == ASSUME NEW a PROVE <<>> \o <<a>> = <<a>> /\ <<a>> \o <<>> = <<a>>
BY <<a>> \in Seq({a}), ConcatEmptySeq

LEMMA NothingAfter == ASSUME NEW a, NEW b PROVE <<a, b>> \o <<>> = <<a, b>>
BY <<a, b>> \in Seq({a, b}), ConcatEmptySeq

-----------------------------------------------------------------------------
(* Rows that are put *)

LEMMA PutIs ==
    ASSUME NEW R, NEW t, NEW row
    PROVE  /\ DOMAIN Put(R, t, row) = DOMAIN R \cup {t}
           /\ Put(R, t, row) = [x \in DOMAIN R \cup {t} |-> Put(R, t, row)[x]]
           /\ Put(R, t, row)[t] = row
           /\ \A x \in DOMAIN R : x # t => Put(R, t, row)[x] = R[x]
BY DEF Put

LEMMA PutSelf ==
    ASSUME NEW R, R = [x \in DOMAIN R |-> R[x]], NEW t \in DOMAIN R
    PROVE  Put(R, t, R[t]) = R
BY DEF Put

LEMMA PutTwice ==
    ASSUME NEW R, NEW t, NEW row, NEW other
    PROVE  Put(Put(R, t, row), t, other) = Put(R, t, other)
BY DEF Put

LEMMA PutExcept ==
    ASSUME NEW R, R = [x \in DOMAIN R |-> R[x]], NEW t \in DOMAIN R, NEW row
    PROVE  [R EXCEPT ![t] = row] = Put(R, t, row)
BY DEF Put

LEMMA ViewIs ==
    ASSUME NEW R
    PROVE  /\ DOMAIN View(R) = DOMAIN R
           /\ View(R) = [x \in DOMAIN View(R) |-> View(R)[x]]
           /\ \A x \in DOMAIN R : View(R)[x] = ViewRow(R[x])
BY DEF View

LEMMA ViewPut ==
    ASSUME NEW R, NEW t, NEW row
    PROVE  View(Put(R, t, row)) = Put(View(R), t, ViewRow(row))
BY DEF Put, View

LEMMA ViewRows ==
    /\ ViewRow(Burnt) = Burnt
    /\ \A o : ViewRow(MintRow(o, "uns")) = MintRow(o, "uns")
    /\ \A o : ViewRow(MintRow(o, "cns")) = MintRow(o, "cns")
    /\ \A row : ViewRow(row).owner = row.owner /\ ViewRow(row).registry = row.registry
    /\ \A row : row.registry # "cns" => ViewRow(row) = row
BY DEF ViewRow, Burnt, MintRow, Row, None

LEMMA RowIs ==
    ASSUME NEW o, NEW g, NEW r, NEW m
    PROVE  /\ Row(o, g, r, m).owner = o /\ Row(o, g, r, m).registry = g
           /\ Row(o, g, r, m).resolver = r /\ Row(o, g, r, m).records = m
BY DEF Row

-----------------------------------------------------------------------------
(* The registries *)

\* A block with events ev gives token t this row.
Moved(t, row, ev) ==
    /\ t \in Tokens
    /\ rows' = Put(rows, t, row)
    /\ blocks' = Append(blocks, [events |-> ev, after |-> RegistryState'])
    /\ Tells(View(rows), ev, View(rows'))
    /\ row.registry = "cns" /\ row.owner # Null =>
         /\ \/ \E j \in 1 .. Len(ev) : Touches(ev[j], t, {})
            \/ OnCns(t) /\ row.resolver = rows[t].resolver
         /\ \A k \in DOMAIN row.records :
              \/ \E j \in 1 .. Len(ev) : Touches(ev[j], t, {k, 0})
              \/ /\ OnCns(t) /\ k \in DOMAIN rows[t].records
                 /\ row.records[k] = rows[t].records[k]
    /\ \/ \E j \in 1 .. Len(ev) : Touches(ev[j], t, {})
       \/ (IF row.registry = "cns" /\ row.owner # Null THEN row.resolver ELSE None)
            = ResolverOf(t)
    /\ \A j \in 1 .. Len(ev) :
         /\ ev[j].type = "NewURI" \/ IsMint(ev[j]) =>
              ev[j].token = t /\ (row.registry = "cns" => row.resolver = None)
         /\ ev[j].type = "Sync" /\ ev[j].updateId = 0 =>
              ev[j].token = t /\ DOMAIN row.records = {}

LEMMA EmptyRecords == DOMAIN NoRecords = {} /\ IsRecords(NoRecords)
BY DEF NoRecords, IsRecords

LEMMA RecordsPut ==
    ASSUME NEW m, IsRecords(m), NEW k \in Keys, NEW v \in Values
    PROVE  /\ IsRecords(Put(m, k, v))
           /\ DOMAIN Put(m, k, v) = DOMAIN m \cup {k}
           /\ \A x \in DOMAIN m : x # k => Put(m, k, v)[x] = m[x]
BY DEF IsRecords, Put

LEMMA Marks ==
    /\ Null # None /\ Null \notin Owners /\ None \notin Owners
    /\ None \notin Resolvers /\ Null \notin Resolvers /\ "uns" \notin Resolvers
    /\ Repo!Keep \notin Owners /\ Repo!Keep \notin Resolvers
    /\ Repo!Keep \notin {Null, None, "uns", "cns"}
    /\ Repo!NullAddress = Null /\ Repo!Absent = None /\ Repo!NoRecords = NoRecords
    /\ "uns" # None /\ "cns" # None /\ "uns" # "cns"
    /\ None \notin Tokens /\ 0 \notin Keys
BY UnsWorkerAssumption DEF Null, None, Repo!Keep, Repo!NullAddress, Repo!Absent,
   Repo!NoRecords, NoRecords

\* What is known of a row of a live token.
LEMMA LiveRow ==
    ASSUME HeadInv, NEW t, Live(t)
    PROVE  /\ t \in DOMAIN rows /\ t \in Tokens /\ rows[t].owner \in Owners
           /\ rows[t].registry \in {"uns", "cns"}
           /\ rows[t] = Row(rows[t].owner, rows[t].registry, rows[t].resolver,
                            rows[t].records)
           /\ IsRecords(rows[t].records)
           /\ OnUns(t) <=> rows[t].registry = "uns"
           /\ OnCns(t) <=> rows[t].registry = "cns"
           /\ rows[t].registry = "uns" => rows[t].resolver = "uns"
           /\ rows[t].registry = "cns" =>
                /\ Resolvers # {}
                /\ \/ rows[t].resolver = None /\ rows[t].records = NoRecords
                   \/ /\ rows[t].resolver \in Resolvers
                      /\ rows[t].records = kept[rows[t].resolver][t]
<1>1. t \in DOMAIN rows /\ rows[t].owner # Null /\ IsHeadRow(rows[t], t, kept)
  BY DEF Live, HeadInv
<1>2. rows[t] # Burnt
  BY <1>1 DEF Burnt, Row
<1> QED
  BY <1>1, <1>2 DEF IsHeadRow, HeadInv, OnUns, OnCns, Live

\* Of one that is not.
LEMMA DeadRow ==
    ASSUME HeadInv, NEW t \in DOMAIN rows, ~Live(t)
    PROVE  rows[t] = Burnt
<1>1. IsHeadRow(rows[t], t, kept) /\ rows[t].owner = Null
  BY DEF HeadInv, Live
<1>2. rows[t].owner \notin Owners
  BY <1>1, Marks
<1> QED
  BY <1>1, <1>2 DEF IsHeadRow

\* The state at the head when one row changes.
LEMMA HeadKept ==
    ASSUME HeadInv, NEW t \in Tokens, NEW row, rows' = Put(rows, t, row),
           IsHeadRow(row, t, kept'),
           kept' = [r \in Resolvers |-> [x \in Tokens |-> kept'[r][x]]],
           \A r \in Resolvers : IsRecords(kept'[r][t]),
           \A r \in Resolvers : \A x \in Tokens : x # t => kept'[r][x] = kept[r][x],
           rev' = [a \in Owners |-> rev'[a]],
           \A a \in Owners : rev'[a] # None =>
               \/ rev'[a] = t /\ row.owner = a /\ row.registry = "uns"
               \/ rev'[a] # t /\ rev'[a] = rev[a]
    PROVE  HeadInv'
<1>1. /\ DOMAIN Put(rows, t, row) = DOMAIN rows \cup {t}
      /\ Put(rows, t, row) = [x \in DOMAIN rows \cup {t} |-> Put(rows, t, row)[x]]
      /\ Put(rows, t, row)[t] = row
      /\ \A x \in DOMAIN rows : x # t => Put(rows, t, row)[x] = rows[x]
  BY DEF Put
<1>2. /\ DOMAIN rows' = DOMAIN rows \cup {t}
      /\ rows' = [x \in DOMAIN rows' |-> rows'[x]]
      /\ rows'[t] = row
      /\ \A x \in DOMAIN rows : x # t => rows'[x] = rows[x]
  BY <1>1
<1>3. ASSUME NEW x \in DOMAIN rows' PROVE IsHeadRow(rows'[x], x, kept')
  <2>1. CASE x = t
    BY <1>2, <2>1
  <2>2. CASE x # t
    <3>1. /\ x \in DOMAIN rows /\ rows'[x] = rows[x] /\ IsHeadRow(rows[x], x, kept)
          /\ x \in Tokens /\ \A r \in Resolvers : kept'[r][x] = kept[r][x]
      BY <1>2, <2>2 DEF HeadInv
    <3> QED
      BY <3>1 DEF IsHeadRow
  <2> QED
    BY <2>1, <2>2
<1>4. \A r \in Resolvers, x \in Tokens : IsRecords(kept'[r][x])
  BY DEF HeadInv
<1>5. ASSUME NEW a \in Owners, rev'[a] # None
      PROVE  /\ rev'[a] \in DOMAIN rows'
             /\ rows'[rev'[a]].owner = a /\ rows'[rev'[a]].registry = "uns"
  BY <1>2, <1>5 DEF HeadInv
<1>6. DOMAIN rows' \subseteq Tokens
  BY <1>2 DEF HeadInv
<1> QED
  BY <1>2, <1>3, <1>4, <1>5, <1>6 DEF HeadInv

LEMMA HeadKeptSame ==
    ASSUME HeadInv, NEW t \in Tokens, NEW row, rows' = Put(rows, t, row), kept' = kept,
           IsHeadRow(row, t, kept),
           rev' = [a \in Owners |-> rev'[a]],
           \A a \in Owners : rev'[a] # None =>
               /\ rev'[a] = rev[a]
               /\ rev[a] = t => row.owner = a /\ row.registry = "uns"
    PROVE  HeadInv'
<1>1. /\ kept' = [r \in Resolvers |-> [x \in Tokens |-> kept'[r][x]]]
      /\ \A r \in Resolvers : IsRecords(kept'[r][t])
      /\ \A r \in Resolvers : \A x \in Tokens : x # t => kept'[r][x] = kept[r][x]
  BY DEF HeadInv
<1>2. \A a \in Owners : rev'[a] # None =>
        \/ rev'[a] = t /\ row.owner = a /\ row.registry = "uns"
        \/ rev'[a] # t /\ rev'[a] = rev[a]
  OBVIOUS
<1> QED
  BY <1>1, <1>2, HeadKept

LEMMA TellsOne ==
    ASSUME NEW R, NEW e, Legal(R, NoEvent, e)
    PROVE  Tells(R, <<e>>, Told(R, NoEvent, e))
<1>1. /\ Len(<<e>>) = 1 /\ <<e>>[1] = e
      /\ <<e>> = [j \in 1 .. 1 |-> <<e>>[j]]
  OBVIOUS
<1> DEFINE ev == <<e>>
<1> HIDE DEF ev
<1>2. /\ RowsAfter(R, ev, 0) = R
      /\ RowsAfter(R, ev, 1) = Told(R, NoEvent, e)
  BY <1>1 DEF RowsAfter, ev
<1>3. Before(ev, 0) = NoEvent
  BY DEF Before
<1>4. Tells(R, ev, Told(R, NoEvent, e))
  BY <1>1, <1>2, <1>3 DEF Tells, ev
<1> QED
  BY <1>4 DEF ev

LEMMA TellsTwo ==
    ASSUME NEW R, NEW e, NEW f, Legal(R, NoEvent, e), Legal(Told(R, NoEvent, e), e, f)
    PROVE  Tells(R, <<e, f>>, Told(Told(R, NoEvent, e), e, f))
<1> DEFINE ev == <<e, f>>
<1>1. /\ Len(ev) = 2 /\ ev[1] = e /\ ev[2] = f
      /\ ev = [j \in 1 .. 2 |-> ev[j]]
  OBVIOUS
<1> HIDE DEF ev
<1>2. /\ RowsAfter(R, ev, 0) = R
      /\ RowsAfter(R, ev, 1) = Told(R, NoEvent, e)
      /\ RowsAfter(R, ev, 2) = Told(Told(R, NoEvent, e), e, f)
  BY <1>1 DEF RowsAfter
<1>3. Before(ev, 0) = NoEvent /\ Before(ev, 1) = e
  BY <1>1 DEF Before
<1>4. \A i \in 0 .. Len(ev) - 1 :
        Legal(RowsAfter(R, ev, i), Before(ev, i), ev[i + 1])
  <2>1. \A i \in 0 .. Len(ev) - 1 : i = 0 \/ i = 1
    BY <1>1
  <2> QED
    BY <1>1, <1>2, <1>3, <2>1
<1>5. Tells(R, ev, Told(Told(R, NoEvent, e), e, f))
  BY <1>1, <1>2, <1>4 DEF Tells
<1> QED
  BY <1>5 DEF ev

LEMMA TellsThree ==
    ASSUME NEW R, NEW e, NEW f, NEW g, Legal(R, NoEvent, e),
           Legal(Told(R, NoEvent, e), e, f),
           Legal(Told(Told(R, NoEvent, e), e, f), f, g)
    PROVE  Tells(R, <<e, f, g>>, Told(Told(Told(R, NoEvent, e), e, f), f, g))
<1> DEFINE ev == <<e, f, g>>
<1>1. /\ Len(ev) = 3 /\ ev[1] = e /\ ev[2] = f /\ ev[3] = g
      /\ ev = [j \in 1 .. 3 |-> ev[j]]
  OBVIOUS
<1> HIDE DEF ev
<1>2. /\ RowsAfter(R, ev, 0) = R
      /\ RowsAfter(R, ev, 1) = Told(R, NoEvent, e)
      /\ RowsAfter(R, ev, 2) = Told(Told(R, NoEvent, e), e, f)
      /\ RowsAfter(R, ev, 3) = Told(Told(Told(R, NoEvent, e), e, f), f, g)
  BY <1>1 DEF RowsAfter
<1>3. Before(ev, 0) = NoEvent /\ Before(ev, 1) = e /\ Before(ev, 2) = f
  BY <1>1 DEF Before
<1>4. \A i \in 0 .. Len(ev) - 1 :
        Legal(RowsAfter(R, ev, i), Before(ev, i), ev[i + 1])
  <2>1. \A i \in 0 .. Len(ev) - 1 : i = 0 \/ i = 1 \/ i = 2
    BY <1>1
  <2> QED
    BY <1>1, <1>2, <1>3, <2>1
<1>5. Tells(R, ev, Told(Told(Told(R, NoEvent, e), e, f), f, g))
  BY <1>1, <1>2, <1>4 DEF Tells
<1> QED
  BY <1>5 DEF ev

\* A row that is only looked at.
LEMMA ViewOfRow ==
    ASSUME HeadInv, NEW t \in DOMAIN rows
    PROVE  /\ t \in DOMAIN View(rows) /\ View(rows)[t] = ViewRow(rows[t])
           /\ View(rows) = [x \in DOMAIN View(rows) |-> View(rows)[x]]
           /\ View(rows)[t].owner = rows[t].owner
           /\ View(rows)[t].registry = rows[t].registry
BY ViewIs, ViewRows

LEMMA MintMoves ==
    ASSUME HeadInv, NEW t \in Tokens, NEW o \in Owners, NEW g \in {"uns", "cns"},
           g = "cns" => Resolvers # {}, Mint(t, o, g)
    PROVE  HeadInv' /\ \E row, ev : Moved(t, row, ev)
<1> DEFINE row == MintRow(o, g)
           e == TransferEvent(t, Null, o, g)
           f == NewUriEvent(t, g)
           R == View(rows)
<1>1. /\ rows' = Put(rows, t, row) /\ rev' = rev /\ kept' = kept
      /\ blocks' = Append(blocks, [events |-> <<e, f>>, after |-> RegistryState'])
      /\ ~Live(t)
  BY DEF Mint, Mined, MintRow, Put
<1>2. t \in DOMAIN R => R[t] = Burnt
  BY <1>1, DeadRow, ViewIs, ViewRows
<1>3. ViewRow(row) = row
  BY ViewRows
<1>4. View(rows') = Put(R, t, row)
  BY <1>1, <1>3, ViewPut
<1>5. /\ e.type = "Transfer" /\ e.from = Null /\ e.to = o /\ e.registry = g /\ e.token = t
      /\ f.type = "NewURI" /\ f.registry = g /\ f.token = t
  BY DEF TransferEvent, NewUriEvent
<1>6. /\ row.owner = o /\ row.registry = g /\ row.records = NoRecords
      /\ row = Row(row.owner, row.registry, row.resolver, row.records)
      /\ g = "uns" => row.resolver = "uns"
      /\ g = "cns" => row.resolver = None
  BY DEF MintRow, Row
<1> HIDE DEF e, f, row, R
<1>7. Tells(R, <<e, f>>, View(rows'))
  <2>1. Legal(R, NoEvent, e)
    BY <1>2, <1>5 DEF Legal
  <2>2. Told(R, NoEvent, e) = IF t \in DOMAIN R THEN Put(R, t, row) ELSE R
    BY <1>5 DEF Told, row
  <2>3. Legal(Told(R, NoEvent, e), e, f)
    <3>1. t \in DOMAIN Told(R, NoEvent, e) => Told(R, NoEvent, e)[t] = row
      BY <2>2 DEF Put
    <3>2. IsMint(e)
      BY <1>5, Marks DEF IsMint
    <3> QED
      BY <1>5, <3>1, <3>2 DEF Legal, row
  <2>4. Told(Told(R, NoEvent, e), e, f) = Put(R, t, row)
    BY <1>5, <2>2, PutTwice DEF Told, row
  <2> QED
    BY <1>4, <2>1, <2>3, <2>4, TellsTwo
<1>8. HeadInv'
  <2>1. IsHeadRow(row, t, kept')
    BY <1>6, EmptyRecords DEF IsHeadRow
  <2>2. \A a \in Owners : rev[a] # None => rev[a] # t
    BY <1>1, Marks DEF HeadInv, Live
  <2> QED
    BY <1>1, <2>1, <2>2, HeadKept DEF HeadInv
<1>9. Touches(<<e, f>>[1], t, {}) /\ 1 \in 1 .. Len(<<e, f>>)
  BY <1>5 DEF Touches
<1>10. \A j \in 1 .. Len(<<e, f>>) : <<e, f>>[j].type # "Sync"
  BY <1>5
<1>11. DOMAIN row.records = {}
  BY <1>6, EmptyRecords
<1> DEFINE ev == <<e, f>>
<1> HIDE DEF ev
<1>12. \A j \in 1 .. Len(ev) : ev[j].token = t
  BY <1>5 DEF ev
<1>13. row.registry = "cns" => row.resolver = None
  BY <1>6
<1>14. Moved(t, row, ev)
  BY <1>1, <1>7, <1>9, <1>10, <1>11, <1>12, <1>13 DEF Moved, ev, R
<1> QED
  BY <1>8, <1>14

\* The rows that are given other records, or another resolver.
LEMMA RecordsChanged ==
    ASSUME HeadInv, NEW t, Live(t), NEW m
    PROVE  [rows EXCEPT ![t].records = m] = Put(rows, t, Recorded(rows[t], m))
<1>1. t \in DOMAIN rows /\ rows = [x \in DOMAIN rows |-> rows[x]]
  BY LiveRow DEF HeadInv
<1>2. PICK o, g, p, n : rows[t] = Row(o, g, p, n)
  BY LiveRow
<1>3. Recorded(rows[t], m) = Row(o, g, p, m)
  BY <1>2 DEF Row, Recorded
<1>4. [rows[t] EXCEPT !.records = m] = Row(o, g, p, m)
  BY <1>2 DEF Row
<1> QED
  BY <1>1, <1>3, <1>4 DEF Put

LEMMA ResolverChanged ==
    ASSUME HeadInv, NEW t, Live(t), NEW r, NEW m,
           rows' = [rows EXCEPT ![t].resolver = r, ![t].records = m]
    PROVE  rows' = Put(rows, t, Row(rows[t].owner, rows[t].registry, r, m))
<1> DEFINE A == [rows EXCEPT ![t].resolver = r]
<1>1. t \in DOMAIN rows /\ rows = [x \in DOMAIN rows |-> rows[x]]
  BY LiveRow DEF HeadInv
<1>2. PICK o, g, p, n : rows[t] = Row(o, g, p, n)
  BY LiveRow
<1>3. rows[t].owner = o /\ rows[t].registry = g
  BY <1>2 DEF Row
<1>4. [rows[t] EXCEPT !.resolver = r] = Row(o, g, r, n)
  BY <1>2 DEF Row
<1>5. A = Put(rows, t, Row(o, g, r, n))
  BY <1>1, <1>4 DEF Put
<1>6. rows' = [A EXCEPT ![t].records = m]
  OBVIOUS
<1> HIDE DEF A
<1>7. [A[t] EXCEPT !.records = m] = Row(o, g, r, m)
  BY <1>5 DEF Row, Put
<1>8. [A EXCEPT ![t].records = m] = Put(rows, t, Row(o, g, r, m))
  BY <1>1, <1>5, <1>7 DEF Put
<1> QED
  BY <1>3, <1>6, <1>8

\* A block with one event, which is no mint.
OneEvent(t, row, e) ==
    /\ t \in Tokens
    /\ rows' = Put(rows, t, row)
    /\ blocks' = Append(blocks, [events |-> <<e>>, after |-> RegistryState'])
    /\ Legal(View(rows), NoEvent, e)
    /\ Told(View(rows), NoEvent, e) = View(rows')
    /\ row.registry = "cns" /\ row.owner # Null =>
         /\ Touches(e, t, {}) \/ (OnCns(t) /\ row.resolver = rows[t].resolver)
         /\ \A k \in DOMAIN row.records :
              \/ Touches(e, t, {k, 0})
              \/ /\ OnCns(t) /\ k \in DOMAIN rows[t].records
                 /\ row.records[k] = rows[t].records[k]
    /\ \/ Touches(e, t, {})
       \/ (IF row.registry = "cns" /\ row.owner # Null THEN row.resolver ELSE None)
            = ResolverOf(t)
    /\ e.type # "NewURI" /\ ~IsMint(e)
    /\ e.type = "Sync" /\ e.updateId = 0 => e.token = t /\ DOMAIN row.records = {}

LEMMA OneEventMoves ==
    ASSUME NEW t, NEW row, NEW e, OneEvent(t, row, e)
    PROVE  \E w, ev : Moved(t, w, ev)
<1> DEFINE ev == <<e>>
<1>1. Len(ev) = 1 /\ ev[1] = e
  OBVIOUS
<1>2. \A j \in 1 .. Len(ev) : ev[j] = e
  BY <1>1
<1>3. Tells(View(rows), ev, View(rows'))
  BY TellsOne DEF OneEvent
<1> HIDE DEF ev
<1>4. Moved(t, row, ev)
  <2>1. blocks' = Append(blocks, [events |-> ev, after |-> RegistryState'])
    BY DEF ev, OneEvent
  <2>2. 1 \in 1 .. Len(ev)
    BY <1>1
  <2> QED
    BY <1>1, <1>2, <1>3, <2>1, <2>2 DEF Moved, OneEvent
<1> QED
  BY <1>4

\* The row of a token that left for o.
Left(t, o) ==
    IF o = Null THEN Burnt
    ELSE Row(o, rows[t].registry, rows[t].resolver,
             IF rows[t].registry = "uns" THEN NoRecords ELSE rows[t].records)

LEMMA LeaveMoves ==
    ASSUME HeadInv, NEW t \in Tokens, NEW o \in Owners \cup {Null}, Live(t),
           Leave(t, o, Left(t, o))
    PROVE  HeadInv' /\ \E row, ev : Moved(t, row, ev)
<1> DEFINE from == rows[t].owner
           row  == Left(t, o)
           d    == RemoveReverseEvent(from)
           e    == TransferEvent(t, from, o, rows[t].registry)
           f    == TokenEvent("ResetRecords", t)
           R    == View(rows)
<1>1. PICK ev : ev = (IF rev[from] = t THEN <<d>> ELSE <<>>) \o <<e>>
                      \o (IF rows[t].registry = "uns" THEN <<f>> ELSE <<>>)
  OBVIOUS
<1>2. /\ rows' = [rows EXCEPT ![t] = row]
      /\ rev' = [rev EXCEPT ![from] = IF rev[from] = t THEN None ELSE @]
      /\ kept' = kept
      /\ blocks' = Append(blocks, [events |-> ev, after |-> RegistryState'])
  BY <1>1 DEF Leave, Mined
<1>3. /\ t \in DOMAIN rows /\ from \in Owners
      /\ rows[t].registry \in {"uns", "cns"}
      /\ rows[t] = Row(from, rows[t].registry, rows[t].resolver, rows[t].records)
      /\ rows = [x \in DOMAIN rows |-> rows[x]]
  BY LiveRow DEF HeadInv
<1>4. rows' = Put(rows, t, row)
  BY <1>2, <1>3, PutExcept
<1>5. /\ d.type = "RemoveReverse"
      /\ e.type = "Transfer" /\ e.from = from /\ e.to = o /\ e.token = t
      /\ f.type = "ResetRecords" /\ f.token = t
      /\ from # Null
  BY <1>3, Marks DEF TransferEvent, TokenEvent, RemoveReverseEvent
<1>6. rev[from] = t => rows[t].registry = "uns"
  BY <1>3, Marks DEF HeadInv
<1>7. /\ t \in DOMAIN R /\ R[t] = ViewRow(rows[t])
  BY <1>3, ViewIs
<1>8. View(rows') = Put(R, t, ViewRow(row))
  BY <1>4, ViewPut
<1>9. /\ row.registry = "cns" => rows[t].registry = "cns" /\ o # Null
      /\ row = Row(row.owner, row.registry, row.resolver, row.records)
      /\ row.owner = o
      /\ o = Null => row = Burnt
      /\ o # Null => /\ row.registry = rows[t].registry /\ row.resolver = rows[t].resolver
                     /\ row.records = IF rows[t].registry = "uns" THEN NoRecords
                                      ELSE rows[t].records
  BY DEF Left, Burnt, Row, None
<1> DEFINE S == Put(R, t, IF o = Null THEN Burnt ELSE Owned(R[t], o))
<1>10. Told(R, NoEvent, e) = S /\ Told(R, d, e) = S
  BY <1>5 DEF Told
<1>11. Legal(R, NoEvent, e) /\ Legal(R, d, e)
  BY <1>5, <1>7 DEF Legal
<1>12. Legal(R, NoEvent, d) /\ Told(R, NoEvent, d) = R
  BY <1>5 DEF Legal, Told
<1>13. t \in DOMAIN S /\ S[t] = IF o = Null THEN Burnt ELSE Owned(R[t], o)
  BY DEF Put
<1> HIDE DEF row, d, e, f, R, S
<1>14. HeadInv'
  <2>1. IsHeadRow(row, t, kept)
    BY <1>3, <1>9, LiveRow, EmptyRecords DEF IsHeadRow
  <2>2. ASSUME NEW a \in Owners, rev'[a] # None PROVE rev'[a] # t /\ rev'[a] = rev[a]
    <3>1. rev'[a] = rev[a] /\ (rev[a] = t => a # from)
      BY <1>2, <1>3, <2>2 DEF HeadInv
    <3>2. rev[a] = t => rows[t].owner = a
      BY <2>2, <3>1 DEF HeadInv
    <3> QED
      BY <3>1, <3>2
  <2>3. rev' = [a \in Owners |-> rev'[a]]
    BY <1>2 DEF HeadInv
  <2> QED
    BY <1>2, <1>4, <2>1, <2>2, <2>3, HeadKeptSame
<1>15. /\ Tells(R, ev, View(rows'))
       /\ \E j \in 1 .. Len(ev) : ev[j] = e
       /\ \A j \in 1 .. Len(ev) : ev[j] \in {d, e, f}
  <2>1. CASE rows[t].registry = "uns"
    <3>1. R[t] = rows[t] /\ ViewRow(row) = row
      <4>1. row.registry # "cns"
        BY <1>9, <2>1
      <4> QED
        BY <1>7, <2>1, <4>1, ViewRows
    <3>2. S[t].registry # "cns" /\ Recorded(S[t], NoRecords) = row
      BY <1>3, <1>9, <1>13, <2>1, <3>1 DEF Burnt, Owned, Recorded, Row, None
    <3>3. Legal(S, e, f)
      BY <1>5, <1>13, <3>2 DEF Legal
    <3>4. Told(S, e, f) = Put(R, t, row)
      BY <1>5, <3>2, PutTwice DEF Told, S
    <3>5. CASE rev[from] = t
      <4>1. ev = <<d, e, f>>
        <5>1. ev = <<d>> \o <<e>> \o <<f>>
          BY <1>1, <2>1, <3>5
        <5>2. <<d>> \o <<e>> = <<d, e>>
          BY PairOf
        <5>3. <<d, e>> \o <<f>> = <<d, e, f>>
          BY TripleOf
        <5> QED
          BY <5>1, <5>2, <5>3
      <4>2. Tells(R, <<d, e, f>>, Put(R, t, row))
        BY <1>10, <1>11, <1>12, <3>3, <3>4, TellsThree
      <4> QED
        BY <1>8, <3>1, <4>1, <4>2
    <3>6. CASE rev[from] # t
      <4>1. ev = <<e, f>>
        BY <1>1, <2>1, <3>6, NothingBefore, PairOf
      <4>2. Tells(R, <<e, f>>, Put(R, t, row))
        BY <1>10, <1>11, <3>3, <3>4, TellsTwo
      <4> QED
        BY <1>8, <3>1, <4>1, <4>2
    <3> QED
      BY <3>5, <3>6
  <2>2. CASE rows[t].registry = "cns"
    <3>1. ev = <<e>>
      BY <1>1, <1>6, <2>2, NothingBefore
    <3>2. S = Put(R, t, ViewRow(row))
      BY <1>7, <1>9, <2>2, ViewRows, RowIs DEF S, ViewRow, Owned
    <3>3. Tells(R, <<e>>, S)
      BY <1>10, <1>11, TellsOne
    <3> QED
      BY <1>8, <3>1, <3>2, <3>3
  <2> QED
    BY <1>3, <2>1, <2>2
<1>16. \A j \in 1 .. Len(ev) : /\ ev[j].type \notin {"NewURI", "Sync"}
                               /\ ~IsMint(ev[j])
  BY <1>5, <1>15, Marks DEF IsMint
<1>17. o = Null => \A K : Touches(e, t, K)
  BY <1>5 DEF Touches
<1>18. row.registry = "cns" => /\ OnCns(t) /\ row.resolver = rows[t].resolver
                               /\ row.records = rows[t].records
  BY <1>3, <1>9, LiveRow
<1>19. \/ o = Null
       \/ (IF row.registry = "cns" /\ row.owner # Null THEN row.resolver ELSE None)
            = ResolverOf(t)
  BY <1>3, <1>9, LiveRow DEF ResolverOf
<1>20. Moved(t, row, ev)
  BY <1>2, <1>4, <1>15, <1>16, <1>17, <1>18, <1>19 DEF Moved, R
<1> QED
  BY <1>14, <1>20

LEMMA TransferMoves ==
    ASSUME HeadInv, NEW t \in Tokens, NEW o \in Owners, Transfer(t, o)
    PROVE  HeadInv' /\ \E row, ev : Moved(t, row, ev)
<1>1. Live(t) /\ o # Null
  BY Marks DEF Transfer
<1>2. [rows[t] EXCEPT !.owner = o,
                      !.records = IF rows[t].registry = "uns" THEN NoRecords ELSE @]
        = Left(t, o)
  <2>1. PICK n, g, p, m : rows[t] = Row(n, g, p, m)
    BY <1>1, LiveRow
  <2> DEFINE A == [rows[t] EXCEPT !.owner = o]
             k == IF rows[t].registry = "uns" THEN NoRecords ELSE rows[t].records
  <2>2. [rows[t] EXCEPT !.owner = o,
                        !.records = IF rows[t].registry = "uns" THEN NoRecords ELSE @]
          = [A EXCEPT !.records = k]
    OBVIOUS
  <2>3. rows[t].registry = g /\ rows[t].resolver = p /\ rows[t].records = m
    BY <2>1 DEF Row
  <2>4. A = Row(o, g, p, m)
    BY <2>1 DEF Row
  <2> HIDE DEF A
  <2>5. [A EXCEPT !.records = k] = Row(o, g, p, k)
    BY <2>4 DEF Row
  <2> QED
    BY <1>1, <2>2, <2>3, <2>5 DEF Left
<1> QED
  BY <1>1, <1>2, LeaveMoves DEF Transfer

LEMMA BurnMoves ==
    ASSUME HeadInv, NEW t \in Tokens, Burn(t)
    PROVE  HeadInv' /\ \E row, ev : Moved(t, row, ev)
BY LeaveMoves DEF Burn, Left

LEMMA SetRecordMoves ==
    ASSUME HeadInv, NEW t \in Tokens, NEW k \in Keys, NEW v \in Values,
           SetRecord(t, k, v)
    PROVE  HeadInv' /\ \E row, ev : Moved(t, row, ev)
<1> DEFINE m   == Put(rows[t].records, k, v)
           row == Recorded(rows[t], m)
           e   == [type |-> "Set", token |-> t, key |-> k, value |-> v]
           R   == View(rows)
<1>1. /\ Live(t) /\ OnUns(t) /\ rev' = rev /\ kept' = kept
      /\ rows' = [rows EXCEPT ![t].records = m]
      /\ blocks' = Append(blocks, [events |-> <<e>>, after |-> RegistryState'])
  <2>1. [rows EXCEPT ![t].records = Put(@, k, v)] = [rows EXCEPT ![t].records = m]
    OBVIOUS
  <2> QED
    BY <2>1 DEF SetRecord, Mined, OnUns
<1>2. rows' = Put(rows, t, row)
  BY <1>1, RecordsChanged
<1>3. /\ t \in DOMAIN rows /\ rows[t].owner \in Owners /\ rows[t].registry = "uns"
      /\ rows[t].resolver = "uns" /\ IsRecords(rows[t].records)
  BY <1>1, LiveRow
<1>4. t \in DOMAIN R /\ R[t] = rows[t]
  BY <1>3, ViewIs, ViewRows, Marks
<1>5. IsRecords(m)
  BY <1>3, RecordsPut
<1>6. /\ e.type = "Set" /\ e.token = t /\ e.key = k /\ e.value = v
  OBVIOUS
<1>7. /\ row = Row(row.owner, row.registry, row.resolver, row.records)
      /\ row.owner = rows[t].owner /\ row.registry = "uns" /\ row.resolver = "uns"
      /\ row.records = m
  BY <1>3 DEF Recorded, Row
<1> HIDE DEF row, e, R
<1>8. Told(R, NoEvent, e) = Put(R, t, row)
  BY <1>4, <1>6 DEF Told, row
<1>9. Legal(R, NoEvent, e)
  BY <1>3, <1>4, <1>6, Marks DEF Legal
<1>10. View(rows') = Put(R, t, row)
  BY <1>2, <1>7, Marks, ViewPut, ViewRows DEF R
<1>11. HeadInv'
  <2>1. IsHeadRow(row, t, kept)
    BY <1>3, <1>5, <1>7, Marks DEF IsHeadRow
  <2>2. \A a \in Owners : rev[a] # None /\ rev[a] = t => row.owner = a
    BY <1>7 DEF HeadInv
  <2>3. rev' = [a \in Owners |-> rev'[a]]
    BY <1>1 DEF HeadInv
  <2> QED
    BY <1>1, <1>2, <1>7, <2>1, <2>2, <2>3, HeadKeptSame
<1>12. ResolverOf(t) = None
  BY <1>3, Marks DEF ResolverOf, OnCns
<1>13. OneEvent(t, row, e)
  BY <1>1, <1>2, <1>6, <1>7, <1>8, <1>9, <1>10, <1>12, Marks DEF OneEvent, R, IsMint
<1> QED
  BY <1>11, <1>13, OneEventMoves

LEMMA ResetRecordsMoves ==
    ASSUME HeadInv, NEW t \in Tokens, ResetRecords(t)
    PROVE  HeadInv' /\ \E row, ev : Moved(t, row, ev)
<1> DEFINE row == Recorded(rows[t], NoRecords)
           e   == TokenEvent("ResetRecords", t)
           R   == View(rows)
<1>1. /\ Live(t) /\ OnUns(t) /\ rev' = rev /\ kept' = kept
      /\ rows' = [rows EXCEPT ![t].records = NoRecords]
      /\ blocks' = Append(blocks, [events |-> <<e>>, after |-> RegistryState'])
  BY DEF ResetRecords, Mined, OnUns
<1>2. rows' = Put(rows, t, row)
  BY <1>1, RecordsChanged
<1>3. /\ t \in DOMAIN rows /\ rows[t].owner \in Owners /\ rows[t].registry = "uns"
      /\ rows[t].resolver = "uns"
  BY <1>1, LiveRow
<1>4. t \in DOMAIN R /\ R[t] = rows[t]
  BY <1>3, ViewIs, ViewRows, Marks
<1>5. e.type = "ResetRecords" /\ e.token = t
  BY DEF TokenEvent
<1>6. /\ row = Row(row.owner, row.registry, row.resolver, row.records)
      /\ row.owner = rows[t].owner /\ row.registry = "uns" /\ row.resolver = "uns"
      /\ row.records = NoRecords
  BY <1>3 DEF Recorded, Row
<1> HIDE DEF row, e, R
<1>7. Told(R, NoEvent, e) = Put(R, t, row)
  BY <1>4, <1>5 DEF Told, row
<1>8. Legal(R, NoEvent, e)
  BY <1>3, <1>4, <1>5, Marks DEF Legal
<1>9. View(rows') = Put(R, t, row)
  BY <1>2, <1>6, Marks, ViewPut, ViewRows DEF R
<1>10. HeadInv'
  <2>1. IsHeadRow(row, t, kept)
    BY <1>3, <1>6, EmptyRecords, Marks DEF IsHeadRow
  <2>2. \A a \in Owners : rev[a] # None /\ rev[a] = t => row.owner = a
    BY <1>6 DEF HeadInv
  <2>3. rev' = [a \in Owners |-> rev'[a]]
    BY <1>1 DEF HeadInv
  <2> QED
    BY <1>1, <1>2, <1>6, <2>1, <2>2, <2>3, HeadKeptSame
<1>11. ResolverOf(t) = None
  BY <1>3, Marks DEF ResolverOf, OnCns
<1>12. OneEvent(t, row, e)
  BY <1>1, <1>2, <1>5, <1>6, <1>7, <1>8, <1>9, <1>11, Marks DEF OneEvent, R, IsMint
<1> QED
  BY <1>10, <1>12, OneEventMoves

\* A block that changes no row.
LEMMA NoRowMoves ==
    ASSUME HeadInv, NEW t \in DOMAIN rows, rows[t].registry # "cns", NEW e, rows' = rows,
           blocks' = Append(blocks, [events |-> <<e>>, after |-> RegistryState']),
           Legal(View(rows), NoEvent, e),
           e.type \in {"SetReverse", "RemoveReverse"}
    PROVE  \E row, ev : Moved(t, row, ev)
<1>1. rows' = Put(rows, t, rows[t]) /\ t \in Tokens
  BY PutSelf DEF HeadInv
<1>2. Told(View(rows), NoEvent, e) = View(rows')
  BY DEF Told
<1>3. ResolverOf(t) = None
  BY DEF ResolverOf, OnCns
<1>4. e.type # "NewURI" /\ ~IsMint(e) /\ e.type # "Sync"
  BY DEF IsMint
<1>5. OneEvent(t, rows[t], e)
  BY <1>1, <1>2, <1>3, <1>4 DEF OneEvent
<1> QED
  BY <1>5, OneEventMoves

LEMMA SetReverseMoves ==
    ASSUME HeadInv, NEW t \in Tokens, SetReverse(t)
    PROVE  HeadInv' /\ \E row, ev : Moved(t, row, ev)
<1> DEFINE a == rows[t].owner
           e == [type |-> "SetReverse", token |-> t, addr |-> a]
<1>1. /\ Live(t) /\ OnUns(t) /\ rows' = rows /\ kept' = kept
      /\ rev' = [rev EXCEPT ![a] = t]
      /\ blocks' = Append(blocks, [events |-> <<e>>, after |-> RegistryState'])
  BY DEF SetReverse, Mined, OnUns
<1>2. t \in DOMAIN rows /\ a \in Owners /\ rows[t].registry = "uns"
  BY <1>1, LiveRow
<1>3. e.type = "SetReverse" /\ e.token = t /\ e.addr = a
  OBVIOUS
<1>4. t \in DOMAIN View(rows)
  BY <1>2, ViewIs
<1> HIDE DEF e
<1>5. Legal(View(rows), NoEvent, e)
  BY <1>2, <1>3, <1>4 DEF Legal
<1>6. \E row, ev : Moved(t, row, ev)
  BY <1>1, <1>2, <1>3, <1>5, NoRowMoves, Marks
<1>7. HeadInv'
  BY <1>1, <1>2 DEF HeadInv
<1> QED
  BY <1>6, <1>7

LEMMA RemoveReverseMoves ==
    ASSUME HeadInv, NEW a \in Owners, RemoveReverse(a)
    PROVE  HeadInv' /\ \E t, row, ev : Moved(t, row, ev)
<1> DEFINE e == RemoveReverseEvent(a)
           t == rev[a]
<1>1. /\ rev[a] # None /\ rows' = rows /\ kept' = kept
      /\ rev' = [rev EXCEPT ![a] = None]
      /\ blocks' = Append(blocks, [events |-> <<e>>, after |-> RegistryState'])
  BY DEF RemoveReverse, Mined
<1>2. t \in DOMAIN rows /\ rows[t].registry = "uns"
  BY <1>1 DEF HeadInv
<1>3. e.type = "RemoveReverse"
  BY DEF RemoveReverseEvent
<1> HIDE DEF e
<1>4. Legal(View(rows), NoEvent, e)
  BY <1>3 DEF Legal
<1>5. \E row, ev : Moved(t, row, ev)
  BY <1>1, <1>2, <1>3, <1>4, NoRowMoves, Marks
<1>6. HeadInv'
  BY <1>1 DEF HeadInv
<1> QED
  BY <1>5, <1>6

\* Event e tells that token t has resolver r, or some of the records m.
CnsTold(t, r, m, e) ==
    /\ e.token = t
    /\ \/ e.type = "Resolve"
       \/ /\ e.type = "Sync" /\ e.updateId \in Keys \cup {0} /\ r = rows[t].resolver
          /\ e.updateId = 0 => m = NoRecords
          /\ \A k \in DOMAIN m :
               \/ k = e.updateId
               \/ k \in DOMAIN rows[t].records /\ m[k] = rows[t].records[k]

\* A block with one event of a CNS token, whose row changes but for its owner.
LEMMA CnsMoves ==
    ASSUME HeadInv, NEW t \in Tokens, OnCns(t), NEW r, NEW m, NEW e,
           rows' = Put(rows, t, Row(rows[t].owner, "cns", r, m)),
           blocks' = Append(blocks, [events |-> <<e>>, after |-> RegistryState']),
           CnsTold(t, r, m, e)
    PROVE  \E row, ev : Moved(t, row, ev)
<1> DEFINE row == Row(rows[t].owner, "cns", r, m)
           R   == View(rows)
<1>1. /\ t \in DOMAIN rows /\ rows[t].owner \in Owners /\ rows[t].registry = "cns"
  BY LiveRow DEF OnCns
<1>2. /\ row.owner = rows[t].owner /\ row.registry = "cns" /\ row.resolver = r
      /\ row.records = m
  BY DEF Row
<1>3. ViewRow(row) = ViewRow(rows[t])
  BY <1>1, <1>2 DEF ViewRow
<1>4. t \in DOMAIN R /\ R[t] = ViewRow(row) /\ R = [x \in DOMAIN R |-> R[x]]
  BY <1>1, <1>3, ViewIs
<1>5. View(rows') = R
  BY <1>4, ViewPut, PutSelf
<1>6. Legal(R, NoEvent, e) /\ Told(R, NoEvent, e) = R
  <2>1. R[t].registry = "cns"
    BY <1>2, <1>4, ViewRows
  <2> HIDE DEF R
  <2> QED
    BY <1>4, <2>1 DEF Legal, Told, CnsTold
<1>7. e.type # "NewURI" /\ ~IsMint(e)
  BY DEF IsMint, CnsTold
<1>8. e.type = "Resolve" => Touches(e, t, {}) /\ \A k : Touches(e, t, {k, 0})
  BY DEF Touches, CnsTold
<1>9. ResolverOf(t) = rows[t].resolver
  BY DEF ResolverOf
<1>10. \A k \in DOMAIN m : e.type = "Sync" /\ k = e.updateId => Touches(e, t, {k, 0})
  BY DEF Touches, CnsTold
<1>11. rows' = Put(rows, t, row)
  OBVIOUS
<1>12. /\ e.type = "Resolve" \/ row.resolver = rows[t].resolver
       /\ \A k \in DOMAIN row.records :
            \/ Touches(e, t, {k, 0})
            \/ /\ k \in DOMAIN rows[t].records
               /\ row.records[k] = rows[t].records[k]
  BY <1>2, <1>8, <1>10 DEF CnsTold
<1>13. e.type = "Sync" /\ e.updateId = 0 => DOMAIN row.records = {}
  BY <1>2, EmptyRecords DEF CnsTold
<1> HIDE DEF row, R
<1>14. Legal(View(rows), NoEvent, e) /\ Told(View(rows), NoEvent, e) = View(rows')
  BY <1>5, <1>6 DEF R
<1>15. \/ Touches(e, t, {})
       \/ (IF row.registry = "cns" /\ row.owner # Null THEN row.resolver ELSE None)
            = ResolverOf(t)
  BY <1>1, <1>2, <1>8, <1>9, <1>12, Marks DEF CnsTold
<1>16. Touches(e, t, {}) \/ row.resolver = rows[t].resolver
  BY <1>8, <1>12
<1>17. OneEvent(t, row, e)
  BY <1>7, <1>11, <1>12, <1>13, <1>14, <1>15, <1>16 DEF OneEvent, CnsTold
<1> QED
  BY <1>17, OneEventMoves

LEMMA ResolveToMoves ==
    ASSUME HeadInv, NEW t \in Tokens, NEW r \in Resolvers, ResolveTo(t, r)
    PROVE  HeadInv' /\ \E row, ev : Moved(t, row, ev)
<1> DEFINE m   == kept[r][t]
           row == Row(rows[t].owner, "cns", r, m)
           e   == TokenEvent("Resolve", t)
<1>1. /\ Live(t) /\ OnCns(t) /\ rev' = rev /\ kept' = kept
      /\ rows' = [rows EXCEPT ![t].resolver = r, ![t].records = m]
      /\ blocks' = Append(blocks, [events |-> <<e>>, after |-> RegistryState'])
  BY DEF ResolveTo, Mined, OnCns
<1>2. t \in DOMAIN rows /\ rows[t].owner \in Owners /\ rows[t].registry = "cns"
  BY <1>1, LiveRow
<1>3. rows' = Put(rows, t, row)
  <2>1. row = Row(rows[t].owner, rows[t].registry, r, m)
    BY <1>2
  <2> HIDE DEF row, m
  <2>2. rows' = Put(rows, t, Row(rows[t].owner, rows[t].registry, r, m))
    BY <1>1, ResolverChanged
  <2> QED
    BY <2>1, <2>2
<1>4. e.type = "Resolve" /\ e.token = t
  BY DEF TokenEvent
<1>5. \E w, ev : Moved(t, w, ev)
  <2>1. CnsTold(t, r, m, e)
    BY <1>4 DEF CnsTold
  <2> QED
    BY <1>1, <1>3, <2>1, CnsMoves
<1>6. HeadInv'
  <2>1. IsHeadRow(row, t, kept)
    <3>1. IsRecords(m)
      BY DEF HeadInv
    <3>2. /\ row = Row(row.owner, row.registry, row.resolver, row.records)
          /\ row.owner \in Owners /\ row.registry = "cns" /\ row.resolver = r
          /\ row.records = m
      BY <1>2 DEF Row
    <3> QED
      BY <1>1, <3>1, <3>2, Marks DEF IsHeadRow
  <2>2. \A a \in Owners : rev[a] # None => rev[a] # t
    BY <1>2, Marks DEF HeadInv
  <2>3. rev' = [a \in Owners |-> rev'[a]]
    BY <1>1 DEF HeadInv
  <2> HIDE DEF row
  <2> QED
    BY <1>1, <1>3, <2>1, <2>2, <2>3, HeadKeptSame
<1> QED
  BY <1>5, <1>6

LEMMA WriteMoves ==
    ASSUME HeadInv, NEW t \in Tokens, NEW m, IsRecords(m), NEW u \in Keys \cup {0},
           u = 0 => m = NoRecords,
           \A k \in DOMAIN m :
              k = u \/ (k \in DOMAIN rows[t].records /\ m[k] = rows[t].records[k]),
           Write(t, m, u)
    PROVE  HeadInv' /\ \E row, ev : Moved(t, row, ev)
<1> DEFINE r   == rows[t].resolver
           row == Row(rows[t].owner, "cns", r, m)
           e   == [type |-> "Sync", token |-> t, updateId |-> u]
<1>1. /\ Live(t) /\ OnCns(t) /\ rev' = rev /\ r # None
      /\ kept' = [kept EXCEPT ![r][t] = m]
      /\ rows' = [rows EXCEPT ![t].records = m]
      /\ blocks' = Append(blocks, [events |-> <<e>>, after |-> RegistryState'])
  BY DEF Write, Mined, OnCns
<1>2. /\ t \in DOMAIN rows /\ rows[t].owner \in Owners /\ rows[t].registry = "cns"
      /\ Resolvers # {} /\ r \in Resolvers
  BY <1>1, LiveRow, Marks
<1>3. rows' = Put(rows, t, row)
  BY <1>1, <1>2, RecordsChanged DEF Recorded
<1>4. e.type = "Sync" /\ e.token = t /\ e.updateId = u
  OBVIOUS
<1>5. \E w, ev : Moved(t, w, ev)
  <2> HIDE DEF e
  <2>1. CnsTold(t, r, m, e)
    BY <1>4 DEF CnsTold
  <2> QED
    BY <1>1, <1>3, <2>1, CnsMoves
<1>6. /\ kept' = [s \in Resolvers |-> [x \in Tokens |-> kept'[s][x]]]
      /\ \A s \in Resolvers, x \in Tokens :
            kept'[s][x] = IF s = r /\ x = t THEN m ELSE kept[s][x]
  <2>1. kept = [s \in Resolvers |-> [x \in Tokens |-> kept[s][x]]]
    BY DEF HeadInv
  <2>2. kept' = [s \in Resolvers |-> [x \in Tokens |->
                   IF s = r /\ x = t THEN m ELSE kept[s][x]]]
    BY <1>1, <1>2, <2>1, ZenonT(60)
  <2> QED
    BY <2>2
<1>7. HeadInv'
  <2>1. IsHeadRow(row, t, kept')
    <3>1. /\ row = Row(row.owner, row.registry, row.resolver, row.records)
          /\ row.owner \in Owners /\ row.registry = "cns" /\ row.resolver = r
          /\ row.records = m
      BY <1>2 DEF Row
    <3>2. kept'[r][t] = m
      BY <1>2, <1>6
    <3> HIDE DEF row
    <3> QED
      BY <1>2, <3>1, <3>2, Marks DEF IsHeadRow
  <2>2. \A a \in Owners : rev[a] # None => rev[a] # t
    BY <1>2, Marks DEF HeadInv
  <2>3. \A s \in Resolvers : IsRecords(kept'[s][t])
    BY <1>6 DEF HeadInv
  <2>4. rev' = [a \in Owners |-> rev'[a]]
    BY <1>1 DEF HeadInv
  <2> HIDE DEF row
  <2>5. \A s \in Resolvers : \A x \in Tokens : x # t => kept'[s][x] = kept[s][x]
    BY <1>6
  <2>6. \A a \in Owners : rev'[a] # None => rev'[a] # t /\ rev'[a] = rev[a]
    BY <1>1, <2>2
  <2> QED
    BY <1>3, <1>6, <2>1, <2>3, <2>4, <2>5, <2>6, HeadKept
<1> QED
  BY <1>5, <1>7

LEMMA SyncMoves ==
    ASSUME HeadInv, NEW t \in Tokens,
           \/ SyncReset(t)
           \/ \E k \in Keys, v \in Values : SyncKey(t, k, v)
    PROVE  HeadInv' /\ \E row, ev : Moved(t, row, ev)
<1>1. CASE SyncReset(t)
  BY <1>1, EmptyRecords, WriteMoves DEF SyncReset
<1>2. ASSUME NEW k \in Keys, NEW v \in Values, SyncKey(t, k, v)
      PROVE  HeadInv' /\ \E row, ev : Moved(t, row, ev)
  <2> DEFINE m == Put(rows[t].records, k, v)
  <2>1. Live(t) /\ Write(t, m, k) /\ k # 0
    BY <1>2, UnsWorkerAssumption DEF SyncKey, Write, OnCns
  <2>2. /\ IsRecords(m) /\ DOMAIN m = DOMAIN rows[t].records \cup {k}
        /\ \A x \in DOMAIN rows[t].records : x # k => m[x] = rows[t].records[x]
    BY <2>1, LiveRow, RecordsPut
  <2> HIDE DEF m
  <2>3. \A x \in DOMAIN m :
          x = k \/ (x \in DOMAIN rows[t].records /\ m[x] = rows[t].records[x])
    BY <2>2
  <2> QED
    BY <2>1, <2>2, <2>3, WriteMoves
<1> QED
  BY <1>1, <1>2

\* Every block moves one token.
LEMMA RegistryMoves ==
    ASSUME HeadInv, RegistryStep
    PROVE  HeadInv' /\ \E t, row, ev : Moved(t, row, ev)
<1>1. CASE \E t \in Tokens, o \in Owners : \/ Mint(t, o, "uns")
                                           \/ Resolvers # {} /\ Mint(t, o, "cns")
  BY <1>1, MintMoves
<1>2. CASE \E t \in Tokens, o \in Owners : Transfer(t, o)
  BY <1>2, TransferMoves
<1>3. CASE \E t \in Tokens : Burn(t)
  BY <1>3, BurnMoves
<1>4. CASE \E t \in Tokens : \E k \in Keys, v \in Values : SetRecord(t, k, v)
  BY <1>4, SetRecordMoves
<1>5. CASE \E t \in Tokens : ResetRecords(t)
  BY <1>5, ResetRecordsMoves
<1>6. CASE \E t \in Tokens : SetReverse(t)
  BY <1>6, SetReverseMoves
<1>7. CASE \E t \in Tokens : \/ SyncReset(t)
                             \/ \E k \in Keys, v \in Values : SyncKey(t, k, v)
  BY <1>7, SyncMoves
<1>8. CASE \E t \in Tokens, r \in Resolvers : ResolveTo(t, r)
  BY <1>8, ResolveToMoves
<1>9. CASE \E a \in Owners : RemoveReverse(a)
  BY <1>9, RemoveReverseMoves
<1> QED
  BY <1>1, <1>2, <1>3, <1>4, <1>5, <1>6, <1>7, <1>8, <1>9 DEF RegistryStep

-----------------------------------------------------------------------------
(* A block more *)

\* No event of ev changes the resolver of x, or a record whose key is in K.
Untouched(ev, x, K) == \A j \in 1 .. Len(ev) : ~Touches(ev[j], x, K)

\* B has the blocks A and one more, with the events ev.
OneMore(A, B, ev) ==
    /\ Len(A) \in Nat /\ Len(B) = Len(A) + 1
    /\ B = [n \in 1 .. Len(B) |-> B[n]]
    /\ B[Len(A) + 1].events = ev
    /\ \A n \in 1 .. Len(A) : B[n] = A[n]

LEMMA BlockMined ==
    ASSUME BlocksInv, NEW ev,
           blocks' = Append(blocks, [events |-> ev, after |-> RegistryState'])
    PROVE  OneMore(blocks, blocks', ev) /\ blocks'[Len(blocks) + 1].after = RegistryState'
<1> DEFINE L == Len(blocks)
           b == [events |-> ev, after |-> RegistryState']
           S == {blocks[n] : n \in 1 .. L} \cup {b}
<1>1. L \in Nat /\ blocks = [n \in 1 .. L |-> blocks[n]]
  BY DEF BlocksInv
<1>2. blocks \in [1 .. L -> S]
  BY <1>1
<1>3. blocks \in Seq(S)
  BY <1>1, <1>2, SeqDef
<1>4. blocks' = Append(blocks, b) /\ b \in S
  OBVIOUS
<1> HIDE DEF S
<1>5. /\ blocks' \in Seq(S) /\ Len(blocks') = L + 1
      /\ blocks'[L + 1] = b
      /\ \A n \in 1 .. L : blocks'[n] = blocks[n]
  BY <1>3, <1>4, AppendProperties
<1>6. blocks' = [n \in 1 .. Len(blocks') |-> blocks'[n]]
  BY <1>5
<1>7. b.events = ev /\ b.after = RegistryState'
  OBVIOUS
<1> HIDE DEF b
<1> QED
  BY <1>1, <1>5, <1>6, <1>7 DEF OneMore

LEMMA BlockAdded ==
    ASSUME BlocksInv, NEW t, NEW row, NEW ev, Moved(t, row, ev)
    PROVE  OneMore(blocks, blocks', ev) /\ blocks'[Len(blocks) + 1].after = RegistryState'
BY BlockMined DEF Moved

LEMMA StatesKept ==
    ASSUME NEW A, NEW B, NEW ev, OneMore(A, B, ev)
    PROVE  /\ \A n \in 0 .. Len(A) : StateAfter(B, n) = StateAfter(A, n)
           /\ \A n \in 0 .. Len(A) - 1 : \A i : RowsAt(B, n, i) = RowsAt(A, n, i)
<1>1. \A n \in 0 .. Len(A) : n = 0 \/ n \in 1 .. Len(A)
  BY DEF OneMore
<1>2. \A n \in 0 .. Len(A) - 1 : n \in 0 .. Len(A) /\ n + 1 \in 1 .. Len(A)
  BY DEF OneMore
<1>3. \A n \in 0 .. Len(A) : StateAfter(B, n) = StateAfter(A, n)
  BY <1>1 DEF StateAfter, OneMore
<1>4. ASSUME NEW n \in 0 .. Len(A) - 1, NEW i PROVE RowsAt(B, n, i) = RowsAt(A, n, i)
  BY <1>2, <1>3 DEF RowsAt, OneMore
<1> QED
  BY <1>3, <1>4

LEMMA BlocksKept ==
    ASSUME BlocksInv, NEW t, NEW row, NEW ev, Moved(t, row, ev), HeadInv'
    PROVE  BlocksInv'
<1> DEFINE L == Len(blocks)
<1>1. OneMore(blocks, blocks', ev) /\ blocks'[L + 1].after = RegistryState'
  BY BlockAdded
<1>2. /\ \A n \in 0 .. L : StateAfter(blocks', n) = StateAfter(blocks, n)
      /\ StateAfter(blocks', L + 1) = RegistryState'
      /\ L \in Nat /\ Len(blocks') = L + 1
  BY <1>1, StatesKept DEF StateAfter, OneMore
<1>3. RegistryState.rows = rows /\ RegistryState'.rows = rows'
  BY DEF RegistryState
<1>4. ASSUME NEW n \in 0 .. Len(blocks'), NEW R, R = StateAfter(blocks', n).rows
      PROVE  /\ R = [x \in DOMAIN R |-> R[x]]
             /\ \A x \in DOMAIN R : R[x].registry = "cns" => Resolvers # {}
  <2>1. CASE n \in 0 .. L
    BY <1>2, <1>4, <2>1 DEF BlocksInv
  <2>2. CASE n = L + 1
    <3>1. R = rows'
      BY <1>2, <1>3, <1>4, <2>2
    <3>2. ASSUME NEW x \in DOMAIN rows', rows'[x].registry = "cns"
          PROVE  Resolvers # {}
      <4>1. IsHeadRow(rows'[x], x, kept') /\ rows'[x] # Burnt
        BY <3>2 DEF HeadInv, Burnt, Row, None
      <4> QED
        BY <3>2, <4>1 DEF IsHeadRow
    <3> QED
      BY <3>1, <3>2 DEF HeadInv
  <2> QED
    BY <1>2, <2>1, <2>2
<1>5. ASSUME NEW n \in 0 .. Len(blocks') - 1
      PROVE  Tells(View(StateAfter(blocks', n).rows), blocks'[n + 1].events,
                   View(StateAfter(blocks', n + 1).rows))
  <2>1. CASE n \in 0 .. L - 1
    <3>1. n \in 0 .. L /\ n + 1 \in 0 .. L /\ n + 1 \in 1 .. L
      BY <1>2, <2>1
    <3> QED
      BY <1>1, <1>2, <2>1, <3>1 DEF BlocksInv, OneMore
  <2>2. CASE n = L
    <3>1. StateAfter(blocks', n) = RegistryState
      BY <1>2, <2>2 DEF BlocksInv
    <3> QED
      BY <1>1, <1>2, <1>3, <2>2, <3>1 DEF OneMore, Moved
  <2> QED
    BY <1>2, <2>1, <2>2
<1>6. StateAfter(blocks', Len(blocks')) = RegistryState'
  BY <1>2
<1>7. Len(blocks') \in Nat /\ blocks' = [n \in 1 .. Len(blocks') |-> blocks'[n]]
  BY <1>1, <1>2 DEF OneMore
<1> QED
  BY <1>4, <1>5, <1>6, <1>7 DEF BlocksInv

LEMMA RestsBefore ==
    ASSUME NEW A, NEW B, NEW ev, OneMore(A, B, ev), NEW x, NEW K,
           NEW n \in 0 .. Len(A), NEW i \in Nat, n = Len(A) => i = 0,
           Rests(B, x, K, n, i)
    PROVE  Rests(A, x, K, n, i) /\ Untouched(ev, x, K)
<1>1. Rests(A, x, K, n, i)
  <2> SUFFICES ASSUME NEW p \in 1 .. Len(A), NEW j \in 1 .. Len(A[p].events),
                      p > n + 1 \/ (p = n + 1 /\ j > i)
               PROVE  ~Touches(A[p].events[j], x, K)
    BY DEF Rests
  <2>1. p \in 1 .. Len(B) /\ B[p] = A[p]
    BY DEF OneMore
  <2> QED
    BY <2>1 DEF Rests
<1>2. ASSUME NEW j \in 1 .. Len(ev) PROVE ~Touches(ev[j], x, K)
  <2> DEFINE p == Len(A) + 1
  <2>1. p \in 1 .. Len(B) /\ B[p].events = ev
    BY DEF OneMore
  <2>2. p > n + 1 \/ (p = n + 1 /\ j > i)
    BY DEF OneMore
  <2> QED
    BY <2>1, <2>2 DEF Rests
<1> QED
  BY <1>1, <1>2 DEF Untouched

\* Fewer events touch fewer keys.
LEMMA RestsLess ==
    ASSUME NEW B, NEW x, NEW K, NEW n, NEW i, Rests(B, x, K, n, i)
    PROVE  Rests(B, x, {}, n, i)
BY DEF Rests, Touches

\* What a block leaves of the row of a CNS token.
LEMMA HeadMoved ==
    ASSUME NEW t, NEW row, NEW ev, Moved(t, row, ev), HeadInv, NEW x
    PROVE  /\ Untouched(ev, x, {}) => ResolverIn(rows', x) = ResolverIn(rows, x)
           /\ Untouched(ev, x, {}) /\ IsCns(rows', x) =>
                IsCns(rows, x) /\ rows'[x].resolver = rows[x].resolver
           /\ \A k : Untouched(ev, x, {k, 0}) /\ IsCns(rows', x) =>
                /\ IsCns(rows, x)
                /\ k \in DOMAIN rows'[x].records =>
                     /\ k \in DOMAIN rows[x].records
                     /\ rows'[x].records[k] = rows[x].records[k]
<1>1. /\ DOMAIN rows' = DOMAIN rows \cup {t} /\ rows'[t] = row
      /\ \A y \in DOMAIN rows : y # t => rows'[y] = rows[y]
  BY DEF Moved, Put
<1>2. CASE x # t
  <2>1. x \in DOMAIN rows' <=> x \in DOMAIN rows
    BY <1>1, <1>2
  <2> QED
    BY <1>1, <1>2, <2>1 DEF IsCns, ResolverIn
<1>3. CASE x = t
  <2>1. OnCns(x) <=> IsCns(rows, x)
    BY DEF OnCns, Live, IsCns
  <2>2. IsCns(rows', x) <=> row.registry = "cns" /\ row.owner # Null
    BY <1>1, <1>3 DEF IsCns
  <2>3. ResolverOf(x) = ResolverIn(rows, x)
    BY <2>1 DEF ResolverIn, ResolverOf
  <2>4. \A K : Untouched(ev, x, K) => Untouched(ev, x, {})
    BY DEF Untouched, Touches
  <2>5. Untouched(ev, x, {}) => ResolverIn(rows', x) = ResolverIn(rows, x)
    BY <1>1, <1>3, <2>2, <2>3 DEF ResolverIn, Untouched, Moved
  <2>6. ASSUME Untouched(ev, x, {}), IsCns(rows', x)
        PROVE  IsCns(rows, x) /\ rows'[x].resolver = rows[x].resolver
    BY <1>1, <1>3, <2>1, <2>2, <2>6 DEF Untouched, Moved
  <2>7. ASSUME NEW k, Untouched(ev, x, {k, 0}), IsCns(rows', x), k \in DOMAIN rows'[x].records
        PROVE  k \in DOMAIN rows[x].records /\ rows'[x].records[k] = rows[x].records[k]
    BY <1>1, <1>3, <2>2, <2>7 DEF Untouched, Moved
  <2> QED
    BY <2>4, <2>5, <2>6, <2>7
<1> QED
  BY <1>2, <1>3

LEMMA FreshKept ==
    ASSUME HeadInv, BlocksInv, FreshInv, NEW t, NEW row, NEW ev, Moved(t, row, ev)
    PROVE  FreshInv'
<1> DEFINE L == Len(blocks)
<1>1. OneMore(blocks, blocks', ev) /\ L \in Nat /\ Len(blocks') = L + 1
  BY BlockAdded DEF OneMore
<1>2. SUFFICES ASSUME NEW n \in 0 .. Len(blocks') - 1,
                      NEW j \in 1 .. Len(blocks'[n + 1].events),
                      NEW e, e = blocks'[n + 1].events[j],
                      NEW x, x = e.token, IsCns(rows', x)
               PROVE  /\ e.type = "NewURI" \/ IsMint(e) =>
                           (Rests(blocks', x, {}, n, j) => rows'[x].resolver = None)
                      /\ e.type = "Sync" /\ e.updateId = 0 =>
                           \A k \in DOMAIN rows'[x].records :
                               ~Rests(blocks', x, {k, 0}, n, j)
  BY DEF FreshInv
<1>3. CASE n \in 0 .. L - 1
  <2>1. /\ n + 1 \in 1 .. L /\ n \in 0 .. L /\ n # L /\ j \in Nat
        /\ e = blocks[n + 1].events[j] /\ j \in 1 .. Len(blocks[n + 1].events)
    BY <1>1, <1>2, <1>3 DEF OneMore
  <2>2. \A K : Rests(blocks', x, K, n, j) => Rests(blocks, x, K, n, j) /\ Untouched(ev, x, K)
    BY <1>1, <2>1, RestsBefore
  <2>3. IsCns(rows, x) /\ (e.type = "NewURI" \/ IsMint(e)) /\ Rests(blocks, x, {}, n, j)
          => rows[x].resolver = None
    BY <1>2, <1>3, <2>1 DEF FreshInv
  <2>4. IsCns(rows, x) /\ e.type = "Sync" /\ e.updateId = 0
          => \A k \in DOMAIN rows[x].records : ~Rests(blocks, x, {k, 0}, n, j)
    BY <1>2, <1>3, <2>1 DEF FreshInv
  <2>5. Untouched(ev, x, {}) => IsCns(rows, x) /\ rows'[x].resolver = rows[x].resolver
    BY <1>2, HeadMoved
  <2>6. ASSUME NEW k \in DOMAIN rows'[x].records, Untouched(ev, x, {k, 0})
        PROVE  IsCns(rows, x) /\ k \in DOMAIN rows[x].records
    BY <1>2, <2>6, HeadMoved
  <2> QED
    BY <2>2, <2>3, <2>4, <2>5, <2>6, Zenon
<1>4. CASE n = L
  <2>1. e = ev[j] /\ j \in 1 .. Len(ev)
    BY <1>1, <1>2, <1>4 DEF OneMore
  <2>2. rows'[t] = row
    BY DEF Moved, Put
  <2>3. /\ e.type = "NewURI" \/ IsMint(e) =>
             x = t /\ (row.registry = "cns" => row.resolver = None)
        /\ e.type = "Sync" /\ e.updateId = 0 => x = t /\ DOMAIN row.records = {}
    BY <1>2, <2>1 DEF Moved
  <2> QED
    BY <1>2, <2>2, <2>3 DEF IsCns
<1>5. n \in 0 .. L - 1 \/ n = L
  BY <1>1
<1> QED
  BY <1>3, <1>4, <1>5, Zenon

\* The copy d of the tables, which has the first i events of its next block.
LEMMA MirrorsKept ==
    ASSUME HeadInv, BlocksInv, NEW t, NEW row, NEW ev, Moved(t, row, ev),
           NEW d, d.block \in 0 .. Len(blocks), NEW i \in Nat,
           d.block = Len(blocks) => i = 0,
           Mirrors(rows, blocks, d, i)
    PROVE  Mirrors(rows', blocks', d, i)
<1>1. OneMore(blocks, blocks', ev) /\ Len(blocks) \in Nat
  BY BlockAdded DEF OneMore
<1>2. RowsAt(blocks', d.block, i) = RowsAt(blocks, d.block, i)
  <2>1. CASE d.block \in 0 .. Len(blocks) - 1
    BY <1>1, <2>1, StatesKept
  <2>2. CASE d.block = Len(blocks)
    BY <1>1, <2>2, StatesKept DEF RowsAt, RowsAfter
  <2> QED
    BY <1>1, <2>1, <2>2
<1>3. ASSUME NEW x \in DOMAIN d.tables.rows \ d.lost
      PROVE  RowUpToHead(rows', blocks', d.tables.rows[x], x, d.block, i)
  <2> DEFINE r == d.tables.rows[x]
  <2>1. RowUpToHead(rows, blocks, r, x, d.block, i)
    BY DEF Mirrors, UpToHead
  <2>2. \A K : Rests(blocks', x, K, d.block, i) =>
            Rests(blocks, x, K, d.block, i) /\ Untouched(ev, x, K)
    BY <1>1, RestsBefore
  <2> HIDE DEF r
  <2>3. SUFFICES ASSUME r.registry = "cns", IsCns(rows', x)
                 PROVE  /\ Rests(blocks', x, {}, d.block, i) => r.resolver = rows'[x].resolver
                        /\ \A k \in DOMAIN rows'[x].records :
                             Rests(blocks', x, {k, 0}, d.block, i) =>
                                 k \in DOMAIN r.records /\ r.records[k] = rows'[x].records[k]
    BY DEF RowUpToHead, r
  <2>4. Rests(blocks', x, {}, d.block, i) => r.resolver = rows'[x].resolver
    BY <2>1, <2>2, <2>3, HeadMoved DEF RowUpToHead
  <2>5. ASSUME NEW k \in DOMAIN rows'[x].records, Rests(blocks', x, {k, 0}, d.block, i)
        PROVE  k \in DOMAIN r.records /\ r.records[k] = rows'[x].records[k]
    <3>1. Rests(blocks, x, {k, 0}, d.block, i) /\ Untouched(ev, x, {k, 0})
      BY <2>2, <2>5
    <3>2. /\ IsCns(rows, x) /\ k \in DOMAIN rows[x].records
          /\ rows'[x].records[k] = rows[x].records[k]
      BY <2>3, <2>5, <3>1, HeadMoved
    <3> QED
      BY <2>1, <2>3, <3>1, <3>2 DEF RowUpToHead
  <2> QED
    BY <2>4, <2>5
<1> QED
  BY <1>2, <1>3 DEF Mirrors, UpToHead

LEMMA RegistryKeeps ==
    ASSUME UnsInv, RegistryStep, UNCHANGED workerVars
    PROVE  UnsInv'
<1>1. PICK t, row, ev : Moved(t, row, ev)
  BY RegistryMoves DEF UnsInv
<1>2. HeadInv' /\ BlocksInv' /\ FreshInv'
  BY <1>1, RegistryMoves, BlocksKept, FreshKept DEF UnsInv
<1>3. OneMore(blocks, blocks', ev) /\ Len(blocks) \in Nat
  BY <1>1, BlockAdded DEF OneMore, UnsInv
<1>4. db' = db /\ tx' = tx /\ pc' = pc /\ to' = to /\ at' = at /\ answer' = answer
      /\ crashes' = crashes
  BY DEF workerVars
<1>5. /\ db.block \in 0 .. Len(blocks) /\ tx.block \in 0 .. Len(blocks)
      /\ at \in Nat /\ to \in 0 .. Len(blocks)
      /\ at # 0 \/ pc = "resolver" => tx.block < to
      /\ at # 0 \/ pc = "resolver" => at <= Len(blocks[tx.block + 1].events)
      /\ tx.block = Len(blocks) => at = 0
  BY <1>3 DEF UnsInv, WorkerInv, IsCopy
<1>6. tx.block < to => blocks'[tx.block + 1] = blocks[tx.block + 1]
  BY <1>3, <1>5 DEF OneMore
<1>7. WorkerInv'
  <2>1. Len(blocks') = Len(blocks) + 1
    BY <1>3 DEF OneMore
  <2>2. at # 0 \/ pc = "resolver" => at <= Len(blocks'[tx.block + 1].events)
    BY <1>5, <1>6
  <2>3. IsCopy(db, Len(blocks')) /\ IsCopy(tx, Len(blocks')) /\ to \in 0 .. Len(blocks')
    BY <1>3, <1>5, <2>1 DEF UnsInv, WorkerInv, IsCopy
  <2> QED
    BY <1>4, <2>2, <2>3 DEF UnsInv, WorkerInv
<1>8. MirrorInv'
  <2>1. Mirrors(rows', blocks', db, 0)
    BY <1>1, <1>5, MirrorsKept DEF UnsInv, MirrorInv
  <2>2. ~tx.tables.broken => Mirrors(rows', blocks', tx, at)
    BY <1>1, <1>5, MirrorsKept DEF UnsInv, MirrorInv
  <2> QED
    BY <1>4, <2>1, <2>2 DEF MirrorInv
<1>9. AnswerInv'
  <2> SUFFICES ASSUME pc = "resolver",
                      NEW e, e = blocks[tx.block + 1].events[at + 1]
               PROVE  \/ answer = ResolverIn(rows', e.token)
                      \/ ~Rests(blocks', e.token, {}, tx.block, at + 1)
    BY <1>4, <1>5, <1>6 DEF AnswerInv, UnsInv
  <2>1. \/ answer = ResolverIn(rows, e.token)
        \/ ~Rests(blocks, e.token, {}, tx.block, at + 1)
    BY DEF AnswerInv, UnsInv
  <2>2. tx.block # Len(blocks) /\ at + 1 \in Nat
    BY <1>3, <1>5
  <2>3. Rests(blocks', e.token, {}, tx.block, at + 1) =>
           Rests(blocks, e.token, {}, tx.block, at + 1) /\ Untouched(ev, e.token, {})
    BY <1>3, <1>5, <2>2, RestsBefore
  <2>4. Untouched(ev, e.token, {}) => ResolverIn(rows', e.token) = ResolverIn(rows, e.token)
    BY <1>1, HeadMoved DEF UnsInv
  <2> QED
    BY <2>1, <2>3, <2>4
<1> QED
  BY <1>2, <1>7, <1>8, <1>9 DEF UnsInv

-----------------------------------------------------------------------------
(* What a handler writes *)

IsChange(c) ==
    /\ c.owner \in Owners \cup {Null, Repo!Keep}
    /\ c.registry \in {"uns", "cns", None, Repo!Keep}
    /\ c.resolver \in Resolvers \cup {"uns", None, Repo!Keep}
    /\ c.records = [k \in DOMAIN c.records |-> c.records[k]]
    /\ DOMAIN c.records \subseteq Keys
    /\ \A k \in DOMAIN c.records : c.records[k] \in Values \cup {""}
    /\ c.clear \in BOOLEAN

LEMMA NoChangeIs ==
    /\ Repo!NoChange = [owner |-> Repo!Keep, registry |-> Repo!Keep, resolver |-> Repo!Keep,
                        records |-> NoRecords, clear |-> FALSE]
    /\ Repo!NoChange.owner = Repo!Keep /\ Repo!NoChange.clear = FALSE
    /\ Repo!NoChange.resolver = Repo!Keep /\ Repo!NoChange.records = NoRecords
BY DEF Repo!NoChange, Repo!NoRecords, NoRecords

\* What change c makes of a row.
ChangedRow(row, c) ==
    Row(Repo!Changed(c.owner, row.owner), Repo!Changed(c.registry, row.registry),
        Repo!Changed(c.resolver, row.resolver), Repo!MergedRecords(c, row.records))

OldRow(v, t) == IF t \in DOMAIN v.rows THEN v.rows[t] ELSE Repo!NewRow

LEMMA SaveIs ==
    ASSUME NEW v, ~v.broken, NEW t \in v.names, NEW c, Repo!Updated(c)
    PROVE  Repo!SaveResolution(v, t, c)
             = [v EXCEPT !.rows = Put(@, t, ChangedRow(OldRow(v, t), c))]
BY DEF Repo!SaveResolution, Repo!Executed, Repo!KnownNode, Repo!Put, Put, ChangedRow,
       OldRow, Row

LEMMA SaveIsNot ==
    ASSUME NEW v, NEW t, NEW c, v.broken \/ t \notin v.names \/ ~Repo!Updated(c)
    PROVE  Repo!SaveResolution(v, t, c) = v
BY DEF Repo!SaveResolution, Repo!Executed, Repo!KnownNode

LEMMA ChangedRowTyped ==
    ASSUME NEW row, IsRow(row), NEW c, IsChange(c)
    PROVE  IsFullRow(ChangedRow(row, c))
<1> DEFINE m == Repo!MergedRecords(c, row.records)
<1>1. DOMAIN m \subseteq Keys /\ \A k \in DOMAIN m : m[k] \in Values \cup {""}
  <2>1. m = NoRecords \/ m = Repo!Over(c.records, row.records)
    BY Marks DEF Repo!MergedRecords
  <2>2. CASE m = NoRecords
    BY <2>2, EmptyRecords
  <2>3. CASE m = Repo!Over(c.records, row.records)
    BY <2>3 DEF IsRow, IsChange, Repo!Over
  <2> QED
    BY <2>1, <2>2, <2>3
<1>2. /\ Repo!Changed(c.owner, row.owner) \in Owners \cup {Null, None}
      /\ Repo!Changed(c.registry, row.registry) \in {"uns", "cns", None}
      /\ Repo!Changed(c.resolver, row.resolver) \in Resolvers \cup {"uns", None}
  BY DEF IsRow, IsChange, Repo!Changed
<1>3. m = [k \in DOMAIN m |-> m[k]]
  BY EmptyRecords DEF Repo!MergedRecords, Repo!NoRecords, NoRecords, IsRecords, Repo!Over
<1> HIDE DEF m
<1> QED
  BY <1>1, <1>2, <1>3 DEF ChangedRow, Row, IsRow, IsFullRow, m

LEMMA OldRowTyped ==
    ASSUME NEW v, IsTables(v), NEW t
    PROVE  IsRow(OldRow(v, t))
BY EmptyRecords DEF IsTables, OldRow, IsFullRow, IsRow, Repo!NewRow, Repo!Absent, None, Repo!NoRecords,
   NoRecords

LEMMA SaveTyped ==
    ASSUME NEW v, IsTables(v), NEW t, NEW c, IsChange(c),
           NEW w, w = Repo!SaveResolution(v, t, c)
    PROVE  /\ IsTables(w) /\ w.names = v.names /\ w.rev = v.rev /\ w.broken = v.broken
<1>1. CASE w = v
  BY <1>1
<1>2. CASE w # v
  <2> DEFINE new == ChangedRow(OldRow(v, t), c)
  <2>1. w = [v EXCEPT !.rows = Put(v.rows, t, new)] /\ t \in v.names
    BY <1>2, SaveIs, SaveIsNot DEF IsTables
  <2>2. IsFullRow(new)
    BY OldRowTyped, ChangedRowTyped
  <2> HIDE DEF new
  <2>3. /\ w.names = v.names /\ w.rev = v.rev /\ w.broken = v.broken
        /\ w.rows = Put(v.rows, t, new)
        /\ w = [names |-> w.names, rows |-> w.rows, rev |-> w.rev, broken |-> w.broken]
    BY <2>1 DEF IsTables
  <2>4. /\ DOMAIN w.rows = DOMAIN v.rows \cup {t}
        /\ w.rows = [x \in DOMAIN w.rows |-> w.rows[x]]
        /\ w.rows[t] = new
        /\ \A x \in DOMAIN v.rows : x # t => w.rows[x] = v.rows[x]
    BY <2>3 DEF Put
  <2>5. \A x \in DOMAIN w.rows : IsFullRow(w.rows[x])
    BY <2>2, <2>4 DEF IsTables
  <2> QED
    BY <2>1, <2>3, <2>4, <2>5 DEF IsTables
<1> QED
  BY <1>1, <1>2

LEMMA SaveShows ==
    ASSUME NEW v, IsTables(v), ~v.broken, NEW R, Shows(v, R), NEW t \in DOMAIN R,
           NEW c, Repo!Updated(c), NEW w, w = Repo!SaveResolution(v, t, c)
    PROVE  /\ t \in DOMAIN v.rows
           /\ w.rows = Put(v.rows, t, ChangedRow(v.rows[t], c))
           /\ Shows(w, Put(R, t, ViewRow(ChangedRow(v.rows[t], c))))
<1>1. t \in DOMAIN v.rows /\ t \in v.names
  BY ViewIs DEF Shows
<1> DEFINE new == ChangedRow(v.rows[t], c)
<1>2. w = [v EXCEPT !.rows = Put(v.rows, t, new)]
  BY <1>1, SaveIs DEF OldRow
<1> HIDE DEF new
<1>3. w.rows = Put(v.rows, t, new) /\ w.names = v.names
  BY <1>2 DEF IsTables
<1>4. View(w.rows) = Put(R, t, ViewRow(new))
  BY <1>3, ViewPut DEF Shows
<1>5. DOMAIN Put(R, t, ViewRow(new)) = DOMAIN R
  BY DEF Put
<1> QED
  BY <1>1, <1>3, <1>4, <1>5 DEF Shows, new

-----------------------------------------------------------------------------
(* The event at hand *)

LEMMA RowsStep ==
    ASSUME NEW R, NEW ev, NEW S, Tells(R, ev, S), NEW i \in Nat, i < Len(ev)
    PROVE  /\ Legal(RowsAfter(R, ev, i), Before(ev, i), ev[i + 1])
           /\ RowsAfter(R, ev, i + 1) = Told(RowsAfter(R, ev, i), Before(ev, i), ev[i + 1])
<1>1. i \in 0 .. Len(ev) - 1 /\ i \in {0, 1, 2}
  BY DEF Tells
<1>2. Legal(RowsAfter(R, ev, i), Before(ev, i), ev[i + 1])
  BY <1>1 DEF Tells
<1>3. /\ RowsAfter(R, ev, 0) = R
      /\ RowsAfter(R, ev, 1) = Told(R, NoEvent, ev[1])
      /\ RowsAfter(R, ev, 2) = Told(Told(R, NoEvent, ev[1]), ev[1], ev[2])
      /\ RowsAfter(R, ev, 3)
           = Told(Told(Told(R, NoEvent, ev[1]), ev[1], ev[2]), ev[2], ev[3])
  BY DEF RowsAfter
<1>4. Before(ev, 0) = NoEvent /\ Before(ev, 1) = ev[1] /\ Before(ev, 2) = ev[2]
  BY DEF Before
<1> QED
  BY <1>1, <1>2, <1>3, <1>4

\* The run is at event e of block tx.block + 1.
AtEvent(e) ==
    /\ pc # "idle" /\ tx.block < to
    /\ at < Len(blocks[tx.block + 1].events)
    /\ e = blocks[tx.block + 1].events[at + 1]

\* The rows that the open transaction is to show.
RowsNow == RowsAt(blocks, tx.block, at)

LEMMA EventTold ==
    ASSUME UnsInv, NEW e, AtEvent(e)
    PROVE  /\ tx.block \in 0 .. Len(blocks) - 1 /\ at \in Nat
           /\ Legal(RowsNow, LastProcessedEvent, e)
           /\ RowsAt(blocks, tx.block, at + 1) = Told(RowsNow, LastProcessedEvent, e)
<1>1. tx.block \in 0 .. Len(blocks) - 1 /\ at \in Nat
  BY DEF AtEvent, UnsInv, WorkerInv, IsCopy, BlocksInv
<1> DEFINE R  == View(StateAfter(blocks, tx.block).rows)
           S  == View(StateAfter(blocks, tx.block + 1).rows)
           ev == blocks[tx.block + 1].events
<1>2. Tells(R, ev, S)
  BY <1>1 DEF UnsInv, BlocksInv
<1>3. LastProcessedEvent = Before(ev, at)
  BY DEF LastProcessedEvent, Before, Events
<1>4. e = ev[at + 1] /\ at < Len(ev)
  BY DEF AtEvent
<1> HIDE DEF R, S, ev
<1>5. /\ Legal(RowsAfter(R, ev, at), Before(ev, at), e)
      /\ RowsAfter(R, ev, at + 1) = Told(RowsAfter(R, ev, at), Before(ev, at), e)
  BY <1>1, <1>2, <1>4, RowsStep
<1> QED
  BY <1>1, <1>3, <1>5 DEF RowsNow, RowsAt, R, ev

LEMMA RestsStep ==
    ASSUME UnsInv, NEW e, AtEvent(e), NEW x, NEW K, ~Touches(e, x, K),
           Rests(blocks, x, K, tx.block, at + 1)
    PROVE  Rests(blocks, x, K, tx.block, at)
<1>1. tx.block \in Nat /\ at \in Nat
  BY EventTold
<1> SUFFICES ASSUME NEW p \in 1 .. Len(blocks), NEW j \in 1 .. Len(blocks[p].events),
                    p > tx.block + 1 \/ (p = tx.block + 1 /\ j > at)
             PROVE  ~Touches(blocks[p].events[j], x, K)
  BY DEF Rests
<1>2. CASE p > tx.block + 1 \/ (p = tx.block + 1 /\ j > at + 1)
  BY <1>2 DEF Rests
<1>3. CASE p = tx.block + 1 /\ j = at + 1
  BY <1>3 DEF AtEvent
<1> QED
  BY <1>1, <1>2, <1>3

\* A row that the event leaves alone.
LEMMA RowLeft ==
    ASSUME UnsInv, NEW e, AtEvent(e), NEW x, \A K : ~Touches(e, x, K), NEW row, NEW new,
           RowUpToHead(rows, blocks, row, x, tx.block, at),
           new.registry = "cns" => /\ row.registry = "cns" /\ new.resolver = row.resolver
                                   /\ new.records = row.records
    PROVE  RowUpToHead(rows, blocks, new, x, tx.block, at + 1)
<1>1. \A K : Rests(blocks, x, K, tx.block, at + 1) => Rests(blocks, x, K, tx.block, at)
  BY RestsStep
<1> QED
  BY <1>1 DEF RowUpToHead

LEMMA HeadUnchanged ==
    ASSUME HeadInv, BlocksInv, FreshInv, UNCHANGED registryVars
    PROVE  HeadInv' /\ BlocksInv' /\ FreshInv'
<1>1. rows' = rows /\ rev' = rev /\ kept' = kept /\ blocks' = blocks
  BY DEF registryVars
<1>2. HeadInv'
  BY <1>1 DEF HeadInv
<1>3. BlocksInv'
  <2>1. RegistryState' = RegistryState
    BY <1>1 DEF RegistryState
  <2> QED
    BY <1>1, <2>1 DEF BlocksInv
<1>4. FreshInv'
  BY <1>1 DEF FreshInv
<1> QED
  BY <1>2, <1>3, <1>4

\* The handler of an event returned.
LEMMA HandledKeeps ==
    ASSUME UnsInv, NEW e, AtEvent(e), NEW v, NEW l, ProcessedBut(v, l),
           IsTables(v), tx.tables.names \subseteq v.names, l \subseteq Tokens,
           ~v.broken =>
             /\ ~tx.tables.broken
             /\ Shows(v, Told(RowsNow, LastProcessedEvent, e))
             /\ \A x \in DOMAIN v.rows \ l :
                  \/ /\ x \in DOMAIN tx.tables.rows \ tx.lost
                     /\ v.rows[x] = tx.tables.rows[x] /\ \A K : ~Touches(e, x, K)
                  \/ RowUpToHead(rows, blocks, v.rows[x], x, tx.block, at + 1)
    PROVE  UnsInv'
<1>1. /\ tx' = [tx EXCEPT !.tables = v, !.lost = l]
      /\ at' = at + 1 /\ pc' = "events" /\ answer' = None
      /\ UNCHANGED registryVars
      /\ rows' = rows /\ blocks' = blocks /\ db' = db /\ to' = to /\ crashes' = crashes
  BY DEF ProcessedBut, registryVars
<1>2. /\ tx'.block = tx.block /\ tx'.tables = v /\ tx'.lost = l
      /\ tx' = [block |-> tx'.block, tables |-> tx'.tables, lost |-> tx'.lost]
  BY <1>1 DEF UnsInv, WorkerInv, IsCopy
<1>3. HeadInv' /\ BlocksInv' /\ FreshInv'
  BY <1>1, HeadUnchanged DEF UnsInv
<1>4. WorkerInv'
  <2>1. IsCopy(tx', Len(blocks)) /\ IsCopy(db, Len(blocks))
    BY <1>2 DEF UnsInv, WorkerInv, IsCopy
  <2>2. /\ at \in Nat /\ at + 1 # 0 /\ at + 1 \in Nat
        /\ tx.block < to /\ at + 1 <= Len(blocks[tx.block + 1].events)
    <3>1. Len(blocks[tx.block + 1].events) \in Nat
      BY EventTold DEF UnsInv, BlocksInv, Tells
    <3> QED
      BY <3>1, EventTold DEF AtEvent
  <2>3. tx.block <= to
    BY DEF UnsInv, WorkerInv, AtEvent
  <2>4. db.tables.names \subseteq v.names
    BY DEF UnsInv, WorkerInv
  <2> QED
    BY <1>1, <1>2, <2>1, <2>2, <2>3, <2>4 DEF UnsInv, WorkerInv
<1>5. MirrorInv'
  <2> SUFFICES ASSUME ~v.broken PROVE Mirrors(rows, blocks, tx', at + 1)
    BY <1>1, <1>2 DEF UnsInv, MirrorInv
  <2>1. Shows(tx'.tables, RowsAt(blocks, tx'.block, at + 1))
    BY <1>2, EventTold
  <2>2. ASSUME NEW x \in DOMAIN v.rows \ l
        PROVE  RowUpToHead(rows, blocks, v.rows[x], x, tx.block, at + 1)
    <3>1. CASE /\ x \in DOMAIN tx.tables.rows \ tx.lost
               /\ v.rows[x] = tx.tables.rows[x] /\ \A K : ~Touches(e, x, K)
      <4>1. RowUpToHead(rows, blocks, v.rows[x], x, tx.block, at)
        BY <3>1 DEF UnsInv, MirrorInv, Mirrors, UpToHead
      <4> QED
        BY <3>1, <4>1, RowLeft
    <3> QED
      BY <2>2, <3>1
  <2> QED
    BY <1>2, <2>1, <2>2 DEF Mirrors, UpToHead
<1>6. AnswerInv'
  BY <1>1 DEF AnswerInv
<1> QED
  BY <1>3, <1>4, <1>5, <1>6 DEF UnsInv

\* A row of the open transaction before the event.
LEMMA RowNow ==
    ASSUME UnsInv, ~tx.tables.broken, NEW t \in DOMAIN RowsNow
    PROVE  LET row == tx.tables.rows[t] IN
           /\ t \in DOMAIN tx.tables.rows /\ t \in tx.tables.names /\ t \in Tokens
           /\ RowsNow[t] = ViewRow(row)
           /\ IsFullRow(row)
           /\ t \notin tx.lost => RowUpToHead(rows, blocks, row, t, tx.block, at)
<1>1. Shows(tx.tables, RowsNow) /\ IsTables(tx.tables) /\ UpToHead(rows, blocks, tx, at)
  BY DEF UnsInv, MirrorInv, Mirrors, RowsNow, WorkerInv, IsCopy
<1>2. t \in DOMAIN tx.tables.rows /\ RowsNow[t] = ViewRow(tx.tables.rows[t])
  BY <1>1, ViewIs DEF Shows
<1> QED
  BY <1>1, <1>2 DEF IsTables, UpToHead

\* The handler saved a row that there was, after which the tokens l are lost.
LEMMA RowSaved ==
    ASSUME UnsInv, NEW e, AtEvent(e), NEW t, NEW c, IsChange(c), Repo!Updated(c),
           NEW l, l \subseteq Tokens,
           \A x : x # t => (x \in tx.lost => x \in l) /\ \A K : ~Touches(e, x, K),
           ~tx.tables.broken =>
             /\ t \in DOMAIN RowsNow
             /\ Told(RowsNow, LastProcessedEvent, e)
                  = Put(RowsNow, t, ViewRow(ChangedRow(tx.tables.rows[t], c)))
             /\ t \notin l => RowUpToHead(rows, blocks, ChangedRow(tx.tables.rows[t], c), t,
                                          tx.block, at + 1),
           ProcessedBut(Repo!SaveResolution(tx.tables, t, c), l)
    PROVE  UnsInv'
<1> DEFINE v == Repo!SaveResolution(tx.tables, t, c)
<1>1. IsTables(tx.tables)
  BY DEF UnsInv, WorkerInv, IsCopy
<1>2. IsTables(v) /\ v.names = tx.tables.names /\ v.broken = tx.tables.broken
  BY <1>1, SaveTyped
<1>3. ASSUME ~v.broken
      PROVE  /\ Shows(v, Told(RowsNow, LastProcessedEvent, e))
             /\ v.rows = Put(tx.tables.rows, t, ChangedRow(tx.tables.rows[t], c))
  <2>1. ~tx.tables.broken /\ Shows(tx.tables, RowsNow)
    BY <1>2, <1>3 DEF UnsInv, MirrorInv, Mirrors, RowsNow
  <2> QED
    BY <1>1, <2>1, SaveShows
<1> HIDE DEF v
<1>4. ASSUME ~v.broken, NEW x \in DOMAIN v.rows \ l
      PROVE  \/ /\ x \in DOMAIN tx.tables.rows \ tx.lost
                /\ v.rows[x] = tx.tables.rows[x] /\ \A K : ~Touches(e, x, K)
             \/ RowUpToHead(rows, blocks, v.rows[x], x, tx.block, at + 1)
  <2>1. CASE x = t
    BY <1>2, <1>3, <1>4, <2>1 DEF Put
  <2>2. CASE x # t
    BY <1>3, <1>4, <2>2 DEF Put
  <2> QED
    BY <2>1, <2>2
<1>5. ProcessedBut(v, l)
  BY DEF v
<1> QED
  BY <1>2, <1>3, <1>4, <1>5, HandledKeeps

\* The handler changed no row, and did not have to.
LEMMA NoRowSaved ==
    ASSUME UnsInv, NEW e, AtEvent(e), NEW v, NEW l, ProcessedBut(v, l),
           IsTables(v), v.rows = tx.tables.rows, v.names = tx.tables.names,
           v.broken = tx.tables.broken, tx.lost \subseteq l, l \subseteq Tokens,
           Told(RowsNow, LastProcessedEvent, e) = RowsNow,
           \A x \in DOMAIN tx.tables.rows \ l : \A K : ~Touches(e, x, K)
    PROVE  UnsInv'
<1>1. ~v.broken => Shows(v, RowsNow)
  BY DEF UnsInv, MirrorInv, Mirrors, RowsNow, Shows
<1> QED
  BY <1>1, HandledKeeps

-----------------------------------------------------------------------------
(* The handlers *)

LEMMA OverNothing ==
    ASSUME NEW m, m = [k \in DOMAIN m |-> m[k]]
    PROVE  Repo!Over(NoRecords, m) = m
BY EmptyRecords DEF Repo!Over

\* After a mint there are no records to have.
LEMMA MintUpToHead ==
    ASSUME UnsInv, NEW e, AtEvent(e), e.type = "NewURI" \/ IsMint(e),
           NEW row, row.resolver = None
    PROVE  RowUpToHead(rows, blocks, row, e.token, tx.block, at + 1)
<1> DEFINE t == e.token
<1>1. SUFFICES ASSUME IsCns(rows, t), Rests(blocks, t, {}, tx.block, at + 1)
               PROVE  rows[t].resolver = None /\ DOMAIN rows[t].records = {}
  BY RestsLess DEF RowUpToHead
<1>2. rows[t].resolver = None
  <2>1. /\ tx.block \in 0 .. Len(blocks) - 1
        /\ at + 1 \in 1 .. Len(blocks[tx.block + 1].events)
    <3>1. Len(blocks[tx.block + 1].events) \in Nat
      BY EventTold DEF UnsInv, BlocksInv, Tells
    <3> QED
      BY <3>1, EventTold DEF AtEvent
  <2> QED
    BY <1>1, <2>1 DEF UnsInv, FreshInv, AtEvent
<1>3. IsHeadRow(rows[t], t, kept) /\ rows[t].registry = "cns" /\ rows[t] # Burnt
  BY <1>1 DEF UnsInv, HeadInv, IsCns, Burnt, Row
<1> QED
  BY <1>2, <1>3, Marks, EmptyRecords DEF IsHeadRow

LEMMA MintedIs ==
    ASSUME NEW o \in Owners, NEW g \in {"uns", "cns"}
    PROVE  /\ IsChange(Minted(o, g)) /\ Repo!Updated(Minted(o, g))
           /\ \A row : ChangedRow(row, Minted(o, g))
                = Row(o, g, IF g = "uns" THEN "uns" ELSE row.resolver,
                      Repo!Over(NoRecords, row.records))
<1> DEFINE c == Minted(o, g)
<1>1. /\ c.owner = o /\ c.registry = g
      /\ c.resolver = IF g = "uns" THEN "uns" ELSE Repo!Keep
      /\ c.records = NoRecords /\ c.clear = FALSE
  BY NoChangeIs DEF Minted
<1>2. o # Repo!Keep /\ g # Repo!Keep /\ "uns" # Repo!Keep
  BY Marks
<1> HIDE DEF c
<1>3. IsChange(c)
  BY <1>1, EmptyRecords DEF IsChange, IsRecords
<1>4. Repo!Updated(c)
  BY <1>1, <1>2, NoChangeIs DEF Repo!Updated
<1>5. ASSUME NEW row
      PROVE  ChangedRow(row, c)
                = Row(o, g, IF g = "uns" THEN "uns" ELSE row.resolver,
                      Repo!Over(NoRecords, row.records))
  BY <1>1, <1>2 DEF ChangedRow, Repo!Changed, Repo!MergedRecords
<1> QED
  BY <1>3, <1>4, <1>5 DEF c

LEMMA ProcessMintKeeps ==
    ASSUME UnsInv, NEW e, AtEvent(e), e.type = "Transfer", e.from = Null,
           ProcessedBut(AfterTransfer(tx.tables, e), tx.lost)
    PROVE  UnsInv'
<1> DEFINE t == e.token
           c == Minted(e.to, e.registry)
<1>1. /\ e.to \in Owners /\ e.registry \in {"uns", "cns"}
      /\ t \in DOMAIN RowsNow => RowsNow[t] = Burnt
  BY EventTold DEF Legal
<1>2. AfterTransfer(tx.tables, e) = Repo!SaveResolution(tx.tables, t, c)
  BY Marks DEF AfterTransfer, TransferChange
<1>3. IsMint(e)
  BY Marks DEF IsMint
<1>4. \A x : x # t => \A K : ~Touches(e, x, K)
  BY DEF Touches
<1>5. IsTables(tx.tables) /\ tx.lost \subseteq Tokens
  BY DEF UnsInv, WorkerInv, IsCopy
<1>6. CASE ~tx.tables.broken /\ t \notin DOMAIN RowsNow
  <2>1. DOMAIN RowsNow = tx.tables.names
    BY <1>6 DEF UnsInv, MirrorInv, Mirrors, Shows, RowsNow
  <2>2. Repo!SaveResolution(tx.tables, t, c) = tx.tables
    BY <1>6, <2>1, SaveIsNot
  <2>3. Told(RowsNow, LastProcessedEvent, e) = RowsNow
    BY <1>6 DEF Told
  <2>4. t \notin DOMAIN tx.tables.rows
    BY <1>5, <1>6, <2>1 DEF IsTables
  <2> QED
    BY <1>2, <1>4, <1>5, <2>2, <2>3, <2>4, NoRowSaved
<1>7. CASE tx.tables.broken \/ t \in DOMAIN RowsNow
  <2>1. IsChange(c) /\ Repo!Updated(c)
    BY <1>1, MintedIs
  <2>2. ASSUME ~tx.tables.broken
        PROVE  /\ t \in DOMAIN RowsNow
               /\ Told(RowsNow, LastProcessedEvent, e)
                    = Put(RowsNow, t, ViewRow(ChangedRow(tx.tables.rows[t], c)))
               /\ RowUpToHead(rows, blocks, ChangedRow(tx.tables.rows[t], c), t,
                              tx.block, at + 1)
    <3>1. t \in DOMAIN RowsNow
      BY <1>7, <2>2
    <3>2. ViewRow(tx.tables.rows[t]) = Burnt
      BY <1>1, <2>2, <3>1, RowNow
    <3>3. tx.tables.rows[t] = Burnt
      <4>1. tx.tables.rows[t].registry = None
        BY <3>2, ViewRows DEF Burnt, Row
      <4> QED
        BY <3>2, <4>1, Marks, ViewRows
    <3>4. ChangedRow(tx.tables.rows[t], c) = MintRow(e.to, e.registry)
      <4>1. Burnt.resolver = None /\ Burnt.records = NoRecords
        BY DEF Burnt, Row
      <4>2. Repo!Over(NoRecords, NoRecords) = NoRecords
        BY EmptyRecords, OverNothing DEF IsRecords
      <4> QED
        BY <1>1, <3>3, <4>1, <4>2, MintedIs DEF MintRow
    <3>5. ViewRow(MintRow(e.to, e.registry)) = MintRow(e.to, e.registry)
      BY <1>1, ViewRows
    <3>6. Told(RowsNow, LastProcessedEvent, e) = Put(RowsNow, t, MintRow(e.to, e.registry))
      BY <3>1 DEF Told
    <3>7. RowUpToHead(rows, blocks, MintRow(e.to, e.registry), t, tx.block, at + 1)
      <4>1. CASE e.registry = "cns"
        BY <1>3, <4>1, MintUpToHead, Marks DEF MintRow, Row
      <4>2. CASE e.registry = "uns"
        BY <4>2, Marks DEF RowUpToHead, MintRow, Row
      <4> QED
        BY <1>1, <4>1, <4>2
    <3> QED
      BY <3>1, <3>4, <3>5, <3>6, <3>7
  <2> HIDE DEF c
  <2> QED
    BY <1>2, <1>4, <1>5, <2>1, <2>2, RowSaved
<1> QED
  BY <1>6, <1>7

LEMMA ProcessMoveKeeps ==
    ASSUME UnsInv, NEW e, AtEvent(e), e.type = "Transfer", e.from # Null,
           ProcessedBut(AfterTransfer(tx.tables, e),
                        IF e.to = Null THEN tx.lost \ {e.token} ELSE tx.lost)
    PROVE  UnsInv'
<1> DEFINE t == e.token
           c == TransferChange(e)
           l == IF e.to = Null THEN tx.lost \ {t} ELSE tx.lost
<1>1. e.to \in Owners \cup {Null} /\ t \in DOMAIN RowsNow
  BY EventTold DEF Legal
<1>2. AfterTransfer(tx.tables, e) = Repo!SaveResolution(tx.tables, t, c)
  BY DEF AfterTransfer
<1>3. \A x : x # t => (x \in tx.lost => x \in l) /\ \A K : ~Touches(e, x, K)
  BY DEF Touches
<1>4. l \subseteq Tokens
  BY DEF UnsInv, WorkerInv, IsCopy
<1>5. CASE e.to = Null
  <2>1. c = [owner |-> Null, registry |-> None, resolver |-> None,
             records |-> NoRecords, clear |-> TRUE]
    BY <1>5, Marks DEF TransferChange
  <2>2. IsChange(c) /\ Repo!Updated(c)
    BY <2>1, EmptyRecords DEF IsChange, IsRecords, Repo!Updated, Repo!NoChange
  <2>3. \A row : ChangedRow(row, c) = Burnt
    BY <2>1, Marks DEF ChangedRow, Repo!Changed, Repo!MergedRecords, Burnt
  <2>4. Told(RowsNow, LastProcessedEvent, e) = Put(RowsNow, t, ViewRow(Burnt))
    BY <1>5, ViewRows DEF Told
  <2>5. RowUpToHead(rows, blocks, Burnt, t, tx.block, at + 1)
    BY DEF RowUpToHead, Burnt, Row, None
  <2> HIDE DEF c, l
  <2>6. ProcessedBut(Repo!SaveResolution(tx.tables, t, c), l)
    BY <1>2 DEF l
  <2> QED
    BY <1>1, <1>3, <1>4, <2>2, <2>3, <2>4, <2>5, <2>6, RowSaved
<1>6. CASE e.to # Null
  <2>1. e.to \in Owners /\ e.to # Repo!Keep
    BY <1>1, <1>6, Marks
  <2>2. c = [owner |-> e.to, registry |-> Repo!Keep, resolver |-> Repo!Keep,
             records |-> NoRecords, clear |-> FALSE]
    BY <1>6, Marks DEF TransferChange, Repo!NoChange
  <2>3. IsChange(c) /\ Repo!Updated(c)
    BY <2>1, <2>2, EmptyRecords DEF IsChange, IsRecords, Repo!Updated, Repo!NoChange
  <2>4. ASSUME ~tx.tables.broken
        PROVE  /\ Told(RowsNow, LastProcessedEvent, e)
                    = Put(RowsNow, t, ViewRow(ChangedRow(tx.tables.rows[t], c)))
               /\ t \notin tx.lost =>
                    RowUpToHead(rows, blocks, ChangedRow(tx.tables.rows[t], c), t,
                                tx.block, at + 1)
    <3> DEFINE row == tx.tables.rows[t]
    <3>1. /\ RowsNow[t] = ViewRow(row)
          /\ row.records = [k \in DOMAIN row.records |-> row.records[k]]
          /\ t \notin tx.lost => RowUpToHead(rows, blocks, row, t, tx.block, at)
      BY <1>1, <2>4, RowNow DEF IsFullRow
    <3> HIDE DEF row
    <3>2. ChangedRow(row, c) = Owned(row, e.to)
      BY <2>1, <2>2, <3>1, OverNothing
         DEF ChangedRow, Repo!Changed, Repo!MergedRecords, Owned
    <3>3. ViewRow(Owned(row, e.to)) = Owned(ViewRow(row), e.to)
      BY DEF ViewRow, Owned, Row
    <3>4. Told(RowsNow, LastProcessedEvent, e) = Put(RowsNow, t, Owned(RowsNow[t], e.to))
      BY <1>6 DEF Told
    <3>5. \A K : ~Touches(e, t, K)
      BY <1>6 DEF Touches
    <3>6. t \notin tx.lost =>
            RowUpToHead(rows, blocks, Owned(row, e.to), t, tx.block, at + 1)
      BY <3>1, <3>5, RowLeft DEF Owned, Row
    <3> QED
      BY <3>1, <3>2, <3>3, <3>4, <3>6 DEF row
  <2>5. l = tx.lost
    BY <1>6
  <2> HIDE DEF c, l
  <2>6. ProcessedBut(Repo!SaveResolution(tx.tables, t, c), l)
    BY <1>2 DEF l
  <2> QED
    BY <1>1, <1>3, <1>4, <2>3, <2>4, <2>5, <2>6, RowSaved
<1> QED
  BY <1>5, <1>6

LEMMA ProcessTransferKeeps ==
    ASSUME UnsInv, ProcessTransfer
    PROVE  UnsInv'
<1> DEFINE e == CurrentEvent
<1>1. AtEvent(e) /\ e.type = "Transfer"
  BY DEF ProcessTransfer, Processing, AtEvent, CurrentEvent, Events
<1>2. ProcessedBut(AfterTransfer(tx.tables, e),
                   IF e.to = Null THEN tx.lost \ {e.token} ELSE tx.lost)
  BY DEF ProcessTransfer
<1> HIDE DEF e
<1>3. CASE e.from = Null
  <2>1. e.to # Null
    BY <1>1, <1>3, EventTold, Marks DEF Legal
  <2> QED
    BY <1>1, <1>2, <1>3, <2>1, ProcessMintKeeps
<1>4. CASE e.from # Null
  BY <1>1, <1>2, <1>4, ProcessMoveKeeps
<1> QED
  BY <1>3, <1>4

\* SaveDomain added the domain t, that there was not.
DomainAdded(v, tables, t) ==
    /\ IsTables(tables) /\ ~tables.broken /\ t \in Tokens /\ t \notin tables.names
    /\ v.names = tables.names \cup {t} /\ v.rows = tables.rows
    /\ v.rev = tables.rev /\ v.broken = tables.broken
    /\ v = [names |-> v.names, rows |-> v.rows, rev |-> v.rev, broken |-> v.broken]

\* The row of a name whose domain is new.
LEMMA RowOfNewDomain ==
    ASSUME NEW tables, NEW t, NEW v, DomainAdded(v, tables, t),
           NEW c, IsChange(c), Repo!Updated(c),
           NEW w, w = Repo!SaveResolution(v, t, c)
    PROVE  /\ IsTables(w) /\ w.names = tables.names \cup {t} /\ ~w.broken
           /\ w.rows = Put(tables.rows, t, ChangedRow(Repo!NewRow, c))
<1>1. /\ v.names = tables.names \cup {t} /\ v.rows = tables.rows
      /\ v.rev = tables.rev /\ ~v.broken
  BY DEF DomainAdded
<1>2. IsTables(v)
  <2>1. v.rev \subseteq Owners \X v.names
    BY DEF IsTables, DomainAdded
  <2> QED
    BY <2>1 DEF IsTables, DomainAdded
<1>3. OldRow(v, t) = Repo!NewRow
  BY DEF IsTables, OldRow, DomainAdded
<1>4. w = [v EXCEPT !.rows = Put(@, t, ChangedRow(Repo!NewRow, c))]
  BY <1>1, <1>3, SaveIs
<1>5. w.rows = Put(tables.rows, t, ChangedRow(Repo!NewRow, c))
  BY <1>1, <1>4
<1>6. IsTables(w) /\ w.names = v.names /\ w.broken = v.broken
  BY <1>2, SaveTyped
<1> QED
  BY <1>1, <1>5, <1>6

LEMMA NewDomainSaved ==
    ASSUME UnsInv, NEW e, AtEvent(e), e.type = "NewURI", ~tx.tables.broken,
           NEW v, DomainAdded(v, tx.tables, e.token),
           NEW o \in Owners, o = LastProcessedEvent.to,
           e.registry \in {"uns", "cns"}, e.token \in Tokens,
           NEW w, w = Repo!SaveResolution(v, e.token, Minted(o, e.registry)),
           ProcessedBut(w, tx.lost)
    PROVE  UnsInv'
<1> DEFINE t == e.token
           new == MintRow(o, e.registry)
<1>1. IsTables(tx.tables) /\ tx.lost \subseteq Tokens
  BY DEF UnsInv, WorkerInv, IsCopy
<1>2. ChangedRow(Repo!NewRow, Minted(o, e.registry)) = new
  <2>1. Repo!NewRow.resolver = None /\ Repo!NewRow.records = NoRecords
    BY Marks DEF Repo!NewRow
  <2>2. Repo!Over(NoRecords, NoRecords) = NoRecords
    BY EmptyRecords, OverNothing DEF IsRecords
  <2> QED
    BY <2>1, <2>2, MintedIs DEF MintRow
<1> HIDE DEF new
<1>3. /\ IsTables(w) /\ w.names = tx.tables.names \cup {t} /\ ~w.broken
      /\ w.rows = Put(tx.tables.rows, t, new)
  BY <1>1, <1>2, MintedIs, RowOfNewDomain
<1>4. Shows(tx.tables, RowsNow)
  BY DEF UnsInv, MirrorInv, Mirrors, RowsNow
<1>5. ViewRow(new) = new /\ new.resolver = (IF e.registry = "uns" THEN "uns" ELSE None)
      /\ new.registry = e.registry
  BY ViewRows DEF new, MintRow, Row
<1>6. Told(RowsNow, LastProcessedEvent, e) = Put(RowsNow, t, new)
  BY DEF Told, new
<1>7. Shows(w, Put(RowsNow, t, new))
  <2>1. View(w.rows) = Put(RowsNow, t, new)
    BY <1>3, <1>4, <1>5, ViewPut DEF Shows
  <2>2. w.names = DOMAIN Put(RowsNow, t, new)
    BY <1>3, <1>4 DEF Shows, Put
  <2> QED
    BY <2>1, <2>2 DEF Shows
<1>8. RowUpToHead(rows, blocks, new, t, tx.block, at + 1)
  <2>1. CASE e.registry = "cns"
    BY <1>5, <2>1, MintUpToHead, Marks
  <2>2. CASE e.registry = "uns"
    BY <1>5, <2>2, Marks DEF RowUpToHead
  <2> QED
    BY <2>1, <2>2
<1>9. ASSUME NEW x \in DOMAIN w.rows \ tx.lost
      PROVE  \/ /\ x \in DOMAIN tx.tables.rows \ tx.lost
                /\ w.rows[x] = tx.tables.rows[x] /\ \A K : ~Touches(e, x, K)
             \/ RowUpToHead(rows, blocks, w.rows[x], x, tx.block, at + 1)
  <2>1. CASE x = t
    BY <1>3, <1>8, <2>1 DEF Put
  <2>2. CASE x # t
    BY <1>3, <1>9, <2>2 DEF Put, Touches
  <2> QED
    BY <2>1, <2>2
<1> QED
  BY <1>1, <1>3, <1>6, <1>7, <1>9, HandledKeeps

LEMMA ProcessNewUriKeeps ==
    ASSUME UnsInv, ProcessNewUri
    PROVE  UnsInv'
<1> DEFINE e == CurrentEvent
           t == e.token
           o == LastProcessedEvent.to
           c == Minted(o, e.registry)
           v == Repo!SaveDomain(tx.tables, db.tables.names, t)
<1>1. AtEvent(e) /\ e.type = "NewURI"
  BY DEF ProcessNewUri, Processing, AtEvent, CurrentEvent, Events
<1>2. ProcessedBut(AfterNewUri(tx.tables, db.tables.names, LastProcessedEvent, e), tx.lost)
  BY DEF ProcessNewUri, Processed
<1> HIDE DEF e
<1>3. /\ IsMint(LastProcessedEvent) /\ o \in Owners /\ e.registry \in {"uns", "cns"}
      /\ t \in Tokens
      /\ t \in DOMAIN RowsNow => RowsNow[t] = MintRow(o, e.registry)
  BY <1>1, EventTold DEF Legal
<1>4. ProcessedBut(Repo!SaveResolution(v, t, c), tx.lost)
  BY <1>2, <1>3 DEF AfterNewUri
<1>5. IsChange(c) /\ Repo!Updated(c)
  BY <1>3, MintedIs
<1>6. IsTables(tx.tables) /\ tx.lost \subseteq Tokens /\ db.tables.names \subseteq tx.tables.names
  BY DEF UnsInv, WorkerInv, IsCopy
<1>7. \A x : \A K : ~Touches(e, x, K)
  BY <1>1 DEF Touches
<1>8. CASE tx.tables.broken \/ t \in db.tables.names
  <2>1. v = tx.tables
    BY <1>8 DEF Repo!SaveDomain, Repo!Executed
  <2>2. ASSUME ~tx.tables.broken
        PROVE  /\ t \in DOMAIN RowsNow
               /\ Told(RowsNow, LastProcessedEvent, e)
                    = Put(RowsNow, t, ViewRow(ChangedRow(tx.tables.rows[t], c)))
               /\ t \notin tx.lost =>
                    RowUpToHead(rows, blocks, ChangedRow(tx.tables.rows[t], c), t,
                                tx.block, at + 1)
    <3> DEFINE row == tx.tables.rows[t]
    <3>1. t \in DOMAIN RowsNow
      BY <1>6, <1>8, <2>2 DEF UnsInv, MirrorInv, Mirrors, Shows, RowsNow
    <3>2. /\ ViewRow(row) = MintRow(o, e.registry)
          /\ row.records = [k \in DOMAIN row.records |-> row.records[k]]
          /\ t \notin tx.lost => RowUpToHead(rows, blocks, row, t, tx.block, at)
      BY <1>3, <2>2, <3>1, RowNow DEF IsFullRow
    <3> HIDE DEF row
    <3>3. ChangedRow(row, c) = Row(o, e.registry,
                                   IF e.registry = "uns" THEN "uns" ELSE row.resolver,
                                   row.records)
      BY <1>3, <3>2, MintedIs, OverNothing
    <3>4. row.registry = e.registry
      BY <3>2, ViewRows DEF MintRow, Row
    <3>5. ViewRow(ChangedRow(row, c)) = MintRow(o, e.registry)
      <4>1. CASE e.registry = "uns"
        <5>1. row = MintRow(o, "uns")
          BY <3>2, <3>4, <4>1, ViewRows, Marks
        <5> QED
          BY <3>3, <4>1, <5>1, ViewRows DEF MintRow, Row
      <4>2. CASE e.registry = "cns"
        BY <3>3, <4>2, Marks DEF ViewRow, MintRow, Row
      <4> QED
        BY <1>3, <4>1, <4>2
    <3>6. Told(RowsNow, LastProcessedEvent, e) = Put(RowsNow, t, MintRow(o, e.registry))
      BY <1>1 DEF Told
    <3>7. t \notin tx.lost =>
            RowUpToHead(rows, blocks, ChangedRow(row, c), t, tx.block, at + 1)
      <4>1. ChangedRow(row, c).registry = "cns" =>
              /\ row.registry = "cns" /\ ChangedRow(row, c).resolver = row.resolver
              /\ ChangedRow(row, c).records = row.records
        BY <3>3, <3>4, Marks DEF Row
      <4> QED
        BY <1>1, <1>7, <3>2, <4>1, RowLeft
    <3> QED
      BY <3>1, <3>5, <3>6, <3>7 DEF row
  <2> HIDE DEF c, v
  <2>3. ProcessedBut(Repo!SaveResolution(tx.tables, t, c), tx.lost)
    BY <1>4, <2>1
  <2> QED
    BY <1>1, <1>5, <1>6, <1>7, <2>2, <2>3, RowSaved
<1>9. CASE ~tx.tables.broken /\ t \notin db.tables.names /\ t \in tx.tables.names
  <2>1. v = [tx.tables EXCEPT !.broken = TRUE]
    BY <1>9 DEF Repo!SaveDomain, Repo!Executed
  <2>2. v.broken /\ IsTables(v) /\ v.names = tx.tables.names
    BY <1>6, <2>1 DEF IsTables
  <2> HIDE DEF c, v
  <2>3. Repo!SaveResolution(v, t, c) = v
    BY <2>2, SaveIsNot
  <2>4. ProcessedBut(v, tx.lost)
    BY <1>4, <2>3
  <2> QED
    BY <1>1, <1>6, <2>2, <2>4, HandledKeeps
<1>10. CASE ~tx.tables.broken /\ t \notin db.tables.names /\ t \notin tx.tables.names
  <2>1. v = [tx.tables EXCEPT !.names = @ \cup {t}]
    BY <1>10 DEF Repo!SaveDomain, Repo!Executed
  <2> HIDE DEF v
  <2>2. DomainAdded(v, tx.tables, t)
    BY <1>3, <1>6, <1>10, <2>1 DEF DomainAdded, IsTables
  <2> QED
    BY <1>1, <1>3, <1>4, <1>10, <2>2, NewDomainSaved
<1> QED
  BY <1>8, <1>9, <1>10

LEMMA ProcessResetRecordsKeeps ==
    ASSUME UnsInv, ProcessResetRecords
    PROVE  UnsInv'
<1> DEFINE e == CurrentEvent
           t == e.token
           c == [Repo!NoChange EXCEPT !.clear = TRUE]
<1>1. AtEvent(e) /\ e.type = "ResetRecords"
  BY DEF ProcessResetRecords, Processing, AtEvent, CurrentEvent, Events
<1>2. ProcessedBut(Repo!SaveResolution(tx.tables, t, c), tx.lost)
  BY DEF ProcessResetRecords, Processed, AfterResetRecords
<1> HIDE DEF e
<1>3. t \in DOMAIN RowsNow /\ RowsNow[t].registry # "cns"
  BY <1>1, EventTold DEF Legal
<1>4. /\ c.owner = Repo!Keep /\ c.registry = Repo!Keep /\ c.resolver = Repo!Keep
      /\ c.records = NoRecords /\ c.clear = TRUE
  BY NoChangeIs
<1> HIDE DEF c
<1>5. IsChange(c) /\ Repo!Updated(c)
  <2>1. IsChange(c)
    BY <1>4, EmptyRecords DEF IsChange, IsRecords
  <2> QED
    BY <1>4, <2>1, NoChangeIs DEF Repo!Updated
<1>6. \A row : ChangedRow(row, c) = Recorded(row, NoRecords)
  BY <1>4, Marks DEF ChangedRow, Repo!Changed, Repo!MergedRecords, Recorded
<1> HIDE DEF c
<1>7. ASSUME ~tx.tables.broken
      PROVE  /\ Told(RowsNow, LastProcessedEvent, e)
                  = Put(RowsNow, t, ViewRow(ChangedRow(tx.tables.rows[t], c)))
             /\ RowUpToHead(rows, blocks, ChangedRow(tx.tables.rows[t], c), t,
                            tx.block, at + 1)
  <2> DEFINE row == tx.tables.rows[t]
  <2>1. RowsNow[t] = ViewRow(row)
    BY <1>3, <1>7, RowNow
  <2>2. RowsNow[t] = row /\ row.registry # "cns"
    BY <1>3, <2>1, ViewRows
  <2>3. Recorded(row, NoRecords).registry = row.registry
    BY DEF Recorded, Row
  <2> HIDE DEF row
  <2>4. ViewRow(Recorded(row, NoRecords)) = Recorded(row, NoRecords)
    BY <2>2, <2>3, ViewRows
  <2>5. RowUpToHead(rows, blocks, Recorded(row, NoRecords), t, tx.block, at + 1)
    BY <2>2, <2>3 DEF RowUpToHead
  <2> QED
    BY <1>1, <1>6, <2>2, <2>4, <2>5 DEF Told, row
<1>8. \A x : \A K : ~Touches(e, x, K)
  BY <1>1 DEF Touches
<1>9. tx.lost \subseteq Tokens
  BY DEF UnsInv, WorkerInv, IsCopy
<1> QED
  BY <1>1, <1>2, <1>3, <1>5, <1>7, <1>8, <1>9, RowSaved

LEMMA ProcessSetKeeps ==
    ASSUME UnsInv, ProcessSet
    PROVE  UnsInv'
<1> DEFINE e == CurrentEvent
           t == e.token
           c == [Repo!NoChange EXCEPT !.records = Only(e.key, e.value)]
<1>1. AtEvent(e) /\ e.type = "Set"
  BY DEF ProcessSet, Processing, AtEvent, CurrentEvent, Events
<1>2. ProcessedBut(Repo!SaveResolution(tx.tables, t, c), tx.lost)
  BY DEF ProcessSet, Processed, AfterSet
<1> HIDE DEF e
<1>3. /\ t \in DOMAIN RowsNow /\ RowsNow[t].registry # "cns"
      /\ e.key \in Keys /\ e.value \in Values
  BY <1>1, EventTold DEF Legal
<1>4. /\ c.owner = Repo!Keep /\ c.registry = Repo!Keep /\ c.resolver = Repo!Keep
      /\ c.records = Only(e.key, e.value) /\ c.clear = FALSE
  BY NoChangeIs
<1> HIDE DEF c
<1>5. IsChange(c) /\ Repo!Updated(c)
  <2>1. Only(e.key, e.value) # NoRecords
    BY EmptyRecords DEF Only
  <2>2. Repo!NoChange.records = NoRecords
    BY NoChangeIs
  <2>3. IsChange(c)
    BY <1>3, <1>4 DEF IsChange, Only
  <2> QED
    BY <1>4, <2>1, <2>2, <2>3 DEF Repo!Updated
<1>6. \A m : Repo!Over(Only(e.key, e.value), m) = Put(m, e.key, e.value)
  BY DEF Only, Repo!Over, Put
<1>7. \A row : ChangedRow(row, c) = Recorded(row, Put(row.records, e.key, e.value))
  BY <1>4, <1>6, Marks DEF ChangedRow, Repo!Changed, Repo!MergedRecords, Recorded
<1> HIDE DEF c
<1>8. ASSUME ~tx.tables.broken
      PROVE  /\ Told(RowsNow, LastProcessedEvent, e)
                  = Put(RowsNow, t, ViewRow(ChangedRow(tx.tables.rows[t], c)))
             /\ RowUpToHead(rows, blocks, ChangedRow(tx.tables.rows[t], c), t,
                            tx.block, at + 1)
  <2> DEFINE row == tx.tables.rows[t]
             new == Recorded(row, Put(row.records, e.key, e.value))
  <2>1. RowsNow[t] = ViewRow(row)
    BY <1>3, <1>8, RowNow
  <2>2. RowsNow[t] = row /\ row.registry # "cns"
    BY <1>3, <2>1, ViewRows
  <2>3. new.registry = row.registry
    BY DEF Recorded, Row
  <2> HIDE DEF row
  <2>4. Told(RowsNow, LastProcessedEvent, e) = Put(RowsNow, t, new)
    BY <1>1, <2>2 DEF Told
  <2> HIDE DEF new
  <2>5. ViewRow(new) = new
    BY <2>2, <2>3, ViewRows
  <2>6. RowUpToHead(rows, blocks, new, t, tx.block, at + 1)
    BY <2>2, <2>3 DEF RowUpToHead
  <2> QED
    BY <1>7, <2>4, <2>5, <2>6 DEF row, new
<1>9. \A x : \A K : ~Touches(e, x, K)
  BY <1>1 DEF Touches
<1>10. tx.lost \subseteq Tokens
  BY DEF UnsInv, WorkerInv, IsCopy
<1> QED
  BY <1>1, <1>2, <1>3, <1>5, <1>8, <1>9, <1>10, RowSaved

LEMMA SaveReverseTyped ==
    ASSUME NEW v, IsTables(v), NEW a \in Owners, NEW t, NEW w \in Repo!SaveReverse(v, a, t)
    PROVE  /\ IsTables(w) /\ w.rows = v.rows /\ w.names = v.names /\ w.broken = v.broken
<1>1. CASE w = v
  BY <1>1
<1>2. CASE w # v
  <2>1. PICK rest : rest \subseteq v.rev \cup {<<a, t>>} /\ w = [v EXCEPT !.rev = rest]
                    /\ t \in v.names
    BY <1>2 DEF Repo!SaveReverse, Repo!Executed
  <2>2. /\ w.names = v.names /\ w.rows = v.rows /\ w.rev = rest /\ w.broken = v.broken
        /\ w = [names |-> w.names, rows |-> w.rows, rev |-> w.rev, broken |-> w.broken]
    BY <2>1 DEF IsTables
  <2>3. rest \subseteq Owners \X v.names
    BY <2>1 DEF IsTables
  <2> QED
    BY <2>2, <2>3 DEF IsTables
<1> QED
  BY <1>1, <1>2

LEMMA RemoveReverseTyped ==
    ASSUME NEW v, IsTables(v), NEW a, NEW w, w = Repo!RemoveReverse(v, a)
    PROVE  /\ IsTables(w) /\ w.rows = v.rows /\ w.names = v.names /\ w.broken = v.broken
<1>1. CASE w = v
  BY <1>1
<1>2. CASE w # v
  <2>1. PICK rest : rest \subseteq v.rev /\ w = [v EXCEPT !.rev = rest]
    BY <1>2 DEF Repo!RemoveReverse, Repo!Executed
  <2>2. /\ w.names = v.names /\ w.rows = v.rows /\ w.rev = rest /\ w.broken = v.broken
        /\ w = [names |-> w.names, rows |-> w.rows, rev |-> w.rev, broken |-> w.broken]
    BY <2>1 DEF IsTables
  <2> QED
    BY <2>1, <2>2 DEF IsTables
<1> QED
  BY <1>1, <1>2

LEMMA ProcessReverseKeeps ==
    ASSUME UnsInv, ProcessSetReverse \/ ProcessRemoveReverse
    PROVE  UnsInv'
<1> DEFINE e == CurrentEvent
<1>1. AtEvent(e) /\ e.type \in {"SetReverse", "RemoveReverse"}
  BY DEF ProcessSetReverse, ProcessRemoveReverse, Processing, AtEvent, CurrentEvent, Events
<1>2. PICK v : /\ Processed(v)
               /\ \/ v \in Repo!SaveReverse(tx.tables, e.addr, e.token)
                     /\ e.type = "SetReverse"
                  \/ v = Repo!RemoveReverse(tx.tables, e.addr)
  BY DEF ProcessSetReverse, ProcessRemoveReverse, Processing
<1> HIDE DEF e
<1>3. IsTables(tx.tables) /\ tx.lost \subseteq Tokens
  BY DEF UnsInv, WorkerInv, IsCopy
<1>4. e.type = "SetReverse" => e.addr \in Owners
  BY <1>1, EventTold DEF Legal
<1>5. /\ IsTables(v) /\ v.rows = tx.tables.rows /\ v.names = tx.tables.names
      /\ v.broken = tx.tables.broken
  BY <1>2, <1>3, <1>4, SaveReverseTyped, RemoveReverseTyped
<1>6. Told(RowsNow, LastProcessedEvent, e) = RowsNow /\ \A x : \A K : ~Touches(e, x, K)
  BY <1>1 DEF Told, Touches
<1>7. ProcessedBut(v, tx.lost)
  BY <1>2 DEF Processed
<1> QED
  BY <1>1, <1>3, <1>5, <1>6, <1>7, NoRowSaved

LEMMA AskedIs ==
    ASSUME UnsInv, pc = "resolver"
    PROVE  /\ AtEvent(CurrentEvent) /\ CurrentEvent.type \in {"Resolve", "Sync"}
           /\ CurrentEvent.token \in Tokens
           /\ CurrentEvent.type = "Sync" => CurrentEvent.updateId \in Keys \cup {0}
           /\ \/ answer = ResolverIn(rows, CurrentEvent.token)
              \/ ~Rests(blocks, CurrentEvent.token, {}, tx.block, at + 1)
           /\ answer \in Resolvers \cup {None}
<1>1. /\ AtEvent(CurrentEvent) /\ CurrentEvent.type \in {"Resolve", "Sync"}
      /\ \/ answer = ResolverIn(rows, CurrentEvent.token)
         \/ ~Rests(blocks, CurrentEvent.token, {}, tx.block, at + 1)
  BY DEF UnsInv, AnswerInv, WorkerInv, AtEvent, CurrentEvent, Events
<1>2. /\ CurrentEvent.token \in Tokens
      /\ CurrentEvent.type = "Sync" => CurrentEvent.updateId \in Keys \cup {0}
  BY <1>1, EventTold DEF Legal
<1> QED
  BY <1>1, <1>2 DEF UnsInv, WorkerInv

LEMMA ResolverOfIs == \A t : ResolverOf(t) = ResolverIn(rows, t)
BY DEF ResolverOf, ResolverIn, IsCns, OnCns, Live

\* What the resolver keeps is what the row at the head shows.
LEMMA HeadRecords ==
    ASSUME UnsInv, NEW t, IsCns(rows, t)
    PROVE  /\ t \in Tokens /\ ResolverIn(rows, t) = rows[t].resolver
           /\ rows[t].resolver = None => DOMAIN rows[t].records = {}
           /\ rows[t].resolver # None =>
                /\ rows[t].resolver \in Resolvers
                /\ rows[t].records = kept[rows[t].resolver][t]
<1>1. Live(t) /\ rows[t].registry = "cns"
  BY DEF IsCns, Live
<1>2. HeadInv
  BY DEF UnsInv
<1> QED
  BY <1>1, <1>2, LiveRow, EmptyRecords, Marks DEF ResolverIn

\* A handler that asked changes the row of the event's token, which it may.
LEMMA ToldNothing ==
    ASSUME UnsInv, NEW e, AtEvent(e), e.type \in {"Resolve", "Sync"}, ~tx.tables.broken,
           NEW c, c.owner = Repo!Keep, c.registry = Repo!Keep
    PROVE  LET row == tx.tables.rows[e.token] IN
           /\ e.token \in DOMAIN RowsNow /\ row.registry = "cns"
           /\ Told(RowsNow, LastProcessedEvent, e) = RowsNow
           /\ RowsNow = Put(RowsNow, e.token, ViewRow(ChangedRow(row, c)))
<1> DEFINE t == e.token
           row == tx.tables.rows[t]
           new == ChangedRow(row, c)
<1>1. t \in DOMAIN RowsNow /\ RowsNow[t].registry = "cns"
  BY EventTold DEF Legal
<1>2. RowsNow[t] = ViewRow(row)
  BY <1>1, RowNow
<1>3. row.registry = "cns"
  BY <1>1, <1>2, ViewRows
<1>4. new.owner = row.owner /\ new.registry = row.registry
  BY DEF ChangedRow, Repo!Changed, Row
<1> HIDE DEF new, row
<1>5. ViewRow(new) = ViewRow(row)
  BY <1>3, <1>4 DEF ViewRow
<1>6. RowsNow = [x \in DOMAIN RowsNow |-> RowsNow[x]]
  BY ViewIs DEF UnsInv, MirrorInv, Mirrors, Shows, RowsNow
<1>7. RowsNow = Put(RowsNow, t, ViewRow(new))
  BY <1>1, <1>2, <1>5, <1>6, PutSelf
<1>8. Told(RowsNow, LastProcessedEvent, e) = RowsNow
  BY DEF Told
<1> QED
  BY <1>1, <1>3, <1>7, <1>8 DEF row, new

LEMMA ResolvedIs ==
    ASSUME UnsInv, pc = "resolver", NEW t, answer = None \/ Answers(t),
           NEW c, c = Resolved(t)
    PROVE  /\ IsChange(c) /\ Repo!Updated(c)
           /\ c.owner = Repo!Keep /\ c.registry = Repo!Keep
           /\ c.resolver = answer
           /\ answer # None => c.records = kept[answer][t]
           /\ c.clear = (c.records = NoRecords)
<1> DEFINE m == IF answer = None THEN NoRecords ELSE kept[answer][t]
<1>1. /\ c.owner = Repo!Keep /\ c.registry = Repo!Keep /\ c.resolver = answer
      /\ c.records = m /\ c.clear = (m = NoRecords)
  BY NoChangeIs DEF Resolved
<1>2. IsRecords(m)
  <2>1. CASE answer = None
    BY <2>1, EmptyRecords
  <2>2. CASE answer # None
    <3>1. answer \in Resolvers
      BY <2>2, AskedIs
    <3>2. IsCns(rows, t)
      BY <2>2, ResolverOfIs DEF Answers, ResolverIn
    <3>3. t \in Tokens
      BY <3>2, HeadRecords
    <3> QED
      BY <2>2, <3>1, <3>3 DEF UnsInv, HeadInv
  <2> QED
    BY <2>1, <2>2
<1>3. answer # None => m = kept[answer][t]
  OBVIOUS
<1> HIDE DEF m
<1>4. answer \in Resolvers \cup {None} /\ answer # Repo!Keep
  BY AskedIs, Marks
<1>5. IsChange(c)
  BY <1>1, <1>2, <1>4 DEF IsChange, IsRecords
<1>6. Repo!Updated(c)
  BY <1>1, <1>4, NoChangeIs DEF Repo!Updated
<1> QED
  BY <1>1, <1>3, <1>5, <1>6

LEMMA ProcessResolveKeeps ==
    ASSUME UnsInv, ProcessResolve
    PROVE  UnsInv'
<1> DEFINE e == CurrentEvent
           t == e.token
           l == tx.lost \ {t}
<1>1. /\ AtEvent(e) /\ e.type = "Resolve" /\ pc = "resolver"
      /\ answer = ResolverIn(rows, t) \/ ~Rests(blocks, t, {}, tx.block, at + 1)
  BY AskedIs DEF ProcessResolve, Asked
<1>2. IF answer = None \/ Answers(t)
      THEN ProcessedBut(Repo!SaveResolution(tx.tables, t, Resolved(t)), l)
      ELSE ProcessedBut(tx.tables, tx.lost)
  BY DEF ProcessResolve, Processed
<1> HIDE DEF e
<1>3. IsTables(tx.tables) /\ tx.lost \subseteq Tokens
  BY DEF UnsInv, WorkerInv, IsCopy
<1>4. \A x : x # t => \A K : ~Touches(e, x, K)
  BY <1>1 DEF Touches
<1>5. CASE answer = None \/ Answers(t)
  <2>1. PICK c : c = Resolved(t)
    OBVIOUS
  <2>2. /\ IsChange(c) /\ Repo!Updated(c)
        /\ c.owner = Repo!Keep /\ c.registry = Repo!Keep
        /\ c.resolver = answer
        /\ answer # None => c.records = kept[answer][t]
        /\ c.clear = (c.records = NoRecords)
    BY <1>1, <1>5, <2>1, ResolvedIs
  <2>3. ASSUME ~tx.tables.broken
        PROVE  /\ t \in DOMAIN RowsNow
               /\ Told(RowsNow, LastProcessedEvent, e)
                    = Put(RowsNow, t, ViewRow(ChangedRow(tx.tables.rows[t], c)))
    BY <1>1, <2>2, <2>3, ToldNothing
  <2>4. ASSUME NEW row
        PROVE  RowUpToHead(rows, blocks, ChangedRow(row, c), t, tx.block, at + 1)
    <3> SUFFICES ASSUME IsCns(rows, t), Rests(blocks, t, {}, tx.block, at + 1)
                 PROVE  /\ ChangedRow(row, c).resolver = rows[t].resolver
                        /\ \A k \in DOMAIN rows[t].records :
                             /\ k \in DOMAIN ChangedRow(row, c).records
                             /\ ChangedRow(row, c).records[k] = rows[t].records[k]
      BY RestsLess DEF RowUpToHead
    <3>1. answer = rows[t].resolver
      BY <1>1, HeadRecords
    <3>2. ChangedRow(row, c).resolver = answer
      <4>1. answer # Repo!Keep
        BY <1>1, AskedIs, Marks
      <4> QED
        BY <2>2, <4>1 DEF ChangedRow, Row, Repo!Changed
    <3>3. ASSUME NEW k \in DOMAIN rows[t].records
          PROVE  /\ k \in DOMAIN ChangedRow(row, c).records
                 /\ ChangedRow(row, c).records[k] = rows[t].records[k]
      <4>1. answer # None /\ c.records = rows[t].records
        BY <2>2, <3>1, <3>3, HeadRecords
      <4>2. c.clear = FALSE
        BY <2>2, <3>3, <4>1, EmptyRecords
      <4>3. ChangedRow(row, c).records = Repo!Over(c.records, row.records)
        BY <4>2 DEF ChangedRow, Row, Repo!MergedRecords
      <4> QED
        BY <3>3, <4>1, <4>3 DEF Repo!Over
    <3> QED
      BY <3>1, <3>2, <3>3
  <2>5. l \subseteq Tokens /\ \A x : x # t /\ x \in tx.lost => x \in l
    BY <1>3
  <2>6. ProcessedBut(Repo!SaveResolution(tx.tables, t, c), l)
    BY <1>2, <1>5, <2>1
  <2> HIDE DEF l
  <2> QED
    BY <1>1, <1>4, <2>2, <2>3, <2>4, <2>5, <2>6, RowSaved
<1>6. CASE ~(answer = None \/ Answers(t))
  <2>1. ~Rests(blocks, t, {}, tx.block, at + 1)
    BY <1>1, <1>6, ResolverOfIs DEF Answers
  <2>2. \A row : RowUpToHead(rows, blocks, row, t, tx.block, at + 1)
    BY <2>1, RestsLess DEF RowUpToHead
  <2>3. Told(RowsNow, LastProcessedEvent, e) = RowsNow
    BY <1>1 DEF Told
  <2>4. ~tx.tables.broken => Shows(tx.tables, RowsNow)
    BY DEF UnsInv, MirrorInv, Mirrors, RowsNow
  <2>5. ProcessedBut(tx.tables, tx.lost)
    BY <1>2, <1>6
  <2>6. ASSUME NEW x \in DOMAIN tx.tables.rows \ tx.lost
        PROVE  \/ /\ x \in DOMAIN tx.tables.rows \ tx.lost
                  /\ tx.tables.rows[x] = tx.tables.rows[x] /\ \A K : ~Touches(e, x, K)
               \/ RowUpToHead(rows, blocks, tx.tables.rows[x], x, tx.block, at + 1)
    BY <1>4, <2>2, <2>6
  <2> QED
    BY <1>1, <1>3, <2>3, <2>4, <2>5, <2>6, HandledKeeps
<1> QED
  BY <1>5, <1>6

LEMMA SyncedIs ==
    ASSUME UnsInv, pc = "resolver", NEW t, NEW k \in Keys \cup {0}, NEW c, c = Synced(t, k)
    PROVE  /\ IsChange(c) /\ Repo!Updated(c)
           /\ c.owner = Repo!Keep /\ c.registry = Repo!Keep /\ c.resolver = Repo!Keep
           /\ k # 0 /\ Answers(t) =>
                /\ ~c.clear /\ DOMAIN c.records = {k}
                /\ k \in DOMAIN kept[answer][t] => c.records[k] = kept[answer][t][k]
<1>1. CASE k = 0 \/ ~Answers(t)
  <2>1. /\ c.owner = Repo!Keep /\ c.registry = Repo!Keep /\ c.resolver = Repo!Keep
        /\ c.records = NoRecords /\ c.clear = TRUE
    BY <1>1, NoChangeIs DEF Synced
  <2>2. IsChange(c)
    BY <2>1, EmptyRecords DEF IsChange, IsRecords
  <2>3. Repo!Updated(c)
    BY <2>1, NoChangeIs DEF Repo!Updated
  <2> QED
    BY <1>1, <2>1, <2>2, <2>3
<1>2. CASE k # 0 /\ Answers(t)
  <2> DEFINE m == kept[answer][t]
             value == IF k \in DOMAIN m THEN m[k] ELSE ""
  <2>1. /\ c.owner = Repo!Keep /\ c.registry = Repo!Keep /\ c.resolver = Repo!Keep
        /\ c.records = Only(k, value) /\ c.clear = FALSE
    BY <1>2, NoChangeIs DEF Synced
  <2>2. IsRecords(m)
    <3>1. answer \in Resolvers
      BY <1>2, AskedIs DEF Answers
    <3>2. IsCns(rows, t)
      BY <1>2, ResolverOfIs DEF Answers, ResolverIn
    <3>3. t \in Tokens
      BY <3>2, HeadRecords
    <3> QED
      BY <3>1, <3>3 DEF UnsInv, HeadInv
  <2>3. value \in Values \cup {""} /\ (k \in DOMAIN m => value = m[k])
    BY <2>2 DEF IsRecords
  <2> HIDE DEF value
  <2>4. /\ DOMAIN c.records = {k} /\ c.records[k] = value
        /\ c.records = [x \in DOMAIN c.records |-> c.records[x]]
    BY <2>1 DEF Only
  <2>5. IsChange(c)
    BY <1>2, <2>1, <2>3, <2>4 DEF IsChange
  <2>6. Repo!Updated(c)
    BY <2>4, NoChangeIs, EmptyRecords DEF Repo!Updated
  <2> QED
    BY <1>2, <2>1, <2>3, <2>4, <2>5, <2>6
<1> QED
  BY <1>1, <1>2

\* The row after a Sync, when the row before was as it should be.
LEMMA SyncedUpToHead ==
    ASSUME UnsInv, NEW e, AtEvent(e), e.type = "Sync", pc = "resolver",
           e = CurrentEvent, NEW c, c = Synced(e.token, e.updateId),
           NEW row, RowUpToHead(rows, blocks, row, e.token, tx.block, at),
           row.registry = "cns"
    PROVE  RowUpToHead(rows, blocks, ChangedRow(row, c), e.token, tx.block, at + 1)
<1> DEFINE t == e.token
           key == e.updateId
           new == ChangedRow(row, c)
<1>1. /\ key \in Keys \cup {0}
      /\ answer = ResolverIn(rows, t) \/ ~Rests(blocks, t, {}, tx.block, at + 1)
  BY AskedIs
<1>2. /\ c.owner = Repo!Keep /\ c.registry = Repo!Keep /\ c.resolver = Repo!Keep
      /\ key # 0 /\ Answers(t) =>
           /\ ~c.clear /\ DOMAIN c.records = {key}
           /\ key \in DOMAIN kept[answer][t] => c.records[key] = kept[answer][t][key]
  BY <1>1, SyncedIs
<1>3. new.resolver = row.resolver /\ new.records = Repo!MergedRecords(c, row.records)
  BY <1>2 DEF ChangedRow, Row, Repo!Changed
<1> HIDE DEF new
<1> SUFFICES ASSUME IsCns(rows, t), Rests(blocks, t, {}, tx.block, at + 1)
             PROVE  /\ new.resolver = rows[t].resolver
                    /\ \A k \in DOMAIN rows[t].records :
                         Rests(blocks, t, {k, 0}, tx.block, at + 1) =>
                            k \in DOMAIN new.records /\ new.records[k] = rows[t].records[k]
  BY RestsLess DEF RowUpToHead, new
<1>4. new.resolver = rows[t].resolver
  <2>1. ~Touches(e, t, {})
    BY DEF Touches
  <2>2. Rests(blocks, t, {}, tx.block, at)
    BY <2>1, RestsStep
  <2> QED
    BY <1>3, <2>2 DEF RowUpToHead
<1>5. ASSUME NEW k \in DOMAIN rows[t].records, Rests(blocks, t, {k, 0}, tx.block, at + 1)
      PROVE  k \in DOMAIN new.records /\ new.records[k] = rows[t].records[k]
  <2>1. key # 0
    <3>1. /\ tx.block \in 0 .. Len(blocks) - 1
          /\ at + 1 \in 1 .. Len(blocks[tx.block + 1].events)
      <4>1. Len(blocks[tx.block + 1].events) \in Nat
        BY EventTold DEF UnsInv, BlocksInv, Tells
      <4> QED
        BY <4>1, EventTold DEF AtEvent
    <3> QED
      BY <1>5, <3>1 DEF UnsInv, FreshInv, AtEvent
  <2>2. /\ answer = rows[t].resolver /\ answer # None /\ rows[t].records = kept[answer][t]
        /\ ResolverOf(t) = answer
    BY <1>1, <1>5, HeadRecords, ResolverOfIs
  <2>3. ~c.clear /\ DOMAIN c.records = {key} /\ new.records = Repo!Over(c.records, row.records)
    BY <1>2, <1>3, <2>1, <2>2 DEF Answers, Repo!MergedRecords
  <2>4. CASE k = key
    BY <1>2, <1>5, <2>1, <2>2, <2>3, <2>4 DEF Answers, Repo!Over
  <2>5. CASE k # key
    <3>1. ~Touches(e, t, {k, 0})
      BY <2>1, <2>5 DEF Touches
    <3>2. Rests(blocks, t, {k, 0}, tx.block, at)
      BY <1>5, <3>1, RestsStep
    <3>3. k \in DOMAIN row.records /\ row.records[k] = rows[t].records[k]
      BY <1>5, <3>2 DEF RowUpToHead
    <3> QED
      BY <2>3, <2>5, <3>3 DEF Repo!Over
  <2> QED
    BY <2>4, <2>5
<1> QED
  BY <1>4, <1>5

LEMMA ProcessSyncKeeps ==
    ASSUME UnsInv, ProcessSync
    PROVE  UnsInv'
<1> DEFINE e == CurrentEvent
           t == e.token
<1>1. AtEvent(e) /\ e.type = "Sync" /\ pc = "resolver" /\ e.updateId \in Keys \cup {0}
  BY AskedIs DEF ProcessSync, Asked
<1>2. PICK c : c = Synced(t, e.updateId)
  OBVIOUS
<1>3. ProcessedBut(Repo!SaveResolution(tx.tables, t, c), tx.lost)
  BY <1>2 DEF ProcessSync, Processed
<1>4. IsChange(c) /\ Repo!Updated(c) /\ c.owner = Repo!Keep /\ c.registry = Repo!Keep
  BY <1>1, <1>2, SyncedIs
<1>5. ASSUME NEW row, RowUpToHead(rows, blocks, row, t, tx.block, at), row.registry = "cns"
      PROVE  RowUpToHead(rows, blocks, ChangedRow(row, c), t, tx.block, at + 1)
  BY <1>1, <1>2, <1>5, SyncedUpToHead
<1> HIDE DEF e
<1>6. tx.lost \subseteq Tokens
  BY DEF UnsInv, WorkerInv, IsCopy
<1>7. \A x : x # t => \A K : ~Touches(e, x, K)
  BY <1>1 DEF Touches
<1>8. ASSUME ~tx.tables.broken
      PROVE  /\ t \in DOMAIN RowsNow
             /\ Told(RowsNow, LastProcessedEvent, e)
                  = Put(RowsNow, t, ViewRow(ChangedRow(tx.tables.rows[t], c)))
             /\ t \notin tx.lost =>
                  RowUpToHead(rows, blocks, ChangedRow(tx.tables.rows[t], c), t,
                              tx.block, at + 1)
  <2>1. /\ t \in DOMAIN RowsNow /\ tx.tables.rows[t].registry = "cns"
        /\ Told(RowsNow, LastProcessedEvent, e)
             = Put(RowsNow, t, ViewRow(ChangedRow(tx.tables.rows[t], c)))
    BY <1>1, <1>4, <1>8, ToldNothing
  <2>2. t \notin tx.lost => RowUpToHead(rows, blocks, tx.tables.rows[t], t, tx.block, at)
    BY <1>8, <2>1, RowNow
  <2> QED
    BY <1>5, <2>1, <2>2
<1> QED
  BY <1>1, <1>3, <1>4, <1>6, <1>7, <1>8, RowSaved

LEMMA LoseEventKeeps ==
    ASSUME UnsInv, LoseEvent
    PROVE  UnsInv'
<1> DEFINE e == CurrentEvent
           l == tx.lost \cup {e.token}
<1>1. AtEvent(e) /\ e.type \in {"Resolve", "Sync"}
  BY AskedIs DEF LoseEvent, Processing, AtEvent, CurrentEvent, Events
<1>2. ProcessedBut(tx.tables, l)
  BY DEF LoseEvent
<1> HIDE DEF e
<1>3. IsTables(tx.tables) /\ tx.lost \subseteq Tokens /\ e.token \in Tokens
  BY <1>1, EventTold DEF UnsInv, WorkerInv, IsCopy, Legal
<1>4. \A x : x # e.token => \A K : ~Touches(e, x, K)
  BY <1>1 DEF Touches
<1>5. Told(RowsNow, LastProcessedEvent, e) = RowsNow
  BY <1>1 DEF Told
<1>6. /\ tx.lost \subseteq l /\ l \subseteq Tokens
      /\ \A x \in DOMAIN tx.tables.rows \ l : \A K : ~Touches(e, x, K)
  BY <1>3, <1>4
<1> HIDE DEF l
<1> QED
  BY <1>1, <1>2, <1>3, <1>5, <1>6, NoRowSaved

LEMMA GetResolverAddressKeeps ==
    ASSUME UnsInv, GetResolverAddress
    PROVE  UnsInv'
<1> DEFINE e == CurrentEvent
<1>1. AtEvent(e) /\ e.type \in {"Resolve", "Sync"}
  BY DEF GetResolverAddress, Processing, AtEvent, CurrentEvent, Events
<1>2. /\ answer' = ResolverIn(rows, e.token) /\ pc' = "resolver"
      /\ UNCHANGED registryVars
      /\ rows' = rows /\ blocks' = blocks
      /\ db' = db /\ tx' = tx /\ to' = to /\ at' = at /\ crashes' = crashes
  BY ResolverOfIs DEF GetResolverAddress, registryVars
<1>3. HeadInv' /\ BlocksInv' /\ FreshInv'
  BY <1>2, HeadUnchanged DEF UnsInv
<1>4. answer' \in Resolvers \cup {None}
  BY <1>2, HeadRecords DEF ResolverIn
<1>5. WorkerInv'
  <2>1. /\ tx.block < to /\ at < Len(blocks[tx.block + 1].events)
        /\ Len(blocks[tx.block + 1].events) \in Nat /\ at \in Nat
    BY <1>1, EventTold DEF AtEvent, UnsInv, BlocksInv, Tells
  <2>2. pc # "idle"
    BY <1>1 DEF AtEvent
  <2> QED
    BY <1>2, <1>4, <2>1, <2>2 DEF UnsInv, WorkerInv
<1>6. MirrorInv'
  BY <1>2 DEF UnsInv, MirrorInv
<1>7. AnswerInv'
  BY <1>1, <1>2 DEF AnswerInv, AtEvent, CurrentEvent, Events
<1> QED
  BY <1>3, <1>5, <1>6, <1>7 DEF UnsInv

-----------------------------------------------------------------------------
(* The loop around the handlers *)

LEMMA BeginKeeps ==
    ASSUME UnsInv, Begin
    PROVE  UnsInv'
<1>1. /\ pc = "idle" /\ pc' = "events" /\ to' = Len(blocks)
      /\ UNCHANGED registryVars /\ rows' = rows /\ blocks' = blocks
      /\ db' = db /\ tx' = tx /\ at' = at /\ answer' = answer /\ crashes' = crashes
  BY DEF Begin, registryVars
<1>2. HeadInv' /\ BlocksInv' /\ FreshInv'
  BY <1>1, HeadUnchanged DEF UnsInv
<1>3. WorkerInv'
  <2>1. Len(blocks) \in Nat /\ tx.block \in 0 .. Len(blocks) /\ at = 0
    BY <1>1 DEF UnsInv, WorkerInv, BlocksInv, IsCopy
  <2> QED
    BY <1>1, <2>1 DEF UnsInv, WorkerInv
<1>4. MirrorInv' /\ AnswerInv'
  BY <1>1 DEF UnsInv, MirrorInv, AnswerInv
<1> QED
  BY <1>2, <1>3, <1>4 DEF UnsInv

\* After the last event of a block the tables are those after the block.
LEMMA BlockTold ==
    ASSUME UnsInv, NEW n \in 0 .. Len(blocks) - 1, NEW i, i = Len(blocks[n + 1].events)
    PROVE  /\ RowsAt(blocks, n, i) = RowsAt(blocks, n + 1, 0)
           /\ \A x, K : Rests(blocks, x, K, n + 1, 0) => Rests(blocks, x, K, n, i)
<1>1. Len(blocks) \in Nat /\ i \in Nat
  BY DEF UnsInv, BlocksInv, Tells
<1>2. RowsAt(blocks, n, i) = View(StateAfter(blocks, n + 1).rows)
  BY DEF UnsInv, BlocksInv, Tells, RowsAt
<1>3. RowsAt(blocks, n + 1, 0) = View(StateAfter(blocks, n + 1).rows)
  BY DEF RowsAt, RowsAfter
<1>4. ASSUME NEW x, NEW K, Rests(blocks, x, K, n + 1, 0)
      PROVE  Rests(blocks, x, K, n, i)
  <2> SUFFICES ASSUME NEW p \in 1 .. Len(blocks), NEW j \in 1 .. Len(blocks[p].events),
                      p > n + 1 \/ (p = n + 1 /\ j > i)
               PROVE  ~Touches(blocks[p].events[j], x, K)
    BY DEF Rests
  <2>1. p > n + 1
    BY <1>1
  <2>2. p > (n + 1) + 1 \/ (p = (n + 1) + 1 /\ j > 0)
    BY <1>1, <2>1
  <2> QED
    BY <1>4, <2>2 DEF Rests
<1> QED
  BY <1>2, <1>3, <1>4

LEMMA SaveStatusKeeps ==
    ASSUME UnsInv, SaveStatus
    PROVE  UnsInv'
<1>1. /\ pc = "events" /\ tx.block < to /\ at = Len(blocks[tx.block + 1].events)
      /\ ~tx.tables.broken
      /\ tx' = [tx EXCEPT !.block = @ + 1] /\ at' = 0
      /\ UNCHANGED registryVars /\ rows' = rows /\ blocks' = blocks
      /\ db' = db /\ pc' = pc /\ to' = to /\ answer' = answer /\ crashes' = crashes
  BY DEF SaveStatus, BlockProcessed, Events, registryVars
<1>2. /\ tx'.block = tx.block + 1 /\ tx'.tables = tx.tables /\ tx'.lost = tx.lost
      /\ tx' = [block |-> tx'.block, tables |-> tx'.tables, lost |-> tx'.lost]
  BY <1>1 DEF UnsInv, WorkerInv, IsCopy
<1>3. HeadInv' /\ BlocksInv' /\ FreshInv'
  BY <1>1, HeadUnchanged DEF UnsInv
<1>4. /\ Len(blocks) \in Nat /\ to \in 0 .. Len(blocks)
      /\ tx.block \in 0 .. Len(blocks) - 1 /\ db.block \in 0 .. Len(blocks)
      /\ db.block <= tx.block
  BY <1>1 DEF UnsInv, WorkerInv, BlocksInv, IsCopy
<1>5. WorkerInv'
  <2>1. IsCopy(tx', Len(blocks))
    BY <1>2, <1>4 DEF UnsInv, WorkerInv, IsCopy
  <2> QED
    BY <1>1, <1>2, <1>4, <2>1 DEF UnsInv, WorkerInv
<1>6. MirrorInv'
  <2>1. Shows(tx.tables, RowsAt(blocks, tx.block, at)) /\ UpToHead(rows, blocks, tx, at)
    BY <1>1 DEF UnsInv, MirrorInv, Mirrors
  <2>2. Shows(tx'.tables, RowsAt(blocks, tx'.block, 0))
    BY <1>1, <1>2, <1>4, <2>1, BlockTold
  <2>3. ASSUME NEW x \in DOMAIN tx'.tables.rows \ tx'.lost
        PROVE  RowUpToHead(rows, blocks, tx'.tables.rows[x], x, tx'.block, 0)
    <3>1. RowUpToHead(rows, blocks, tx.tables.rows[x], x, tx.block, at)
      BY <1>2, <2>1, <2>3 DEF UpToHead
    <3>2. \A K : Rests(blocks, x, K, tx'.block, 0) => Rests(blocks, x, K, tx.block, at)
      BY <1>1, <1>2, <1>4, BlockTold
    <3> QED
      BY <1>2, <3>1, <3>2 DEF RowUpToHead
  <2>4. Mirrors(rows, blocks, tx', 0)
    BY <2>2, <2>3 DEF Mirrors, UpToHead
  <2> QED
    BY <1>1, <2>4 DEF UnsInv, MirrorInv
<1>7. AnswerInv'
  BY <1>1 DEF AnswerInv
<1> QED
  BY <1>3, <1>5, <1>6, <1>7 DEF UnsInv

LEMMA RunEnds ==
    ASSUME UnsInv, UNCHANGED registryVars, NEW d, d \in {db, tx}, EndRun(d), db' = d,
           at = 0 \/ d = db, crashes' \in Nat
    PROVE  UnsInv'
<1>1. /\ tx' = d /\ db' = d /\ pc' = "idle" /\ to' = 0 /\ at' = 0 /\ answer' = None
      /\ rows' = rows /\ blocks' = blocks
  BY DEF EndRun, registryVars
<1>2. HeadInv' /\ BlocksInv' /\ FreshInv'
  BY HeadUnchanged DEF UnsInv
<1>3. IsCopy(d, Len(blocks)) /\ ~d.tables.broken /\ Len(blocks) \in Nat /\ d.block \in Nat
  BY DEF UnsInv, WorkerInv, IsCopy, BlocksInv
<1>4. WorkerInv'
  BY <1>1, <1>3 DEF WorkerInv
<1>5. Mirrors(rows, blocks, d, 0)
  BY <1>3 DEF UnsInv, MirrorInv
<1> QED
  BY <1>1, <1>2, <1>4, <1>5 DEF UnsInv, MirrorInv, AnswerInv

LEMMA LoopKeeps ==
    ASSUME UnsInv, Rollback \/ Commit \/ Crash
    PROVE  UnsInv'
<1>1. crashes \in Nat
  BY DEF UnsInv, WorkerInv
<1>2. CASE Rollback \/ Crash
  <2>1. /\ EndRun(db) /\ db' = db /\ UNCHANGED registryVars /\ crashes' \in Nat
    BY <1>1, <1>2 DEF Rollback, Crash
  <2> QED
    BY <2>1, RunEnds
<1>3. CASE Commit
  <2>1. EndRun(tx) /\ db' = tx /\ UNCHANGED registryVars /\ crashes' \in Nat /\ tx.block = to
    BY <1>1, <1>3 DEF Commit
  <2>2. at = 0
    BY <2>1 DEF UnsInv, WorkerInv, IsCopy
  <2> QED
    BY <2>1, <2>2, RunEnds
<1> QED
  BY <1>2, <1>3

-----------------------------------------------------------------------------
(* The invariant *)

LEMMA InitUns == Init => UnsInv
<1> SUFFICES ASSUME Init PROVE UnsInv
  OBVIOUS
<1>1. /\ rows = NoRecords /\ rev = [a \in Owners |-> None]
      /\ kept = [r \in Resolvers |-> [t \in Tokens |-> NoRecords]]
      /\ blocks = <<>> /\ Len(blocks) = 0
      /\ db = [block |-> 0, tables |-> Repo!EmptyTables, lost |-> {}] /\ tx = db
      /\ pc = "idle" /\ to = 0 /\ at = 0 /\ answer = None /\ crashes = 0
  BY DEF Init, RegistryInit, NoRecords
<1>2. DOMAIN rows = {} /\ rows = [t \in DOMAIN rows |-> rows[t]]
  BY <1>1, EmptyRecords DEF IsRecords
<1>3. HeadInv
  BY <1>1, <1>2, EmptyRecords DEF HeadInv
<1>4. StateAfter(blocks, 0) = RegistryState /\ StateAfter(blocks, 0).rows = NoRecords
  BY <1>1 DEF StateAfter, RegistryState
<1>5. BlocksInv
  <2>1. blocks = [n \in 1 .. 0 |-> blocks[n]]
    BY <1>1
  <2> QED
    BY <1>1, <1>2, <1>4, <2>1 DEF BlocksInv
<1>6. FreshInv
  BY <1>1 DEF FreshInv
<1>7. /\ db.block = 0 /\ db.lost = {} /\ db.tables = Repo!EmptyTables
      /\ db = [block |-> db.block, tables |-> db.tables, lost |-> db.lost]
  BY <1>1
<1>8. LET v == Repo!EmptyTables IN
      /\ v = [names |-> v.names, rows |-> v.rows, rev |-> v.rev, broken |-> v.broken]
      /\ v.names = {} /\ v.rows = NoRecords /\ v.rev = {} /\ v.broken = FALSE
  BY DEF Repo!EmptyTables, NoRecords
<1>9. IsTables(db.tables)
  BY <1>1, <1>2, <1>7, <1>8 DEF IsTables
<1>10. WorkerInv
  BY <1>1, <1>7, <1>8, <1>9 DEF WorkerInv, IsCopy
<1>11. View(NoRecords) = NoRecords
  BY EmptyRecords DEF View, IsRecords
<1>12. MirrorInv
  <2>1. RowsAt(blocks, 0, 0) = NoRecords
    BY <1>4, <1>11 DEF RowsAt, RowsAfter
  <2>2. Shows(db.tables, NoRecords)
    BY <1>7, <1>8, <1>11, EmptyRecords DEF Shows
  <2>3. UpToHead(rows, blocks, db, 0)
    BY <1>7, <1>8, EmptyRecords DEF UpToHead
  <2> QED
    BY <1>1, <1>7, <2>1, <2>2, <2>3 DEF MirrorInv, Mirrors
<1>13. AnswerInv
  BY <1>1 DEF AnswerInv
<1> QED
  BY <1>3, <1>5, <1>6, <1>10, <1>12, <1>13 DEF UnsInv

LEMMA NextKeeps == UnsInv /\ [Next]_vars => UnsInv'
<1> SUFFICES ASSUME UnsInv, [Next]_vars PROVE UnsInv'
  OBVIOUS
<1>1. CASE WorkerStep
  BY <1>1, BeginKeeps, SaveStatusKeeps, LoopKeeps, ProcessTransferKeeps,
     ProcessNewUriKeeps, ProcessSetKeeps, ProcessResetRecordsKeeps,
     ProcessReverseKeeps, GetResolverAddressKeeps, ProcessResolveKeeps,
     ProcessSyncKeeps DEF WorkerStep
<1>2. CASE LoseEvent
  BY <1>2, LoseEventKeeps
<1>3. CASE Crash
  BY <1>3, LoopKeeps
<1>4. CASE RegistryStep /\ UNCHANGED workerVars
  BY <1>4, RegistryKeeps
<1>5. CASE UNCHANGED vars
  <2>1. /\ UNCHANGED registryVars /\ rows' = rows /\ blocks' = blocks
        /\ db' = db /\ tx' = tx /\ pc' = pc /\ to' = to /\ at' = at
        /\ answer' = answer /\ crashes' = crashes
    BY <1>5 DEF vars, registryVars, workerVars
  <2>2. HeadInv' /\ BlocksInv' /\ FreshInv'
    BY <2>1, HeadUnchanged DEF UnsInv
  <2> QED
    BY <2>1, <2>2 DEF UnsInv, WorkerInv, MirrorInv, AnswerInv
<1> QED
  BY <1>1, <1>2, <1>3, <1>4, <1>5 DEF Next

\* The tables follow the registry's events and, where events tell little, the
\* head of the chain.
THEOREM UnsInvariant == Spec => []UnsInv
<1> QED
  BY InitUns, NextKeeps, PTL DEF Spec

\* The tables, the open transaction and the bookkeeping of the worker always
\* have the shape the columns and foreign keys ask for, the transaction is never
\* ahead of the chain or behind what is committed, and what a failed statement
\* broke is never committed (UnsWorkerStrategy.processEvents in the loop of
\* BaseWorker.run).
THEOREM UnsTypeOK == Spec => []TypeOK
<1>1. UnsInv => TypeOK
  BY DEF UnsInv, WorkerInv, IsCopy, IsTables, IsFullRow, TypeOK
<1> QED
  BY <1>1, UnsInvariant, PTL

\* Once every block is mirrored, every row has the owner and the registry of the
\* head, and its resolver and records unless an event of it was lost
\* (the handlers of Resolve and Sync in UnsWorkerStrategy).
THEOREM UnsSettled == Spec => []Settled
<1>1. ASSUME UnsInv, db.block = Len(blocks)
      PROVE  /\ DOMAIN db.tables.rows = DOMAIN rows
             /\ \A t \in DOMAIN rows :
                  LET row == db.tables.rows[t] IN
                  /\ row.owner = rows[t].owner
                  /\ row.registry = rows[t].registry
                  /\ t \notin db.lost =>
                       /\ row.resolver = rows[t].resolver
                       /\ \A k \in DOMAIN rows[t].records :
                            /\ k \in DOMAIN row.records
                            /\ row.records[k] = rows[t].records[k]
  <2>1. Shows(db.tables, View(rows)) /\ UpToHead(rows, blocks, db, 0)
    <3>1. StateAfter(blocks, db.block).rows = rows
      BY <1>1 DEF UnsInv, BlocksInv, RegistryState
    <3> QED
      BY <1>1, <3>1 DEF UnsInv, MirrorInv, Mirrors, RowsAt, RowsAfter
  <2>2. /\ View(db.tables.rows) = View(rows) /\ DOMAIN db.tables.rows = DOMAIN rows
        /\ \A t \in DOMAIN rows : ViewRow(db.tables.rows[t]) = ViewRow(rows[t])
    BY <2>1, ViewIs DEF Shows
  <2>3. \A t, K : Rests(blocks, t, K, db.block, 0)
    <3>1. \A p \in 1 .. Len(blocks) : ~(p > db.block + 1) /\ p # db.block + 1
      BY <1>1 DEF UnsInv, BlocksInv
    <3> QED
      BY <3>1 DEF Rests
  <2>4. ASSUME NEW t \in DOMAIN rows
        PROVE  LET row == db.tables.rows[t] IN
               /\ row.owner = rows[t].owner
               /\ row.registry = rows[t].registry
               /\ t \notin db.lost =>
                    /\ row.resolver = rows[t].resolver
                    /\ \A k \in DOMAIN rows[t].records :
                         /\ k \in DOMAIN row.records
                         /\ row.records[k] = rows[t].records[k]
    <3> DEFINE row == db.tables.rows[t]
    <3>1. row.owner = rows[t].owner /\ row.registry = rows[t].registry
      BY <2>2, ViewRows
    <3>2. CASE row.registry # "cns"
      BY <2>2, <3>1, <3>2, ViewRows
    <3>3. CASE row.registry = "cns"
      <4>1. IsCns(rows, t)
        <5>1. IsHeadRow(rows[t], t, kept) /\ rows[t].registry = "cns"
          BY <1>1, <3>1, <3>3 DEF UnsInv, HeadInv
        <5>2. rows[t] # Burnt
          BY <5>1 DEF Burnt, Row, None
        <5> QED
          BY <5>1, <5>2, Marks DEF IsHeadRow, IsCns
      <4>2. t \notin db.lost => RowUpToHead(rows, blocks, row, t, db.block, 0)
        BY <2>1, <2>2 DEF UpToHead
      <4> QED
        BY <2>3, <3>1, <3>3, <4>1, <4>2 DEF RowUpToHead
    <3> QED
      BY <3>2, <3>3, <3>1
  <2> QED
    BY <2>2, <2>4
<1>2. UnsInv => Settled
  BY <1>1 DEF Settled
<1> QED
  BY <1>2, UnsInvariant, PTL

-----------------------------------------------------------------------------
(* Reverse records *)

Pairs(m) == {<<a, m[a]>> : a \in {b \in Owners : m[b] # None}}

LEMMA PairsAre ==
    ASSUME NEW m
    PROVE  /\ \A r : r \in Pairs(m) <=> \E a \in Owners : m[a] # None /\ r = <<a, m[a]>>
           /\ \A r, s \in Pairs(m) : r[1] = s[1] => r = s
BY DEF Pairs

IsReverse(e) == e.type \in {"SetReverse", "RemoveReverse"}

LEMMA ReverseLeft ==
    ASSUME NEW ev, Len(ev) \in Nat, Len(ev) > 0, rev' = rev,
           \A j \in 1 .. Len(ev) : ~IsReverse(ev[j])
    PROVE  TellsReverse(Pairs(rev), ev, Pairs(rev'))
<1>1. ~IsReverse(ev[1]) /\ \A j \in 2 .. Len(ev) : ~IsReverse(ev[j])
  OBVIOUS
<1>2. ToldReverse(Pairs(rev), ev[1]) = Pairs(rev')
  BY <1>1 DEF ToldReverse, IsReverse
<1> QED
  BY <1>1, <1>2, PairsAre DEF TellsReverse, IsReverse

LEMMA ReverseRemoved ==
    ASSUME NEW ev, NEW a \in Owners, ev[1].type = "RemoveReverse", ev[1].addr = a,
           \A j \in 2 .. Len(ev) : ~IsReverse(ev[j]),
           rev = [b \in Owners |-> rev[b]], rev' = [rev EXCEPT ![a] = None]
    PROVE  TellsReverse(Pairs(rev), ev, Pairs(rev'))
<1>1. \A b \in Owners : rev'[b] = IF b = a THEN None ELSE rev[b]
  OBVIOUS
<1>2. ToldReverse(Pairs(rev), ev[1]) = {r \in Pairs(rev) : r[1] # a}
  BY DEF ToldReverse
<1>3. \A r : r \in Pairs(rev') <=> r \in Pairs(rev) /\ r[1] # a
  BY <1>1, PairsAre
<1> QED
  BY <1>2, <1>3, PairsAre DEF TellsReverse, IsReverse

LEMMA ReverseSet ==
    ASSUME HeadInv, ~SameReverseAgain, NEW ev, Len(ev) = 1, NEW t \in Tokens, OnUns(t),
           ev[1].type = "SetReverse", ev[1].token = t, ev[1].addr = rows[t].owner,
           rev[rows[t].owner] # t, rev' = [rev EXCEPT ![rows[t].owner] = t]
    PROVE  TellsReverse(Pairs(rev), ev, Pairs(rev'))
<1> DEFINE a == rows[t].owner
<1>1. a \in Owners /\ t # None
  BY LiveRow, Marks DEF OnUns
<1>2. \A b \in Owners : rev'[b] = IF b = a THEN t ELSE rev[b]
  BY <1>1 DEF HeadInv
<1>3. \A r \in Pairs(rev) : r[2] # t
  BY <1>1, PairsAre DEF HeadInv
<1> HIDE DEF a
<1>4. ToldReverse(Pairs(rev), ev[1]) = {r \in Pairs(rev) : r[1] # a} \cup {<<a, t>>}
  BY DEF ToldReverse, a
<1>5. \A r : r \in Pairs(rev') <=> (r \in Pairs(rev) /\ r[1] # a) \/ r = <<a, t>>
  <2> TAKE r
  <2>1. r \in Pairs(rev') <=> \E b \in Owners : rev'[b] # None /\ r = <<b, rev'[b]>>
    BY DEF Pairs
  <2>2. r \in Pairs(rev) <=> \E b \in Owners : rev[b] # None /\ r = <<b, rev[b]>>
    BY PairsAre
  <2> QED
    BY <1>1, <1>2, <2>1, <2>2
<1>6. Pairs(rev') = {r \in Pairs(rev) : r[1] # a} \cup {<<a, t>>}
  BY <1>5
<1>7. \A j \in 2 .. Len(ev) : FALSE
  OBVIOUS
<1>8. \A r, s \in Pairs(rev) : r[1] = s[1] => r = s
  BY PairsAre
<1> QED
  BY <1>3, <1>4, <1>6, <1>7, <1>8 DEF TellsReverse

\* A block with the events ev was mined.
MinedOf(ev) == blocks' = Append(blocks, [events |-> ev, after |-> RegistryState'])

LEMMA OtherReverse ==
    ASSUME NEW e, ~IsReverse(e), rev' = rev
    PROVE  /\ TellsReverse(Pairs(rev), <<e>>, Pairs(rev'))
           /\ \A f : ~IsReverse(f) => TellsReverse(Pairs(rev), <<e, f>>, Pairs(rev'))
<1>1. TellsReverse(Pairs(rev), <<e>>, Pairs(rev'))
  <2> DEFINE ev == <<e>>
  <2>1. Len(ev) = 1 /\ \A j \in 1 .. Len(ev) : ~IsReverse(ev[j])
    OBVIOUS
  <2> HIDE DEF ev
  <2>2. TellsReverse(Pairs(rev), ev, Pairs(rev'))
    BY <2>1, ReverseLeft
  <2> QED
    BY <2>2 DEF ev
<1>2. ASSUME NEW f, ~IsReverse(f) PROVE TellsReverse(Pairs(rev), <<e, f>>, Pairs(rev'))
  <2> DEFINE ev == <<e, f>>
  <2>1. Len(ev) = 2 /\ \A j \in 1 .. Len(ev) : ~IsReverse(ev[j])
    BY <1>2
  <2> HIDE DEF ev
  <2>2. TellsReverse(Pairs(rev), ev, Pairs(rev'))
    BY <2>1, ReverseLeft
  <2> QED
    BY <2>2 DEF ev
<1> QED
  BY <1>1, <1>2

LEMMA LeaveTellsReverse ==
    ASSUME HeadInv, NEW t \in Tokens, NEW o, NEW row, Live(t), Leave(t, o, row)
    PROVE  \E ev : MinedOf(ev) /\ TellsReverse(Pairs(rev), ev, Pairs(rev'))
<1> DEFINE from == rows[t].owner
           d    == RemoveReverseEvent(from)
           e    == TransferEvent(t, from, o, rows[t].registry)
           f    == TokenEvent("ResetRecords", t)
<1>1. PICK ev : ev = (IF rev[from] = t THEN <<d>> ELSE <<>>) \o <<e>>
                      \o (IF rows[t].registry = "uns" THEN <<f>> ELSE <<>>)
  OBVIOUS
<1>2. /\ rev' = [rev EXCEPT ![from] = IF rev[from] = t THEN None ELSE @]
      /\ MinedOf(ev)
  BY <1>1 DEF Leave, Mined, MinedOf
<1>3. from \in Owners /\ rev = [a \in Owners |-> rev[a]]
  BY LiveRow DEF HeadInv
<1>4. d.type = "RemoveReverse" /\ d.addr = from /\ ~IsReverse(e) /\ ~IsReverse(f)
  BY DEF RemoveReverseEvent, TransferEvent, TokenEvent, IsReverse
<1> HIDE DEF d, e, f
<1>5. CASE rev[from] = t
  <2>1. rev' = [rev EXCEPT ![from] = None]
    BY <1>2, <1>5
  <2>2. /\ ev[1] = d
        /\ \A j \in 2 .. Len(ev) : ~IsReverse(ev[j])
    <3>1. CASE rows[t].registry = "uns"
      <4>1. ev = <<d>> \o <<e>> \o <<f>>
        BY <1>1, <1>5, <3>1
      <4>2. <<d>> \o <<e>> = <<d, e>>
        BY PairOf
      <4>3. <<d, e>> \o <<f>> = <<d, e, f>>
        BY TripleOf
      <4>4. ev = <<d, e, f>>
        BY <4>1, <4>2, <4>3
      <4> QED
        BY <1>4, <4>4
    <3>2. CASE rows[t].registry # "uns"
      <4>1. ev = <<d>> \o <<e>> \o <<>>
        BY <1>1, <1>5, <3>2
      <4>2. <<d>> \o <<e>> = <<d, e>>
        BY PairOf
      <4>3. <<d, e>> \o <<>> = <<d, e>>
        BY NothingAfter
      <4>4. ev = <<d, e>>
        BY <4>1, <4>2, <4>3
      <4> QED
        BY <1>4, <4>4
    <3> QED
      BY <3>1, <3>2
  <2> QED
    BY <1>2, <1>3, <1>4, <2>1, <2>2, ReverseRemoved
<1>6. CASE rev[from] # t
  <2>1. rev' = rev
    BY <1>2, <1>3, <1>6
  <2>2. ev = <<e>> \/ ev = <<e, f>>
    BY <1>1, <1>6, NothingBefore, PairOf
  <2> QED
    BY <1>2, <1>4, <2>1, <2>2, OtherReverse
<1> QED
  BY <1>5, <1>6

LEMMA StepTellsReverse ==
    ASSUME HeadInv, ~SameReverseAgain, RegistryStep
    PROVE  \E ev : MinedOf(ev) /\ TellsReverse(Pairs(rev), ev, Pairs(rev'))
<1> DEFINE Explained == \E ev : MinedOf(ev) /\ TellsReverse(Pairs(rev), ev, Pairs(rev'))
<1>1. ASSUME NEW t, NEW o, NEW g, Mint(t, o, g) PROVE Explained
  <2> DEFINE e == TransferEvent(t, Null, o, g)
             f == NewUriEvent(t, g)
  <2>1. MinedOf(<<e, f>>) /\ rev' = rev
    BY <1>1 DEF Mint, Mined, MinedOf
  <2>2. ~IsReverse(e) /\ ~IsReverse(f)
    BY DEF TransferEvent, NewUriEvent, IsReverse
  <2> HIDE DEF e, f
  <2> QED
    BY <2>1, <2>2, OtherReverse
<1>2. ASSUME NEW t \in Tokens, NEW o, Transfer(t, o) PROVE Explained
  BY <1>2, LeaveTellsReverse DEF Transfer
<1>3. ASSUME NEW t \in Tokens, Burn(t) PROVE Explained
  BY <1>3, LeaveTellsReverse DEF Burn
<1>4. ASSUME NEW e, MinedOf(<<e>>), rev' = rev, ~IsReverse(e) PROVE Explained
  BY <1>4, OtherReverse
<1>5. ASSUME NEW t, NEW k, NEW v, SetRecord(t, k, v) PROVE Explained
  <2> DEFINE e == [type |-> "Set", token |-> t, key |-> k, value |-> v]
  <2>1. MinedOf(<<e>>) /\ rev' = rev
    BY <1>5 DEF SetRecord, Mined, MinedOf
  <2>2. ~IsReverse(e)
    BY DEF IsReverse
  <2> QED
    BY <1>4, <2>1, <2>2
<1>6. ASSUME NEW t, ResetRecords(t) PROVE Explained
  <2> DEFINE e == TokenEvent("ResetRecords", t)
  <2>1. MinedOf(<<e>>) /\ rev' = rev
    BY <1>6 DEF ResetRecords, Mined, MinedOf
  <2>2. ~IsReverse(e)
    BY DEF TokenEvent, IsReverse
  <2> QED
    BY <1>4, <2>1, <2>2
<1>7. ASSUME NEW t, NEW r, ResolveTo(t, r) PROVE Explained
  <2> DEFINE e == TokenEvent("Resolve", t)
  <2>1. MinedOf(<<e>>) /\ rev' = rev
    BY <1>7 DEF ResolveTo, Mined, MinedOf
  <2>2. ~IsReverse(e)
    BY DEF TokenEvent, IsReverse
  <2> QED
    BY <1>4, <2>1, <2>2
<1>8. ASSUME NEW t, NEW m, NEW u, Write(t, m, u) PROVE Explained
  <2> DEFINE e == [type |-> "Sync", token |-> t, updateId |-> u]
  <2>1. MinedOf(<<e>>) /\ rev' = rev
    BY <1>8 DEF Write, Mined, MinedOf
  <2>2. ~IsReverse(e)
    BY DEF IsReverse
  <2> QED
    BY <1>4, <2>1, <2>2
<1>9. ASSUME NEW t \in Tokens, SetReverse(t) PROVE Explained
  <2> DEFINE e == [type |-> "SetReverse", token |-> t, addr |-> rows[t].owner]
             ev == <<e>>
  <2>1. /\ MinedOf(ev) /\ OnUns(t) /\ rev[rows[t].owner] # t
        /\ rev' = [rev EXCEPT ![rows[t].owner] = t]
    BY <1>9 DEF SetReverse, Mined, MinedOf
  <2>2. Len(ev) = 1 /\ ev[1].type = "SetReverse" /\ ev[1].token = t
        /\ ev[1].addr = rows[t].owner
    OBVIOUS
  <2> HIDE DEF ev
  <2> QED
    BY <2>1, <2>2, ReverseSet
<1>10. ASSUME NEW a \in Owners, RemoveReverse(a) PROVE Explained
  <2> DEFINE ev == <<RemoveReverseEvent(a)>>
  <2>1. MinedOf(ev) /\ rev' = [rev EXCEPT ![a] = None]
    BY <1>10 DEF RemoveReverse, Mined, MinedOf
  <2>2. /\ ev[1].type = "RemoveReverse" /\ ev[1].addr = a
        /\ \A j \in 2 .. Len(ev) : ~IsReverse(ev[j])
    BY DEF RemoveReverseEvent
  <2>3. rev = [b \in Owners |-> rev[b]]
    BY DEF HeadInv
  <2> HIDE DEF ev
  <2> QED
    BY <2>1, <2>2, <2>3, ReverseRemoved
<1> HIDE DEF Explained
<1>11. Explained
  BY <1>1, <1>2, <1>3, <1>5, <1>6, <1>7, <1>8, <1>9, <1>10
     DEF RegistryStep, SyncKey, SyncReset
<1> QED
  BY <1>11 DEF Explained

LEMMA RegistryKeepsReverse ==
    ASSUME UnsInv, ReverseInv, ~SameReverseAgain, RegistryStep, UNCHANGED workerVars
    PROVE  ReverseInv'
<1> DEFINE L == Len(blocks)
<1>1. PICK ev : MinedOf(ev) /\ TellsReverse(Pairs(rev), ev, Pairs(rev'))
  BY StepTellsReverse DEF UnsInv
<1>2. OneMore(blocks, blocks', ev) /\ blocks'[L + 1].after = RegistryState'
  BY <1>1, BlockMined DEF UnsInv, MinedOf
<1>3. L \in Nat /\ Len(blocks') = L + 1 /\ blocks'[L + 1].events = ev
      /\ \A n \in 1 .. L : blocks'[n] = blocks[n]
  BY <1>2 DEF OneMore
<1>4. /\ \A n \in 0 .. L : StateAfter(blocks', n) = StateAfter(blocks, n)
      /\ StateAfter(blocks', L + 1) = RegistryState'
      /\ StateAfter(blocks', L) = RegistryState
  BY <1>2, <1>3, StatesKept DEF StateAfter, UnsInv, BlocksInv
<1>5. RegistryState.rev = Pairs(rev) /\ RegistryState'.rev = Pairs(rev')
  BY DEF RegistryState, Pairs
<1>6. ASSUME NEW n \in 0 .. Len(blocks') - 1
      PROVE  TellsReverse(StateAfter(blocks', n).rev, blocks'[n + 1].events,
                          StateAfter(blocks', n + 1).rev)
  <2>1. CASE n \in 0 .. L - 1
    <3>1. n \in 0 .. L /\ n + 1 \in 0 .. L /\ n + 1 \in 1 .. L
      BY <1>3, <2>1
    <3> QED
      BY <1>3, <1>4, <2>1, <3>1 DEF ReverseInv
  <2>2. CASE n = L
    BY <1>1, <1>3, <1>4, <1>5, <2>2
  <2> QED
    BY <1>3, <2>1, <2>2
<1>7. db' = db /\ tx' = tx /\ at' = at
  BY DEF workerVars
<1>8. /\ db.block \in 0 .. L /\ tx.block \in 0 .. L /\ at \in Nat
      /\ tx.block = L => at = 0
  BY <1>3 DEF UnsInv, WorkerInv, IsCopy
<1>9. ReverseAt(blocks', tx.block, at) = ReverseAt(blocks, tx.block, at)
  <2>1. CASE tx.block \in 0 .. L - 1
    <3>1. tx.block + 1 \in 1 .. L /\ tx.block \in 0 .. L
      BY <1>3, <2>1
    <3> QED
      BY <1>3, <1>4, <3>1 DEF ReverseAt
  <2>2. CASE tx.block = L
    BY <1>4, <1>8, <2>2 DEF ReverseAt, ReverseAfter
  <2> QED
    BY <1>3, <1>8, <2>1, <2>2
<1> QED
  BY <1>4, <1>6, <1>7, <1>8, <1>9 DEF ReverseInv

LEMMA SaveKeepsReverse ==
    ASSUME NEW v, IsTables(v), NEW t, NEW c, NEW K
    PROVE  /\ Repo!SaveResolution(v, t, c).rev = v.rev
           /\ Repo!SaveResolution(v, t, c).broken = v.broken
           /\ Repo!SaveDomain(v, K, t).rev = v.rev
           /\ Repo!SaveResolution(Repo!SaveDomain(v, K, t), t, c).rev = v.rev
           /\ v.broken => Repo!SaveResolution(Repo!SaveDomain(v, K, t), t, c).broken
<1>1. ASSUME NEW u, u = [names |-> u.names, rows |-> u.rows, rev |-> u.rev, broken |-> u.broken]
      PROVE  /\ Repo!SaveResolution(u, t, c).rev = u.rev
             /\ Repo!SaveResolution(u, t, c).broken = u.broken
  <2>1. \/ Repo!SaveResolution(u, t, c) = u
        \/ \E m : Repo!SaveResolution(u, t, c) = [u EXCEPT !.rows = m]
    BY DEF Repo!SaveResolution, Repo!Executed
  <2> QED
    BY <1>1, <2>1
<1>2. PICK u : u = Repo!SaveDomain(v, K, t)
  OBVIOUS
<1>3. /\ u.rev = v.rev /\ (v.broken => u.broken)
      /\ u = [names |-> u.names, rows |-> u.rows, rev |-> u.rev, broken |-> u.broken]
  <2>1. \/ u = v
        \/ u = [v EXCEPT !.broken = TRUE]
        \/ u = [v EXCEPT !.names = @ \cup {t}]
    BY <1>2 DEF Repo!SaveDomain, Repo!Executed
  <2> QED
    BY <2>1 DEF IsTables
<1> QED
  BY <1>1, <1>2, <1>3 DEF IsTables

\* The handler of an event returned.
LEMMA HandledKeepsReverse ==
    ASSUME UnsInv, ReverseInv, NEW e, AtEvent(e), NEW v, NEW l, ProcessedBut(v, l),
           ~v.broken => /\ ~tx.tables.broken
                        /\ v.rev = IF at = 0 THEN ToldReverse(tx.tables.rev, e)
                                   ELSE tx.tables.rev
    PROVE  ReverseInv'
<1>1. /\ tx' = [tx EXCEPT !.tables = v, !.lost = l] /\ at' = at + 1
      /\ blocks' = blocks /\ db' = db
  BY DEF ProcessedBut, registryVars
<1>2. tx'.block = tx.block /\ tx'.tables = v
  BY <1>1 DEF UnsInv, WorkerInv, IsCopy
<1>3. at \in Nat
  BY EventTold
<1>4. ASSUME ~v.broken PROVE v.rev = ReverseAt(blocks, tx.block, at + 1)
  <2>1. tx.tables.rev = ReverseAt(blocks, tx.block, at) /\ at + 1 > 0
    BY <1>3, <1>4 DEF ReverseInv
  <2>2. CASE at = 0
    BY <1>4, <2>1, <2>2 DEF ReverseAt, ReverseAfter, AtEvent
  <2>3. CASE at # 0
    BY <1>3, <1>4, <2>1, <2>3 DEF ReverseAt, ReverseAfter
  <2> QED
    BY <2>2, <2>3
<1> QED
  BY <1>1, <1>2, <1>4 DEF ReverseInv

\* An event that tells no reverse record.
LEMMA OtherKeepsReverse ==
    ASSUME UnsInv, ReverseInv, NEW e, AtEvent(e), ~IsReverse(e), NEW v, NEW l,
           ProcessedBut(v, l), v.rev = tx.tables.rev, tx.tables.broken => v.broken
    PROVE  ReverseInv'
<1>1. ToldReverse(tx.tables.rev, e) = tx.tables.rev
  BY DEF ToldReverse, IsReverse
<1> QED
  BY <1>1, HandledKeepsReverse

\* A reverse record is told first.
LEMMA ReverseFirst ==
    ASSUME UnsInv, ReverseInv, NEW e, AtEvent(e), IsReverse(e), ~tx.tables.broken
    PROVE  /\ at = 0
           /\ e.type = "SetReverse" => \A r \in tx.tables.rev : r[2] # e.token
           /\ \A r, s \in tx.tables.rev : r[1] = s[1] => r = s
<1> DEFINE n == tx.block
           ev == blocks[n + 1].events
<1>1. n \in 0 .. Len(blocks) - 1 /\ at \in Nat
  BY EventTold
<1>2. TellsReverse(StateAfter(blocks, n).rev, ev, StateAfter(blocks, n + 1).rev)
  BY <1>1 DEF ReverseInv
<1>3. Len(ev) \in Nat /\ at < Len(ev) /\ e = ev[at + 1]
  BY <1>1 DEF UnsInv, BlocksInv, Tells, AtEvent
<1>4. at = 0
  <2>1. at + 1 \notin 2 .. Len(ev)
    BY <1>2, <1>3 DEF TellsReverse, IsReverse
  <2> QED
    BY <1>1, <1>3, <2>1
<1>5. tx.tables.rev = StateAfter(blocks, n).rev
  BY <1>4 DEF ReverseInv, ReverseAt, ReverseAfter
<1> QED
  BY <1>2, <1>3, <1>4, <1>5 DEF TellsReverse

LEMMA SetReverseKeepsReverse ==
    ASSUME UnsInv, ReverseInv, ProcessSetReverse
    PROVE  ReverseInv'
<1> DEFINE e == CurrentEvent
           a == e.addr
           t == e.token
           v == tx.tables
<1>1. AtEvent(e) /\ e.type = "SetReverse"
  BY DEF ProcessSetReverse, Processing, AtEvent, CurrentEvent, Events
<1>2. PICK w \in Repo!SaveReverse(v, a, t) : ProcessedBut(w, tx.lost)
  BY DEF ProcessSetReverse, Processed
<1> HIDE DEF e
<1>3. IsTables(v)
  BY DEF UnsInv, WorkerInv, IsCopy
<1>4. a \in Owners /\ t \in DOMAIN RowsNow
  BY <1>1, EventTold DEF Legal
<1>5. w.broken = v.broken
  BY <1>2, <1>3, <1>4, SaveReverseTyped
<1>6. ASSUME ~v.broken PROVE at = 0 /\ w.rev = ToldReverse(v.rev, e)
  <2>1. /\ at = 0 /\ \A r \in v.rev : r[2] # t
        /\ \A r, s \in v.rev : r[1] = s[1] => r = s
    BY <1>1, <1>6, ReverseFirst DEF IsReverse
  <2>2. t \in v.names
    BY <1>4, <1>6 DEF UnsInv, MirrorInv, Mirrors, Shows, RowsNow
  <2> DEFINE ofAddr == {r \in v.rev : r[1] = a}
  <2>3. PICK old \in IF ofAddr = {} THEN {{}} ELSE {{r} : r \in ofAddr} :
            w = [v EXCEPT !.rev = (v.rev \cup {<<a, t>>}) \ old]
    BY <1>2, <1>6, <2>1, <2>2 DEF Repo!SaveReverse, Repo!Executed
  <2>4. old = ofAddr
    BY <2>1
  <2>5. w.rev = (v.rev \cup {<<a, t>>}) \ old
    BY <1>3, <2>3 DEF IsTables
  <2>6. <<a, t>> \notin v.rev
    BY <2>1
  <2>7. w.rev = {r \in v.rev : r[1] # a} \cup {<<a, t>>}
    BY <2>4, <2>5, <2>6
  <2> QED
    BY <1>1, <2>1, <2>7 DEF ToldReverse
<1> QED
  BY <1>1, <1>2, <1>5, <1>6, HandledKeepsReverse

LEMMA RemoveReverseKeepsReverse ==
    ASSUME UnsInv, ReverseInv, ProcessRemoveReverse
    PROVE  ReverseInv'
<1> DEFINE e == CurrentEvent
           v == tx.tables
<1>1. AtEvent(e) /\ e.type = "RemoveReverse"
  BY DEF ProcessRemoveReverse, Processing, AtEvent, CurrentEvent, Events
<1>2. PICK w : w = Repo!RemoveReverse(v, e.addr)
  OBVIOUS
<1>3. ProcessedBut(w, tx.lost)
  BY <1>2 DEF ProcessRemoveReverse, Processed
<1> HIDE DEF e
<1>4. IsTables(v)
  BY DEF UnsInv, WorkerInv, IsCopy
<1>5. w.broken = v.broken
  BY <1>2, <1>4, RemoveReverseTyped
<1>6. ASSUME ~v.broken PROVE at = 0 /\ w.rev = ToldReverse(v.rev, e)
  <2>1. at = 0
    BY <1>1, <1>6, ReverseFirst DEF IsReverse
  <2>2. w = [v EXCEPT !.rev = {r \in v.rev : r[1] # e.addr}]
    BY <1>2, <1>6 DEF Repo!RemoveReverse, Repo!Executed
  <2>3. w.rev = {r \in v.rev : r[1] # e.addr}
    BY <1>4, <2>2 DEF IsTables
  <2> QED
    BY <1>1, <2>1, <2>3 DEF ToldReverse
<1> QED
  BY <1>1, <1>3, <1>5, <1>6, HandledKeepsReverse

LEMMA HandlersKeepReverse ==
    ASSUME UnsInv, ReverseInv,
           \/ ProcessTransfer \/ ProcessNewUri \/ ProcessSet \/ ProcessResetRecords
           \/ ProcessResolve \/ ProcessSync \/ LoseEvent
    PROVE  ReverseInv'
<1> DEFINE e == CurrentEvent
           t == e.token
           Save(c) == Repo!SaveResolution(tx.tables, t, c)
           SaveNew(c) == Repo!SaveResolution(
                            Repo!SaveDomain(tx.tables, db.tables.names, t), t, c)
<1>1. AtEvent(e) /\ ~IsReverse(e)
  <2>1. CASE pc = "resolver"
    BY <2>1, AskedIs DEF IsReverse
  <2>2. CASE pc # "resolver"
    BY <2>2 DEF ProcessTransfer, ProcessNewUri, ProcessSet, ProcessResetRecords,
       ProcessResolve, ProcessSync, LoseEvent, Processing, Asked, AtEvent, CurrentEvent,
       Events, IsReverse
  <2> QED
    BY <2>1, <2>2
<1>2. IsTables(tx.tables)
  BY DEF UnsInv, WorkerInv, IsCopy
<1>3. PICK v, l : /\ ProcessedBut(v, l)
                  /\ v = tx.tables \/ \E c : v = Save(c) \/ v = SaveNew(c)
  <2>1. CASE ProcessTransfer
    BY <2>1 DEF ProcessTransfer, AfterTransfer
  <2>2. CASE ProcessNewUri
    BY <2>2 DEF ProcessNewUri, Processed, AfterNewUri
  <2>3. CASE ProcessSet
    BY <2>3 DEF ProcessSet, Processed, AfterSet
  <2>4. CASE ProcessResetRecords
    BY <2>4 DEF ProcessResetRecords, Processed, AfterResetRecords
  <2>5. CASE ProcessResolve
    BY <2>5 DEF ProcessResolve, Processed
  <2>6. CASE ProcessSync
    BY <2>6 DEF ProcessSync, Processed
  <2>7. CASE LoseEvent
    BY <2>7 DEF LoseEvent
  <2> QED
    BY <2>1, <2>2, <2>3, <2>4, <2>5, <2>6, <2>7
<1> HIDE DEF e
<1>4. v.rev = tx.tables.rev /\ (tx.tables.broken => v.broken)
  BY <1>2, <1>3, SaveKeepsReverse
<1> QED
  BY <1>1, <1>3, <1>4, OtherKeepsReverse

LEMMA LoopKeepsReverse ==
    ASSUME UnsInv, ReverseInv,
           \/ Begin \/ SaveStatus \/ Rollback \/ Commit \/ Crash \/ GetResolverAddress
           \/ UNCHANGED vars
    PROVE  ReverseInv'
<1>1. CASE Begin \/ GetResolverAddress \/ UNCHANGED vars
  <2>1. blocks' = blocks /\ db' = db /\ tx' = tx /\ at' = at
    BY <1>1 DEF Begin, GetResolverAddress, vars, workerVars, registryVars
  <2> QED
    BY <2>1 DEF ReverseInv
<1>2. CASE Rollback \/ Crash
  <2>1. blocks' = blocks /\ db' = db /\ tx' = db /\ at' = 0
    BY <1>2 DEF Rollback, Crash, EndRun, registryVars
  <2> QED
    BY <2>1 DEF ReverseInv, ReverseAt, ReverseAfter
<1>3. CASE Commit
  <2>1. blocks' = blocks /\ db' = tx /\ tx' = tx /\ at' = 0 /\ tx.block = to
    BY <1>3 DEF Commit, EndRun, registryVars
  <2>2. at = 0 /\ ~tx.tables.broken
    BY <2>1 DEF UnsInv, WorkerInv, IsCopy
  <2> QED
    BY <2>1, <2>2 DEF ReverseInv, ReverseAt, ReverseAfter
<1>4. CASE SaveStatus
  <2>1. /\ blocks' = blocks /\ db' = db /\ tx' = [tx EXCEPT !.block = @ + 1] /\ at' = 0
        /\ tx.block < to /\ at = Len(blocks[tx.block + 1].events) /\ ~tx.tables.broken
    BY <1>4 DEF SaveStatus, BlockProcessed, Events, registryVars
  <2>2. tx'.block = tx.block + 1 /\ tx'.tables = tx.tables
    BY <2>1 DEF UnsInv, WorkerInv, IsCopy
  <2>3. tx.block \in 0 .. Len(blocks) - 1
    BY <2>1 DEF UnsInv, WorkerInv, BlocksInv, IsCopy
  <2>4. TellsReverse(StateAfter(blocks, tx.block).rev, blocks[tx.block + 1].events,
                     StateAfter(blocks, tx.block + 1).rev)
    BY <2>3 DEF ReverseInv
  <2>5. at > 0
    <3>1. Len(blocks[tx.block + 1].events) \in 1 .. 3
      BY <2>3 DEF UnsInv, BlocksInv, Tells
    <3>2. at \in 1 .. 3
      BY <2>1, <3>1
    <3> QED
      BY <3>2
  <2>6. tx.tables.rev = ReverseAt(blocks, tx.block + 1, 0)
    BY <2>1, <2>4, <2>5 DEF ReverseInv, ReverseAt, ReverseAfter, TellsReverse
  <2> QED
    BY <2>1, <2>2, <2>6 DEF ReverseInv
<1> QED
  BY <1>1, <1>2, <1>3, <1>4

LEMMA InitReverse == Init => ReverseInv
<1> SUFFICES ASSUME Init PROVE ReverseInv
  OBVIOUS
<1>1. /\ blocks = <<>> /\ Len(blocks) = 0 /\ at = 0 /\ tx = db
      /\ db = [block |-> 0, tables |-> Repo!EmptyTables, lost |-> {}]
  BY DEF Init, RegistryInit
<1>2. db.block = 0 /\ db.tables.rev = {}
  BY <1>1 DEF Repo!EmptyTables
<1>3. StateAfter(blocks, 0).rev = {}
  BY DEF StateAfter
<1>4. \A n \in 0 .. Len(blocks) - 1 : FALSE
  BY <1>1
<1>5. ReverseAt(blocks, tx.block, at) = {} /\ StateAfter(blocks, db.block).rev = {}
  BY <1>1, <1>2, <1>3 DEF ReverseAt, ReverseAfter
<1>6. tx.tables.rev = {}
  BY <1>1, <1>2
<1> QED
  BY <1>2, <1>4, <1>5, <1>6 DEF ReverseInv

LEMMA NextKeepsReverse ==
    ASSUME UnsInv, ReverseInv, ~SameReverseAgain, [Next]_vars
    PROVE  ReverseInv'
BY LoopKeepsReverse, HandlersKeepReverse, SetReverseKeepsReverse,
   RemoveReverseKeepsReverse, RegistryKeepsReverse DEF Next, WorkerStep

-----------------------------------------------------------------------------
(* The worker implements the mirror of the registry *)

\* The registry of the mirror is the same as that of the worker.
LEMMA SameRegistry ==
    /\ RegistryInit => Mirror!RegistryInit
    /\ RegistryStep => Mirror!RegistryStep
<1>1. RegistryInit => Mirror!RegistryInit
  BY DEF RegistryInit, Mirror!RegistryInit, None, Mirror!None, NoRecords, Mirror!NoRecords
<1>2. RegistryState = Mirror!RegistryState /\ RegistryState' = Mirror!RegistryState'
  BY DEF RegistryState, Mirror!RegistryState, None, Mirror!None
<1>3. \A ev : Mined(ev) <=> Mirror!Mined(ev)
  BY <1>2 DEF Mined, Mirror!Mined
<1>4. \A t : /\ Live(t) <=> Mirror!Live(t)
             /\ OnUns(t) <=> Mirror!OnUns(t)
             /\ OnCns(t) <=> Mirror!OnCns(t)
  BY DEF Live, Mirror!Live, OnUns, Mirror!OnUns, OnCns, Mirror!OnCns, Null, Mirror!Null
<1>5. /\ Null = Mirror!Null /\ None = Mirror!None /\ NoRecords = Mirror!NoRecords
      /\ Burnt = Mirror!Burnt
      /\ \A o, g, r, m : Row(o, g, r, m) = Mirror!Row(o, g, r, m)
      /\ \A f, k, v : Put(f, k, v) = Mirror!Put(f, k, v)
      /\ \A t, g, o, p : TransferEvent(t, g, o, p) = Mirror!TransferEvent(t, g, o, p)
      /\ \A t, g : NewUriEvent(t, g) = Mirror!NewUriEvent(t, g)
      /\ \A y, t : TokenEvent(y, t) = Mirror!TokenEvent(y, t)
      /\ \A a : RemoveReverseEvent(a) = Mirror!RemoveReverseEvent(a)
  BY DEF Null, Mirror!Null, None, Mirror!None, NoRecords, Mirror!NoRecords, Burnt, Mirror!Burnt,
     Row, Mirror!Row, Put, Mirror!Put, TransferEvent, Mirror!TransferEvent, NewUriEvent,
     Mirror!NewUriEvent, TokenEvent, Mirror!TokenEvent, RemoveReverseEvent,
     Mirror!RemoveReverseEvent
<1>6. \A t, o, g : Mint(t, o, g) => Mirror!Mint(t, o, g)
  BY <1>3, <1>4, <1>5 DEF Mint, Mirror!Mint
<1>7. \A t, o, row : Leave(t, o, row) => Mirror!Leave(t, o, row)
  BY <1>3, <1>5 DEF Leave, Mirror!Leave
<1>8. \A t, o : Transfer(t, o) => Mirror!Transfer(t, o)
  BY <1>4, <1>5, <1>7 DEF Transfer, Mirror!Transfer
<1>9. \A t : Burn(t) => Mirror!Burn(t)
  BY <1>4, <1>5, <1>7 DEF Burn, Mirror!Burn
<1>10. \A t, k, v : SetRecord(t, k, v) => Mirror!SetRecord(t, k, v)
  BY <1>3, <1>4, <1>5 DEF SetRecord, Mirror!SetRecord
<1>11. \A t : ResetRecords(t) => Mirror!ResetRecords(t)
  BY <1>3, <1>4, <1>5 DEF ResetRecords, Mirror!ResetRecords
<1>12. \A t : SetReverse(t) => Mirror!SetReverse(t)
  BY <1>3, <1>4 DEF SetReverse, Mirror!SetReverse
<1>13. \A a : RemoveReverse(a) => Mirror!RemoveReverse(a)
  BY <1>3, <1>5 DEF RemoveReverse, Mirror!RemoveReverse
<1>14. \A t, r : ResolveTo(t, r) => Mirror!ResolveTo(t, r)
  BY <1>3, <1>4, <1>5 DEF ResolveTo, Mirror!ResolveTo
<1>15. \A t, m, u : Write(t, m, u) => Mirror!Write(t, m, u)
  BY <1>3, <1>4, <1>5 DEF Write, Mirror!Write
<1>16. \A t, k, v : SyncKey(t, k, v) => Mirror!SyncKey(t, k, v)
  BY <1>5, <1>15 DEF SyncKey, Mirror!SyncKey
<1>17. \A t : SyncReset(t) => Mirror!SyncReset(t)
  BY <1>5, <1>15 DEF SyncReset, Mirror!SyncReset
<1>18. RegistryStep => Mirror!RegistryStep
  BY <1>6, <1>8, <1>9, <1>10, <1>11, <1>12, <1>13, <1>14, <1>16, <1>17
     DEF RegistryStep, Mirror!RegistryStep
<1> QED
  BY <1>1, <1>18

\* Without CNS a copy of the tables is a state of the registry.
LEMMA CopyIsState ==
    ASSUME UnsInv, Resolvers = {}, NEW d, d.block \in 0 .. Len(blocks), IsTables(d.tables),
           Mirrors(rows, blocks, d, 0)
    PROVE  d.tables.rows = StateAfter(blocks, d.block).rows
<1> DEFINE R == StateAfter(blocks, d.block).rows
           T == d.tables.rows
<1>1. /\ R = [t \in DOMAIN R |-> R[t]] /\ \A t \in DOMAIN R : R[t].registry # "cns"
  BY DEF UnsInv, BlocksInv
<1>2. View(T) = View(R)
  BY DEF Mirrors, Shows, RowsAt, RowsAfter
<1>3. T = [t \in DOMAIN T |-> T[t]]
  BY DEF IsTables
<1> HIDE DEF R, T
<1>4. DOMAIN T = DOMAIN R /\ \A t \in DOMAIN R : ViewRow(T[t]) = ViewRow(R[t])
  BY <1>2, ViewIs
<1>5. \A t \in DOMAIN R : T[t] = R[t]
  BY <1>1, <1>4, ViewRows
<1>6. T = R
  BY <1>1, <1>3, <1>4, <1>5
<1> QED
  BY <1>6 DEF R, T

\* Where every name is of UNS and no owner sets the reverse record it has, what
\* is committed is always the state of the registry after one of its blocks,
\* and moves only forward: the handlers of processEvents together lose nothing
\* that the events tell (UnsWorkerStrategy.processEvents).
THEOREM UnsPublishesRegistry ==
    ASSUME Resolvers = {}, ~SameReverseAgain
    PROVE  Spec => PublishesRegistry
<1> DEFINE m == [block |-> db.block, rows |-> db.tables.rows, rev |-> db.tables.rev]
           Inv == UnsInv /\ ReverseInv
<1>1. Init => Inv /\ Mirror!MirrorInit
  <2> SUFFICES ASSUME Init PROVE Inv /\ Mirror!MirrorInit
    OBVIOUS
  <2>1. db.block = 0 /\ db.tables.rows = <<>> /\ db.tables.rev = {}
    BY DEF Init, Repo!EmptyTables
  <2>2. Mirror!MirrorOf(0) = [block |-> 0, rows |-> <<>>, rev |-> {}]
    BY DEF Mirror!MirrorOf, Mirror!StateAfter, Mirror!NoRecords
  <2>3. RegistryInit
    BY DEF Init
  <2> QED
    BY <2>1, <2>2, <2>3, InitUns, InitReverse, SameRegistry DEF Mirror!MirrorInit
<1>2. Inv /\ [Next]_vars => Inv'
  BY NextKeeps, NextKeepsReverse
<1>3. Inv /\ [Next]_vars => [Mirror!MirrorNext]_Mirror!mirrorVars
  <2> SUFFICES ASSUME Inv, [Next]_vars PROVE [Mirror!MirrorNext]_Mirror!mirrorVars
    OBVIOUS
  <2>1. CASE RegistryStep /\ UNCHANGED workerVars
    <3>1. m' = m /\ Mirror!RegistryStep
      BY <2>1, SameRegistry DEF workerVars
    <3> QED
      BY <3>1 DEF Mirror!MirrorNext
  <2>2. CASE Commit
    <3>1. /\ UNCHANGED registryVars /\ blocks' = blocks /\ db' = tx /\ tx.block = to
      BY <2>2 DEF Commit, registryVars
    <3>2. /\ tx.block \in db.block .. Len(blocks) /\ tx.block \in 0 .. Len(blocks)
          /\ at = 0 /\ ~tx.tables.broken /\ IsTables(tx.tables)
      BY <3>1 DEF UnsInv, WorkerInv, IsCopy, BlocksInv
    <3>3. tx.tables.rows = StateAfter(blocks, tx.block).rows
      BY <3>2, CopyIsState DEF UnsInv, MirrorInv
    <3>4. tx.tables.rev = StateAfter(blocks, tx.block).rev
      BY <3>2 DEF ReverseInv, ReverseAt, ReverseAfter
    <3>5. Mirror!StateAfter(tx.block) = StateAfter(blocks, tx.block)
      BY DEF Mirror!StateAfter, StateAfter, Mirror!NoRecords, NoRecords
    <3>6. Mirror!MirrorOf(tx.block)
            = [block |-> tx.block, rows |-> tx.tables.rows, rev |-> tx.tables.rev]
      BY <3>1, <3>3, <3>4, <3>5 DEF Mirror!MirrorOf, Mirror!StateAfter
    <3> QED
      BY <3>1, <3>2, <3>6 DEF Mirror!MirrorNext, Mirror!Publish, Mirror!registryVars, registryVars
  <2>3. CASE ~Commit /\ ~(RegistryStep /\ UNCHANGED workerVars)
    <3>1. UNCHANGED registryVars /\ db' = db
      BY <2>3 DEF Next, WorkerStep, vars, workerVars, Begin, SaveStatus, Rollback, Crash,
         ProcessTransfer, ProcessNewUri, ProcessSet, ProcessResetRecords, ProcessSetReverse,
         ProcessRemoveReverse, GetResolverAddress, ProcessResolve, ProcessSync, LoseEvent,
         Processed, ProcessedBut
    <3> QED
      BY <3>1 DEF Mirror!mirrorVars, Mirror!registryVars, registryVars
  <2> QED
    BY <2>1, <2>2, <2>3
<1> QED
  BY <1>1, <1>2, <1>3, PTL DEF Spec, PublishesRegistry, Mirror!MirrorSpec
=============================================================================

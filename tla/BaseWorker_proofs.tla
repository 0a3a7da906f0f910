------------------------- MODULE BaseWorker_proofs -------------------------
(***************************************************************************)
(* Theorems about the worker of one chain, for all chains, batch sizes,    *)
(* window sizes, confirmations and token sets.                             *)
(***************************************************************************)
EXTENDS BaseWorker, FiniteSetTheorems, SequenceTheorems, TLAPS

-----------------------------------------------------------------------------
(* Lemmas about the operators *)

\* What the node returns for a range of blocks is well-typed and lies in it.
LEMMA EventsInType ==
    ASSUME ChainTypeOK, NEW a \in Nat, NEW b \in Nat
    PROVE  /\ EventsIn(a, b) \in SUBSET Event
           /\ \A e \in EventsIn(a, b) : a <= e.block /\ e.block <= b
<1>1. ASSUME NEW e \in EventsIn(a, b)
      PROVE  e \in Event /\ a <= e.block /\ e.block <= b
  <2>1. PICK n \in (a .. b) \cap DOMAIN chain : \E t \in chain[n].ev :
          e = [block |-> n, hash |-> chain[n].hash, token |-> t]
    BY <1>1 DEF EventsIn
  <2>2. PICK t \in chain[n].ev :
          e = [block |-> n, hash |-> chain[n].hash, token |-> t]
    BY <2>1
  <2>3. chain[n] \in Block
    BY <2>1 DEF ChainTypeOK
  <2>4. n \in Nat /\ a <= n /\ n <= b
    BY <2>1
  <2>5. chain[n].hash \in Nat /\ t \in Tokens
    BY <2>2, <2>3 DEF Block
  <2> QED
    BY <2>2, <2>4, <2>5 DEF Event
<1> QED
  BY <1>1

\* A hash the node returns is a number.
LEMMA HashAtType ==
    ASSUME ChainTypeOK, NEW n \in Nat
    PROVE  HashAt(n) \in Nat
<1>1. CASE n \in DOMAIN chain
  <2>1. chain[n] \in Block
    BY <1>1 DEF ChainTypeOK
  <2> QED
    BY <1>1, <2>1 DEF HashAt, Block
<1>2. CASE n \notin DOMAIN chain
  BY <1>2 DEF HashAt, NoHash
<1> QED
  BY <1>1, <1>2

\* The blocks a domain records are well-typed.
LEMMA BlocksOfTokenType ==
    ASSUME NEW E \in SUBSET Event, NEW t
    PROVE  BlocksOfToken(E, t) \in SUBSET EventBlock
BY DEF BlocksOfToken, BlockOf, Event, EventBlock

\* The window of event blocks is a set of blocks of stored events.
LEMMA WindowType ==
    ASSUME NEW E \in SUBSET Event
    PROVE  LatestEventBlocks(E) \in SUBSET EventBlock
BY DEF LatestEventBlocks, EventBlocks, BlockOf, Event, EventBlock

\* What processEvents applies is part of what it was given.
LEMMA AppliedSubset ==
    ASSUME NEW E, NEW done \in Applied(E)
    PROVE  done \subseteq E
BY DEF Applied

\* A status row that is written stays a row.
LEMMA WithStatusType ==
    ASSUME NEW d \in Database, NEW n \in Nat, NEW h \in Nat
    PROVE  /\ WithStatus(d, n, h) \in Database
           /\ WithStatus(d, n, h).block = n
           /\ WithStatus(d, n, h).events = d.events
           /\ WithStatus(d, n, h).domains = d.domains
BY DEF WithStatus, Database

-----------------------------------------------------------------------------
(* Type correctness *)

LEMMA InitTypeOK == Init => TypeOK
<1> SUFFICES ASSUME Init PROVE TypeOK
  OBVIOUS
<1> USE ChainAssumption DEF Init, ChainInit, TypeOK
<1>1. ChainTypeOK
  <2>1. chain \in [1 .. StartBlock -> Block]
    BY DEF Block
  <2>2. chain \in Seq(Block)
    BY <2>1, SeqDef
  <2> QED
    BY <2>2 DEF ChainTypeOK
<1>2. db \in Database
  BY DEF Database, NoHash
<1> QED
  BY <1>1, <1>2 DEF NoBlock, NoHash, EventBlock, Idle

\* The environment keeps the chain a sequence of blocks.
LEMMA ChainStepType ==
    ASSUME ChainTypeOK, ChainStep
    PROVE  ChainTypeOK'
<1> USE ChainAssumption DEF ChainTypeOK
<1>1. PICK S \in SUBSET Tokens :
        Mine(S) \/ \E k \in 1 .. Len(chain) - 1 : Reorg(k, S)
  BY DEF ChainStep
<1>2. CASE Mine(S)
  <2>1. [hash |-> forks, ev |-> S] \in Block
    BY DEF Block
  <2>2. chain' \in Seq(Block)
    BY <1>2, <2>1 DEF Mine
  <2>3. final' \in Nat
    BY <1>2 DEF Mine, Finalized
  <2> QED
    BY <1>2, <2>2, <2>3 DEF Mine
<1>3. CASE \E k \in 1 .. Len(chain) - 1 : Reorg(k, S)
  <2>1. PICK k \in 1 .. Len(chain) - 1 : Reorg(k, S)
    BY <1>3
  <2>2. [hash |-> forks + 1, ev |-> S] \in Block
    BY DEF Block
  <2>3. SubSeq(chain, 1, k) \in Seq(Block)
    OBVIOUS
  <2>4. chain' \in Seq(Block)
    BY <2>1, <2>2, <2>3 DEF Reorg
  <2> QED
    BY <2>1, <2>4 DEF Reorg
<1> QED
  BY <1>1, <1>2, <1>3

LEMMA NextTypeOK == TypeOK /\ [Next]_vars => TypeOK'
<1> SUFFICES ASSUME TypeOK, [Next]_vars PROVE TypeOK'
  OBVIOUS
<1> USE ChainAssumption, WorkerAssumption
<1> USE DEF Idle, Throwing, Running
<1>0. UNCHANGED chainVars => ChainTypeOK'
  BY DEF TypeOK, ChainTypeOK, chainVars
<1>16. NoBlock \in EventBlock
  BY DEF NoBlock, NoHash, EventBlock
<1>17. LatestEventBlocks(tx.events) \in SUBSET EventBlock
  BY WindowType DEF TypeOK, Database
<1>1. CASE Begin
  BY <1>1, <1>0 DEF Begin, TypeOK
<1>2. CASE ReadHeight
  <2>1. to' \in Nat
    BY <1>2 DEF ReadHeight, HeadKnown, TypeOK, ChainTypeOK
  <2>2. cur' \in Nat
    BY <1>2 DEF ReadHeight, TypeOK, Database
  <2> QED
    BY <1>2, <1>0, <2>1, <2>2 DEF ReadHeight, TypeOK
<1>3. CASE Compare
  <2>1. cur' \in Nat
    BY <1>3 DEF Compare, TypeOK, Database
  <2> QED
    BY <1>3, <1>0, <2>1 DEF Compare, TypeOK
<1>4. CASE CheckOldest
  <2>1. from' \in EventBlock
    BY <1>4, <1>17 DEF CheckOldest, TypeOK
  <2>2. pc' \in {"noEvents", "newest", "tooLarge"}
    BY <1>4 DEF CheckOldest
  <2> QED
    BY <1>4, <1>0, <2>1, <2>2 DEF CheckOldest, TypeOK
<1>5. CASE CheckNewest
  <2>1. from' \in EventBlock /\ upto' \in EventBlock
    BY <1>5, <1>17 DEF CheckNewest, TypeOK
  <2>2. pc' \in {"revert", "search"}
    BY <1>5 DEF CheckNewest
  <2> QED
    BY <1>5, <1>0, <2>1, <2>2 DEF CheckNewest, TypeOK
<1>6. CASE Search
  <2>1. from' \in EventBlock /\ upto' \in EventBlock
    BY <1>6, <1>17 DEF Search, Between, TypeOK
  <2>2. pc' \in {"revert", "search"}
    BY <1>6 DEF Search
  <2> QED
    BY <1>6, <1>0, <2>1, <2>2 DEF Search, TypeOK
<1>7. CASE Revert
  <2> DEFINE kept == UpTo(tx.events, from.block)
             affected == Affected(tx.events \ kept)
             touched == {e \in kept : e.token \in affected}
  <2>1. PICK done \in Applied(touched) :
          tx' = [block   |-> from.block,
                 hash    |-> from.hash,
                 events  |-> kept,
                 domains |-> [t \in Tokens |->
                                IF t \in affected THEN BlocksOfToken(done, t)
                                                  ELSE tx.domains[t]]]
    BY <1>7 DEF Revert
  <2>2. kept \in SUBSET Event
    BY DEF UpTo, TypeOK, Database
  <2>3. done \in SUBSET Event
    BY <2>1, <2>2, AppliedSubset
  <2>4. \A t \in Tokens : BlocksOfToken(done, t) \in SUBSET EventBlock
    BY <2>3, BlocksOfTokenType
  <2>5. tx.domains \in [Tokens -> SUBSET EventBlock]
    BY DEF TypeOK, Database
  <2>6. from.block \in Nat /\ from.hash \in Nat
    BY DEF TypeOK, EventBlock
  <2> HIDE DEF kept, affected, touched
  <2>7. tx' \in Database
    BY <2>1, <2>2, <2>4, <2>5, <2>6 DEF Database
  <2> QED
    BY <1>7, <1>0, <2>6, <2>7 DEF Revert, TypeOK
<1>8. CASE FetchEvents
  <2>1. FetchBlock \in Nat
    BY DEF FetchBlock, TypeOK
  <2>2. EventsIn(cur + 1, FetchBlock) \in SUBSET Event
    BY <2>1, EventsInType DEF TypeOK
  <2>3. tx' \in Database
    <3>1. CASE Collides(EventsIn(cur + 1, FetchBlock))
      BY <1>8, <3>1 DEF FetchEvents, TypeOK
    <3>2. CASE ~Collides(EventsIn(cur + 1, FetchBlock))
      <4> DEFINE fetched == EventsIn(cur + 1, FetchBlock)
      <4>1. PICK done \in Applied(fetched) :
              tx' = [tx EXCEPT
                       !.events  = @ \cup fetched,
                       !.domains = [t \in Tokens |->
                                      @[t] \cup BlocksOfToken(done, t)]]
        BY <1>8, <3>2 DEF FetchEvents
      <4>2. done \in SUBSET Event
        BY <4>1, <2>2, AppliedSubset
      <4>3. \A t \in Tokens : BlocksOfToken(done, t) \in SUBSET EventBlock
        BY <4>2, BlocksOfTokenType
      <4>4. tx \in Database
        BY DEF TypeOK
      <4>5. fetched \in SUBSET Event
        BY <2>2
      <4> HIDE DEF fetched
      <4> QED
        BY <4>1, <4>3, <4>4, <4>5 DEF Database
    <3> QED
      BY <3>1, <3>2
  <2>4. cur' \in Nat /\ pc' \in {"duplicate", "hash"}
    BY <1>8, <2>1 DEF FetchEvents, TypeOK
  <2> QED
    BY <1>8, <1>0, <2>3, <2>4 DEF FetchEvents, TypeOK
<1>9. CASE SaveStatus
  <2>1. tx' \in Database
    BY <1>9, HashAtType, WithStatusType DEF SaveStatus, TypeOK
  <2> QED
    BY <1>9, <1>0, <2>1 DEF SaveStatus, TypeOK
<1>10. CASE Commit
  BY <1>10, <1>0, <1>16 DEF Commit, EndRun, TypeOK
<1>11. CASE Rollback
  BY <1>11, <1>0, <1>16 DEF Rollback, EndRun, TypeOK
<1>12. CASE Fail
  BY <1>12, <1>0, <1>16 DEF Fail, EndRun, TypeOK
<1>13. ASSUME NEW n \in 1 .. MaxHeight, Resync(n)
       PROVE  TypeOK'
  <2>1. WithStatus(db, n, HashAt(n)) \in Database
    BY HashAtType, WithStatusType DEF TypeOK
  <2>2. db' \in Database
    BY <1>13, <2>1 DEF Resync, UpTo, Database
  <2> QED
    BY <1>13, <1>0, <2>2 DEF Resync, TypeOK
<1>14. CASE ChainMoves
  BY <1>14, ChainStepType DEF ChainMoves, runVars, TypeOK
<1>15. CASE UNCHANGED vars
  BY <1>15, <1>0 DEF vars, runVars, TypeOK
<1> QED
  BY <1>1, <1>2, <1>3, <1>4, <1>5, <1>6, <1>7, <1>8, <1>9, <1>10, <1>11,
     <1>12, <1>13, <1>14, <1>15 DEF Next, WorkerStep

\* Every variable keeps its type, for every chain and every configuration.
THEOREM TypeCorrect == Spec => []TypeOK
<1>1. Init => TypeOK
  BY InitTypeOK
<1>2. TypeOK /\ [Next]_vars => TypeOK'
  BY NextTypeOK
<1> QED
  BY <1>1, <1>2, PTL DEF Spec

-----------------------------------------------------------------------------
(* The events table never runs ahead of the worker status *)

\* EventsBelowStatus is not inductive: a commit needs to know that the open
\* transaction has no event above the status it is about to publish, and a
\* fetch that none is above the block it starts from.
Below(d) == \A e \in d.events : e.block <= d.block

StatusInv ==
    /\ Below(db)
    /\ pc # "hash" /\ pc # "duplicate" => Below(tx)
    /\ pc = "loop" => tx.block <= cur
    /\ pc = "hash" => \A e \in tx.events : e.block <= cur
    /\ pc # "duplicate"

LEMMA StatusInvStep ==
    TypeOK /\ StatusInv /\ [Next]_vars => StatusInv'
<1> SUFFICES ASSUME TypeOK, StatusInv, [Next]_vars PROVE StatusInv'
  OBVIOUS
<1> USE DEF StatusInv
<1>1. CASE Begin
  BY <1>1 DEF Begin, Below, Idle
<1>2. CASE ReadHeight
  <2>1. Below(tx) /\ Below(db)
    BY <1>2 DEF ReadHeight
  <2>2. tx.block \in Nat /\ StartBlock \in Nat
    BY ChainAssumption DEF TypeOK, Database
  <2>3. pc' = "loop" => tx.block <= cur'
    BY <1>2, <2>2 DEF ReadHeight
  <2> QED
    BY <1>2, <2>1, <2>3 DEF ReadHeight, Below
<1>3. CASE Compare
  <2>1. pc' = "loop" => tx.block <= cur'
    BY <1>3 DEF Compare, TypeOK, Database
  <2> QED
    BY <1>3, <2>1 DEF Compare, Below
<1>4. CASE CheckOldest
  <2>1. pc' \in {"noEvents", "newest", "tooLarge"}
    BY <1>4 DEF CheckOldest
  <2> QED
    BY <1>4, <2>1 DEF CheckOldest, Below
<1>5. CASE CheckNewest
  <2>1. pc' \in {"revert", "search"}
    BY <1>5 DEF CheckNewest
  <2> QED
    BY <1>5, <2>1 DEF CheckNewest, Below
<1>6. CASE Search
  <2>1. pc' \in {"revert", "search"}
    BY <1>6 DEF Search
  <2> QED
    BY <1>6, <2>1 DEF Search, Below
<1>7. CASE Revert
  <2>1. /\ tx'.block = from.block
        /\ tx'.events = UpTo(tx.events, from.block)
        /\ cur' = from.block /\ pc' = "loop" /\ UNCHANGED db
    BY <1>7 DEF Revert
  <2>2. from.block \in Nat
    BY DEF TypeOK, EventBlock
  <2> QED
    BY <2>1, <2>2 DEF UpTo, Below
<1>8. CASE FetchEvents
  <2> DEFINE fetched == EventsIn(cur + 1, FetchBlock)
  <2>1. FetchBlock \in Nat /\ cur \in Nat /\ cur <= FetchBlock
    <3>1. cur \in Nat /\ to \in Nat /\ cur < to /\ FetchLimit \in Nat
      BY <1>8, WorkerAssumption DEF FetchEvents, TypeOK
    <3> QED
      BY <3>1 DEF FetchBlock
  <2>2. fetched \in SUBSET Event
        /\ \A e \in fetched : cur + 1 <= e.block /\ e.block <= FetchBlock
    BY <2>1, EventsInType DEF TypeOK
  <2>3. \A e \in tx.events : e.block \in Nat /\ e.block <= cur
    <3> SUFFICES ASSUME NEW e \in tx.events PROVE e.block \in Nat /\ e.block <= cur
      OBVIOUS
    <3>1. e.block \in Nat /\ tx.block \in Nat
      BY DEF TypeOK, Database, Event
    <3>2. e.block <= tx.block /\ tx.block <= cur
      BY <1>8 DEF FetchEvents, Below
    <3> QED
      BY <3>1, <3>2, <2>1
  <2>4. ~Collides(fetched)
    BY <2>1, <2>2, <2>3 DEF Collides, Event
  <2> HIDE DEF fetched
  <2>5. /\ tx'.events = tx.events \cup fetched
        /\ cur' = FetchBlock /\ pc' = "hash" /\ UNCHANGED db
    <3>1. PICK done \in Applied(fetched) :
            tx' = [tx EXCEPT
                     !.events  = @ \cup fetched,
                     !.domains = [t \in Tokens |->
                                    @[t] \cup BlocksOfToken(done, t)]]
      BY <1>8, <2>4 DEF FetchEvents, fetched
    <3>2. tx \in Database
      BY DEF TypeOK
    <3> QED
      BY <1>8, <2>4, <3>1, <3>2 DEF FetchEvents, fetched, Database
  <2>6. \A e \in tx'.events : e.block <= cur'
    BY <2>1, <2>2, <2>3, <2>5 DEF Event
  <2> QED
    BY <2>5, <2>6 DEF Below
<1>9. CASE SaveStatus
  <2>1. /\ tx'.block = cur
        /\ tx'.events = tx.events
    <3>1. tx \in Database /\ cur \in Nat /\ HashAt(cur) \in Nat
      BY HashAtType DEF TypeOK
    <3>2. tx' = WithStatus(tx, cur, HashAt(cur))
      BY <1>9 DEF SaveStatus
    <3> QED
      BY <3>1, <3>2, WithStatusType
  <2>2. cur \in Nat /\ pc' = "loop" /\ UNCHANGED <<cur, db>>
    BY <1>9 DEF SaveStatus, TypeOK
  <2> QED
    BY <1>9, <2>1, <2>2 DEF SaveStatus, Below
<1>10. CASE Commit
  BY <1>10 DEF Commit, EndRun, Below, Idle
<1>11. CASE Rollback
  BY <1>11 DEF Rollback, EndRun, Below, Idle
<1>12. CASE Fail
  BY <1>12 DEF Fail, EndRun, Below, Idle
<1>13. ASSUME NEW n \in 1 .. MaxHeight, Resync(n)
       PROVE  StatusInv'
  <2>1. db'.block = n /\ db'.events = UpTo(db.events, n)
    <3>1. n \in Nat
      BY ChainAssumption
    <3>0. db \in Database /\ HashAt(n) \in Nat
      BY <3>1, HashAtType DEF TypeOK
    <3>2. /\ WithStatus(db, n, HashAt(n)) \in Database
          /\ WithStatus(db, n, HashAt(n)).block = n
          /\ WithStatus(db, n, HashAt(n)).events = db.events
      BY <3>1, <3>0, WithStatusType
    <3> QED
      BY <1>13, <3>2 DEF Resync, Database
  <2>2. tx' = db' /\ pc' = Idle
    BY <1>13 DEF Resync
  <2>3. Below(db')
    BY <2>1 DEF Below, UpTo
  <2> QED
    BY <2>2, <2>3 DEF Below, Idle
<1>14. CASE ChainMoves
  BY <1>14 DEF ChainMoves, runVars, Below
<1>15. CASE UNCHANGED vars
  BY <1>15 DEF vars, runVars, Below
<1> QED
  BY <1>1, <1>2, <1>3, <1>4, <1>5, <1>6, <1>7, <1>8, <1>9, <1>10, <1>11,
     <1>12, <1>13, <1>14, <1>15 DEF Next, WorkerStep

LEMMA StatusInvariant == Spec => []StatusInv
<1>1. Init => StatusInv
  BY DEF Init, StatusInv, Below, Idle
<1>2. TypeOK /\ StatusInv /\ [Next]_vars => StatusInv'
  BY StatusInvStep
<1> QED
  BY <1>1, <1>2, TypeCorrect, PTL DEF Spec

\* In every state of every run no event lies above the block the worker status
\* names, rolled back, reverted and resynced runs included (BaseWorker.ts:197).
THEOREM StatusBoundsEvents == Spec => []EventsBelowStatus
<1>1. TypeOK /\ StatusInv => EventsBelowStatus
  <2> SUFFICES ASSUME TypeOK, StatusInv PROVE EventsBelowStatus
    OBVIOUS
  <2>1. pc = "loop" => \A e \in tx.events : e.block <= cur
    BY DEF StatusInv, Below, TypeOK, Database, Event
  <2> QED
    BY <2>1 DEF StatusInv, Below, EventsBelowStatus
<1> QED
  BY <1>1, TypeCorrect, StatusInvariant, PTL

\* saveEvents never meets the unique index of the events table
\* (CnsRegistryEvent.ts:19), whatever the chain, the faults and the resyncs.
THEOREM UniqueIndexSafe == Spec => []NeverDuplicate
<1>1. StatusInv => NeverDuplicate
  BY DEF StatusInv, NeverDuplicate
<1> QED
  BY <1>1, StatusInvariant, PTL

-----------------------------------------------------------------------------
(* No domain outlives the events that made it *)

Justified(d) ==
    \A t \in Tokens \ ShortIds : d.domains[t] \subseteq BlocksOfToken(d.events, t)

\* Both tables of the open transaction move together, so the property holds of
\* tx in the middle of a run as well.
JustifiedInv == Justified(db) /\ Justified(tx)

LEMMA JustifiedStep ==
    ASSUME ~ResyncAllowed
    PROVE  TypeOK /\ JustifiedInv /\ [Next]_vars => JustifiedInv'
<1> SUFFICES ASSUME TypeOK, JustifiedInv, [Next]_vars PROVE JustifiedInv'
  OBVIOUS
<1> USE DEF JustifiedInv
<1>1. CASE UNCHANGED <<db, tx>>
  BY <1>1 DEF Justified
<1>2. CASE Revert
  <2> DEFINE kept == UpTo(tx.events, from.block)
             affected == Affected(tx.events \ kept)
             touched == {e \in kept : e.token \in affected}
  <2>1. PICK done \in Applied(touched) :
          tx' = [block   |-> from.block,
                 hash    |-> from.hash,
                 events  |-> kept,
                 domains |-> [t \in Tokens |->
                                IF t \in affected THEN BlocksOfToken(done, t)
                                                  ELSE tx.domains[t]]]
    BY <1>2 DEF Revert
  <2>2. done \subseteq kept
    BY <2>1, AppliedSubset
  <2>3. \A t \in Tokens \ ShortIds :
          t \notin affected => BlocksOfToken(tx.events, t) = BlocksOfToken(kept, t)
    BY DEF UpTo, Affected, BlocksOfToken
  <2>4. \A t : BlocksOfToken(done, t) \subseteq BlocksOfToken(kept, t)
    BY <2>2 DEF BlocksOfToken
  <2> HIDE DEF kept, affected, touched
  <2>5. Justified(tx')
    BY <2>1, <2>3, <2>4 DEF Justified
  <2> QED
    BY <1>2, <2>5 DEF Revert, Justified
<1>3. CASE FetchEvents
  <2> DEFINE fetched == EventsIn(cur + 1, FetchBlock)
  <2>1. CASE Collides(fetched)
    BY <1>3, <2>1 DEF FetchEvents, Justified
  <2>2. CASE ~Collides(fetched)
    <3>1. PICK done \in Applied(fetched) :
            tx' = [tx EXCEPT
                     !.events  = @ \cup fetched,
                     !.domains = [t \in Tokens |->
                                    @[t] \cup BlocksOfToken(done, t)]]
      BY <1>3, <2>2 DEF FetchEvents
    <3>2. done \subseteq fetched
      BY <3>1, AppliedSubset
    <3>3. tx \in Database
      BY DEF TypeOK
    <3>4. /\ tx'.events = tx.events \cup fetched
          /\ \A t \in Tokens :
                tx'.domains[t] = tx.domains[t] \cup BlocksOfToken(done, t)
      BY <3>1, <3>3 DEF Database
    <3>5. \A t : /\ BlocksOfToken(done, t) \subseteq BlocksOfToken(tx'.events, t)
                 /\ BlocksOfToken(tx.events, t) \subseteq BlocksOfToken(tx'.events, t)
      BY <3>2, <3>4 DEF BlocksOfToken
    <3> QED
      BY <1>3, <3>4, <3>5 DEF FetchEvents, Justified
  <2> QED
    BY <2>1, <2>2
<1>4. CASE SaveStatus
  <2>1. tx'.events = tx.events /\ tx'.domains = tx.domains
    <3>1. tx \in Database /\ cur \in Nat /\ HashAt(cur) \in Nat
      BY HashAtType DEF TypeOK
    <3>2. tx' = WithStatus(tx, cur, HashAt(cur))
      BY <1>4 DEF SaveStatus
    <3> QED
      BY <3>1, <3>2, WithStatusType
  <2> QED
    BY <1>4, <2>1 DEF SaveStatus, Justified
<1>5. CASE Commit
  BY <1>5 DEF Commit, EndRun, Justified
<1>6. CASE Rollback \/ Fail
  BY <1>6 DEF Rollback, Fail, EndRun, Justified
<1>7. ~ \E n \in 1 .. MaxHeight : Resync(n)
  BY DEF Resync
<1> QED
  BY <1>1, <1>2, <1>3, <1>4, <1>5, <1>6, <1>7
  DEF Next, WorkerStep, Begin, ReadHeight, Compare, CheckOldest, CheckNewest,
      Search, ChainMoves, runVars, vars

\* As long as nobody calls resync, which cleans up without a rebuild
\* (BaseWorker.ts:238), no committed domain with a full-length token id keeps
\* the effect of an event that the events table no longer has.
THEOREM DomainsFollowEvents ==
    ASSUME ~ResyncAllowed
    PROVE  Spec => []DomainsJustified
<1>1. Init => JustifiedInv
  BY DEF Init, JustifiedInv, Justified, BlocksOfToken
<1>2. TypeOK /\ JustifiedInv /\ [Next]_vars => JustifiedInv'
  BY JustifiedStep
<1>3. JustifiedInv => DomainsJustified
  BY DEF JustifiedInv, Justified, DomainsJustified
<1> QED
  BY <1>1, <1>2, <1>3, TypeCorrect, PTL DEF Spec
-----------------------------------------------------------------------------
(***************************************************************************)
(* What a worker publishes and the chain: theorems for all chains, batch   *)
(* sizes, window sizes and faults.  Two regimes are covered: the chain may *)
(* reorganise between runs only, at any depth; or at any time, but never   *)
(* below the confirmed head.                                               *)
(***************************************************************************)

\* Hashes are of known forks, and everything deep enough is final.
ChainInv ==
    /\ \A n \in DOMAIN chain : chain[n].hash \in 1 .. forks
    /\ final <= Len(chain)
    /\ Len(chain) - FinalityDepth <= final

\* Nothing in d is of a block that may still be orphaned.
FinalOnly(d) ==
    /\ \A e \in d.events : e.block <= final /\ Canonical(e)
    /\ \A t \in Tokens : \A b \in d.domains[t] :
          b.block <= final /\ HashAt(b.block) = b.hash

FinalInv == ChainInv /\ to <= final /\ FinalOnly(db) /\ FinalOnly(tx)

-----------------------------------------------------------------------------
\* What a run has read of block n is not changed before the run ends.
Stable(n) == n <= IF ReorgDuringRun THEN final ELSE Len(chain)

\* The blocks that d claims to have mirrored, with the hash each had.
StatusBlock(d) == [block |-> d.block, hash |-> d.hash]
Points(d) ==
    EventBlocks(d.events) \cup {b \in {StatusBlock(d)} : b.hash # NoHash}

\* Such a block is of a fork there was, and if it is of the current one it is
\* still on the chain.
Known(p) ==
    /\ p.hash \in 1 .. forks
    /\ p.hash = forks => p.block <= Len(chain)
    /\ ReorgDuringRun => p.block <= final

\* If it is on the chain, d is exact up to it.
ExactUpTo(d, p) ==
    HashAt(p.block) = p.hash => UpTo(d.events, p.block) = EventsIn(StartBlock + 1, p.block)

Explained(d) == \A p \in Points(d) : Known(p) /\ ExactUpTo(d, p)

\* findLastMatchingBlock looks for from: a mirrored block on the chain, and in
\* the end the last of them.
Searching ==
    /\ pc \in {"newest", "search", "revert"} =>
         /\ from \in LatestEventBlocks(db.events)
         /\ Matches(from)
    /\ pc = "search" => upto \in EventBlocks(db.events) /\ ~Matches(upto)
    /\ pc = "revert" =>
         \A b \in EventBlocks(db.events) : Matches(b) => b.block <= from.block

\* In the loop the transaction is exact up to currentSyncBlock and has lost
\* nothing that is canonical.
Looping ==
    /\ pc \in {"loop", "hash"} =>
         /\ StartBlock <= cur
         /\ Stable(cur) \/ cur = StartBlock
         /\ tx.events = EventsIn(StartBlock + 1, cur)
         /\ \A e \in db.events : Canonical(e) => e \in tx.events
    /\ pc = "hash" => Stable(cur)
    /\ pc = "loop" =>
         \/ tx = db /\ tx.block = 0
         \/ Stable(cur) /\ tx.block = cur /\ tx.hash = HashAt(cur)

\* MirrorExact is not inductive: the search for the last matching block needs it of
\* every block that was mirrored, and a commit of the tables of the transaction.
RunInv ==
    /\ ChainInv
    /\ Explained(db)
    /\ db.block = 0 => db.events = {}
    /\ db.block # 0 => StartBlock <= db.block
    /\ Stable(to)
    /\ pc = Idle => to = 0
    /\ pc \notin {"loop", "hash"} => tx = db
    /\ Searching
    /\ Looping

-----------------------------------------------------------------------------
(* Lemmas about the chain *)

\* A step of the chain keeps its first k blocks and puts one block of the
\* current fork on them: k is the height of the chain, or the fork is new.
LEMMA ChainStepShape ==
    ASSUME ChainTypeOK, ChainInv, ChainStep
    PROVE  \E k \in Nat :
             /\ final <= k /\ k <= Len(chain) /\ Len(chain') = k + 1
             /\ \A n \in 1 .. k : chain'[n] = chain[n]
             /\ chain'[k + 1].hash = forks'
             /\ \/ forks' = forks /\ k = Len(chain)
                \/ forks' = forks + 1
             /\ final <= final' /\ final' <= k + 1 /\ k + 1 - FinalityDepth <= final'
<1> USE ChainAssumption DEF ChainTypeOK, ChainInv
<1>1. PICK S \in SUBSET Tokens :
        Mine(S) \/ \E k \in 1 .. Len(chain) - 1 : Reorg(k, S)
  BY DEF ChainStep
<1>2. CASE Mine(S)
  <2> DEFINE block == [hash |-> forks, ev |-> S]
  <2>1. chain' = Append(chain, block) /\ forks' = forks
    BY <1>2 DEF Mine
  <2>2. Len(chain') = Len(chain) + 1 /\ chain'[Len(chain) + 1] = block
    BY <2>1
  <2>3. \A n \in 1 .. Len(chain) : chain'[n] = chain[n]
    BY <2>1
  <2>4. /\ final <= final' /\ final' <= Len(chain) + 1
        /\ Len(chain) + 1 - FinalityDepth <= final'
    BY <1>2 DEF Mine, Finalized
  <2>5. Len(chain) \in Nat /\ final <= Len(chain)
    OBVIOUS
  <2>6. chain'[Len(chain) + 1].hash = forks'
    BY <2>1, <2>2
  <2> HIDE DEF block
  <2> WITNESS Len(chain) \in Nat
  <2> QED
    BY <2>1, <2>2, <2>3, <2>4, <2>5, <2>6
<1>3. CASE \E k \in 1 .. Len(chain) - 1 : Reorg(k, S)
  <2>1. PICK k \in 1 .. Len(chain) - 1 : Reorg(k, S)
    BY <1>3
  <2> DEFINE block == [hash |-> forks + 1, ev |-> S]
             kept  == SubSeq(chain, 1, k)
  <2>2. /\ chain' = Append(kept, block) /\ forks' = forks + 1
        /\ final' = final /\ final <= k
    BY <2>1 DEF Reorg
  <2>3. kept \in Seq(Block) /\ Len(kept) = k /\ \A n \in 1 .. k : kept[n] = chain[n]
    OBVIOUS
  <2> HIDE DEF kept
  <2>4. Len(chain') = k + 1 /\ chain'[k + 1] = block
    BY <2>2, <2>3
  <2>5. \A n \in 1 .. k : chain'[n] = chain[n]
    BY <2>2, <2>3
  <2>6. k + 1 <= Len(chain) /\ k \in Nat /\ Len(chain) \in Nat
    OBVIOUS
  <2>7. block.hash = forks + 1
    OBVIOUS
  <2>8. chain'[k + 1].hash = forks'
    BY <2>2, <2>4, <2>7
  <2> HIDE DEF block
  <2>9. final <= final' /\ final' <= k + 1 /\ k + 1 - FinalityDepth <= final' /\ k <= Len(chain)
    BY <2>2, <2>6
  <2> WITNESS k \in Nat
  <2> QED
    BY <2>2, <2>4, <2>5, <2>8, <2>9
<1> QED
  BY <1>1, <1>2, <1>3

LEMMA ChainInvStep ==
    ASSUME ChainTypeOK, ChainInv, ChainStep
    PROVE  ChainInv'
<1>1. PICK k \in Nat :
        /\ k <= Len(chain) /\ Len(chain') = k + 1
        /\ \A n \in 1 .. k : chain'[n] = chain[n]
        /\ chain'[k + 1].hash = forks'
        /\ forks' = forks \/ forks' = forks + 1
        /\ final' <= k + 1 /\ k + 1 - FinalityDepth <= final'
  BY ChainStepShape
<1>2. ChainTypeOK'
  BY ChainStepType
<1>3. DOMAIN chain = 1 .. Len(chain) /\ DOMAIN chain' = 1 .. k + 1 /\ Len(chain) \in Nat
  BY <1>1, <1>2 DEF ChainTypeOK
<1>4. ASSUME NEW n \in DOMAIN chain'
      PROVE  chain'[n].hash \in 1 .. forks'
  <2>1. CASE n = k + 1
    BY <1>1, <2>1 DEF ChainTypeOK
  <2>2. CASE n \in 1 .. k
    <3>1. chain[n].hash \in 1 .. forks /\ chain'[n] = chain[n]
      BY <1>1, <1>3, <2>2 DEF ChainInv
    <3> QED
      BY <1>1, <3>1 DEF ChainTypeOK
  <2> QED
    BY <1>3, <1>1, <2>1, <2>2
<1>5. final' <= Len(chain') /\ Len(chain') - FinalityDepth <= final'
  BY <1>1, <1>2, ChainAssumption DEF ChainTypeOK
<1> QED
  BY <1>4, <1>5 DEF ChainInv

\* A block below the one after which the chain changed is not changed.
LEMMA PrefixKept ==
    ASSUME ChainTypeOK, ChainTypeOK', NEW n \in Nat, NEW a \in Nat,
           n <= Len(chain), n <= Len(chain'),
           \A m \in 1 .. n : chain'[m] = chain[m]
    PROVE  /\ HashAt(n)' = HashAt(n)
           /\ EventsIn(a, n)' = EventsIn(a, n)
<1>1. /\ DOMAIN chain = 1 .. Len(chain) /\ Len(chain) \in Nat
      /\ DOMAIN chain' = 1 .. Len(chain') /\ Len(chain') \in Nat
  BY DEF ChainTypeOK
<1>2. HashAt(n)' = HashAt(n)
  <2>1. n \in DOMAIN chain <=> n \in DOMAIN chain'
    BY <1>1
  <2>2. n \in DOMAIN chain => chain'[n] = chain[n]
    BY <1>1
  <2> QED
    BY <2>1, <2>2 DEF HashAt
<1>3. (a .. n) \cap DOMAIN chain' = (a .. n) \cap DOMAIN chain
  BY <1>1
<1>4. \A m \in (a .. n) \cap DOMAIN chain : chain'[m] = chain[m]
  BY <1>1
<1>5. EventsIn(a, n)' = EventsIn(a, n)
  BY <1>3, <1>4 DEF EventsIn
<1> QED
  BY <1>2, <1>5

\* What is final is never changed.
LEMMA FinalKept ==
    ASSUME ChainTypeOK, ChainInv, ChainStep, NEW n \in Nat, n <= final, NEW a \in Nat
    PROVE  /\ n <= final' /\ HashAt(n)' = HashAt(n)
           /\ EventsIn(a, n)' = EventsIn(a, n)
<1>1. PICK k \in Nat :
        /\ final <= k /\ k <= Len(chain) /\ Len(chain') = k + 1
        /\ \A m \in 1 .. k : chain'[m] = chain[m]
        /\ final <= final' /\ final' <= k + 1 /\ k + 1 - FinalityDepth <= final'
  BY ChainStepShape
<1>2. ChainTypeOK'
  BY ChainStepType
<1>3. final \in Nat /\ final' \in Nat /\ Len(chain) \in Nat
  BY <1>2 DEF ChainTypeOK
<1>4. n <= Len(chain) /\ n <= Len(chain') /\ \A m \in 1 .. n : chain'[m] = chain[m]
  BY <1>1, <1>3
<1> QED
  BY <1>1, <1>2, <1>3, <1>4, PrefixKept

-----------------------------------------------------------------------------
(* Nothing of an orphaned block is committed *)

\* A database of final blocks stays one while the chain moves.
LEMMA FinalOnlyKept ==
    ASSUME ChainTypeOK, ChainInv, ChainStep, NEW d \in Database, FinalOnly(d)
    PROVE  FinalOnly(d)'
<1>1. ASSUME NEW e \in d.events
      PROVE  e.block <= final' /\ HashAt(e.block)' = e.hash
  <2>1. e.block \in Nat /\ e.block <= final /\ HashAt(e.block) = e.hash
    BY DEF Database, Event, FinalOnly, Canonical
  <2> QED
    BY <2>1, FinalKept
<1>2. ASSUME NEW t \in Tokens, NEW b \in d.domains[t]
      PROVE  b.block <= final' /\ HashAt(b.block)' = b.hash
  <2>1. b.block \in Nat /\ b.block <= final /\ HashAt(b.block) = b.hash
    BY DEF Database, EventBlock, FinalOnly
  <2> QED
    BY <2>1, FinalKept
<1> QED
  BY <1>1, <1>2 DEF FinalOnly, Canonical

\* The events of final blocks are final.
LEMMA FetchedFinal ==
    ASSUME ChainTypeOK, NEW a \in Nat, NEW n \in Nat, n <= final
    PROVE  \A e \in EventsIn(a, n) : e.block <= final /\ Canonical(e)
<1> SUFFICES ASSUME NEW e \in EventsIn(a, n)
             PROVE  e.block <= final /\ Canonical(e)
  OBVIOUS
<1>1. PICK m \in (a .. n) \cap DOMAIN chain : \E t \in chain[m].ev :
        e = [block |-> m, hash |-> chain[m].hash, token |-> t]
  BY DEF EventsIn
<1>2. e.block = m /\ e.hash = chain[m].hash /\ m \in Nat /\ m <= n
  BY <1>1
<1> QED
  BY <1>1, <1>2 DEF Canonical, HashAt, ChainTypeOK

\* What the events of E say of a token, their blocks do.
LEMMA TokenBlocksFinal ==
    ASSUME NEW E, \A e \in E : e.block <= final /\ Canonical(e), NEW t
    PROVE  \A b \in BlocksOfToken(E, t) : b.block <= final /\ HashAt(b.block) = b.hash
BY DEF BlocksOfToken, BlockOf, Canonical

LEMMA FinalInvStep ==
    ASSUME FinalityDepth <= Confirmations
    PROVE  TypeOK /\ FinalInv /\ [Next]_vars => FinalInv'
<1> SUFFICES ASSUME TypeOK, FinalInv, [Next]_vars PROVE FinalInv'
  OBVIOUS
<1> USE ChainAssumption, WorkerAssumption
<1>0. ASSUME UNCHANGED chainVars, to' <= final, FinalOnly(db'), FinalOnly(tx')
      PROVE  FinalInv'
  BY <1>0 DEF FinalInv, ChainInv, FinalOnly, Canonical, HashAt, chainVars
<1>a. 0 <= final
  BY DEF TypeOK, ChainTypeOK
<1>1. CASE UNCHANGED <<chainVars, db, tx, to>>
  BY <1>1, <1>0 DEF FinalInv
<1>2. CASE ReadHeight
  <2>1. to' = Len(chain) - Confirmations /\ UNCHANGED <<chainVars, db, tx>>
    BY <1>2 DEF ReadHeight
  <2>2. to' <= final
    BY <2>1 DEF FinalInv, ChainInv, TypeOK, ChainTypeOK
  <2> QED
    BY <1>0, <2>1, <2>2 DEF FinalInv
<1>3. CASE Revert
  <2> DEFINE kept == UpTo(tx.events, from.block)
             affected == Affected(tx.events \ kept)
             touched == {e \in kept : e.token \in affected}
  <2>1. PICK done \in Applied(touched) :
          tx' = [block   |-> from.block,
                 hash    |-> from.hash,
                 events  |-> kept,
                 domains |-> [t \in Tokens |->
                                IF t \in affected THEN BlocksOfToken(done, t)
                                                  ELSE tx.domains[t]]]
    BY <1>3 DEF Revert
  <2>2. kept \subseteq tx.events /\ done \subseteq kept
    BY <2>1, AppliedSubset DEF UpTo
  <2> HIDE DEF kept, affected, touched
  <2>3. \A e \in kept : e.block <= final /\ Canonical(e)
    BY <2>2 DEF FinalInv, FinalOnly
  <2>4. \A t : \A b \in BlocksOfToken(done, t) :
           b.block <= final /\ HashAt(b.block) = b.hash
    BY <2>2, <2>3, TokenBlocksFinal
  <2>5. FinalOnly(tx')
    BY <2>1, <2>3, <2>4 DEF FinalInv, FinalOnly
  <2> QED
    BY <1>3, <1>0, <2>5 DEF Revert, FinalInv
<1>4. CASE FetchEvents
  <2> DEFINE fetched == EventsIn(cur + 1, FetchBlock)
  <2>1. CASE Collides(fetched)
    BY <1>4, <1>0, <2>1 DEF FetchEvents, FinalInv
  <2>2. CASE ~Collides(fetched)
    <3>1. PICK done \in Applied(fetched) :
            tx' = [tx EXCEPT
                     !.events  = @ \cup fetched,
                     !.domains = [t \in Tokens |->
                                    @[t] \cup BlocksOfToken(done, t)]]
      BY <1>4, <2>2 DEF FetchEvents
    <3>2. done \subseteq fetched
      BY <3>1, AppliedSubset
    <3>3. cur + 1 \in Nat /\ FetchBlock \in Nat /\ FetchBlock <= final
      BY DEF FetchBlock, TypeOK, ChainTypeOK, FinalInv
    <3>4. \A e \in fetched : e.block <= final /\ Canonical(e)
      BY <3>3, FetchedFinal DEF TypeOK
    <3> HIDE DEF fetched
    <3>5. \A t : \A b \in BlocksOfToken(done, t) :
             b.block <= final /\ HashAt(b.block) = b.hash
      BY <3>2, <3>4, TokenBlocksFinal
    <3>6. /\ tx'.events = tx.events \cup fetched
          /\ \A t \in Tokens :
                tx'.domains[t] = tx.domains[t] \cup BlocksOfToken(done, t)
      BY <3>1 DEF TypeOK, Database
    <3>7. FinalOnly(tx')
      BY <3>4, <3>5, <3>6 DEF FinalInv, FinalOnly
    <3> QED
      BY <1>4, <1>0, <3>7 DEF FetchEvents, FinalInv
  <2> QED
    BY <2>1, <2>2
<1>5. CASE SaveStatus
  <2>0. cur \in Nat /\ HashAt(cur) \in Nat /\ tx \in Database
    BY HashAtType DEF TypeOK
  <2>1. tx'.events = tx.events /\ tx'.domains = tx.domains
    BY <1>5, <2>0 DEF SaveStatus, WithStatus, Database
  <2> QED
    BY <1>5, <1>0, <2>1 DEF SaveStatus, FinalInv, FinalOnly
<1>6. CASE Commit
  BY <1>6, <1>0, <1>a DEF Commit, EndRun, FinalInv
<1>7. CASE Rollback \/ Fail
  BY <1>7, <1>0, <1>a DEF Rollback, Fail, EndRun, FinalInv
<1>8. ASSUME NEW n \in 1 .. MaxHeight, Resync(n)
      PROVE  FinalInv'
  <2>1. db' = [WithStatus(db, n, HashAt(n)) EXCEPT !.events = UpTo(@, n)]
    BY <1>8 DEF Resync
  <2>0. n \in Nat /\ HashAt(n) \in Nat /\ db \in Database
    BY HashAtType DEF TypeOK
  <2>2. /\ WithStatus(db, n, HashAt(n)) \in Database
        /\ WithStatus(db, n, HashAt(n)).events = db.events
        /\ WithStatus(db, n, HashAt(n)).domains = db.domains
    BY <2>0 DEF WithStatus, Database
  <2>3. db'.events \subseteq db.events /\ db'.domains = db.domains
    BY <2>1, <2>2 DEF Database, UpTo
  <2>4. FinalOnly(db')
    BY <2>3 DEF FinalInv, FinalOnly
  <2> QED
    BY <1>8, <1>0, <2>4 DEF Resync, FinalInv
<1>9. CASE ChainMoves
  <2>1. ChainTypeOK /\ ChainStep /\ UNCHANGED <<db, tx, to>>
    BY <1>9 DEF ChainMoves, runVars, TypeOK
  <2>2. ChainInv' /\ to <= final'
    BY <2>1, ChainInvStep, FinalKept DEF FinalInv, TypeOK
  <2>3. FinalOnly(db)' /\ FinalOnly(tx)'
    BY <2>1, FinalOnlyKept DEF FinalInv, TypeOK
  <2> QED
    BY <2>1, <2>2, <2>3 DEF FinalInv
<1> QED
  BY <1>1, <1>2, <1>3, <1>4, <1>5, <1>6, <1>7, <1>8, <1>9
  DEF Next, WorkerStep, Begin, Compare, CheckOldest, CheckNewest, Search, vars,
      runVars

\* If the confirmations are as many as the chain needs for finality, nothing that
\* is committed is of an orphaned block: not for any chain that reorganises at any
\* moment, nor for runs that fail or are resynced (BaseWorker.ts:201).
THEOREM CommittedIsFinal ==
    ASSUME FinalityDepth <= Confirmations
    PROVE  Spec => []NothingOrphaned
<1>1. Init => FinalInv
  <2> SUFFICES ASSUME Init PROVE FinalInv
    OBVIOUS
  <2>1. ChainInv
    BY ChainAssumption DEF Init, ChainInit, ChainInv
  <2> QED
    BY <2>1, ChainAssumption DEF Init, ChainInit, FinalInv, FinalOnly
<1>2. TypeOK /\ FinalInv /\ [Next]_vars => FinalInv'
  BY FinalInvStep
<1>3. FinalInv => NothingOrphaned
  BY DEF FinalInv, FinalOnly, NothingOrphaned
<1> QED
  BY <1>1, <1>2, <1>3, TypeCorrect, PTL DEF Spec

-----------------------------------------------------------------------------
(* Lemmas about what is read and kept *)

\* The events of a range of blocks, one by one.
LEMMA EventsInMember ==
    ASSUME ChainTypeOK, NEW a \in Nat, NEW n \in Nat, NEW e
    PROVE  e \in EventsIn(a, n) <=>
              /\ e \in Event
              /\ a <= e.block /\ e.block <= n /\ e.block \in DOMAIN chain
              /\ e.hash = chain[e.block].hash /\ e.token \in chain[e.block].ev
<1>1. ASSUME e \in EventsIn(a, n)
      PROVE  /\ e \in Event
             /\ a <= e.block /\ e.block <= n /\ e.block \in DOMAIN chain
             /\ e.hash = chain[e.block].hash /\ e.token \in chain[e.block].ev
  <2>1. PICK m \in (a .. n) \cap DOMAIN chain : \E t \in chain[m].ev :
          e = [block |-> m, hash |-> chain[m].hash, token |-> t]
    BY <1>1 DEF EventsIn
  <2>2. e.block = m /\ e.hash = chain[m].hash /\ e.token \in chain[m].ev
    BY <2>1
  <2>3. e \in Event
    BY <1>1, EventsInType
  <2> QED
    BY <2>1, <2>2, <2>3
<1>2. ASSUME e \in Event,
             a <= e.block /\ e.block <= n /\ e.block \in DOMAIN chain,
             e.hash = chain[e.block].hash /\ e.token \in chain[e.block].ev
      PROVE  e \in EventsIn(a, n)
  <2>1. e.block \in (a .. n) \cap DOMAIN chain
    BY <1>2 DEF Event
  <2>2. e = [block |-> e.block, hash |-> chain[e.block].hash, token |-> e.token]
    BY <1>2 DEF Event
  <2> QED
    BY <1>2, <2>1, <2>2 DEF EventsIn
<1> QED
  BY <1>1, <1>2

LEMMA UpToEventsIn ==
    ASSUME ChainTypeOK, NEW a \in Nat, NEW n \in Nat, NEW m \in Nat, m <= n
    PROVE  UpTo(EventsIn(a, n), m) = EventsIn(a, m)
<1>1. ASSUME NEW e
      PROVE  e \in EventsIn(a, n) /\ e.block <= m <=> e \in EventsIn(a, m)
  BY EventsInMember DEF Event
<1> QED
  BY <1>1 DEF UpTo

LEMMA EventsInSplit ==
    ASSUME ChainTypeOK, NEW a \in Nat, NEW m \in Nat, NEW n \in Nat,
           a <= m + 1, m <= n
    PROVE  EventsIn(a, m) \cup EventsIn(m + 1, n) = EventsIn(a, n)
<1>1. ASSUME NEW e
      PROVE  e \in EventsIn(a, n) <=> e \in EventsIn(a, m) \/ e \in EventsIn(m + 1, n)
  BY EventsInMember DEF Event
<1> QED
  BY <1>1

LEMMA EventsInEmpty ==
    ASSUME ChainTypeOK, NEW n \in Nat
    PROVE  EventsIn(n + 1, n) = {}
BY EventsInMember DEF Event

\* The block of an event.
LEMMA EventBlockOf ==
    ASSUME NEW E \in SUBSET Event
    PROVE  /\ EventBlocks(E) \in SUBSET EventBlock
           /\ \A b \in EventBlocks(E) : \E e \in E :
                 e.block = b.block /\ e.hash = b.hash
           /\ \A e \in E : BlockOf(e) \in EventBlocks(E)
BY DEF EventBlocks, BlockOf, Event, EventBlock

\* Finitely many blocks are mirrored.
LEMMA EventBlocksFinite ==
    ASSUME NEW E \in SUBSET Event, NEW n \in Nat, NEW h \in Nat,
           \A b \in EventBlocks(E) : b.block <= n /\ b.hash <= h
    PROVE  IsFiniteSet(EventBlocks(E))
<1> DEFINE Pairs == (0 .. n) \X (0 .. h)
           Blocks == [block : 0 .. n, hash : 0 .. h]
           f == [x \in Pairs |-> [block |-> x[1], hash |-> x[2]]]
<1>1. IsFiniteSet(Pairs)
  <2>1. IsFiniteSet(0 .. n) /\ IsFiniteSet(0 .. h)
    BY FS_Interval
  <2> QED
    BY <2>1, FS_Product
<1>2. f \in Surjection(Pairs, Blocks)
  <2>1. f \in [Pairs -> Blocks]
    OBVIOUS
  <2>2. ASSUME NEW b \in Blocks
        PROVE  \E x \in Pairs : f[x] = b
    <3>1. <<b.block, b.hash>> \in Pairs
      OBVIOUS
    <3>2. f[<<b.block, b.hash>>] = b
      BY <3>1
    <3> QED
      BY <3>1, <3>2
  <2> HIDE DEF f, Pairs, Blocks
  <2> QED
    BY <2>1, <2>2 DEF Surjection
<1>3. IsFiniteSet(Blocks)
  <2> HIDE DEF f, Pairs, Blocks
  <2> QED
    BY <1>1, <1>2, FS_Surjection
<1>4. EventBlocks(E) \subseteq Blocks
  BY EventBlockOf DEF EventBlock
<1> QED
  BY <1>3, <1>4, FS_Subset

\* With a block, latestEventBlocks has every later one.
LEMMA WindowUpward ==
    ASSUME NEW E \in SUBSET Event, IsFiniteSet(EventBlocks(E)),
           NEW b \in LatestEventBlocks(E), NEW c \in EventBlocks(E),
           b.block <= c.block
    PROVE  c \in LatestEventBlocks(E)
<1> DEFINE Above(x) == {y \in EventBlocks(E) : y.block > x.block}
<1>1. b \in EventBlock /\ c \in EventBlock /\ EventBlocks(E) \in SUBSET EventBlock
  BY WindowType, EventBlockOf
<1>2. Above(c) \subseteq Above(b)
  BY <1>1 DEF EventBlock
<1>3. IsFiniteSet(Above(b))
  BY FS_Subset
<1>4. /\ IsFiniteSet(Above(c))
      /\ Cardinality(Above(c)) <= Cardinality(Above(b))
  <2> HIDE DEF Above
  <2> QED
    BY <1>2, <1>3, FS_Subset
<1>5. Cardinality(Above(b)) \in Nat /\ Cardinality(Above(c)) \in Nat
  BY <1>3, <1>4, FS_CardinalityType
<1>6. Cardinality(Above(b)) < MaxReorgSize
  BY DEF LatestEventBlocks
<1>7. Cardinality(Above(c)) < MaxReorgSize
  <2> HIDE DEF Above
  <2> QED
    BY <1>4, <1>5, <1>6, WorkerAssumption
<1> QED
  BY <1>7 DEF LatestEventBlocks

\* A mirrored block that is on the chain after a step was there before it, and
\* so was everything below it.
LEMMA MatchKept ==
    ASSUME ChainTypeOK, ChainInv, ChainStep,
           NEW p \in EventBlock, Known(p), NEW a \in Nat
    PROVE  /\ Known(p)'
           /\ HashAt(p.block)' = p.hash =>
                 /\ HashAt(p.block) = p.hash
                 /\ EventsIn(a, p.block)' = EventsIn(a, p.block)
<1>1. PICK k \in Nat :
        /\ final <= k /\ k <= Len(chain) /\ Len(chain') = k + 1
        /\ \A n \in 1 .. k : chain'[n] = chain[n]
        /\ chain'[k + 1].hash = forks'
        /\ \/ forks' = forks /\ k = Len(chain)
           \/ forks' = forks + 1
        /\ final <= final'
  BY ChainStepShape
<1>2. ChainTypeOK'
  BY ChainStepType
<1>3. /\ p.block \in Nat /\ p.hash \in Nat /\ p.hash >= 1 /\ p.hash <= forks
      /\ forks \in Nat /\ forks' \in Nat /\ Len(chain) \in Nat
      /\ final \in Nat /\ final' \in Nat
      /\ DOMAIN chain' = 1 .. k + 1
  BY <1>1, <1>2 DEF EventBlock, Known, ChainTypeOK
<1>4. Known(p)'
  BY <1>1, <1>3 DEF Known
<1>5. ASSUME HashAt(p.block)' = p.hash
      PROVE  p.block <= k
  <2>1. p.block \in 1 .. k + 1 /\ chain'[p.block].hash = p.hash
    BY <1>3, <1>5 DEF HashAt, NoHash
  <2>2. p.block # k + 1
    BY <1>1, <1>3, <2>1 DEF Known
  <2> QED
    BY <1>3, <2>1, <2>2
<1>6. ASSUME HashAt(p.block)' = p.hash
      PROVE  /\ HashAt(p.block) = p.hash
             /\ EventsIn(a, p.block)' = EventsIn(a, p.block)
  <2>1. /\ p.block <= Len(chain) /\ p.block <= Len(chain')
        /\ \A m \in 1 .. p.block : chain'[m] = chain[m]
    BY <1>1, <1>3, <1>5, <1>6
  <2>2. /\ HashAt(p.block)' = HashAt(p.block)
        /\ EventsIn(a, p.block)' = EventsIn(a, p.block)
    BY <1>2, <1>3, <2>1, PrefixKept
  <2> QED
    BY <1>6, <2>2
<1> QED
  BY <1>4, <1>6

\* During a run what is stable stays as it was read.
LEMMA StableKept ==
    ASSUME TypeOK, ChainInv, ChainMoves, pc # Idle,
           NEW n \in Nat, Stable(n), NEW a \in Nat
    PROVE  /\ Stable(n)' /\ HashAt(n)' = HashAt(n)
           /\ EventsIn(a, n)' = EventsIn(a, n)
<1>1. ChainTypeOK /\ ChainStep /\ (forks' # forks => ReorgDuringRun)
  BY DEF TypeOK, ChainMoves
<1>2. CASE ReorgDuringRun
  BY <1>1, <1>2, FinalKept DEF Stable
<1>3. CASE ~ReorgDuringRun
  <2>1. PICK k \in Nat :
          /\ k <= Len(chain) /\ Len(chain') = k + 1
          /\ \A m \in 1 .. k : chain'[m] = chain[m]
          /\ \/ forks' = forks /\ k = Len(chain)
             \/ forks' = forks + 1
    BY <1>1, ChainStepShape
  <2>2. k = Len(chain)
    BY <1>1, <1>3, <2>1 DEF ChainTypeOK
  <2>3. ChainTypeOK'
    BY <1>1, ChainStepType
  <2>4. /\ n <= Len(chain) /\ n <= Len(chain')
        /\ \A m \in 1 .. n : chain'[m] = chain[m]
    BY <1>3, <2>1, <2>2 DEF Stable
  <2> QED
    BY <1>1, <1>3, <2>3, <2>4, PrefixKept DEF Stable
<1> QED
  BY <1>2, <1>3

\* Blocks that are stable are on the chain.
LEMMA StableOnChain ==
    ASSUME ChainTypeOK, ChainInv, NEW n \in Nat, Stable(n)
    PROVE  /\ n <= Len(chain)
           /\ n >= 1 => n \in DOMAIN chain /\ HashAt(n) \in 1 .. forks
<1>1. n <= Len(chain) /\ Len(chain) \in Nat /\ DOMAIN chain = 1 .. Len(chain)
  BY DEF Stable, ChainInv, ChainTypeOK
<1> QED
  BY <1>1 DEF HashAt, ChainInv

\* The other way round, but for the reorgs that happen during a run.
LEMMA MatchStable ==
    ASSUME ChainTypeOK, NEW p \in EventBlock, Known(p), HashAt(p.block) = p.hash
    PROVE  Stable(p.block) /\ p.block \in DOMAIN chain
<1>1. p.block \in DOMAIN chain
  BY DEF HashAt, NoHash, Known, ChainTypeOK
<1>2. p.block <= Len(chain)
  BY <1>1 DEF ChainTypeOK
<1> QED
  BY <1>1, <1>2 DEF Stable, Known

\* The points of a database.
LEMMA PointsType ==
    ASSUME NEW d \in Database
    PROVE  /\ Points(d) \in SUBSET EventBlock
           /\ EventBlocks(d.events) \subseteq Points(d)
           /\ d.hash # NoHash => StatusBlock(d) \in Points(d)
<1>1. EventBlocks(d.events) \in SUBSET EventBlock
  BY EventBlockOf DEF Database
<1>2. StatusBlock(d) \in EventBlock /\ StatusBlock(d).hash = d.hash
  BY DEF StatusBlock, EventBlock, Database
<1> QED
  BY <1>1, <1>2 DEF Points

\* Tables that are exact up to a stable block explain themselves.
LEMMA ExactExplained ==
    ASSUME ChainTypeOK, ChainInv, NEW d \in Database, NEW n \in Nat,
           StartBlock <= n, Stable(n) \/ n = StartBlock,
           d.events = EventsIn(StartBlock + 1, n),
           d.hash # NoHash => Stable(n) /\ d.block = n /\ d.hash = HashAt(n)
    PROVE  Explained(d)
<1> USE ChainAssumption
<1>1. ASSUME NEW p \in EventBlocks(d.events)
      PROVE  Known(p) /\ ExactUpTo(d, p)
  <2>1. PICK e \in d.events : e.block = p.block /\ e.hash = p.hash
    BY EventBlockOf DEF Database
  <2>2. /\ StartBlock + 1 <= p.block /\ p.block <= n /\ p.block \in DOMAIN chain
        /\ p.hash = chain[p.block].hash /\ p.block \in Nat
    BY <2>1, EventsInMember DEF Event
  <2>3. Stable(n)
    BY <2>2
  <2>4. Known(p)
    BY <2>2, <2>3 DEF Known, Stable, ChainInv, ChainTypeOK
  <2>5. ExactUpTo(d, p)
    BY <2>2, UpToEventsIn DEF ExactUpTo
  <2> QED
    BY <2>4, <2>5
<1>2. ASSUME d.hash # NoHash
      PROVE  Known(StatusBlock(d)) /\ ExactUpTo(d, StatusBlock(d))
  <2>1. Stable(n) /\ StatusBlock(d).block = n /\ StatusBlock(d).hash = HashAt(n)
    BY <1>2 DEF StatusBlock
  <2>2. n <= Len(chain) /\ HashAt(n) \in 1 .. forks
    BY <2>1, StableOnChain
  <2>3. Known(StatusBlock(d))
    BY <2>1, <2>2 DEF Known, Stable
  <2>4. UpTo(d.events, n) = EventsIn(StartBlock + 1, n)
    BY UpToEventsIn
  <2> QED
    BY <2>1, <2>3, <2>4 DEF ExactUpTo
<1> QED
  BY <1>1, <1>2 DEF Explained, Points, StatusBlock

-----------------------------------------------------------------------------
(* Each step of a run keeps the invariant *)

\* What is left to show of a step that leaves the chain and the tables alone.
LEMMA RunStep ==
    ASSUME RunInv, UNCHANGED <<chainVars, db>>,
           Stable(to'), pc' = Idle => to' = 0,
           pc' \notin {"loop", "hash"} => tx' = db,
           Searching', Looping'
    PROVE  RunInv'
<1>1. ChainInv' /\ Stable(to)'
  BY DEF RunInv, ChainInv, Stable, chainVars
<1>2. Explained(db)'
  BY DEF RunInv, Explained, Points, StatusBlock, EventBlocks, BlockOf, Known,
         ExactUpTo, UpTo, HashAt, EventsIn, chainVars
<1> QED
  BY <1>1, <1>2 DEF RunInv

\* In any other place than these, the search and the loop say nothing.
LEMMA Elsewhere ==
    ASSUME pc' \notin {"newest", "search", "revert", "loop", "hash"}
    PROVE  Searching' /\ Looping'
BY DEF Searching, Looping

\* Before the loop starts, the transaction has what is committed.
LEMMA EnterLoop ==
    ASSUME UNCHANGED <<chainVars, db, tx>>, pc' = "loop", cur' \in Nat,
           StartBlock <= cur', Stable(cur') \/ cur' = StartBlock,
           db.events = EventsIn(StartBlock + 1, cur'), tx = db,
           \/ tx.block = 0
           \/ Stable(cur') /\ tx.block = cur' /\ tx.hash = HashAt(cur')
    PROVE  Looping'
BY DEF Looping, Stable, HashAt, EventsIn, Canonical, chainVars

LEMMA ReadHeightInv ==
    ASSUME HandleReorgs, TypeOK, RunInv, ReadHeight,
           ReorgDuringRun => FinalityDepth <= Confirmations
    PROVE  RunInv'
<1> USE ChainAssumption, WorkerAssumption
<1>1. /\ UNCHANGED <<chainVars, db, tx>>
      /\ to' = Len(chain) - Confirmations /\ tx = db
      /\ pc' \in {"loop", "compare"}
  BY DEF ReadHeight, RunInv
<1>2. Stable(to')
  BY <1>1 DEF Stable, RunInv, ChainInv, TypeOK, ChainTypeOK
<1>3. CASE tx.block = 0
  <2>1. pc' = "loop" /\ cur' = StartBlock
    BY <1>3 DEF ReadHeight
  <2>2. db.events = EventsIn(StartBlock + 1, StartBlock)
    BY <1>1, <1>3, EventsInEmpty DEF RunInv, TypeOK
  <2>3. Looping'
    BY <1>1, <1>3, <2>1, <2>2, EnterLoop
  <2>4. Searching'
    BY <2>1 DEF Searching
  <2> QED
    BY <1>1, <1>2, <2>1, <2>3, <2>4, RunStep DEF Idle
<1>4. CASE tx.block # 0
  <2>1. pc' = "compare"
    BY <1>4 DEF ReadHeight
  <2> QED
    BY <1>1, <1>2, <2>1, Elsewhere, RunStep DEF Idle
<1> QED
  BY <1>3, <1>4

\* The whole of the events table is exact if the status row matches.
LEMMA StatusExact ==
    ASSUME TypeOK, StatusInv, Explained(db),
           db.hash # NoHash, db.hash = HashAt(db.block)
    PROVE  /\ db.events = EventsIn(StartBlock + 1, db.block)
           /\ Stable(db.block) /\ db.block \in DOMAIN chain
<1>1. db \in Database /\ ChainTypeOK
  BY DEF TypeOK
<1>2. StatusBlock(db) \in Points(db) /\ StatusBlock(db) \in EventBlock
  BY <1>1, PointsType
<1>3. StatusBlock(db).block = db.block /\ StatusBlock(db).hash = db.hash
  BY DEF StatusBlock
<1>4. Known(StatusBlock(db)) /\ ExactUpTo(db, StatusBlock(db))
  BY <1>2 DEF Explained
<1>5. UpTo(db.events, db.block) = EventsIn(StartBlock + 1, db.block)
  BY <1>3, <1>4 DEF ExactUpTo
<1>6. UpTo(db.events, db.block) = db.events
  BY DEF UpTo, StatusInv, Below
<1>7. Stable(db.block) /\ db.block \in DOMAIN chain
  BY <1>1, <1>2, <1>3, <1>4, MatchStable
<1> QED
  BY <1>5, <1>6, <1>7

LEMMA CompareInv ==
    ASSUME TypeOK, StatusInv, RunInv, Compare
    PROVE  RunInv'
<1> USE ChainAssumption
<1>1. UNCHANGED <<chainVars, db, tx, to>> /\ tx = db /\ Stable(to')
  BY DEF Compare, RunInv
<1>2. CASE pc' = "loop"
  <2>1. /\ cur' = db.block /\ db.hash # NoHash /\ db.hash = HashAt(db.block)
    BY <1>1, <1>2 DEF Compare
  <2>2. /\ db.events = EventsIn(StartBlock + 1, db.block)
        /\ Stable(db.block) /\ db.block \in DOMAIN chain
    BY <2>1, StatusExact DEF RunInv
  <2>3. db.block \in Nat /\ StartBlock <= db.block
    BY <2>2 DEF RunInv, TypeOK, ChainTypeOK
  <2>4. Looping'
    BY <1>1, <1>2, <2>1, <2>2, <2>3, EnterLoop
  <2>5. Searching'
    BY <1>2 DEF Searching
  <2> QED
    BY <1>1, <1>2, <2>4, <2>5, RunStep DEF Idle
<1>3. CASE pc' # "loop"
  <2>1. pc' = "oldest"
    BY <1>3 DEF Compare
  <2> QED
    BY <1>1, <2>1, Elsewhere, RunStep DEF Idle
<1> QED
  BY <1>2, <1>3

\* The window of an explained database goes on to its end.
LEMMA ExplainedWindow ==
    ASSUME TypeOK, StatusInv, Explained(db),
           NEW b \in LatestEventBlocks(db.events), NEW c \in EventBlocks(db.events),
           b.block <= c.block
    PROVE  c \in LatestEventBlocks(db.events)
<1>1. db \in Database /\ db.events \in SUBSET Event /\ db.block \in Nat /\ forks \in Nat
  BY DEF TypeOK, ChainTypeOK, Database
<1>2. \A x \in EventBlocks(db.events) : x.block <= db.block /\ x.hash <= forks
  <2> SUFFICES ASSUME NEW x \in EventBlocks(db.events)
               PROVE  x.block <= db.block /\ x.hash <= forks
    OBVIOUS
  <2>1. PICK e \in db.events : e.block = x.block /\ e.hash = x.hash
    BY <1>1, EventBlockOf
  <2>2. Known(x)
    BY <1>1, PointsType DEF Explained
  <2> QED
    BY <1>1, <2>1, <2>2 DEF StatusInv, Below, Known
<1>3. IsFiniteSet(EventBlocks(db.events))
  BY <1>1, <1>2, EventBlocksFinite
<1> QED
  BY <1>1, <1>3, WindowUpward

\* If a mirrored block is on the chain, so is every mirrored block below it.
LEMMA MatchDownward ==
    ASSUME TypeOK, Explained(db),
           NEW b \in EventBlocks(db.events), NEW c \in EventBlocks(db.events),
           Matches(c), b.block <= c.block
    PROVE  Matches(b)
<1> USE ChainAssumption
<1>1. db \in Database /\ db.events \in SUBSET Event /\ ChainTypeOK
  BY DEF TypeOK, Database
<1>2. PICK e \in db.events : e.block = b.block /\ e.hash = b.hash
  BY <1>1, EventBlockOf
<1>3. ExactUpTo(db, c) /\ c \in EventBlock
  BY <1>1, PointsType DEF Explained
<1>4. e \in EventsIn(StartBlock + 1, c.block)
  BY <1>2, <1>3 DEF ExactUpTo, Matches, UpTo
<1>5. c.block \in Nat
  BY <1>3 DEF EventBlock
<1>6. e.block \in DOMAIN chain /\ e.hash = chain[e.block].hash
  BY <1>1, <1>4, <1>5, EventsInMember, SMTT(30)
<1> QED
  BY <1>2, <1>6 DEF Matches, HashAt

LEMMA SearchInv ==
    ASSUME TypeOK, StatusInv, RunInv, CheckOldest \/ CheckNewest \/ Search
    PROVE  RunInv'
<1> DEFINE W == LatestEventBlocks(db.events)
<1>1. /\ UNCHANGED <<chainVars, db, tx, to>> /\ tx = db /\ Stable(to')
      /\ db.events \in SUBSET Event
  BY DEF CheckOldest, CheckNewest, Search, RunInv, TypeOK, Database
<1>2. W \in SUBSET EventBlock /\ W \subseteq EventBlocks(db.events)
      /\ EventBlocks(db.events) \in SUBSET EventBlock
  BY <1>1, WindowType, EventBlockOf DEF LatestEventBlocks
<1>3. \A b : Matches(b)' <=> Matches(b)
  BY <1>1 DEF Matches, HashAt, chainVars
<1>4. ASSUME pc' \in {"noEvents", "tooLarge", "newest", "search", "revert"}, Searching'
      PROVE  RunInv'
  BY <1>1, <1>4, RunStep DEF Looping, Idle
<1> HIDE DEF W
<1>5. CASE CheckOldest
  <2>1. CASE W = {}
    BY <1>1, <1>4, <1>5, <2>1, Elsewhere DEF CheckOldest, W
  <2>2. CASE W # {}
    <3>1. PICK b \in W : from' = b /\ pc' = IF Matches(b) THEN "newest" ELSE "tooLarge"
      BY <1>1, <1>5, <2>2 DEF CheckOldest, W
    <3> QED
      BY <1>1, <1>3, <1>4, <3>1 DEF Searching, W, Matches, HashAt, chainVars
  <2> QED
    BY <2>1, <2>2
<1>6. CASE CheckNewest
  <2>1. PICK b \in W :
          /\ \A c \in W : c.block <= b.block
          /\ upto' = b
          /\ IF Matches(b) THEN from' = b /\ pc' = "revert"
                           ELSE UNCHANGED from /\ pc' = "search"
    BY <1>1, <1>6 DEF CheckNewest, W
  <2>2. \A c \in EventBlocks(db.events) : c.block <= b.block
    <3> SUFFICES ASSUME NEW c \in EventBlocks(db.events), ~(c.block <= b.block)
                 PROVE  FALSE
      OBVIOUS
    <3>1. b.block <= c.block
      BY <1>2, <2>1 DEF EventBlock
    <3>2. c \in W
      BY <3>1, <2>1, ExplainedWindow DEF RunInv, W
    <3> QED
      BY <2>1, <3>2
  <2>3. from \in W /\ Matches(from)
    BY <1>6 DEF CheckNewest, RunInv, Searching, W
  <2>4. CASE Matches(b)
    BY <1>1, <1>3, <1>4, <2>1, <2>2, <2>4 DEF Searching, W, Matches, HashAt, chainVars
  <2>5. CASE ~Matches(b)
    BY <1>1, <1>2, <1>3, <1>4, <2>1, <2>3, <2>5
    DEF Searching, W, Matches, HashAt, chainVars
  <2> QED
    BY <2>4, <2>5
<1>7. CASE Search
  <2> DEFINE B == Between(W, from, upto)
  <2>1. /\ from \in W /\ Matches(from)
        /\ upto \in EventBlocks(db.events) /\ ~Matches(upto)
    BY <1>7 DEF Search, RunInv, Searching, W
  <2>2. CASE B = {}
    <3>1. pc' = "revert" /\ UNCHANGED <<from, upto>>
      BY <1>1, <1>7, <2>2 DEF Search, W
    <3>2. \A c \in EventBlocks(db.events) : Matches(c) => c.block <= from.block
      <4> SUFFICES ASSUME NEW c \in EventBlocks(db.events), Matches(c),
                          ~(c.block <= from.block)
                   PROVE  FALSE
        OBVIOUS
      <4>1. from.block \in Nat /\ c.block \in Nat /\ upto.block \in Nat
        BY <1>2, <2>1 DEF EventBlock
      <4>2. c \in W
        BY <2>1, <4>1, ExplainedWindow DEF RunInv, W
      <4>3. ~(upto.block <= c.block)
        BY <2>1, MatchDownward DEF RunInv
      <4> QED
        BY <2>2, <4>1, <4>2, <4>3 DEF Between
    <3> QED
      BY <1>1, <1>3, <1>4, <2>1, <3>1, <3>2 DEF Searching, W, Matches, HashAt, chainVars
  <2>3. CASE B # {}
    <3>1. PICK mid \in B :
            /\ IF Matches(mid) THEN from' = mid /\ UNCHANGED upto
                               ELSE upto' = mid /\ UNCHANGED from
            /\ UNCHANGED pc
      BY <1>1, <1>7, <2>3 DEF Search, W
    <3>2. mid \in W
      BY <3>1 DEF Between
    <3>3. pc' = "search"
      BY <1>7, <3>1 DEF Search
    <3> QED
      BY <1>1, <1>2, <1>3, <1>4, <2>1, <3>1, <3>2, <3>3
      DEF Searching, W, Matches, HashAt, chainVars
  <2> QED
    BY <2>2, <2>3
<1> QED
  BY <1>5, <1>6, <1>7

LEMMA RevertInv ==
    ASSUME TypeOK, StatusInv, RunInv, Revert
    PROVE  RunInv'
<1> USE ChainAssumption
<1>1. /\ UNCHANGED <<chainVars, db, to>> /\ tx = db /\ Stable(to')
      /\ db \in Database /\ db.events \in SUBSET Event /\ ChainTypeOK
  BY DEF Revert, RunInv, TypeOK, Database
<1>2. /\ pc = "revert" /\ pc' = "loop" /\ cur' = from.block
      /\ tx'.events = UpTo(db.events, from.block)
      /\ tx'.block = from.block /\ tx'.hash = from.hash
  BY <1>1 DEF Revert
<1>3. /\ from \in EventBlocks(db.events) /\ Matches(from)
      /\ \A b \in EventBlocks(db.events) : Matches(b) => b.block <= from.block
  BY <1>2 DEF RunInv, Searching, LatestEventBlocks
<1>4. Known(from) /\ ExactUpTo(db, from) /\ from \in EventBlock
  BY <1>1, <1>3, PointsType DEF Explained, RunInv
<1>5. Stable(from.block)
  BY <1>1, <1>3, <1>4, MatchStable DEF Matches
<1>6. tx'.events = EventsIn(StartBlock + 1, from.block)
  BY <1>2, <1>3, <1>4 DEF ExactUpTo, Matches
<1>7. StartBlock <= from.block
  <2>1. PICK e \in db.events : e.block = from.block /\ e.hash = from.hash
    BY <1>1, <1>3, EventBlockOf
  <2>2. from.block \in Nat /\ e \in EventsIn(StartBlock + 1, from.block)
    BY <1>2, <1>4, <1>6, <2>1 DEF UpTo, EventBlock
  <2> QED
    BY <1>1, <2>1, <2>2, EventsInMember
<1>8. \A e \in db.events : Canonical(e) => e \in tx'.events
  <2> SUFFICES ASSUME NEW e \in db.events, Canonical(e) PROVE e.block <= from.block
    BY <1>2 DEF UpTo
  <2>1. BlockOf(e) \in EventBlocks(db.events)
    BY <1>1, EventBlockOf
  <2>2. Matches(BlockOf(e))
    BY DEF Matches, BlockOf, Canonical
  <2> QED
    BY <1>3, <2>1, <2>2 DEF BlockOf
<1>9. Looping'
  BY <1>1, <1>2, <1>3, <1>5, <1>6, <1>7, <1>8
  DEF Looping, Stable, HashAt, EventsIn, Canonical, Matches, chainVars
<1> QED
  BY <1>1, <1>2, <1>9, RunStep DEF Searching, Idle

LEMMA FetchInv ==
    ASSUME TypeOK, StatusInv, RunInv, [Next]_vars, FetchEvents
    PROVE  RunInv'
<1> USE ChainAssumption, WorkerAssumption
<1> DEFINE fetched == EventsIn(cur + 1, FetchBlock)
<1>1. /\ UNCHANGED <<chainVars, db, to>> /\ Stable(to') /\ ChainTypeOK
      /\ tx \in Database /\ cur \in Nat /\ to \in Nat /\ cur < to /\ pc = "loop"
  BY DEF FetchEvents, RunInv, TypeOK
<1>2. ~Collides(fetched)
  <2>1. pc' # "duplicate"
    BY StatusInvStep DEF StatusInv
  <2> QED
    BY <2>1 DEF FetchEvents
<1>3. FetchBlock \in Nat /\ cur <= FetchBlock /\ FetchBlock <= to
  BY <1>1 DEF FetchBlock
<1>4. Stable(FetchBlock)
  BY <1>1, <1>3 DEF RunInv, Stable, TypeOK, ChainTypeOK
<1>5. /\ StartBlock <= cur
      /\ tx.events = EventsIn(StartBlock + 1, cur)
      /\ \A e \in db.events : Canonical(e) => e \in tx.events
  BY <1>1 DEF RunInv, Looping
<1>6. PICK done \in Applied(fetched) :
        tx' = [tx EXCEPT
                 !.events  = @ \cup fetched,
                 !.domains = [t \in Tokens |->
                                @[t] \cup BlocksOfToken(done, t)]]
  BY <1>2 DEF FetchEvents
<1>7. cur' = FetchBlock /\ pc' = "hash"
  BY <1>2 DEF FetchEvents
<1>8. tx'.events = tx.events \cup fetched
  <2> HIDE DEF fetched
  <2> QED
    BY <1>1, <1>6 DEF Database
<1>9. tx'.events = EventsIn(StartBlock + 1, FetchBlock)
  BY <1>1, <1>3, <1>5, <1>8, EventsInSplit
<1>10. Looping'
  <2> HIDE DEF fetched
  <2>1. StartBlock <= FetchBlock
    BY <1>1, <1>3, <1>5
  <2> QED
    BY <1>1, <1>4, <1>5, <1>7, <1>8, <1>9, <2>1
    DEF Looping, Stable, HashAt, EventsIn, Canonical, chainVars
<1> QED
  BY <1>1, <1>7, <1>10, RunStep DEF Searching, Idle

LEMMA SaveStatusInv ==
    ASSUME TypeOK, RunInv, SaveStatus
    PROVE  RunInv'
<1> USE ChainAssumption
<1>1. /\ UNCHANGED <<chainVars, db, to, cur>> /\ Stable(to') /\ ChainTypeOK
      /\ ChainInv /\ tx \in Database /\ cur \in Nat /\ pc = "hash" /\ pc' = "loop"
  BY DEF SaveStatus, RunInv, TypeOK
<1>2. /\ StartBlock <= cur /\ Stable(cur)
      /\ tx.events = EventsIn(StartBlock + 1, cur)
      /\ \A e \in db.events : Canonical(e) => e \in tx.events
  BY <1>1 DEF RunInv, Looping
<1>3. HashAt(cur) \in 1 .. forks /\ HashAt(cur) # NoHash /\ HashAt(cur) \in Nat
  BY <1>1, <1>2, StableOnChain DEF NoHash, TypeOK, ChainTypeOK
<1>4. /\ tx'.block = cur /\ tx'.hash = HashAt(cur) /\ tx'.events = tx.events
  BY <1>1, <1>3 DEF SaveStatus, WithStatus, Database
<1>5. Looping'
  BY <1>1, <1>2, <1>4 DEF Looping, Stable, HashAt, EventsIn, Canonical, chainVars
<1> QED
  BY <1>1, <1>5, RunStep DEF Searching, Idle

LEMMA CommitInv ==
    ASSUME TypeOK, RunInv, Commit
    PROVE  RunInv'
<1> USE ChainAssumption
<1>1. /\ UNCHANGED chainVars /\ db' = tx /\ tx' = tx /\ to' = 0 /\ pc' = Idle
      /\ pc = "loop" /\ ChainTypeOK /\ ChainInv /\ tx \in Database
  BY DEF Commit, EndRun, RunInv, TypeOK
<1>2. /\ Explained(tx)
      /\ tx.block = 0 => tx.events = {}
      /\ tx.block # 0 => StartBlock <= tx.block
  <2>1. CASE tx = db
    BY <2>1 DEF RunInv
  <2>2. CASE Stable(cur) /\ tx.block = cur /\ tx.hash = HashAt(cur)
    <3>1. cur \in Nat /\ StartBlock <= cur /\ tx.events = EventsIn(StartBlock + 1, cur)
      BY <1>1 DEF RunInv, Looping, TypeOK
    <3>2. Explained(tx)
      BY <1>1, <2>2, <3>1, ExactExplained
    <3> QED
      BY <2>2, <3>1, <3>2
  <2> QED
    BY <1>1, <2>1, <2>2 DEF RunInv, Looping
<1>3. Explained(db)'
  BY <1>1, <1>2 DEF Explained, Points, StatusBlock, EventBlocks, BlockOf, Known,
     ExactUpTo, UpTo, HashAt, EventsIn, chainVars
<1>4. ChainInv' /\ Stable(to)'
  BY <1>1 DEF ChainInv, Stable, chainVars, ChainTypeOK, TypeOK
<1> QED
  BY <1>1, <1>2, <1>3, <1>4 DEF RunInv, Searching, Looping, Idle

\* A run that loses its transaction.
LEMMA LostInv ==
    ASSUME TypeOK, RunInv, UNCHANGED <<chainVars, db>>, EndRun(db)
    PROVE  RunInv'
<1>1. tx' = db /\ to' = 0 /\ pc' = Idle
  BY DEF EndRun
<1>2. Stable(to')
  BY <1>1 DEF Stable, TypeOK, ChainTypeOK
<1> QED
  BY <1>1, <1>2, RunStep, Elsewhere DEF Idle

LEMMA ChainMovesInv ==
    ASSUME TypeOK, RunInv, ChainMoves
    PROVE  RunInv'
<1> USE ChainAssumption
<1>1. /\ UNCHANGED <<db, tx, pc, cur, to, from, upto>> /\ ChainStep
      /\ ChainTypeOK /\ ChainInv /\ db \in Database /\ tx \in Database
      /\ db.events \in SUBSET Event
      /\ cur \in Nat /\ to \in Nat /\ from \in EventBlock /\ upto \in EventBlock
  BY DEF ChainMoves, runVars, RunInv, TypeOK, Database
<1>2. ASSUME NEW p \in Points(db)
      PROVE  /\ Known(p) /\ Known(p)' /\ ExactUpTo(db, p)'
             /\ HashAt(p.block)' = p.hash => HashAt(p.block) = p.hash
  <2>1. p \in EventBlock /\ Known(p) /\ ExactUpTo(db, p)
    BY <1>1, PointsType DEF RunInv, Explained
  <2>2. /\ Known(p)'
        /\ HashAt(p.block)' = p.hash =>
              /\ HashAt(p.block) = p.hash
              /\ EventsIn(StartBlock + 1, p.block)' = EventsIn(StartBlock + 1, p.block)
    <3>1. \A a \in Nat :
            /\ Known(p)'
            /\ HashAt(p.block)' = p.hash =>
                  /\ HashAt(p.block) = p.hash
                  /\ EventsIn(a, p.block)' = EventsIn(a, p.block)
      BY <1>1, <2>1, MatchKept
    <3>2. StartBlock + 1 \in Nat
      OBVIOUS
    <3> QED
      BY <3>1, <3>2
  <2> QED
    BY <1>1, <2>1, <2>2 DEF ExactUpTo, UpTo
<1>3. ChainInv'
  BY <1>1, ChainInvStep
<1>4. Points(db)' = Points(db)
  BY <1>1 DEF Points, StatusBlock, EventBlocks, BlockOf
<1>5. Explained(db)'
  BY <1>2, <1>4 DEF Explained
<1>6. EventBlocks(db.events) \subseteq Points(db)
  BY <1>1, PointsType
<1>7. Stable(to)'
  <2>1. CASE pc = Idle
    BY <1>1, <2>1, ChainStepType DEF RunInv, Stable, ChainTypeOK
  <2>2. CASE pc # Idle
    <3>1. \A n \in Nat : Stable(n) => Stable(n)'
      BY <1>1, <2>2, StableKept
    <3> QED
      BY <1>1, <3>1 DEF RunInv, Stable
  <2> QED
    BY <2>1, <2>2
<1>8. ASSUME NEW n \in Nat, pc # Idle, Stable(n)
      PROVE  /\ Stable(n)' /\ HashAt(n)' = HashAt(n)
             /\ EventsIn(StartBlock + 1, n)' = EventsIn(StartBlock + 1, n)
  BY <1>1, <1>8, StableKept
<1>9. \A b \in EventBlocks(db.events) : Matches(b)' => Matches(b)
  BY <1>2, <1>6 DEF Matches
<1>10. Searching'
  <2>1. ASSUME pc \in {"newest", "search", "revert"}
        PROVE  from \in LatestEventBlocks(db.events) /\ Matches(from)'
    <3>1. from \in LatestEventBlocks(db.events) /\ Matches(from)
      BY <2>1 DEF RunInv, Searching
    <3>2. from \in EventBlocks(db.events)
      BY <3>1 DEF LatestEventBlocks
    <3>3. Stable(from.block)
      BY <1>1, <1>2, <1>6, <3>1, <3>2, MatchStable DEF Matches
    <3>4. from.block \in Nat /\ pc # Idle
      BY <1>1, <2>1 DEF EventBlock, Idle
    <3>5. \A n \in Nat : Stable(n) => HashAt(n)' = HashAt(n)
      BY <1>8, <3>4
    <3>6. HashAt(from.block)' = HashAt(from.block)
      BY <1>1, <3>3, <3>4, <3>5 DEF HashAt
    <3> QED
      BY <1>1, <3>1, <3>6 DEF Matches
  <2>2. ASSUME pc = "search"
        PROVE  upto \in EventBlocks(db.events) /\ ~Matches(upto)'
    BY <1>1, <1>9, <2>2 DEF RunInv, Searching, Matches, HashAt
  <2> QED
    BY <1>1, <1>9, <2>1, <2>2
    DEF RunInv, Searching, LatestEventBlocks, EventBlocks, BlockOf, Matches, HashAt
<1>11. \A e \in db.events : Canonical(e)' => Canonical(e)
  <2> SUFFICES ASSUME NEW e \in db.events, Canonical(e)' PROVE Canonical(e)
    OBVIOUS
  <2>1. BlockOf(e) \in Points(db)
    BY <1>1, <1>6, EventBlockOf
  <2> QED
    BY <1>2, <2>1 DEF BlockOf, Canonical
<1>12. Looping'
  <2> SUFFICES ASSUME pc \in {"loop", "hash"} PROVE Looping'
    BY <1>1 DEF Looping
  <2>1. CASE Stable(cur)
    <3>1. /\ Stable(cur)' /\ HashAt(cur)' = HashAt(cur)
          /\ EventsIn(StartBlock + 1, cur)' = EventsIn(StartBlock + 1, cur)
      <4>1. \A n \in Nat : Stable(n) =>
              /\ Stable(n)' /\ HashAt(n)' = HashAt(n)
              /\ EventsIn(StartBlock + 1, n)' = EventsIn(StartBlock + 1, n)
        BY <1>8 DEF Idle
      <4> QED
        BY <1>1, <2>1, <4>1 DEF Stable, HashAt, EventsIn
    <3> QED
      BY <1>1, <1>11, <3>1 DEF RunInv, Looping
  <2>2. CASE ~Stable(cur)
    <3>1. cur = StartBlock /\ pc = "loop" /\ tx = db /\ tx.block = 0
      BY <2>2 DEF RunInv, Looping
    <3>2. tx.events = {}
      BY <3>1 DEF RunInv
    <3>3. EventsIn(StartBlock + 1, StartBlock)' = {}
      BY DEF EventsIn
    <3>4. EventsIn(StartBlock + 1, cur)' = {}
      BY <1>1, <3>1, <3>3
    <3> QED
      BY <1>1, <3>1, <3>2, <3>4 DEF Looping
  <2> QED
    BY <2>1, <2>2
<1>13. db'.block = 0 => db'.events = {}
  BY <1>1 DEF RunInv
<1> QED
  BY <1>1, <1>3, <1>5, <1>7, <1>10, <1>12 DEF RunInv

LEMMA RunInvStep ==
    ASSUME HandleReorgs, ~ResyncAllowed,
           ReorgDuringRun => FinalityDepth <= Confirmations
    PROVE  TypeOK /\ StatusInv /\ RunInv /\ [Next]_vars => RunInv'
<1> SUFFICES ASSUME TypeOK, StatusInv, RunInv, [Next]_vars PROVE RunInv'
  OBVIOUS
<1>1. CASE Begin
  <2>1. /\ UNCHANGED <<chainVars, db, tx, to>> /\ pc' = "height" /\ tx = db
        /\ Stable(to')
    BY <1>1 DEF Begin, RunInv, Idle
  <2> QED
    BY <2>1, Elsewhere, RunStep DEF Idle
<1>2. CASE ReadHeight
  BY <1>2, ReadHeightInv
<1>3. CASE Compare
  BY <1>3, CompareInv
<1>4. CASE CheckOldest \/ CheckNewest \/ Search
  BY <1>4, SearchInv
<1>5. CASE Revert
  BY <1>5, RevertInv
<1>6. CASE FetchEvents
  BY <1>6, FetchInv
<1>7. CASE SaveStatus
  BY <1>7, SaveStatusInv
<1>8. CASE Commit
  BY <1>8, CommitInv
<1>9. CASE Rollback \/ Fail
  BY <1>9, LostInv DEF Rollback, Fail
<1>10. ASSUME NEW n \in 1 .. MaxHeight, Resync(n)
       PROVE  RunInv'
  BY <1>10 DEF Resync
<1>11. CASE ChainMoves
  BY <1>11, ChainMovesInv
<1>12. CASE UNCHANGED vars
  <2>1. UNCHANGED <<chainVars, db, tx, pc, cur, to, from, upto>>
    BY <1>12 DEF vars, runVars
  <2>2. Stable(to') /\ (pc' = Idle => to' = 0)
        /\ (pc' \notin {"loop", "hash"} => tx' = db)
    BY <2>1 DEF RunInv
  <2>3. Searching' /\ Looping'
    BY <2>1 DEF RunInv, Searching, Looping, Matches, Canonical, Stable, HashAt,
       EventsIn, LatestEventBlocks, EventBlocks, BlockOf, chainVars
  <2> QED
    BY <2>1, <2>2, <2>3, RunStep
<1> QED
  BY <1>1, <1>2, <1>3, <1>4, <1>5, <1>6, <1>7, <1>8, <1>9, <1>10, <1>11, <1>12
  DEF Next, WorkerStep

LEMMA RunInvariant ==
    ASSUME HandleReorgs, ~ResyncAllowed,
           ReorgDuringRun => FinalityDepth <= Confirmations
    PROVE  Spec => []RunInv
<1>1. Init => RunInv
  <2> SUFFICES ASSUME Init PROVE RunInv
    OBVIOUS
  <2> USE ChainAssumption
  <2>1. ChainInv /\ Stable(to)
    BY DEF Init, ChainInit, ChainInv, Stable
  <2>2. Points(db) = {}
    BY DEF Init, Points, EventBlocks, StatusBlock, NoHash
  <2> QED
    BY <2>1, <2>2 DEF Init, RunInv, Explained, Searching, Looping, Idle
<1>2. TypeOK /\ StatusInv /\ RunInv /\ [Next]_vars => RunInv'
  BY RunInvStep
<1> QED
  BY <1>1, <1>2, TypeCorrect, StatusInvariant, PTL DEF Spec

-----------------------------------------------------------------------------
(* What the committed tables are worth *)

\* The test that lets a run skip reorg handling is sound (BaseWorker.ts:139):
\* for reorgs of any depth between the runs, and during them as long as the
\* confirmations are as many as a reorg is deep.
THEOREM StatusHashSound ==
    ASSUME HandleReorgs, ~ResyncAllowed,
           ReorgDuringRun => FinalityDepth <= Confirmations
    PROVE  Spec => []MirrorExact
<1>1. TypeOK /\ StatusInv /\ RunInv => MirrorExact
  BY StatusExact DEF RunInv, MirrorExact
<1> QED
  BY <1>1, TypeCorrect, StatusInvariant, RunInvariant, PTL

\* No run deletes an event whose block is still on the chain, whatever part of
\* the events findLastMatchingBlock looks at (BaseWorker.ts:63).
THEOREM KeepsCanonicalEvents ==
    ASSUME HandleReorgs, ~ResyncAllowed,
           ReorgDuringRun => FinalityDepth <= Confirmations
    PROVE  Spec => CanonicalEventsKept
<1>1. RunInv /\ [Next]_vars =>
        [\A e \in db.events : Canonical(e) => e \in db'.events]_db
  <2> SUFFICES ASSUME RunInv, [Next]_vars, db' # db
               PROVE  \A e \in db.events : Canonical(e) => e \in db'.events
    OBVIOUS
  <2>1. CASE Commit
    <3>1. db' = tx /\ pc = "loop"
      BY <2>1 DEF Commit
    <3> QED
      BY <3>1 DEF RunInv, Looping
  <2> QED
    BY <2>1 DEF Next, WorkerStep, Begin, ReadHeight, Compare, CheckOldest,
       CheckNewest, Search, Revert, FetchEvents, SaveStatus, Rollback, Fail,
       Resync, ChainMoves, vars
<1> QED
  BY <1>1, RunInvariant, PTL DEF Spec, CanonicalEventsKept

-----------------------------------------------------------------------------
(* The worker implements ChainMirror *)

\* The domains show all the events of d and no others.
DomainsExact(d) == \A t \in Tokens : d.domains[t] = BlocksOfToken(d.events, t)

DomainsInv == DomainsExact(db) /\ DomainsExact(tx)

LEMMA DomainsInvStep ==
    ASSUME ~ProcessingFails, ShortIds = {}, ~ResyncAllowed
    PROVE  TypeOK /\ DomainsInv /\ [Next]_vars => DomainsInv'
<1> SUFFICES ASSUME TypeOK, DomainsInv, [Next]_vars PROVE DomainsInv'
  OBVIOUS
<1> USE DEF DomainsInv
<1>1. CASE UNCHANGED <<db, tx>>
  BY <1>1 DEF DomainsExact
<1>2. CASE Revert
  <2> DEFINE kept == UpTo(tx.events, from.block)
             affected == Affected(tx.events \ kept)
             touched == {e \in kept : e.token \in affected}
  <2>1. tx' = [block   |-> from.block,
               hash    |-> from.hash,
               events  |-> kept,
               domains |-> [t \in Tokens |->
                              IF t \in affected THEN BlocksOfToken(touched, t)
                                                ELSE tx.domains[t]]]
    BY <1>2 DEF Revert, Applied
  <2>2. ASSUME NEW t \in Tokens
        PROVE  tx'.domains[t] = BlocksOfToken(kept, t)
    <3>1. CASE t \in affected
      <4>1. BlocksOfToken(touched, t) = BlocksOfToken(kept, t)
        BY <3>1 DEF BlocksOfToken
      <4> HIDE DEF kept, affected, touched
      <4> QED
        BY <2>1, <3>1, <4>1
    <3>2. CASE t \notin affected
      <4>1. BlocksOfToken(tx.events, t) = BlocksOfToken(kept, t)
        BY <3>2 DEF UpTo, Affected, BlocksOfToken
      <4> HIDE DEF kept, affected, touched
      <4> QED
        BY <2>1, <3>2, <4>1 DEF DomainsExact
    <3> QED
      BY <3>1, <3>2
  <2> HIDE DEF kept, affected, touched
  <2>3. tx'.events = kept /\ UNCHANGED db
    BY <1>2, <2>1 DEF Revert
  <2> QED
    BY <2>2, <2>3 DEF DomainsExact
<1>3. CASE FetchEvents
  <2> DEFINE fetched == EventsIn(cur + 1, FetchBlock)
  <2>1. CASE Collides(fetched)
    BY <1>3, <2>1 DEF FetchEvents, DomainsExact
  <2>2. CASE ~Collides(fetched)
    <3>1. tx' = [tx EXCEPT
                   !.events  = @ \cup fetched,
                   !.domains = [t \in Tokens |-> @[t] \cup BlocksOfToken(fetched, t)]]
      BY <1>3, <2>2 DEF FetchEvents, Applied
    <3> HIDE DEF fetched
    <3>2. /\ tx'.events = tx.events \cup fetched
          /\ \A t \in Tokens :
                tx'.domains[t] = tx.domains[t] \cup BlocksOfToken(fetched, t)
      BY <3>1 DEF TypeOK, Database
    <3>3. ASSUME NEW t \in Tokens
          PROVE  BlocksOfToken(tx.events \cup fetched, t)
                   = BlocksOfToken(tx.events, t) \cup BlocksOfToken(fetched, t)
      BY DEF BlocksOfToken
    <3> QED
      BY <1>3, <3>2, <3>3 DEF FetchEvents, DomainsExact
  <2> QED
    BY <2>1, <2>2
<1>4. CASE SaveStatus
  <2>0. cur \in Nat /\ HashAt(cur) \in Nat /\ tx \in Database
    BY HashAtType DEF TypeOK
  <2>1. tx'.events = tx.events /\ tx'.domains = tx.domains
    BY <1>4, <2>0 DEF SaveStatus, WithStatus, Database
  <2> QED
    BY <1>4, <2>1 DEF SaveStatus, DomainsExact
<1>5. CASE Commit \/ Rollback \/ Fail
  BY <1>5 DEF Commit, Rollback, Fail, EndRun, DomainsExact
<1> QED
  BY <1>1, <1>2, <1>3, <1>4, <1>5
  DEF Next, WorkerStep, Begin, ReadHeight, Compare, CheckOldest, CheckNewest,
      Search, Resync, ChainMoves, vars, runVars

LEMMA DomainsInvariant ==
    ASSUME ~ProcessingFails, ShortIds = {}, ~ResyncAllowed
    PROVE  Spec => []DomainsInv
<1>1. Init => DomainsInv
  BY DEF Init, DomainsInv, DomainsExact, BlocksOfToken
<1>2. TypeOK /\ DomainsInv /\ [Next]_vars => DomainsInv'
  BY DomainsInvStep
<1> QED
  BY <1>1, <1>2, TypeCorrect, PTL DEF Spec

\* Every step of the worker is a step of its promise: a committed run publishes
\* one prefix of the chain as it is at that moment, with domains its events
\* explain (BaseWorker.ts:197), and nothing else is ever seen of a run.
THEOREM ImplementsMirror ==
    ASSUME HandleReorgs, ~ResyncAllowed, ~ProcessingFails, ShortIds = {},
           ReorgDuringRun => FinalityDepth <= Confirmations
    PROVE  Spec => PublishesSnapshots
<1>1. Init => Mirror!MirrorInit
  BY DEF Init, ChainInit, Mirror!MirrorInit, Mirror!ChainInit, Mirror!Empty,
     NoHash, Mirror!NoHash
<1>2. TypeOK /\ RunInv /\ DomainsInv /\ [Next]_vars
        => [Mirror!MirrorNext]_Mirror!mirrorVars
  <2> SUFFICES ASSUME TypeOK, RunInv, DomainsInv, [Next]_vars
               PROVE  [Mirror!MirrorNext]_Mirror!mirrorVars
    OBVIOUS
  <2>1. CASE UNCHANGED <<chainVars, db>>
    BY <2>1 DEF Mirror!mirrorVars, Mirror!chainVars, chainVars
  <2>2. CASE Commit
    <3>1. db' = tx /\ UNCHANGED chainVars /\ pc = "loop"
      BY <2>2 DEF Commit
    <3>2. CASE tx = db
      BY <2>1, <3>1, <3>2
    <3>3. CASE Stable(cur) /\ tx.block = cur /\ tx.hash = HashAt(cur)
      <4>1. /\ cur \in Nat /\ StartBlock <= cur /\ tx \in Database
            /\ tx.events = EventsIn(StartBlock + 1, cur)
            /\ ChainTypeOK /\ ChainInv
        BY <3>1 DEF RunInv, Looping, TypeOK
      <4>2. cur \in DOMAIN chain
        BY <3>3, <4>1, StableOnChain, ChainAssumption
      <4>3. tx.domains = [t \in Tokens |-> BlocksOfToken(tx.events, t)]
        BY <4>1 DEF Database, DomainsInv, DomainsExact
      <4>4. tx = [block |-> cur, hash |-> HashAt(cur), events |-> tx.events,
                  domains |-> tx.domains]
        BY <3>3, <4>1 DEF Database
      <4>5. /\ Mirror!HashAt(cur) = HashAt(cur)
            /\ Mirror!MirroredEvents(cur) = tx.events
        BY <4>1 DEF Mirror!HashAt, HashAt, Mirror!NoHash, NoHash,
           Mirror!MirroredEvents, Mirror!EventsIn, EventsIn
      <4>6. \A t \in Tokens :
              Mirror!AppliedBlocks(tx.events, t) = BlocksOfToken(tx.events, t)
        BY DEF Mirror!AppliedBlocks, BlocksOfToken, BlockOf
      <4>7. tx = Mirror!Snapshot(cur)
        BY <4>3, <4>4, <4>5, <4>6 DEF Mirror!Snapshot
      <4> QED
        BY <3>1, <4>2, <4>7
        DEF Mirror!MirrorNext, Mirror!Publish, chainVars, Mirror!chainVars
    <3> QED
      BY <3>1, <3>2, <3>3 DEF RunInv, Looping
  <2>3. CASE ChainMoves
    BY <2>3 DEF ChainMoves, ChainStep, Mine, Reorg, Finalized, Mirror!MirrorNext,
       Mirror!ChainStep, Mirror!Mine, Mirror!Reorg, Mirror!Finalized
  <2> QED
    BY <2>1, <2>2, <2>3 DEF Next, WorkerStep, Begin, ReadHeight, Compare,
       CheckOldest, CheckNewest, Search, Revert, FetchEvents, SaveStatus,
       Rollback, Fail, Resync, vars
<1> QED
  BY <1>1, <1>2, TypeCorrect, RunInvariant, DomainsInvariant, PTL
  DEF Spec, PublishesSnapshots, Mirror!MirrorSpec
=============================================================================

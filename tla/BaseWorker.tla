----------------------------- MODULE BaseWorker -----------------------------
(***************************************************************************)
(* The worker of one chain (workers/framework/BaseWorker.ts) with the part *)
(* of the repository it drives itself (workers/framework/                  *)
(* WorkerRepository.ts, models/CnsRegistryEvent.ts, models/                *)
(* WorkerStatus.ts).                                                       *)
(*                                                                         *)
(* One call of run() is one database transaction: Begin takes a working    *)
(* copy tx of the committed database db, every later step awaits the node  *)
(* once and writes to tx, and the run ends with Commit (db' = tx) or loses *)
(* tx.  The chain may move between any two steps.  setIntervalAsync never  *)
(* overlaps two runs of a worker, so one pc is enough.                     *)
(***************************************************************************)
EXTENDS Blockchain

CONSTANTS
    Confirmations,    \* config.CONFIRMATION_BLOCKS
    FetchLimit,       \* config.blockFetchLimit
    MaxReorgSize,     \* config.maxReorgSize
    HandleReorgs,     \* config.handleReorgs
    ShortIds,         \* tokens whose id has a leading zero byte
    ProcessingFails,  \* may processEvents give up on an event?
    ReorgDuringRun,   \* may the chain reorganise while a run is under way?
    ResyncAllowed,    \* may the operator call resync()?
    MaxFaults         \* bound: runs that an RPC error or a crash ends

ASSUME WorkerAssumption ==
    /\ Confirmations \in Nat
    /\ FetchLimit \in Nat \ {0}
    /\ MaxReorgSize \in Nat
    /\ HandleReorgs \in BOOLEAN
    /\ ShortIds \subseteq Tokens
    /\ ProcessingFails \in BOOLEAN
    /\ ReorgDuringRun \in BOOLEAN
    /\ ResyncAllowed \in BOOLEAN
    /\ MaxFaults \in Nat

VARIABLES
    db,      \* the committed tables: worker status, events, domains
    tx,      \* the same tables as the open transaction sees them
    pc,      \* where run() is
    cur,     \* currentSyncBlock
    to,      \* toBlock
    from,    \* latestEventBlocks[searchReorgFrom], as [block, hash]
    upto,    \* latestEventBlocks[searchReorgTo], as [block, hash]
    faults   \* runs ended by a fault so far

runVars == <<tx, pc, cur, to, from, upto>>
vars == <<chainVars, db, runVars, faults>>

Idle == "idle"
Throwing == {"tooLarge", "noEvents", "duplicate"}
Running == {"height", "compare", "oldest", "newest", "search", "revert",
            "loop", "hash"}

NoBlock == [block |-> 0, hash |-> NoHash]

\* What a worker keeps in the database: the status row, the events table and,
\* for each token, the blocks whose event went into the domain's records.
Database ==
    [block : Nat, hash : Nat, events : SUBSET Event,
     domains : [Tokens -> SUBSET EventBlock]]

TypeOK ==
    /\ ChainTypeOK
    /\ db \in Database
    /\ tx \in Database
    /\ pc \in {Idle} \cup Throwing \cup Running
    /\ cur \in Nat
    /\ to \in Nat
    /\ from \in EventBlock
    /\ upto \in EventBlock
    /\ faults \in Nat

Init ==
    /\ ChainInit
    /\ db = [block |-> 0, hash |-> NoHash, events |-> {},
             domains |-> [t \in Tokens |-> {}]]
    /\ tx = db
    /\ pc = Idle
    /\ cur = 0 /\ to = 0
    /\ from = NoBlock /\ upto = NoBlock
    /\ faults = 0

-----------------------------------------------------------------------------
(* Helpers *)

BlockOf(e) == [block |-> e.block, hash |-> e.hash]
EventBlocks(E) == {BlockOf(e) : e \in E}

\* CnsRegistryEvent.latestEventBlocks: the last MaxReorgSize of them.
LatestEventBlocks(E) ==
    {b \in EventBlocks(E) :
        Cardinality({c \in EventBlocks(E) : c.block > b.block}) < MaxReorgSize}

\* Mutant of Matches: the comparison of the hashes is lost.
MatchesHeightOnly(b) == b.block \in DOMAIN chain

Matches(b) == HashAt(b.block) = b.hash

Between(W, low, high) == {b \in W : low.block < b.block /\ b.block < high.block}

\* The events of token t in E, as the domain records them once applied.
BlocksOfToken(E, t) == {BlockOf(e) : e \in {f \in E : f.token = t}}

\* processEvents swallows the error of an event it cannot process: any part
\* of the events may be left out of the domains.
Applied(E) == IF ProcessingFails THEN SUBSET E ELSE {E}

\* What cleanUpEvents(n) leaves of the events E.  Its mutants delete one block
\* too few (">" of block + 1) and one too many (">=").
UpToOneMore(E, n) == {e \in E : e.block <= n + 1}
UpToOneLess(E, n) == {e \in E : e.block < n}
UpTo(E, n) == {e \in E : e.block <= n}

\* The domains that handleReorg rebuilds for the deleted events.  cleanUpEvents
\* collects returnValues.tokenId, whose hex form equals the padded node of the
\* events table only for an id without a leading zero byte: the others are
\* rebuilt from no events into no domain.  The mutant forgets the rebuild.
AffectedNone(deleted) == {e.token : e \in deleted} \ Tokens
Affected(deleted) == {e.token : e \in deleted} \ ShortIds

\* The last block of the batch; the mutant asks beyond the confirmed head.
FetchBlockUncapped == cur + FetchLimit
FetchBlock == IF cur + FetchLimit < to THEN cur + FetchLimit ELSE to

\* saveEvents violates the unique index (blockNumber, logIndex).
Collides(E) == \E e \in E, f \in tx.events : e.block = f.block /\ e.token = f.token

\* saveLastMirroredBlock: typeorm skips an undefined hash, so the row keeps
\* the hash it had.
\* The mutant keeps the first hash for ever.
WithFirstHash(d, n, hash) ==
    [d EXCEPT !.block = n, !.hash = IF @ = NoHash THEN hash ELSE @]
WithStatus(d, n, hash) ==
    [d EXCEPT !.block = n, !.hash = IF hash = NoHash THEN @ ELSE hash]

\* getLatestNetworkBlock finds a block; the mutant does not ask.
HeadUnchecked == TRUE
HeadKnown == Len(chain) > Confirmations

\* The transaction is over: run() forgets what it had in hand.
EndRun(d) ==
    /\ pc' = Idle
    /\ tx' = d
    /\ cur' = 0 /\ to' = 0
    /\ from' = NoBlock /\ upto' = NoBlock

-----------------------------------------------------------------------------
(* run() *)

\* WorkerRepository.startTransaction
Begin ==
    /\ pc = Idle
    /\ pc' = "height"
    /\ UNCHANGED <<chainVars, db, tx, cur, to, from, upto, faults>>

\* syncBlockRanges up to the comparison: getLatestNetworkBlock.
ReadHeight ==
    /\ pc = "height"
    /\ HeadKnown
    /\ to' = Len(chain) - Confirmations
    /\ IF tx.block = 0 \/ ~HandleReorgs
       THEN /\ cur' = IF tx.block = 0 THEN StartBlock ELSE tx.block
            /\ pc' = "loop"
       ELSE /\ pc' = "compare"
            /\ UNCHANGED cur
    /\ UNCHANGED <<chainVars, db, tx, from, upto, faults>>

\* syncBlockRanges: getBlock(latestMirrored) against the status row.
Compare ==
    /\ pc = "compare"
    /\ IF to >= tx.block /\ tx.hash # NoHash /\ tx.hash = HashAt(tx.block)
       THEN cur' = tx.block /\ pc' = "loop"
       ELSE pc' = "oldest" /\ UNCHANGED cur
    /\ UNCHANGED <<chainVars, db, tx, to, from, upto, faults>>

\* findLastMatchingBlock reads the first of the latest event blocks.
CheckOldest ==
    /\ pc = "oldest"
    /\ LET W == LatestEventBlocks(tx.events) IN
       IF W = {}
       THEN pc' = "noEvents" /\ UNCHANGED from
       ELSE \E b \in W :
              /\ \A c \in W : b.block <= c.block
              /\ from' = b
              /\ pc' = IF Matches(b) THEN "newest" ELSE "tooLarge"
    /\ UNCHANGED <<chainVars, db, tx, cur, to, upto, faults>>

\* findLastMatchingBlock reads the last of them.
CheckNewest ==
    /\ pc = "newest"
    /\ LET W == LatestEventBlocks(tx.events) IN
       \E b \in W :
         /\ \A c \in W : c.block <= b.block
         /\ upto' = b
         /\ IF Matches(b)
            THEN from' = b /\ pc' = "revert"
            ELSE UNCHANGED from /\ pc' = "search"
    /\ UNCHANGED <<chainVars, db, tx, cur, to, faults>>

\* One iteration of the binary search: the block in the middle of the window.
Search ==
    /\ pc = "search"
    /\ LET B == Between(LatestEventBlocks(tx.events), from, upto) IN
       IF B = {}
       THEN pc' = "revert" /\ UNCHANGED <<from, upto>>
       ELSE \E mid \in B :
              /\ Cardinality({c \in B : c.block < mid.block})
                    = (Cardinality(B) + 1) \div 2 - 1
              /\ IF Matches(mid)
                 THEN from' = mid /\ UNCHANGED upto
                 ELSE upto' = mid /\ UNCHANGED from
              /\ UNCHANGED pc
    /\ UNCHANGED <<chainVars, db, tx, cur, to, faults>>

\* handleReorg once the last matching block is known: the status, the cleanup
\* of the events above it and the rebuild of the domains they touched.
Revert ==
    /\ pc = "revert"
    /\ LET kept     == UpTo(tx.events, from.block)
           affected == Affected(tx.events \ kept)
       IN \E done \in Applied({e \in kept : e.token \in affected}) :
            tx' = [block   |-> from.block,
                   hash    |-> from.hash,
                   events  |-> kept,
                   domains |-> [t \in Tokens |->
                                  IF t \in affected THEN BlocksOfToken(done, t)
                                                    ELSE tx.domains[t]]]
    /\ cur' = from.block
    /\ pc' = "loop"
    /\ UNCHANGED <<chainVars, db, to, from, upto, faults>>

\* One iteration of the fetch loop, up to processEvents.
FetchEvents ==
    /\ pc = "loop"
    /\ cur < to
    /\ LET fetched == EventsIn(cur + 1, FetchBlock) IN
       IF Collides(fetched)
       THEN pc' = "duplicate" /\ UNCHANGED <<tx, cur>>
       ELSE /\ \E done \in Applied(fetched) :
                 tx' = [tx EXCEPT
                          !.events  = @ \cup fetched,
                          !.domains = [t \in Tokens |->
                                         @[t] \cup BlocksOfToken(done, t)]]
            /\ cur' = FetchBlock
            /\ pc' = "hash"
    /\ UNCHANGED <<chainVars, db, to, from, upto, faults>>

\* The end of the iteration: the hash is read after the events were.
SaveStatus ==
    /\ pc = "hash"
    /\ tx' = WithStatus(tx, cur, HashAt(cur))
    /\ pc' = "loop"
    /\ UNCHANGED <<chainVars, db, cur, to, from, upto, faults>>

\* WorkerRepository.commitTransaction
Commit ==
    /\ pc = "loop"
    /\ cur >= to
    /\ db' = tx
    /\ EndRun(tx)
    /\ UNCHANGED <<chainVars, faults>>

\* The catch block: an error of the code's own.
Rollback ==
    /\ pc \in Throwing
    /\ EndRun(db)
    /\ UNCHANGED <<chainVars, db, faults>>

\* An RPC call or the database fails, or the process dies and restarts: the
\* transaction is lost.
Fail ==
    /\ pc \in Running
    /\ faults < MaxFaults
    /\ faults' = faults + 1
    /\ EndRun(db)
    /\ UNCHANGED <<chainVars, db>>

-----------------------------------------------------------------------------
(* resync() *)

\* Its one read of the node and its writes are one transaction on tables that
\* nobody else writes to, so it is one step.  The domains are not rebuilt.
Resync(n) ==
    /\ ResyncAllowed
    /\ pc = Idle
    /\ db' = [WithStatus(db, n, HashAt(n)) EXCEPT
                !.events = UpTo(@, n)]
    /\ tx' = db'
    /\ UNCHANGED <<chainVars, pc, cur, to, from, upto, faults>>

-----------------------------------------------------------------------------
\* The chain moves while the worker waits.
ChainMoves ==
    /\ ChainStep
    /\ forks' # forks => pc = Idle \/ ReorgDuringRun
    /\ UNCHANGED <<db, runVars, faults>>

WorkerStep ==
    \/ Begin \/ ReadHeight \/ Compare
    \/ CheckOldest \/ CheckNewest \/ Search \/ Revert
    \/ FetchEvents \/ SaveStatus \/ Commit \/ Rollback

Next ==
    \/ WorkerStep
    \/ Fail
    \/ \E n \in 1 .. MaxHeight : Resync(n)
    \/ ChainMoves

Spec == Init /\ [][Next]_vars

\* setIntervalAsync starts the next run when the last one ended, and a node
\* that answers lets a run go on.
FairSpec == Spec /\ WF_vars(WorkerStep)

-----------------------------------------------------------------------------
(* Properties *)

\* The events of a mirror lie between the starting block and the mirrored one,
\* committed or not: a later fetch can never meet them again.  It is what
\* keeps saveEvents (WorkerRepository.ts:230) off the events' unique index.
EventsBelowStatus ==
    /\ \A e \in db.events : e.block <= db.block
    /\ pc \in {"loop", "hash"} => \A e \in tx.events : e.block <= cur

\* saveEvents never violates the unique index of the events table
\* (CnsRegistryEvent.ts:19): no run refetches a block whose events are stored,
\* whatever was rolled back or cleaned up before.
NeverDuplicate == pc # "duplicate"

\* Whatever handleReorg cleans up (BaseWorker.ts:86), no committed domain whose
\* id is hex-padded keeps the effect of an event gone from the events table.
DomainsJustified ==
    \A t \in Tokens \ ShortIds :
        db.domains[t] \subseteq BlocksOfToken(db.events, t)

\* handleReorg "reverted ${cleanUp.affected.size} domains" (BaseWorker.ts:104):
\* the domains of all cleaned up events, whatever their token id.
AllDomainsReverted ==
    \A t \in Tokens : db.domains[t] \subseteq BlocksOfToken(db.events, t)

\* The test that lets a run skip reorg handling (BaseWorker.ts:139) is sound:
\* if the hash of the status row is that of the node, every event mirrored is
\* on the chain and none up to the mirrored block is missing.
MirrorExact ==
    db.hash # NoHash /\ db.hash = HashAt(db.block)
        => db.events = EventsIn(StartBlock + 1, db.block)

\* A committed run deletes only events whose block left the chain: the search
\* of findLastMatchingBlock (BaseWorker.ts:63) goes back no further than the
\* reorg did.
CanonicalEventsKept ==
    [][\A e \in db.events : Canonical(e) => e \in db'.events]_db

\* With as many confirmations as a reorg is deep, nothing that is committed, neither
\* an event nor its effect on a domain, is ever of an orphaned block, although the
\* chain moves between any two questions of a run (BaseWorker.ts:201) and runs fail.
NothingOrphaned ==
    /\ \A e \in db.events : Canonical(e)
    /\ \A t \in Tokens : \A b \in db.domains[t] : HashAt(b.block) = b.hash

\* Every committed run publishes one prefix of the chain, complete.
Mirror == INSTANCE ChainMirror WITH mirror <- db
PublishesSnapshots == Mirror!MirrorSpec

\* The worker can do nothing before an operator does (BaseWorker.ts:50, and
\* the TypeError of latestEventBlocks[0] at line 40).
ResyncRequired ==
    /\ db.block > 0
    /\ db.hash # HashAt(db.block)
    /\ LET W == LatestEventBlocks(db.events) IN
       \A b \in W : (\A c \in W : b.block <= c.block) => ~Matches(b)

Mirrored ==
    /\ db.block >= Len(chain) - Confirmations
    /\ db.hash = HashAt(db.block)
    /\ db.events = EventsIn(StartBlock + 1, db.block)

\* Once the chain rests and the node answers, the worker catches up with the
\* confirmed head and stays there, unless it needs a manual resync.
EventuallyMirrored ==
    <>[](\/ Len(chain) - Confirmations <= StartBlock
         \/ Mirrored
         \/ ResyncRequired)
=============================================================================

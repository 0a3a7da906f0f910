----------------------------- MODULE ZilWorker ------------------------------
(***************************************************************************)
(* The worker of the Zilliqa name service: ZNSWorkerStrategy and           *)
(* ZilProvider (workers/zil) in the loop of BaseWorker, without reorgs.    *)
(* Its "block numbers" are the numbers ViewBlock gives the transactions.   *)
(* A run asks ViewBlock twice for one page of them: which is the last      *)
(* (getLatestNetworkBlock), then what is in them (getEvents); the page     *)
(* that the first question allows is below the fetch limit of the loop, so *)
(* that the loop fetches once.                                             *)
(***************************************************************************)
EXTENDS ZilRegistry, SequencesExt

CONSTANTS
    PerPage,       \* transactions in a page
    Mislabelled,   \* the nodes that isInvalidLabel refuses
    Delay,         \* the transactions that the mirror may be behind by
    MaxFaults      \* bound: crashes, stale answers and questions that fail

Repo == INSTANCE WorkerRepository

\* An address is none of the marks for there being none.
ASSUME ZilWorkerAssumption ==
    /\ {Null, None, Repo!Keep} \cap (Owners \cup Resolvers) = {}
    /\ PerPage \in Nat \ {0, 1}
    /\ Mislabelled \subseteq Nodes
    /\ Delay \in Nat
    /\ MaxFaults \in Nat

VARIABLES
    db,       \* the committed [block, stored, tables, lost]: the status, the
              \* numbers in zns_transactions, the tables; lost is no part of
              \* the program: the nodes with an event that was given up
    tx,       \* the same as the open transaction sees it
    pc,       \* where the run is
    to,       \* the last transaction to mirror
    events,   \* the fetched events still to be processed
    faults

workerVars == <<db, tx, pc, to, events, faults>>
vars == <<registryVars, workerVars>>

\* The migrations insert the root domain.
Init ==
    /\ RegistryInit
    /\ db = [block |-> 0, stored |-> {}, lost |-> {},
             tables |-> [Repo!EmptyTables EXCEPT !.names = {Root}]]
    /\ tx = db
    /\ pc = "idle"
    /\ to = 0
    /\ events = <<>>
    /\ faults = 0

\* A resolution row belongs to a domain, what is stored is below the status,
\* a broken transaction is never committed, and until the events are fetched a
\* run has changed nothing.
TypeOK ==
    /\ \A d \in {db, tx} :
         /\ d.block \in 0 .. Len(txs)
         /\ d.stored \subseteq 1 .. Len(txs)
         /\ d.lost \subseteq Nodes
         /\ d.tables.names \subseteq Nodes \cup {Root}
         /\ DOMAIN d.tables.rows \subseteq d.tables.names
         /\ d.tables.rev = {}
    /\ db.stored \subseteq 1 .. db.block
    /\ ~db.tables.broken
    /\ pc \in {"idle", "fetch", "events"}
    /\ pc # "events" => tx = db /\ events = <<>>
    /\ to \in 0 .. Len(txs)
    /\ \A i \in DOMAIN events : events[i].node \in Nodes
    /\ faults \in 0 .. MaxFaults

Fault ==
    /\ faults < MaxFaults
    /\ faults' = faults + 1

\* How many transactions a request to the index finds: all, or fewer if the
\* answer is behind.
Answered(n) ==
    \/ n = Len(txs) /\ UNCHANGED faults
    \/ n \in 0 .. Len(txs) - 1 /\ Fault

EndRun(d) ==
    /\ tx' = d
    /\ pc' = "idle"
    /\ to' = 0
    /\ events' = <<>>

GiveUp == EndRun(db) /\ UNCHANGED <<registryVars, db>>

-----------------------------------------------------------------------------
(* The two questions to the index *)

PageEnd(from) == from + PerPage - 1

\* The page starts with the last mirrored transaction; an empty one has no last
\* element, and the run ends in a TypeError.
GetLatestNetworkBlock ==
    /\ pc = "idle"
    /\ \E n \in 0 .. Len(txs) :
         /\ Answered(n)
         /\ IF n < tx.block
            THEN GiveUp
            ELSE /\ to' = IF PageEnd(tx.block) < n THEN PageEnd(tx.block) ELSE n
                 /\ pc' = "fetch"
                 /\ UNCHANGED <<registryVars, db, tx, events>>

\* validateZnsEvents: the first transaction follows a stored one, unless none
\* is stored.  The mutant trusts the index.
NotValidated(page) == TRUE
Sequential(page) ==
    page = {} \/ tx.stored = {}
        \/ \E n \in page : n - 1 \in tx.stored /\ \A m \in page : n <= m

\* Both the transactions of a page and the events of each come newest first;
\* getEvents puts them in order.  The mutant forgets the events.
NewestEventFirst(n) == txs[n]
EventsOf(n) == Reverse(txs[n])

\* saveEvents and the events that processEvents is to go through.
GetEvents ==
    /\ pc = "fetch"
    /\ tx.block < to
    /\ \E n \in 0 .. Len(txs) :
         LET last == IF n < to THEN n ELSE to
             page == tx.block + 1 .. last IN
         /\ Answered(n)
         /\ IF Sequential(page)
            THEN /\ tx' = [tx EXCEPT !.stored = @ \cup page]
                 /\ events' = FlattenSeq([i \in 1 .. last - tx.block |->
                                            EventsOf(tx.block + i)])
                 /\ pc' = "events"
                 /\ UNCHANGED <<registryVars, db, to>>
            ELSE GiveUp

-----------------------------------------------------------------------------
(* processEvents *)

Processing(type) ==
    /\ pc = "events"
    /\ events # <<>>
    /\ Head(events).type = type

ProcessedBut(tables, lost) ==
    /\ tx' = [tx EXCEPT !.tables = tables, !.lost = lost]
    /\ events' = Tail(events)
    /\ UNCHANGED <<registryVars, db, pc, to>>

\* A domain gets its name from a parent that is committed: without it the new
\* row fails its own validation before any SQL.
Nameable(n) == n \notin Mislabelled /\ ParentOf[n] \in db.tables.names

ParseNewDomain ==
    /\ Processing("NewDomain")
    /\ LET n == Head(events).node
           named == Repo!SaveDomain(tx.tables, db.tables.names, n)
       IN IF Nameable(n)
          THEN ProcessedBut(Repo!SaveResolution(named, n,
                                [Repo!NoChange EXCEPT !.registry = "zns"]),
                            tx.lost)
          ELSE ProcessedBut(tx.tables, tx.lost \cup {n})
    /\ UNCHANGED faults

\* Records that cannot be read (there is no such contract) are undefined, for
\* which the Resolution has the default {}: the old ones are kept.
RecordsAt(n, resolver) ==
    IF resolver = Null THEN NoRecords ELSE kept[resolver][n]

ResolverColumn(e) == IF e.resolver = Null THEN Repo!Absent ELSE e.resolver

\* The records are read at the head of the chain.
ParseConfigured ==
    /\ Processing("Configured")
    /\ LET e == Head(events)
           change == [Repo!NoChange EXCEPT
                        !.owner = e.owner,
                        !.resolver = ResolverColumn(e),
                        !.registry = IF e.owner = Null
                                     THEN Repo!Absent ELSE "zns",
                        !.records = RecordsAt(e.node, e.resolver)]
       IN ProcessedBut(Repo!SaveResolution(tx.tables, e.node, change),
                       IF e.node \in tx.tables.names
                       THEN tx.lost \ {e.node} ELSE tx.lost)
    /\ UNCHANGED faults

\* The node does not answer: processEvents logs the error and goes on.
LoseConfigured ==
    /\ Processing("Configured")
    /\ Fault
    /\ ProcessedBut(tx.tables, tx.lost \cup {Head(events).node})

-----------------------------------------------------------------------------
(* The end of the run *)

Fetched == pc = "events" /\ events = <<>>

\* saveLastMirroredBlock and commitTransaction; nothing to save when there was
\* nothing to fetch.
Commit ==
    /\ \/ Fetched /\ ~tx.tables.broken
       \/ pc = "fetch" /\ tx.block = to
    /\ db' = [tx EXCEPT !.block = to]
    /\ EndRun(db')
    /\ UNCHANGED <<registryVars, faults>>

\* saveLastMirroredBlock on a broken transaction throws.
Rollback ==
    /\ Fetched
    /\ tx.tables.broken
    /\ GiveUp
    /\ UNCHANGED faults

\* The process dies, or the index answers with an error.
Crash ==
    /\ pc # "idle"
    /\ Fault
    /\ GiveUp

WorkerStep ==
    \/ GetLatestNetworkBlock \/ GetEvents
    \/ ParseNewDomain \/ ParseConfigured
    \/ Commit \/ Rollback

Next ==
    \/ WorkerStep
    \/ LoseConfigured
    \/ Crash
    \/ RegistryStep /\ UNCHANGED workerVars

Spec == Init /\ [][Next]_vars
FairSpec == Spec /\ WF_vars(WorkerStep)

-----------------------------------------------------------------------------
(* GET /status, when the index answers up to transaction n *)

\* GET /status reads the mirrored block b and then asks the index, which answers as of
\* transaction n or fails; the worker may commit meanwhile.
Fails == -1

\* The newest transaction of the page that starts with b, 0 if it is empty.  The
\* mutant takes the first that the index answers for the oldest.
OldestAtxuid(b, n) == IF n < b THEN 0 ELSE b
GetLastAtxuid(b, n) ==
    IF n < b THEN 0 ELSE IF PageEnd(b) < n THEN PageEnd(b) ELSE n

BlockchainStatus(b, n) ==
    IF n = Fails
    THEN [latestNetworkBlock |-> -1, isUpToDate |-> FALSE]
    ELSE [latestNetworkBlock |-> GetLastAtxuid(b, n),
          isUpToDate |-> GetLastAtxuid(b, n) - b <= Delay]

-----------------------------------------------------------------------------
(* Properties *)

\* zns_transactions never has a gap (validateZnsEvents,
\* WorkerRepository.ts:463), however stale the answers of the index are and
\* wherever a run breaks off.
StoredSequentially ==
    \A n \in db.stored : \A m \in db.stored : n .. m \subseteq db.stored

\* No transaction up to the mirrored one was missed.
Complete(d) == d.stored = 1 .. d.block

\* Once every transaction is mirrored and none was missed, every row agrees
\* with the registry and has all current records of its resolver, whatever
\* pages the transactions came in; except for the nodes whose name or records
\* could not be had (parseNewDomainEvent, parseConfiguredEvent).
ZilSettled ==
    db.block = Len(txs) /\ Complete(db) =>
        \A n \in DOMAIN rows \ db.lost :
            /\ n \in DOMAIN db.tables.rows
            /\ LET row == db.tables.rows[n] IN
               /\ row.owner = rows[n].owner
               /\ row.resolver = rows[n].resolver
               /\ row.registry = IF Owned(n) THEN "zns" ELSE Repo!Absent
               /\ rows[n].resolver # None =>
                    \A k \in DOMAIN kept[rows[n].resolver][n] :
                        /\ k \in DOMAIN row.records
                        /\ row.records[k] = kept[rows[n].resolver][n][k]

\* The status tells that the mirror is late only if the block it reports is, or with the
\* block -1, which tells that the index failed (StatusController.test.ts:313), whatever
\* copy of the index answers and whatever is mirrored meanwhile.  If the index is not
\* behind, it tells so whenever the mirror is late, provided that the delay which is
\* accepted fits into a page: with a longer one the mirror is never late
\* (StatusController.ts:130).
StatusTruthful ==
    \A b \in 0 .. db.block :
        LET late == Len(txs) - b > Delay IN
        /\ \A n \in {Fails} \cup 0 .. Len(txs) :
              LET status == BlockchainStatus(b, n) IN
              ~status.isUpToDate => late \/ status.latestNetworkBlock = -1
        /\ late => (BlockchainStatus(b, Len(txs)).isUpToDate <=> Delay >= PerPage - 1)

\* A node that one page registers twice is inserted twice (saveDomains).
Registrations(n) ==
    {i \in db.block + 1 .. Len(txs) :
        \E j \in DOMAIN txs[i] : txs[i][j] = NewDomain(n)}
Twice == \E n \in Nodes \ db.tables.names : Cardinality(Registrations(n)) > 1

\* The worker mirrors every transaction in the end, unless a stale answer made
\* it skip one (then validateZnsEvents refuses all that follows) or a page
\* registers a node twice.
ZilMirrored == <>[](db.block = Len(txs) \/ ~Complete(db) \/ Twice)
=============================================================================

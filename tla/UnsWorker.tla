----------------------------- MODULE UnsWorker ------------------------------
(***************************************************************************)
(* The strategy of an EVM chain (workers/eth/UnsWorkerStrategy.ts and      *)
(* workers/eth/CnsResolver.ts) inside the loop of the worker: what each    *)
(* event of the UNS and CNS registries does to the tables.                 *)
(*                                                                         *)
(* The worker fetches one block at a time (blockFetchLimit = 1) and the    *)
(* chain does not reorganise: BaseWorker has both.  Of the events of UNS   *)
(* each handler is one step on the tables of the transaction.  The events  *)
(* of CNS carry no values, so their handlers ask the chain, twice, and get *)
(* the answers of its head and not those of the event's block.             *)
(***************************************************************************)
EXTENDS Registries, UnsEvents

CONSTANTS
    RpcFails,      \* may a question to the resolver fail?
    MaxCrashes     \* bound: runs that end in a crash

\* An address is none of the marks for there being none.
ASSUME UnsWorkerAssumption ==
    /\ {Null, None, Repo!Keep, "uns"} \cap (Owners \cup Resolvers) = {}
    /\ None \notin Tokens /\ 0 \notin Keys
    /\ RpcFails \in BOOLEAN
    /\ MaxCrashes \in Nat

VARIABLES
    db,       \* the committed [block, tables, lost]; lost is no part of the
              \* program: the tokens with an event that was not processed
    tx,       \* the same as the open transaction sees it
    pc,       \* where the run is
    to,       \* the last block to mirror
    at,       \* the events of the current block that are processed
    answer,   \* the resolver address that the handler at hand was told
    crashes

workerVars == <<db, tx, pc, to, at, answer, crashes>>
vars == <<registryVars, workerVars>>

Init ==
    /\ RegistryInit
    /\ db = [block |-> 0, tables |-> Repo!EmptyTables, lost |-> {}]
    /\ tx = db
    /\ pc = "idle"
    /\ to = 0 /\ at = 0
    /\ answer = None
    /\ crashes = 0

IsRow(row) ==
    /\ row.owner \in Owners \cup {Null, None}
    /\ row.registry \in {"uns", "cns", None}
    /\ row.resolver \in Resolvers \cup {"uns", None}
    /\ DOMAIN row.records \subseteq Keys
    /\ \A k \in DOMAIN row.records : row.records[k] \in Values \cup {""}

\* The rows have at most the shape of the columns, a reverse row belongs to a
\* known domain and so does a resolution row (the foreign keys), no transaction
\* that is open is ahead of the chain, and none that was broken is committed.
TypeOK ==
    /\ \A d \in {db, tx} :
         /\ d.block \in 0 .. Len(blocks)
         /\ d.tables.names \subseteq Tokens
         /\ DOMAIN d.tables.rows \subseteq d.tables.names
         /\ \A t \in DOMAIN d.tables.rows : IsRow(d.tables.rows[t])
         /\ d.tables.rev \subseteq Owners \X d.tables.names
         /\ d.tables.broken \in BOOLEAN
         /\ d.lost \subseteq Tokens
    /\ ~db.tables.broken
    /\ db.block <= tx.block
    /\ pc \in {"idle", "events", "resolver"}
    /\ to \in 0 .. Len(blocks)
    /\ at \in Nat
    /\ answer \in Resolvers \cup {None}
    /\ crashes \in Nat

Events == blocks[tx.block + 1].events
CurrentEvent == Events[at + 1]

\* lastProcessedEvent is undefined at the start of processEvents.
LastProcessedEvent == IF at = 0 THEN NoEvent ELSE Events[at]

\* The switch of processEvents reaches the handler of an event of this type.
Processing(type) ==
    /\ pc = "events"
    /\ tx.block < to
    /\ at < Len(Events)
    /\ CurrentEvent.type = type

\* The handler returned, or threw an error that processEvents logs.
ProcessedBut(tables, lost) ==
    /\ tx' = [tx EXCEPT !.tables = tables, !.lost = lost]
    /\ at' = at + 1
    /\ pc' = "events"
    /\ answer' = None
    /\ UNCHANGED <<registryVars, db, to, crashes>>

Processed(tables) == ProcessedBut(tables, tx.lost)

EndRun(d) ==
    /\ tx' = d
    /\ pc' = "idle"
    /\ to' = 0 /\ at' = 0
    /\ answer' = None

-----------------------------------------------------------------------------
(* Events that tell what they changed *)

ProcessTransfer ==
    /\ Processing("Transfer")
    /\ LET e == CurrentEvent IN
       ProcessedBut(AfterTransfer(tx.tables, e),
                    IF e.to = Null THEN tx.lost \ {e.token} ELSE tx.lost)

ProcessNewUri ==
    /\ Processing("NewURI")
    /\ Processed(AfterNewUri(tx.tables, db.tables.names, LastProcessedEvent,
                             CurrentEvent))

ProcessResetRecords ==
    /\ Processing("ResetRecords")
    /\ Processed(AfterResetRecords(tx.tables, CurrentEvent))

ProcessSet ==
    /\ Processing("Set")
    /\ Processed(AfterSet(tx.tables, CurrentEvent))

ProcessSetReverse ==
    /\ Processing("SetReverse")
    /\ \E tables \in Repo!SaveReverse(tx.tables, CurrentEvent.addr,
                                      CurrentEvent.token) : Processed(tables)

ProcessRemoveReverse ==
    /\ Processing("RemoveReverse")
    /\ Processed(Repo!RemoveReverse(tx.tables, CurrentEvent.addr))

-----------------------------------------------------------------------------
(* Events that only tell that something changed *)

\* The registry's resolverOf at the head, normalised: a token that CNS does not
\* know makes it revert, which getResolverAddress takes for no resolver.
ResolverOf(t) == IF OnCns(t) THEN rows[t].resolver ELSE None

\* CnsResolver.getResolverAddress, the first question of both handlers.
GetResolverAddress ==
    /\ Processing("Resolve") \/ Processing("Sync")
    /\ answer' = ResolverOf(CurrentEvent.token)
    /\ pc' = "resolver"
    /\ UNCHANGED <<registryVars, db, tx, to, at, crashes>>

Asked(type) == pc = "resolver" /\ CurrentEvent.type = type

\* The resolver told serves a token only while the token resolves to it.
Answers(t) == answer # None /\ ResolverOf(t) = answer

\* fetchResolver with the records of all keys: none of them clears the row, and
\* some are merged into it.  A resolver that reverts ends the handler.
\* The mutant saves the new resolver and keeps the old records.
ResolvedKeepsRecords(t) == [Repo!NoChange EXCEPT !.resolver = answer]
Resolved(t) ==
    LET records == IF answer = None THEN NoRecords ELSE kept[answer][t]
    IN [Repo!NoChange EXCEPT !.resolver = answer, !.records = records,
                             !.clear = (records = NoRecords)]

ProcessResolve ==
    /\ Asked("Resolve")
    /\ LET t == CurrentEvent.token IN
       IF answer = None \/ Answers(t)
       THEN ProcessedBut(Repo!SaveResolution(tx.tables, t, Resolved(t)),
                         tx.lost \ {t})
       ELSE Processed(tx.tables)

\* processSync reads the one key; a key without a value reads as "".
Synced(t, k) ==
    IF k = 0 \/ ~Answers(t)
    THEN [Repo!NoChange EXCEPT !.clear = TRUE]
    ELSE LET records == kept[answer][t] IN
         [Repo!NoChange EXCEPT
            !.records = Only(k, IF k \in DOMAIN records THEN records[k] ELSE "")]

ProcessSync ==
    /\ Asked("Sync")
    /\ LET e == CurrentEvent IN
       Processed(Repo!SaveResolution(tx.tables, e.token,
                                     Synced(e.token, e.updateId)))

\* The node does not answer one of the questions: the event is lost.
LoseEvent ==
    /\ RpcFails
    /\ \/ Processing("Resolve") \/ Processing("Sync")
       \/ pc = "resolver"
    /\ ProcessedBut(tx.tables, tx.lost \cup {CurrentEvent.token})

-----------------------------------------------------------------------------
(* The loop around them *)

Begin ==
    /\ pc = "idle"
    /\ pc' = "events"
    /\ to' = Len(blocks)
    /\ UNCHANGED <<registryVars, db, tx, at, answer, crashes>>

BlockProcessed ==
    /\ pc = "events"
    /\ tx.block < to
    /\ at = Len(Events)

\* saveLastMirroredBlock
SaveStatus ==
    /\ BlockProcessed
    /\ ~tx.tables.broken
    /\ tx' = [tx EXCEPT !.block = @ + 1]
    /\ at' = 0
    /\ UNCHANGED <<registryVars, db, pc, to, answer, crashes>>

\* saveLastMirroredBlock on a broken transaction throws.
Rollback ==
    /\ BlockProcessed
    /\ tx.tables.broken
    /\ EndRun(db)
    /\ UNCHANGED <<registryVars, db, crashes>>

Commit ==
    /\ pc = "events"
    /\ tx.block = to
    /\ db' = tx
    /\ EndRun(tx)
    /\ UNCHANGED <<registryVars, crashes>>

Crash ==
    /\ pc # "idle"
    /\ crashes < MaxCrashes
    /\ crashes' = crashes + 1
    /\ EndRun(db)
    /\ UNCHANGED <<registryVars, db>>

-----------------------------------------------------------------------------
WorkerStep ==
    \/ Begin \/ SaveStatus \/ Rollback \/ Commit
    \/ ProcessTransfer \/ ProcessNewUri
    \/ ProcessSet \/ ProcessResetRecords
    \/ ProcessSetReverse \/ ProcessRemoveReverse
    \/ GetResolverAddress \/ ProcessResolve \/ ProcessSync

Next ==
    \/ WorkerStep
    \/ LoseEvent
    \/ Crash
    \/ RegistryStep /\ UNCHANGED workerVars

Spec == Init /\ [][Next]_vars
FairSpec == Spec /\ WF_vars(WorkerStep)

-----------------------------------------------------------------------------
(* Properties *)

\* Without CNS resolvers every commit publishes the state of the registry after
\* one of its blocks: the handlers of processEvents (UnsWorkerStrategy.ts:192)
\* together lose nothing that the events tell.
Mirror == INSTANCE RegistryMirror WITH
    mirror <- [block |-> db.block, rows |-> db.tables.rows, rev |-> db.tables.rev]
PublishesRegistry == Mirror!MirrorSpec

\* Once every block is mirrored, the rows have the owners of the registry, and
\* the resolver and all records too unless an event was lost since the last
\* Resolve or burn: the handlers of Resolve and Sync (UnsWorkerStrategy.ts:371)
\* read the head of the chain in several questions, but a stale answer is
\* always followed by the event that repairs it.  Records of an earlier
\* resolver may stay beside those of the current one.
Settled ==
    db.block = Len(blocks) =>
        /\ DOMAIN db.tables.rows = DOMAIN rows
        /\ \A t \in DOMAIN rows :
             LET row == db.tables.rows[t] IN
             /\ row.owner = rows[t].owner
             /\ row.registry = rows[t].registry
             /\ t \notin db.lost =>
                  /\ row.resolver = rows[t].resolver
                  /\ \A k \in DOMAIN rows[t].records :
                       /\ k \in DOMAIN row.records
                       /\ row.records[k] = rows[t].records[k]

\* Two mints of a token in the blocks after the mirrored one.
MintsOf(t) ==
    {n \in db.block + 1 .. Len(blocks) :
        \E i \in DOMAIN blocks[n].events :
            blocks[n].events[i].type = "NewURI" /\ blocks[n].events[i].token = t}
Stuck == \E t \in Tokens \ db.tables.names : Cardinality(MintsOf(t)) > 1

\* The worker mirrors every block in the end, or one run would have to mint a
\* new domain twice; nothing else in the handlers may stop it.
MirroredUnlessStuck == <>[](db.block = Len(blocks) \/ Stuck)
=============================================================================

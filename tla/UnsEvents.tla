----------------------------- MODULE UnsEvents ------------------------------
(***************************************************************************)
(* What the handlers of the events that carry their values do to the       *)
(* tables (workers/eth/UnsWorkerStrategy.ts).  The worker applies them to  *)
(* the events it fetched (UnsWorker), and once more to the events of a     *)
(* domain that a reorg touched (ReorgRebuild).                             *)
(***************************************************************************)
EXTENDS Integers, Sequences, FiniteSets, Maps

Repo == INSTANCE WorkerRepository

NoEvent == [type |-> "none"]    \* lastProcessedEvent is undefined

\* A mint gives the row the registry that emitted it; of UNS the contract is
\* the resolver too, of CNS the resolver is left as it is.
Minted(owner, registry) ==
    [Repo!NoChange EXCEPT
       !.owner = owner, !.registry = registry,
       !.resolver = IF registry = "uns" THEN "uns" ELSE Repo!Keep]

TransferChange(e) ==
    IF e.from = Repo!NullAddress THEN Minted(e.to, e.registry)
    ELSE IF e.to = Repo!NullAddress
    THEN [owner |-> Repo!NullAddress, registry |-> Repo!Absent, resolver |-> Repo!Absent,
          records |-> Repo!NoRecords, clear |-> TRUE]
    ELSE [Repo!NoChange EXCEPT !.owner = e.to]

AfterTransfer(tables, e) ==
    Repo!SaveResolution(tables, e.token, TransferChange(e))

\* Only a mint that was processed just before names a domain.  That the uri
\* hashes to the token id is left out: the contracts mint no other token.
IsMint(e) == e.type = "Transfer" /\ e.from = Repo!NullAddress

AfterNewUri(tables, committed, last, e) ==
    IF IsMint(last)
    THEN Repo!SaveResolution(Repo!SaveDomain(tables, committed, e.token),
                             e.token, Minted(last.to, e.registry))
    ELSE tables

AfterResetRecords(tables, e) ==
    Repo!SaveResolution(tables, e.token, [Repo!NoChange EXCEPT !.clear = TRUE])

AfterSet(tables, e) ==
    Repo!SaveResolution(tables, e.token,
                        [Repo!NoChange EXCEPT !.records = Only(e.key, e.value)])
=============================================================================

# Verification of resolution-service

resolution-service mirrors the name registries of three blockchains (UNS and
CNS on Ethereum, UNS on Polygon, ZNS on Zilliqa) into Postgres and answers HTTP
requests from the mirror. This directory holds TLA+ modules of the mirroring, of
the API, of its API keys and of the pictures it stores, the TLC configurations
that check them on small instances, and theorems with proofs that TLAPS checks. Paths are relative to `src/src/` of the repository.

    cd tla
    tlc -config MCBaseWorker_reorgs.cfg MCBaseWorker.tla     # one run
    tlapm BaseWorker_proofs.tla                              # the proofs of a module

`PROJECT.json` lists the runs, the definitions with the lines they model, a
mutant for each property, the findings, the hazards and the theorems.

## 1. The system

| Component | Source | State it keeps | Operations | Interacts with |
|---|---|---|---|---|
| Mirroring worker, one per chain | `workers/framework/BaseWorker.ts` | `currentSyncBlock`, an open transaction | `run`, `resync` | the strategy (calls), the repository (calls) |
| Worker repository | `workers/framework/WorkerRepository.ts` | one transaction context per chain | save and find events, domains, resolutions, reverse resolutions; the status; begin, commit, roll back | Postgres |
| Event log, status | `models/CnsRegistryEvent.ts`, `models/WorkerStatus.ts` | tables `cns_registry_events`, `resolution_worker_status` | latest event blocks, clean-up, status with hash | the repository |
| UNS and CNS strategy | `workers/eth/UnsWorkerStrategy.ts`, `CnsResolver.ts` | none | `getLatestNetworkBlock`, `getBlock`, `getEvents`, `processEvents` | a JSON-RPC node, the repository |
| Zilliqa strategy | `workers/zil/*`, `models/ZnsTransaction.ts` | table `zns_transactions` | the same four | ViewBlock, a Zilliqa node, the repository |
| Worker start | `workers/WorkerRunner.ts`, `WorkerFactory.ts`, `index.ts` | timers | start every configured worker, again and again | the workers |
| Domain rows | `models/Domain*.ts` | tables `domains`, `domains_resolution`, `domains_reverse_resolution` | find, set, validate | workers write, the API reads |
| HTTP API | `controllers/*`, `services/Resolution.ts`, `services/DomainService.ts` | none | domains, records, reverse, transfers, metadata, status | the domain rows, nodes |
| API keys | `models/ApiKey.ts`, `EnrollmentController.ts`, `ApiKeyAuthMiddleware.ts` | table of keys | enroll, check | the query cache |
| Query cache | `database/TypeormInMemoryCache.ts` | answers of the database, for a while, per process | get, store | every query of the API |
| Pictures | `utils/socialPicture`, `services/MetadataService.ts`, `OpenSeaService.ts` | a bucket of files | look up, check the owner of an NFT, render, upload | Moralis, OpenSea, Google Cloud; used by the API, by the worker and by a script |
| Repair scripts | `scripts/pullDomainFromBlockchain.ts`, `removeDuplicateReverseResolutions.ts`, `fixSocialImageForSubdomains.ts` | none | insert missing domains, delete duplicates, rewrite pictures | the rows of the workers, the bucket |

A worker and the API share committed rows and the bucket of pictures. Workers of
different chains share the `domains` table. What makes the mirroring hard:

- **the chain moves** while a run is under way: it grows and it reorganises
  between two questions to the node, so that answers of one run may belong to
  different states and even to different forks;
- **one run is one transaction** of many awaits. The README of the repository
  describes batches, but the commit comes only after the last of them: a crash
  or an error loses the whole run, and the next one starts over, on a chain that
  has moved;
- **some reads leave the transaction**: `saveDomains` and
  `removeAllResolutionsForDomain` look rows up on the default connection and
  see what is committed, not what the run has written;
- **errors are swallowed** event by event, and never retried;
- **rebuilds run concurrently** on one connection after a reorg;
- **the index of Zilliqa may answer from an older copy**, and lists everything
  newest first.

What makes the answers hard:

- **a domain has a row per chain**, and the workers of the chains are at
  different heights while it moves from one to the other over the bridge;
- **answers are kept**: a query that found nothing is cached per process, and is
  repeated after the row was inserted;
- **a list is read page by page**, each page in two queries, while rows are
  inserted with the time at which their transaction began;
- **pictures are stored by three programs without a lock**, one of them inside a
  database transaction that may be rolled back, from services that may fail or
  never answer.

What has to hold, per component: the mirroring worker publishes exact prefixes
of the chain, never keeps an orphaned event behind a matching hash, never
deletes a canonical one, never stores an event twice, and catches up; the
strategy makes of the events the state of the registry; the rebuild gives back
the state of the last matching block; the Zilliqa worker stores the
transactions without a gap; once everything is mirrored, the API shows the owner
and the reverse record that the chains have; a walk over the pages misses no
domain and repeats none; a key passes only if it was enrolled, and is not refused
for ever; a picture is stored only for one who owned it, and a stored one is
found. The list of hazards in `PROJECT.json` names each
place in the code where this could go wrong.

## 2. The modules

```
Blockchain            the chain of a JSON-RPC node           (external)
  ChainMirror         abstract: what a worker publishes
  BaseWorker          one worker: run(), resync()
    BaseWorker_proofs theorems: types, the events table, the domains, what is
                      published, and the refinement
    MCBaseWorker      runs reorgs, faulty, short_ids

Registries            the UNS and CNS contracts              (external)
  RegistryMirror      abstract: what the tables show
  UnsWorker           the handlers of events in the loop of a worker
    UnsWorker_proofs  theorems: the tables and the registry, the refinement
    MCUnsWorker       runs uns, cns
  ReorgRebuild        the concurrent rebuilds after a reorg
    ReorgRebuild_proofs  theorems
    MCReorgRebuild    run rebuild
WorkerRepository      operators: the writes of the repository
UnsEvents             operators: the handlers whose events carry the values
Maps                  operators: rows of a table, and { ...f, ...g }

ZilRegistry           the ZNS contract and ViewBlock         (external)
  ZilWorker           the Zilliqa worker
    ZilWorker_proofs  theorems
    MCZilWorker       run zil

BridgedDomains        two chains, their workers, a script, one table of domains
  DomainApi           what the API answers from it
    DomainApi_proofs  theorems: the rows of both, and each answer
    MCDomainApi       runs rows, lookup
DomainPages           GET /domains, page by page
    DomainPages_proofs theorems
    MCDomainPages     run pages
ApiKeys               enrolment and check of a key through the cache
    ApiKeys_proofs    theorems
    MCApiKeys         run keys
Pictures              the bucket of pictures and who writes to it
    Pictures_proofs   theorems
    MCPictures        run pictures
```

### BaseWorker

`db` is the committed database (status row, events table, and for each token
the blocks whose event went into its domain), `tx` the same as the open
transaction sees it. A run begins, asks for the height (`ReadHeight`), compares
hashes (`Compare`), and either goes to the loop or into `findLastMatchingBlock`
(`CheckOldest`, `CheckNewest`, one `Search` per iteration) and `Revert`; in the
loop `FetchEvents` and `SaveStatus` alternate until `Commit`. Each action awaits
the node at most once, and the chain (`Mine`, `Reorg`) may move between any two.
`Fail` is an RPC error, a database error or a crash: in each case the
transaction is lost. `Rollback` is an error that the code itself throws.

A hash is the number of the fork that mined the block: the code only compares
hashes of blocks with one number, and of one fork there is one such block. The
data of events is abstracted to the set of tokens with an event; what handlers
do with events is the subject of `UnsWorker`.

`ChainMirror` is the abstract specification: the committed tables are always the
snapshot of one prefix of the chain as it was at the time of the commit.

### WorkerRepository, UnsEvents, UnsWorker

`WorkerRepository` gives each write of the repository as a function from tables
to tables. It keeps the program's details that matter: which connection a
look-up uses, what happens to a transaction whose statement fails, the
difference between `undefined` and `null` in a `Resolution`, the merge of
records, which row `saveReverseResolutions` keeps and which it removes.

`UnsWorker` has one action per event type of UNS. CNS events only say that
something changed, so `Resolve` and `Sync` are two actions each, one per question
to the chain, and read the state of the head. `LoseEvent` is a question that is
not answered. One batch is one block, and the chain does not reorganise here.

`RegistryMirror` is the abstract specification for a chain without CNS tokens:
each commit shows the registry after one of its blocks, and only moves forward.
`lost` in `UnsWorker` and `ZilWorker` is an auxiliary variable, read by
properties only.

### ReorgRebuild

After `Reorg(n)` one task per affected token runs: it removes the rows, then
replays the events that are left. Handlers that touch only the rows of their
token are one step; `saveReverseResolutions` is three (read, save, remove),
because reverse rows are shared. Only UNS events are replayed: `Resolvers` is empty
(`ReorgRebuildAssumption`). `EventsForDomain` is what `findEventsForDomain` reads
after the clean-up, block by block; `blocks` holds the events that are left. `RankedFirst` are
the rows that `removeDuplicateReverseResolutions` keeps when it is run afterwards.

### ZilWorker

`GetLatestNetworkBlock` and `GetEvents` are the two requests to ViewBlock; each
may be answered from an older copy (`Answered`). `ParseNewDomain` and
`ParseConfigured` are the handlers, with records read at the head. A page ends
below the fetch limit of the loop (25 from the mirrored transaction inclusive,
against 25 after it), so that a run fetches one page. `GetLastAtxuid` and
`BlockchainStatus` are the part of `/status` that reads the mirrored transaction,
which may be an older one by the time of the answer, and asks the same index, which
may be behind or fail (`Fails`). The addresses of
owners and resolvers are assumed to be different from the marks that stand for
`null`, `undefined` and an absent column.

### BridgedDomains, DomainApi

Two chains with one registry each and a bridge between them; for each chain the
worker of `BaseWorker`, reduced to what can meet the other one: the look-up of a
domain outside its transaction (`FindByNode`), the insertion that waits for the
other's (`Waits`, `Held`) or fails on what the other has committed, the commit
and the rollback. The handlers are those of `UnsEvents`, applied to one block in
one step. A transaction sees what was committed when it began (`REPEATABLE
READ`). The script `pullDomainFromBlockchain` is a third writer: it asks the
head of Polygon, then of Ethereum, for the owner, then for the reverse record,
and inserts in a transaction of its own; between any two of these steps chains
and workers move. Three parts of the state are auxiliary: `lost`, the tokens whose last
transfer was saved without effect; `skipped`, the addresses of which a `SetReverse`
was, because the table lacked the domain; and `addresses`, those of which the script
saved a reverse row. Addresses are assumed to be different from the marks for there
being none and from the bridge.

`DomainApi` adds the read side: the operators that choose among the rows of the
chains (`GetDomainResolution`, `GetReverseResolution`, `GetReverse`,
`GetReverses`, `LastTransfer`), and, as actions, the look-up for the metadata,
which reads the database through the cache, then the mirrored block of each
chain, then the events of both chains from there on.

### DomainPages

Rows are inserted by transactions that stamp them with their start and take ids
from one sequence. A client walks from page to page in one of three orders. What
typeorm does with a page that has joins is two steps, `SelectIds` and `LoadRows`,
in no transaction; a row may leave the filter at any time (`Leave`).

`created_at` is kept in microseconds (the ticks of the module's clock) and put into
the cursor in milliseconds (`Truncated`). In the ascending order the cursor is
therefore before its own row, and only the second column, the id, keeps the rows of
that millisecond off the next page. It does not keep those whose ids go against
their times: they are listed twice (`Repeated` in `ListedOnce`). It takes two
transactions that begin within one millisecond and insert in the other order.

### ApiKeys

A request looks the key up in the cache of its process, else in the table
(`Query`), and keeps the answer (`StoreInCache`) from then on, not from the time
of the answer. `Tick` is the time: `Duration` is how long an entry is used,
`QueryTime` bounds how long an answer is on its way.

### Pictures

`cacheSocialPictureInCDN` is one sequence of steps that three programs run at
once: a request (which then looks for the file again), the worker (which then
saves the row), the script (which overwrites). The bucket maps the name of a
file, an NFT with or without a domain, to the image in it. Whatever is awaited may
fail: a question to the bucket (`BucketFails`), the image (`ImageFails`) or an
upload. The script alone has a way out, the image of the stored file (`Fallback`,
`ReadStored`). An image without a byte (`ImageIsEmpty`) is no failure: nothing is
uploaded, and nothing else is tried. `held`, the owners an NFT has ever had, is
auxiliary.

### External components

Not in the repository, modelled from how it uses them:

- the node reorganises only above a final block; its head may be lower after a
  reorg than before;
- the UNS contract emits `Transfer` from 0x0 and then `NewURI` for a mint, takes
  the records with every transfer (`ResetRecords`), and removes the reverse
  record of an owner whose token leaves, before the transfer; a CNS transfer
  keeps the resolver; a resolver serves only tokens that resolve to it;
- an owner does not set the reverse record it has (`SameReverseAgain` permits
  it: see section 3);
- the `uri` of a mint hashes to its token id;
- ZNS emits `NewDomain` and then `Configured` for a registration, `Configured`
  for every other change, its resolvers included;
- a chain does not mint a token with its uri twice in `BridgedDomains` (it does in
  `Registries`), and the bridge mints without a uri on the other chain;
- Postgres: the snapshot of a transaction, the unique index that makes one
  insertion wait for another, the end of a deadlock, `now()` as the start of the
  transaction, ids from a sequence;
- the bucket, OpenSea and Moralis: each may fail, and Moralis may not answer at all.

## 3. The runs

Passing runs:

| Run | Bounds | Shows |
|---|---|---|
| `reorgs` | 1 token, 6 blocks, 2 forks, batches of 2, window of 4 event blocks, 1 fault | Reorgs between runs: `MirrorExact`, `DomainsJustified`, `CanonicalEventsKept`, `PublishesSnapshots`, `EventuallyMirrored` |
| `faulty` | 1 token, 6 blocks, 3 forks, finality 2 = confirmations 2, 1 fault, handlers that fail, resyncs | Reorgs during runs, above the confirmed head: `NothingOrphaned`; and whatever fails `TypeOK`, `EventsBelowStatus`, `NeverDuplicate` |
| `uns` | 2 tokens, 2 owners, 1 key, 5 blocks, 1 crash; symmetric | `PublishesRegistry`, `TypeOK` |
| `cns` | 1 token, 2 keys, 2 resolvers, 5 blocks, questions that fail | `Settled`, `MirroredUnlessStuck` |
| `rebuild` | 2 tokens, 1 owner, 1 key, 6 blocks, any reorg | `RowsReverted`, `ReverseExplained`, `SharedAddressExplained`, `RebuildEnds` |
| `zil` | a name, its subdomain, a name that is refused, pages of 4, 5 transactions, 2 faults | `TypeOK`, `StoredSequentially`, `ZilSettled`, `StatusTruthful`, `ZilMirrored` |
| `rows` | 2 tokens (one that two owners trade and the script pulls), 4 blocks of both chains together | `TypeOK`, `SettledOwner`, `SettledReverse` |
| `lookup` | 1 token, 3 blocks, failing nodes | `FoundUnlessOvertaken`, `EventuallyFound`, `EventuallySettled` |
| `pages` | 2 writers, 3 rows, 2 names, pages of 2, 3 clock ticks, 3 ticks to the millisecond; symmetric | `TypeOK`, `Complete`, `ListedOnce` |
| `keys` | 2 processes, 2 requests, 1 key, 2 names, answers kept for 2 ticks and on their way for 1 | `HonestReplies`, `RefusedOnlyWhileKept`, `EventuallyAccepted` |
| `pictures` | 1 domain, an NFT of Ethereum, one of another chain that is traded, one request, the worker, the script, a picture of an older version | `TypeOK`, `PlainWithOverlaid`, `StoredVerified`, `AnsweredWithPicture`, `ScriptFixes`, `EventuallyAnswered` |

Why these bounds are enough to be of interest. In `reorgs` the window of four
event blocks makes the binary search take two iterations and lets both edge
cases (oldest, newest) decide; six blocks with batches of two give runs of three
batches; a second fork is a reorg of any depth, above or below the window, with
the head lower, equal or higher than before. In `uns` two tokens of one owner
are what a reverse record needs to move, and five blocks are a mint, another
mint, a reverse record, a move and a burn. In `cns` two resolvers and two keys
let answers of different states mix. In `rebuild` six blocks are two mints, a
reverse record of each for one address, and an event of each to be orphaned: the
least that rebuilds two domains of one address at once. In `zil` a page brings
three new transactions, enough for a registration, a burn and a second
registration in one, and five transactions make two pages, between which any of
them may fall. In `rows` four blocks are a mint, the two halves of a move over the
bridge and a sale or a reverse record on either side, mirrored in every order and
pulled by the script at any time; in `lookup` three blocks let each chain mint the
same name. In `pages` three rows are a full page with the row more that tells there
is another, and the next page; a page of two has a row that is not its last, which
is what can be listed twice; and the three clock ticks are two of one millisecond
and one of the next. In `keys` the
second process is what may keep a stale answer while the first has a fresh one,
and two requests, by two names, are what may both find a key free. In `pictures` three programs
store the same two files.

One run is expected to find a violation, a disagreement of the code with its own
words:

| Run | The code | Against |
|---|---|---|
| `short_ids` | domains whose token id starts with a zero byte are not reverted: the id without padding does not match the `node` column | the log of `handleReorg`: reverted all affected domains |

While modelling we also met behaviour that no run singles out:

- a reorg that reaches the oldest stored event block is refused as too large,
  however short it is (`BaseWorker.ts:47`), because the limit counts event blocks;
  `EventuallyMirrored` exempts it through `ResyncRequired`. `resync`, which would
  help, has no caller (`WorkerRunner.resync`);
- a domain minted, burnt and minted again in one run is inserted twice, because
  `saveDomains` does not see its own insertion (`WorkerRepository.ts:67`): the run
  is rolled back, for ever (`MirroredUnlessStuck` and `ZilMirrored` exempt it);
- setting a reverse record that is set already would remove its row
  (`WorkerRepository.ts:193`); the contract tells of no such change, so the modules
  exclude it (`SameReverseAgain = FALSE`; with `TRUE`, `PublishesRegistry` fails);
- two concurrent rebuilds may leave two domains for one address, where rebuilds
  one after the other leave one: `SharedAddressExplained` says when. The script
  that removes duplicates keeps both: they have one `created_at`, and `RANK` gives
  both the first place;
- a Zilliqa subdomain registered in the same page as its parent is lost: its
  parent is looked up outside the transaction, the row has no name and fails its
  validation (`ZilSettled` exempts it through `lost`);
- a stale second answer of ViewBlock moves the Zilliqa status past transactions
  that are then missing for good; `validateZnsEvents` notices and refuses every
  later page (`ZilMirrored` exempts it);
- `RemoveReverse` events are stored without a node, so a reorg neither replays
  nor reverts them;
- on a fresh database Zilliqa transaction 0 is skipped;
- `/status` measures the delay of the Zilliqa worker within one page of 25, and an
  empty page as no delay. README.md:132 gives the acceptable delay as 100, with
  which the worker would never be late; the default in `env.ts:199` is 20. Hence
  the condition in `StatusTruthful`. When the index fails, the status has block -1
  and is not up to date, which `StatusController.test.ts:313` wants: to be late and
  to be unknown differ in the block alone;
- a transfer over the bridge that is mirrored before the mint on the other chain
  has no domain to belong to and is dropped; the owner is right again with the
  next transfer (`Lost` in `SettledOwner`). While one worker is behind, an owner
  from before may be shown again;
- a domain that the script pulls while a worker's transaction is open is not seen
  by it, so that the worker's rows of it are dropped and the script's stay, which
  may be older; and a reverse row that the script inserted is deleted again when
  the worker comes to the `SetReverse` it was read from (`SettledReverse` exempts
  such addresses, `Astray`);
- a reverse row that is not of its address any more spoils others, in ways that take
  more blocks than the run has and came out of the proof of `SettledReverse`. A domain
  that has such a row keeps it when another address sets it
  (`WorkerRepository.ts:179`), so that the new record is never stored. And a
  `SetReverse` that is dropped, because the worker's transaction sees no such domain,
  leaves the old row of its address; when the address sets its record back to the old
  domain, the row is found both as the one to save and as the one to remove, and is
  removed (`WorkerRepository.ts:193`), although the contract told a change every time.
  `SettledReverse` exempts the addresses of dropped records and the domains that were
  ever the record of an exempt address (`EverReverseOf`);
- in the order of `created_at`, a page starts beyond both the time and the id of
  the last row: a row with a later time and a smaller id is on no page, and neither
  are some rows of one millisecond or of one name (`Unordered` in `Complete`).
  In the ascending order a row of the millisecond of the last row that was created
  before it and has a greater id is on both pages (`Repeated` in `ListedOnce`).
  `hasMore` counts the rows that are left of the first query, so that the list ends
  early if one left the filter in between;
- a key that was asked for before it was enrolled is refused for the time that
  the miss is kept, in each process on its own (`RefusedOnlyWhileKept`);
- OpenSea's image is taken whoever owns the NFT; only Moralis' owner is compared
  (`StoredVerified` is about the latter). The attribute `verified nft` of the
  metadata only says that a record is set;
- the script catches the error of a picture and goes on, so that the old label stays
  until somebody runs it again: when the bucket fails, the token's URI cannot be asked
  for, or the image is answered without a byte, for which the stored image is not tried
  (`ScriptFixes`);
- the NFT is compared with the domain once, before the download and the uploads. If
  it is sold in between, the picture is stored all the same (`StoredVerified` says
  no more than that an owner of the domain has owned the NFT).

## 4. Fairness

Safety needs none. The liveness properties assume weak fairness of the worker's
own steps, as one action: `setIntervalAsync` starts a run when the last one has
ended, and an `await` that is answered goes on. Faults, crashes, reorgs, blocks
and operator calls get no fairness; their number is bounded, so that in the end
the chain rests and the node answers, which is when a mirror has to catch up.
In `ReorgRebuild` every task is weakly fair on its own: `Promise.all` waits for
all of them and none holds a lock. In `DomainApi` the two workers are weakly fair,
each by itself, since each has its own timer; so is the look-up, and the expiry
of a cached miss. A rollback out of a deadlock is part of the worker's step. In
`ApiKeys` requests and the clock are weakly fair: a query to the database ends;
no process is restarted for ever, but a restart needs no fairness and does no
harm. In `Pictures` a request is weakly fair, but for what it waits for from
Moralis: there only its time limit is. The worker and the script set no limit:
nothing is claimed of their end.

`EventuallyMirrored` makes one exception, `ResyncRequired`: the oldest event
block in the window does not match, or there is none. `MirroredUnlessStuck` and
`ZilMirrored` except a token or node that one run would have to insert twice,
and `ZilMirrored` a missed transaction.

## 5. What is proved

Each theorem is for all values of the constants: every chain, token set, page
size, window and number of faults, programs and rows. What is assumed of the
constants are the named assumptions of the modules, which TLC evaluates in every
run, and what a theorem says itself.

| Module | Theorem | States | Assumes of the configuration |
|---|---|---|---|
| `BaseWorker_proofs` | `TypeCorrect` | `[]TypeOK` | |
| | `StatusBoundsEvents` | `[]EventsBelowStatus` | |
| | `UniqueIndexSafe` | `[]NeverDuplicate` | |
| | `DomainsFollowEvents` | `[]DomainsJustified` | no resync |
| | `CommittedIsFinal` | `[]NothingOrphaned` | `FinalityDepth <= Confirmations` |
| | `StatusHashSound` | `[]MirrorExact` | the regime below |
| | `KeepsCanonicalEvents` | `CanonicalEventsKept` | the regime below |
| | `ImplementsMirror` | `PublishesSnapshots` | the regime below, no failing handlers, `ShortIds = {}` |
| `ZilWorker_proofs` | `StoredWithoutGap` | `[]StoredSequentially` | |
| | `ZilTyped` | `[]TypeOK` | |
| | `ZilSettles` | `[]ZilSettled` | |
| | `StatusIsTruthful` | `[]StatusTruthful` | |
| `UnsWorker_proofs` | `UnsTypeOK` | `[]TypeOK` | |
| | `UnsSettled` | `[]Settled` | |
| | `UnsPublishesRegistry` | `PublishesRegistry` | `Resolvers = {}`, `~SameReverseAgain` |
| `ReorgRebuild_proofs` | `RebuildInvariant` | `[]ReorgInv` | |
| | `RowsAreReverted` | `[]RowsReverted` | |
| | `ReverseIsExplained` | `[]ReverseExplained` | |
| | `SharedAddressIsExplained` | `[]SharedAddressExplained` | |
| `DomainApi_proofs` | `ApiInvariant` | `[]ApiInv` | |
| | `ApiTypes` | `[]TypeOK` | |
| | `OwnersSettled` | `[]SettledOwner` | |
| | `ReversesSettled` | `[]SettledReverse` | |
| | `MintsFound` | `[]FoundUnlessOvertaken` | |
| `DomainPages_proofs` | `PagesTyped` | `[]TypeOK` | |
| | `PagesDisjoint` | `[]ListedOnce` | |
| | `WalkComplete` | `[]Complete` | |
| `ApiKeys_proofs` | `TypeCorrect` | `[]TypeOK` | |
| | `RepliesHonest` | `[]HonestReplies` | |
| | `RefusalsEnd` | `RefusedOnlyWhileKept` | |
| `Pictures_proofs` | `PicturesTyped` | `[]TypeOK` | |
| | `NeverOverlaidAlone` | `[]PlainWithOverlaid` | |
| | `OnlyVerifiedStored` | `[]StoredVerified` | |
| | `PictureAnswered` | `[]AnsweredWithPicture` | |
| | `ScriptRelabels` | `ScriptFixes` | |

The regime: the worker handles reorgs, no operator resyncs,
and if the chain may reorganise during a run, it does so only above the confirmed
head (`ReorgDuringRun => FinalityDepth <= Confirmations`). Between runs a reorg may
have any depth. Without the last condition the three properties are false, for the
reason the second hazard in `PROJECT.json` gives. With the defaults of `env.ts`
(`env.ts:110`, `env.ts:153`) it asks that Ethereum and Polygon never reorganise more
than 20 blocks.

### The mirroring worker

`EventsBelowStatus` is not inductive: a commit publishes the events of `tx`, of
which it says nothing outside the loop, and a fetch is only safe if nothing is
stored above the block it starts from. The invariant `StatusInv` adds both: the
events of `tx` lie up to its status, except between a fetch and its
`SaveStatus`, where they lie up to `currentSyncBlock`; and in the loop the status
of `tx` is at most `currentSyncBlock`. `Revert` keeps it because what is kept
lies up to the block that becomes the status. `UniqueIndexSafe` is part of it:
every fetched event lies above `currentSyncBlock`, and no stored one does.

`DomainsFollowEvents` rests on the invariant that in `tx`, too, every domain is a
subset of what the stored events explain: a fetch adds to both, and a revert
rebuilds exactly the domains of the deleted events. The assumption is needed:
`resync` deletes events and rebuilds nothing. Tokens in `ShortIds` are excluded
in the property, for the reason the run `short_ids` shows.

`MirrorExact` says something of the last mirrored block only, and after a reorg the
worker goes back to an older one. `RunInv` therefore claims the same of every block
with an event (`Points`, `ExactUpTo`): if it is still on the chain, the events up to
it are those of the chain. This survives a reorg because a block that is on the
chain after it was there before, with everything below it (`MatchKept`), and a new
fork has a number that no stored hash has (`Known`). `MatchDownward` makes the
binary search right: among the stored event blocks the ones on the chain come
first, so that the search ends at the last of them (`Searching`), whatever the
window. In the loop `tx` is exact up to `currentSyncBlock` and has every canonical
event of `db` (`Looping`), which is `CanonicalEventsKept` at the commit. A block
that a run has read must not change before its end (`Stable`): that is where the
regime is used.

`ImplementsMirror` adds that domains are exactly what the events explain
(`DomainsInv`); then each step maps to `Publish` of `ChainMirror` (a commit), to a
step of the chain, or to a stutter.

### The worker of an EVM chain

`Settled` speaks of the end, and `PublishesRegistry` of the commits; `UnsInv` says
what holds between any two events of any block:

- `BlocksInv`: the events of each block tell how the rows went from the state after
  the block before to the state after this one. `Told` is what one event says of the
  rows, given the event before it (the `NewURI` of a mint has its owner in the
  `Transfer`), and `Legal` what it relies on. Events of CNS carry no values, so this
  is about the rows without resolver and records of CNS (`View`). `RegistryMoves`
  shows it for each of the registry's operations.
- `MirrorInv`: the tables show exactly what the events processed so far told
  (`Shows`); and of a CNS token they agree with the head in the resolver once no event
  is to come that changes it, and in each record once none is to come that changes
  the resolver or that record (`Rests`, `RowUpToHead`). Until then they may be stale
  in any way: the answers are those of the head, which the event is behind. A token
  one of whose events was lost (`lost`) is excepted, until a burn or a `Resolve` sets
  its row anew.
- `FreshInv` is what the handlers that empty a row need of the chain: a token has no
  resolver from its mint until a `Resolve`, and after a `Sync` of all records it has
  only those that a later `Sync` names.
- `AnswerInv`: the resolver that a handler was told is the one of the head, or an
  event is to come that repairs it. This is why two questions, with the chain moving
  between them, do no lasting harm.
- A transaction that a statement has broken says nothing: `MirrorInv` is silent about
  it, `WorkerInv` has it never committed.

Each handler is one lemma (`Process...Keeps`) over `HandledKeeps`, which reduces it to
the row of its token; each operation of the registry is `RegistryKeeps` over
`HeadMoved`: what is to come afterwards includes the new block, so that what rests
afterwards has not changed.

For `PublishesRegistry`, `ReverseInv` says of reverse records that the tables are what
the events told, which needs that no token is set while it is a reverse record already
(`~SameReverseAgain`, see the run `uns`): the row found for the address would be
removed after the row of the token is saved, and they would be one. Without CNS tokens the rows
are their `View`, so that at the end of a block they are the registry's state
(`CopyIsState`); a commit maps to `Publish`, a registry step to itself
(`SameRegistry`), and every other step to a stutter. With CNS tokens the refinement is
false, because the answers are those of the head; for them there is `Settled`.

The proof showed that the module took for granted that no address is one of the marks
for there being none; `UnsWorkerAssumption` says so now.

### The rebuild after a reorg

`RowsReverted` compares the rows at the end with the registry at the last matching
block, a state that no rebuild has ever seen: it only has the log. `ReorgInv` ties the
three together.

- `Trace(E, h, row)` says that h lists the rows that the handlers make of the events E
  of one token, one after the other, and that the last of them is `row`;
  `Told(B, n, t, row)` that there is such a list for the events of token t in the first
  n of the blocks B. `BlocksInv` has this for the
  registry's state after every block, `HeadInv` for its current one, and that a token
  which no block after n names has the row of block n still: those are the domains
  that a reorg to n leaves alone.
- `TaskInv`: a rebuild that still has k events to replay has its row where the trace
  is k events before the end, so that it ends in the row of the last matching block.
  It says nothing of other rebuilds: a handler writes the rows of its token only.
- The events of a token are those of its blocks, joined. `Joined` and `OfToken` are
  recursive functions over the log, and the lemmas about them (`JoinsExist`,
  `JoinedNext` and those that follow) are inductions by `LeastNatural`.

Reverse rows are shared, and `ReverseInv` follows a rebuild through the three steps
of `saveReverseResolutions`: what it is about to save was set in an event that is
left, and what it is about to drop it has read. A row of a domain that is not rebuilt
(`Untouched`) shares its address with another one only while the rebuild that
added the other is about to drop it (`Dropped`). No rebuild is about to drop anything at the end; so
rows that share an address then are both of rebuilt domains, inserted in the one
transaction, which is why `RANK` of the script that removes duplicates gives both
the first place.

The proof needs that no address is one of the marks for there being none, which
`ReorgRebuildAssumption` says.

### The Zilliqa worker

`StoredWithoutGap` rests on `StoredInv`: the stored numbers have no gap in `tx`
either, and lie up to the mirrored transaction, or up to the last one of the page
once the page is stored. The lemma `PageJoined` is the argument of
`validateZnsEvents`: a page starts right after the mirrored transaction, so if
the one before it is stored, it is the last that is, and the two join.

`ZilSettled` speaks of the end, when all is mirrored. `ZilInv` says what holds on
the way there:

- `RegistryInv`: each transaction tells what one node is, and the last one about a
  node tells what it is now (`Rests(n, i)`: no transaction after i is about n);
- `MirrorInv`: the committed row of a node agrees with the registry if no
  transaction is missing and none after the mirrored one is about the node. A
  node that is going to change may be stale in any way;
- `EventsInv`, between two events of a page: a node without a pending event agrees
  likewise; the last pending event of a node that rests is what it is now; and a
  registration is followed by its configuration, so that a name exists when it is
  configured. The last is what the two reversals in `getEvents` are for: the lemmas
  at the head of the module say where `FlattenSeq` puts each event of a page, and
  `PageOrdered` derives the order from that.

A page from an older copy of the index is shorter or empty; if it makes the status
skip transactions, `Complete` is false from then on and the invariant says nothing
more, which is what the exception in the property means.

### Two chains and the API

The answers are of the end, when a domain or both chains are mirrored, and hide what a
worker, half a move ahead of the other, has done to the rows. `ApiInv` follows each
chain on its own and only brings them together in the answers.

- `ChainInv` is about the histories. `IsBlock` lists the four kinds of block there are.
  `OwnerAt(B, n, t)` and `ReverseAt(B, n, a)` are the owner of t and the record of a
  after n blocks, and `HistoryInv` relates the two at every height: who has a reverse
  record owns its domain, and a record that is set was not set before. `PlaceInv` says
  what each chain has of a token, given where it is: of one that is on neither chain
  or under way, at most the bridge as its owner (`OwnersOn`).
- `RowsTold`: after n blocks a row has the owner of height n, or a transfer of the token
  is still ahead (`Ahead`), or the last one was lost. The second case is not for the
  worker's own rows but for those of the script, which come from the head: the worker
  overtakes them before `SettledOwner` says anything. Without it the invariant is not
  inductive.
- `ReverseTold`: an address has the row of its record and no other, but for astray
  ones. This is what needed the exceptions of `SettledReverse`, see section 3: with the
  addresses of the script alone it is not inductive, and the step that fails is
  `SetReverse` (`RecordSeen`), in the two ways told there.
- `MintsNamed`: a mint in the first n blocks has its domain in the table.
- `SeenOK` says the same of an open transaction at its own height, and that a committed
  reverse row which the transaction does not see is of an address of the script. That
  is what a commit needs, which keeps what it has not seen (`Committed`); a broken
  transaction says nothing, and is never committed. `PullInv` is about the answers that
  the script has in hand: an owner on the chain it was read from, a record that was set.
- `LookupInv`: if the table lacked the domain (`Missed`), it lacks it still unless the
  look-up was overtaken, so that by `MintsNamed` no mint of it lies in the blocks
  mirrored so far, and the block a query starts from is not above the mint (`Since`).
  A mint before the question is then among the events asked for.

`BlockSeen` is the heart of the proof: the handlers of one block take the tables of
height n to those of height n + 1, one lemma per kind of block (`MintSeen`, `MoveSeen`,
`LeaveSeen`, `SetSeen`). `ChainMoves` does the same for the registries and the bridge: a
block appended leaves all heights below alone (`Appended`), and the tables do not
change. `OwnerSettled` and `ReverseSettled` derive the answers: the API asks Polygon
first, and a token that has an owner on Polygon by its rows is on Polygon by `PlaceInv`.

The proof showed that the module took for granted that no address is one of the marks
or the bridge; `BridgedAssumption` says so now.

### The pages of domains

`OnceInv` and `CompleteInv` are two halves of one argument: what is listed is behind
the cursor, and what is not, although it was there at the start and still matches,
is beyond it. The lemma `NextCursor` takes both over a page; it needs that a cursor
only advances (`CursorAdvances`), which holds although the cursor is cut to
milliseconds (`TruncatedTwice`), and that the rows selected before are a page and
one more, or all (`Later`). The attempt to prove `ListedOnce` without an exception
failed at `NotBeyondUnlessTwice`, without its last case, and led to the behaviour
that `Repeated` describes.

### API keys

`RefusalsEnd` rests on an invariant that follows an answer from the table to the
reply. A "key" is true wherever it is kept, because keys are never deleted. For a
"none" that is stale, `KeptTrue` and `HeldTrue` bound the time since the key was
enrolled: on its way by the age of the answer, which is at most `QueryTime`, and in
the cache by that plus the age of the entry. The invariant needs the cap on ages
(`AgesBounded`), without which an expired entry would say nothing. A request
refuses only from a fresh entry or an answer just fetched, hence after at most
`QueryTime + Duration`.

`RepliesHonest` is about the table too: who is told that it is enrolled has its key and
its name in the table, so that no second insertion of either finds it free, whatever the
second request saw before.

### Pictures

The programs do not lock, so that the invariant is about each task and the bucket
together: `Knows` says what a task relies on at each step. It holds on because no
file is ever deleted and no former owner is forgotten (`KnowsStill`); a step of
one program moves its own task and can only add files (`TaskStep`, `UploadStep`).
A picture with a name is uploaded only by a task that knows the plain one stored,
because it saw it or uploaded it. `ScriptRelabels` is an action property of the
script alone: with the image, without it and with the stored one it goes on to the
uploads (`ScriptGoesOn`), so that only the four failures that the property names end
its work early.
The assumption on the constants says which old files there may be in the bucket at
first: those that an earlier version may have stored, with the domain in
`Subdomains` and the NFT named by it and owned by an owner of it.

### What stays with TLC

Liveness under fairness: `EventuallyMirrored`, `MirroredUnlessStuck`, `ZilMirrored`,
`RebuildEnds`, `EventuallyFound`, `EventuallySettled`, `EventuallyAccepted`,
`EventuallyAnswered`. Every safety invariant and action property of the passing runs has
its theorem.

Induction over data is possible although the library's induction theorems, which
have an operator for a parameter, cannot be used: `LeastNatural` derives from the
well-foundedness of finite subsets (`WFMin`) that every non-empty set of numbers has a
least element, and an induction is then a proof that the set of counterexamples has
none. The four modules that need the lemma state it. The folds of the community modules
are recursive functions, so this reaches `FlattenSeq`; a `RECURSIVE` operator it does
not reach.

## 6. What is not modelled

- The row lock of `startTransaction`: two processes that mirror one chain into one
  database. `SELECT ... FOR UPDATE NOWAIT` locks nothing while the status row does
  not exist, so that two first runs may overlap.
- The query cache elsewhere than in the look-up for the metadata and the API keys:
  any answer of the API may be as old as an entry gets. `DomainApi` answers from
  what is committed.
- Names with two rows (a `.zil` name on UNS and on ZNS), parents and children of
  domains, records in `BridgedDomains`, reorgs there.
- The rate limiter, the RPC proxy, the texts and attributes of the metadata, the
  SVG of a picture, validation and serialisation of requests: no state of theirs
  is shared with what is modelled.
- Name hashing and normalisation: nodes are values here, except for the short form
  of token ids.
- A worker that waits for a picture service for ever: `saveResolutions` sets no
  time limit, and the transaction stays open. In `Pictures` the worker may stay at
  any step; `UnsWorker` treats the upload as ended.
- Migrations, snapshots (disabled in `index.ts`), configuration, logging, the
  scripts that only report.
- In `CnsResolver`, legacy resolvers that are asked for a fixed list of keys; in
  `ReorgRebuild`, the events of CNS.

Some definitions are coarser than their lines:

- `UnsWorker.Resolved` reads the keys and the records of a resolver in one step, where
  the code awaits one call after the other (`CnsResolver.ts:127`), and `Synced` leaves
  out the hash of a key that no list of a legacy resolver has, for which the record
  stays as it is (`UnsWorkerStrategy.ts:415`).
- `ReorgRebuild.SaveReverse` does without the cascade of `Domain.ts:62`, which could
  insert a removed reverse row again when the domain is saved, and `DropReverse` drops
  a row by its address and node, where the code has its id.
- `DomainApi.GetReverseResolution` answers from one state, where the code asks twice
  (`Resolution.ts:71`, 90), and leaves out the branch for `zil` names.
- `BridgedDomains.GetReverseOf` compares the node with the reverse record; the code
  compares it with the record's hex form without leading zero bytes
  (`pullDomainFromBlockchain.ts:58`), so that the script saves no reverse row of a domain
  whose node has one.

Some hazards in `PROJECT.json` have no property, each with the reason in its note. They
are of two kinds. Either the code does go wrong there and the property exempts the case by
name (`Lost`, `EverReverseOf`, `walk.left`, `held`), which section 3 tells of; or what
keeps it right is not code of the repository and an assumption here (the rollback of
a transaction, the order of events within one transaction of the contract).

## 7. Plan

1. The lock on the status row with two processes, the first run included.
2. CNS events in `ReorgRebuild`, and reverse records across `RemoveReverse`.
3. Names with two rows in `DomainApi`, the query cache under all answers.
4. Reorgs in `BridgedDomains`: whether the answers are right again after one.

The number of runs is kept small: a new question replaces or joins a run that
has its state space already.

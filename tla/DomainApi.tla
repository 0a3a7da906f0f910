----------------------------- MODULE DomainApi ------------------------------
(***************************************************************************)
(* What the HTTP API answers about a domain while the workers of Ethereum  *)
(* and Polygon run: the owner and the records it picks from the rows of    *)
(* the chains (services/Resolution.ts), the reverse record of an address,  *)
(* and the look-up of a domain for its metadata, which asks the chains for *)
(* a domain that the database does not know (services/DomainService.ts).   *)
(***************************************************************************)
EXTENDS BridgedDomains

CONSTANTS
    Supported,      \* the tokens whose TLD is supported (not .coin)
    Asked,          \* the tokens whose metadata is asked for
    RpcFails        \* may the question to the chains fail or time out?

ASSUME DomainApiAssumption ==
    /\ Supported \subseteq Tokens
    /\ Asked \subseteq Supported
    /\ RpcFails \in BOOLEAN

VARIABLES
    missed,     \* the tokens of which the query cache has that no row was found
    lookup      \* the look-up at hand; minted, miss, overtaken and failed are no
                \* part of the program: they tell why it may find nothing

apiVars == <<missed, lookup>>
allVars == <<vars, apiVars>>

NoLookup == [pc |-> "idle", token |-> None, from |-> [c \in Chains |-> 0],
             minted |-> FALSE, miss |-> None, overtaken |-> FALSE, failed |-> FALSE]

ApiInit ==
    /\ Init
    /\ missed = {}
    /\ lookup = NoLookup

-----------------------------------------------------------------------------
(* Answers from the rows that are committed.  The answer of the query cache, which may
   be as old as its entries get, is left out but of the look-up below *)

RowOf(c, t) == IF t \in DOMAIN db[c].rows THEN db[c].rows[t] ELSE Repo!NewRow

\* Polygon comes first, Ethereum when Polygon has no owner.  The mutant asks
\* Ethereum first.
ChosenChainEthFirst(t) == IF IsNullAddress(RowOf("ETH", t).owner) THEN "MATIC" ELSE "ETH"
ChosenChain(t) == IF IsNullAddress(RowOf("MATIC", t).owner) THEN "ETH" ELSE "MATIC"
GetDomainResolution(t) == RowOf(ChosenChain(t), t)

\* GET /domains/:domainName: nothing of a domain that is not there.
GetDomain(t) ==
    IF t \in names \cap Supported THEN GetDomainResolution(t) ELSE Repo!NewRow

\* The domains that the reverse rows of an address name: the row of Ethereum,
\* else the row of Polygon.  The mutant prefers Polygon.
RowsOfAddress(c, a) == {r \in db[c].rev : r[1] = a}
GetReversePolygonFirst(a) ==
    LET found == IF RowsOfAddress("MATIC", a) # {} THEN RowsOfAddress("MATIC", a)
                 ELSE RowsOfAddress("ETH", a)
    IN {r[2] : r \in found} \cap Supported
GetReverseResolution(a) ==
    LET found == IF RowsOfAddress("ETH", a) # {} THEN RowsOfAddress("ETH", a)
                 ELSE RowsOfAddress("MATIC", a)
    IN {r[2] : r \in found} \cap Supported

\* GET /reverse/:address tells the owner that the row of the domain has, POST
\* /reverse/query the address that was asked for.
GetReverse(a) == {[domain |-> t, owner |-> GetDomainResolution(t).owner] :
                    t \in GetReverseResolution(a)}
GetReverses(a) == {[domain |-> t, owner |-> a] : t \in GetReverseResolution(a)}

\* GET /domains/:domainName/transfers/latest: of each chain the last Transfer
\* that is stored, whatever the rows say.
TransferBlocks(c, t) == BlocksOf(c, db[c].block, LAMBDA e : IsTransferOf(e, t))
LastTransfer(c, t) ==
    IF t \notin Supported \/ TransferBlocks(c, t) = {} THEN NoEvent
    ELSE EventAt(c, Max(TransferBlocks(c, t)), LAMBDA e : IsTransferOf(e, t))

-----------------------------------------------------------------------------
(* The look-up for the metadata *)

At(pc) == lookup.pc = pc

Ask(t) ==
    /\ At("idle")
    /\ lookup' = [NoLookup EXCEPT !.pc = "node", !.token = t, !.minted = EverMinted(t)]
    /\ UNCHANGED <<vars, missed>>

\* An answer of the database is kept for a while, also that there is no row; that
\* a row is kept changes nothing here, because no domain is ever deleted.
QueryNode ==
    /\ At("node")
    /\ LET t == lookup.token IN
       IF t \in names \ missed
       THEN lookup' = NoLookup /\ UNCHANGED missed
       ELSE /\ missed' = missed \cup {t}
            /\ lookup' = [lookup EXCEPT
                            !.pc = "maticBlock",
                            !.miss = IF t \in missed THEN "cached" ELSE "read"]
    /\ UNCHANGED vars

\* The mutant keeps an entry for ever.
ExpireNever(t) == FALSE
Expire(t) ==
    /\ t \in missed
    /\ missed' = missed \ {t}
    /\ UNCHANGED <<vars, lookup>>

\* latestMirroredBlockForWorker, once for each chain.  The mutant starts at the
\* head of the chain.
FromHead(c) == Len(chain[c])
FromBlock(c) == db[c].block

ReadBlock(c, pc, next) ==
    /\ At(pc)
    /\ lookup' = [lookup EXCEPT !.pc = next, !.from[c] = FromBlock(c)]
    /\ UNCHANGED <<vars, missed>>

\* queryFilter(NewURI, from) of both chains: the events since the mirrored block,
\* that block too.
FoundFrom(c) ==
    \E n \in DOMAIN chain[c] :
        n >= lookup.from[c] /\ NewUri(lookup.token) \in Range(chain[c][n])

Unknown(failed) ==
    [lookup EXCEPT !.pc = "unknown", !.from = NoLookup.from, !.failed = failed]

QueryNewUriEvent ==
    /\ At("query")
    /\ lookup' = IF \E c \in Chains : FoundFrom(c) THEN NoLookup ELSE Unknown(FALSE)
    /\ UNCHANGED <<vars, missed>>

\* An error or 1.5 seconds without an answer: as if there were no event.
QueryFails ==
    /\ RpcFails
    /\ At("query")
    /\ lookup' = Unknown(TRUE)
    /\ UNCHANGED <<vars, missed>>

RespondUnknown ==
    /\ At("unknown")
    /\ lookup' = NoLookup
    /\ UNCHANGED <<vars, missed>>

LookupStep ==
    \/ QueryNode
    \/ ReadBlock("MATIC", "maticBlock", "ethBlock")
    \/ ReadBlock("ETH", "ethBlock", "query")
    \/ QueryNewUriEvent
    \/ QueryFails
    \/ RespondUnknown

-----------------------------------------------------------------------------
\* A commit, maybe of the domain in the middle of its look-up.
Seen ==
    /\ lookup' = [lookup EXCEPT !.overtaken = @ \/ lookup.token \in names' \ names]
    /\ UNCHANGED missed

WorkerStep(c) ==
    \/ Commit(c) /\ Seen
    \/ (Begin(c) \/ RunStep(c)) /\ UNCHANGED apiVars

ScriptStep ==
    \/ SavePulled /\ Seen
    \/ ScriptReads /\ UNCHANGED apiVars

Next ==
    \/ ChainStep /\ UNCHANGED <<workerVars, apiVars>>
    \/ \E c \in Chains : WorkerStep(c)
    \/ ScriptStep
    \/ \E t \in Asked : Ask(t) \/ Expire(t)
    \/ LookupStep

Spec == ApiInit /\ [][Next]_allVars

\* The workers run again and again and Postgres ends a deadlock; a request is
\* answered; a cached answer expires.
FairSpec ==
    /\ Spec
    /\ \A c \in Chains : WF_allVars(WorkerStep(c))
    /\ WF_allVars(LookupStep)
    /\ \A t \in Asked : WF_allVars(Expire(t))

-----------------------------------------------------------------------------
(* Properties *)

\* A run ends before the end of its chain, what it wrote is of known domains,
\* and a look-up is of a token; nothing is cached for longer than it is asked.
TypeOK ==
    /\ names \subseteq Tokens
    /\ \A c \in Chains :
         /\ db[c].block <= tx[c].to \/ tx[c].pc = "idle"
         /\ tx[c].to <= Len(chain[c])
         /\ DOMAIN db[c].rows \subseteq names
         /\ {r[2] : r \in db[c].rev} \subseteq names
         /\ tx[c].pc \in {"idle", "block", "insert"}
    /\ missed \subseteq Asked
    /\ lookup.token \in Asked \cup {None}

Settled == \A c \in Chains : db[c].block = Len(chain[c])
Mirrored(t) ==
    \A c \in Chains : \A n \in db[c].block + 1 .. Len(chain[c]) :
        ~\E e \in Range(chain[c][n]) : IsTransferOf(e, t)
Lost(t) ==
    \E c \in Chains : t \in db[c].lost /\ (place[t].on = c \/ t \in DOMAIN db[c].rows)

\* Once every transfer of a domain is mirrored the API shows the owner that it
\* has, on whatever chain it is, and no owner if it is nowhere or under way over
\* the bridge: the choice of getDomainResolution (Resolution.ts:19) is right for
\* every history of the two chains and every order in which the two workers
\* mirror them and a script pulls the domain (pullDomainFromBlockchain.ts:111),
\* unless the last transfer on a chain was dropped: a worker drops it while its
\* transaction sees no domain, and a row that the script wrote meanwhile stays.
\* The latest transfer (DomainsController.ts:317), which is read from the events, tells
\* the owner even then.  (While one worker is behind, an owner from before may be
\* shown again.)
SettledOwner ==
    \A t \in Supported : Mirrored(t) =>
        IF place[t].on \in Chains
        THEN /\ Lost(t) \/ GetDomain(t).owner = place[t].owner
             /\ LastTransfer(place[t].on, t).to = place[t].owner
        ELSE Lost(t) \/ GetDomain(t).owner \in {None, Null, Bridge}

\* The addresses of which the script ever saved a reverse row or a worker ever
\* dropped a SetReverse.
Astray == pull.addresses \cup UNION {db[c].skipped : c \in Chains}
EverReverseOf(t, addresses) ==
    \E c \in Chains : \E e \in EventsOf(c) :
        e.type = "SetReverse" /\ e.token = t /\ e.addr \in addresses

\* Once both chains are mirrored, the reverse record of an address
\* (Resolution.ts:54) is the one that it set on Ethereum, else on Polygon, and
\* the domain is one that it owns, so that the question for one address and the
\* bulk question (ReverseController.ts:79) show the same owner.  Excepted are an
\* address that went astray and a domain that was ever the reverse record of one:
\* their old row may stay, and the next SetReverse of the domain keeps it or, if it
\* is of the same address, removes it (WorkerRepository.ts:193).
SettledReverse ==
    Settled =>
        \A a \in (UNION {Owners[u] : u \in Tokens}) \ Astray :
            LET t == IF ReverseOf("ETH", a) # None THEN ReverseOf("ETH", a)
                     ELSE ReverseOf("MATIC", a)
            IN ~EverReverseOf(t, Astray) =>
                 /\ GetReverseResolution(a) = {t} \cap Supported
                 /\ GetReverse(a) = GetReverses(a) \/ Lost(t)

\* A domain that was minted when its metadata was asked for is found, unless the
\* miss was cached before, it was committed during the look-up or the chains
\* did not answer: findDomainByNameOrToken (DomainService.ts:25) reads the
\* database, the mirrored blocks and the events one after the other.
FoundUnlessOvertaken ==
    At("unknown") /\ lookup.minted =>
        lookup.miss = "cached" \/ lookup.overtaken \/ lookup.failed

\* In the end a minted domain is never again answered as unknown, whatever was
\* cached while its mint was mirrored.
EventuallyFound ==
    \A t \in Tokens :
        EverMinted(t) ~> [](~(At("unknown") /\ lookup.token = t))

\* The workers mirror both chains in the end: neither an insertion that the
\* other worker was faster with nor a deadlock stops them.
EventuallySettled == <>[]Settled
=============================================================================

--------------------------- MODULE BridgedDomains ---------------------------
(***************************************************************************)
(* The workers of Ethereum and Polygon write to one table of domains, each *)
(* in the transaction of its own run.  A domain may be minted on either    *)
(* chain and move to the other by the bridge: an ordinary transfer to the  *)
(* bridge on Ethereum, a mint without a NewURI event or a burn on Polygon. *)
(* Nothing orders the two workers, so one may process the second half of a *)
(* move before the other has the first.  A third writer is the script that *)
(* an operator runs to pull a domain from the chains which the table lacks *)
(* (scripts/pullDomainFromBlockchain.ts).                                  *)
(*                                                                         *)
(* Here a run handles one block in a step, or in two if the block inserts  *)
(* a domain: of all statements of the handlers only the look-up and the    *)
(* insertion of a domain touch what the other worker may change.  UnsWorker*)
(* has every handler in a step of its own, crashes and all other events;   *)
(* the chains do not reorganise.                                           *)
(***************************************************************************)
EXTENDS UnsEvents, SequencesExt

CONSTANTS
    Tokens,
    Owners,         \* [Tokens -> SUBSET addresses]: who may own it
    Pulled,         \* the tokens that the script is run for
    MaxBlocks       \* bound: blocks with events, of both chains together

Chains == {"ETH", "MATIC"}
Other(c) == IF c = "ETH" THEN "MATIC" ELSE "ETH"

Null == Repo!NullAddress
None == Repo!Absent
Bridge == "bridge"      \* the owner on Ethereum of what is on Polygon

\* An address is none of the marks, and neither is a token.
ASSUME BridgedAssumption ==
    /\ MaxBlocks \in Nat
    /\ Pulled \subseteq Tokens
    /\ None \notin Tokens
    /\ \A t \in Tokens : {Null, None, Repo!Keep, Bridge} \cap Owners[t] = {}

VARIABLES
    chain,      \* of each chain: its blocks, sequences of events
    place,      \* of each token: where it is and who owns it
    names,      \* the committed rows of domains
    db,         \* of each chain: the committed [block, rows, rev, lost, skipped]; lost
                \* and skipped are no part of the program: the tokens whose last
                \* transfer, and the addresses of which any SetReverse, was saved
                \* without effect
    tx,         \* of each chain: its run and what the open transaction sees
    pull        \* the script; addresses is no part of it: the ones of which it ever
                \* saved a reverse row

chainVars == <<chain, place>>
workerVars == <<names, db, tx, pull>>
vars == <<chainVars, workerVars>>

Idle == [pc |-> "idle", to |-> 0, block |-> 0, tables |-> Repo!EmptyTables,
         found |-> FALSE, lost |-> {}, skipped |-> {}]
NoPull == [pc |-> "idle", token |-> None, on |-> None, owner |-> None,
           reverse |-> FALSE, addresses |-> {}]

Init ==
    /\ chain = [c \in Chains |-> <<>>]
    /\ place = [t \in Tokens |-> [on |-> None, owner |-> None]]
    /\ names = {}
    /\ db = [c \in Chains |-> [block |-> 0, rows |-> <<>>, rev |-> {}, lost |-> {},
                              skipped |-> {}]]
    /\ tx = [c \in Chains |-> Idle]
    /\ pull = NoPull

-----------------------------------------------------------------------------
(* The registries and the bridge *)

Transfer(t, from, to) ==
    [type |-> "Transfer", token |-> t, from |-> from, to |-> to, registry |-> "uns"]
NewUri(t) == [type |-> "NewURI", token |-> t, registry |-> "uns"]

EventsOf(c) == UNION {Range(b) : b \in Range(chain[c])}
MintedOn(c, t) == NewUri(t) \in EventsOf(c)
EverMinted(t) == \E c \in Chains : MintedOn(c, t)

\* A block has at most one event of a kind about a token or an address.
EventAt(c, n, Is(_)) == CHOOSE e \in Range(chain[c][n]) : Is(e)
BlocksOf(c, to, Is(_)) == {n \in 1 .. to : \E e \in Range(chain[c][n]) : Is(e)}
LastOf(c, to, Is(_)) ==
    LET blocks == BlocksOf(c, to, Is)
    IN IF blocks = {} THEN NoEvent ELSE EventAt(c, Max(blocks), Is)

\* The reverse record of an address on a chain, as its events tell it.
ReverseOf(c, a) ==
    LET last == LastOf(c, Len(chain[c]),
                       LAMBDA e : e.type \in {"SetReverse", "RemoveReverse"} /\ e.addr = a)
    IN IF last.type = "SetReverse" THEN last.token ELSE None

\* The owner of a token by the contract of a chain: None if it never was there.
IsTransferOf(e, t) == e.type = "Transfer" /\ e.token = t
OwnerOn(c, t) ==
    LET last == LastOf(c, Len(chain[c]), LAMBDA e : IsTransferOf(e, t))
    IN IF last = NoEvent THEN None ELSE last.to

\* A block with the events of one transaction.
Mined(c, events) == chain' = [chain EXCEPT ![c] = Append(@, events)]

Now(t, on, owner) == place' = [place EXCEPT ![t] = [on |-> on, owner |-> owner]]

On(c, t) == place[t].on = c

\* An owner that parts with a token loses the reverse record it has of it.
Leaving(c, t, to) ==
    LET from == place[t].owner
    IN (IF ReverseOf(c, from) = t
        THEN <<[type |-> "RemoveReverse", addr |-> from]>> ELSE <<>>)
       \o <<Transfer(t, from, to)>>

\* No chain mints a token twice with its uri: see UnsWorker for what follows.
Mint(c, t, o) ==
    /\ On(None, t) /\ ~MintedOn(c, t)
    /\ Mined(c, <<Transfer(t, Null, o), NewUri(t)>>)
    /\ Now(t, c, o)

Sell(c, t, o) ==
    /\ On(c, t) /\ place[t].owner # o
    /\ Mined(c, Leaving(c, t, o))
    /\ Now(t, c, o)

Burn(c, t) ==
    /\ On(c, t)
    /\ Mined(c, Leaving(c, t, Null))
    /\ Now(t, None, Null)

SetReverse(c, t) ==
    /\ On(c, t) /\ ReverseOf(c, place[t].owner) # t
    /\ Mined(c, <<[type |-> "SetReverse", token |-> t, addr |-> place[t].owner]>>)
    /\ UNCHANGED place

Deposit(t) ==
    /\ On("ETH", t)
    /\ Mined("ETH", Leaving("ETH", t, Bridge))
    /\ Now(t, "toMATIC", place[t].owner)

Deposited(t) ==
    /\ On("toMATIC", t)
    /\ Mined("MATIC", <<Transfer(t, Null, place[t].owner)>>)
    /\ Now(t, "MATIC", place[t].owner)

Withdraw(t) ==
    /\ On("MATIC", t)
    /\ Mined("MATIC", Leaving("MATIC", t, Null))
    /\ Now(t, "toETH", place[t].owner)

\* The bridge has the token on Ethereum, or makes it there.
Withdrawn(t) ==
    /\ On("toETH", t)
    /\ LET from == IF \E o \in Owners[t] : Transfer(t, o, Bridge) \in EventsOf("ETH")
                   THEN Bridge ELSE Null
       IN Mined("ETH", <<Transfer(t, from, place[t].owner)>>)
    /\ Now(t, "ETH", place[t].owner)

ChainStep ==
    /\ Len(chain["ETH"]) + Len(chain["MATIC"]) < MaxBlocks
    /\ \E t \in Tokens :
         \/ \E c \in Chains : \/ \E o \in Owners[t] : Mint(c, t, o) \/ Sell(c, t, o)
                              \/ Burn(c, t)
                              \/ SetReverse(c, t)
         \/ Deposit(t) \/ Deposited(t) \/ Withdraw(t) \/ Withdrawn(t)

-----------------------------------------------------------------------------
(* The run of a worker *)

\* REPEATABLE READ: the transaction sees what is committed now and what it
\* writes itself.
Begin(c) ==
    /\ tx[c].pc = "idle"
    /\ tx' = [tx EXCEPT ![c] =
                [Idle EXCEPT !.pc = "block", !.to = Len(chain[c]),
                             !.block = db[c].block, !.lost = db[c].lost,
                             !.skipped = db[c].skipped,
                             !.tables = [@ EXCEPT !.names = names,
                                                  !.rows = db[c].rows,
                                                  !.rev = db[c].rev]]]
    /\ UNCHANGED <<chainVars, names, db, pull>>

InRun(c, pc) == tx[c].pc = pc /\ tx[c].block < tx[c].to
Events(c) == chain[c][tx[c].block + 1]
Inserts(c) == \E e \in Range(Events(c)) : e.type = "NewURI"
TokenOf(c) == (CHOOSE e \in Range(Events(c)) : e.type = "Transfer").token

\* saveDomains looks the node up on the default connection: outside of the
\* transaction.  The mutant takes every domain for new.
LookUpNothing(c) == FALSE
LookUp(c) == TokenOf(c) \in names

FindByNode(c) ==
    /\ InRun(c, "block") /\ Inserts(c)
    /\ tx' = [tx EXCEPT ![c].pc = "insert", ![c].found = LookUp(c)]
    /\ UNCHANGED <<chainVars, names, db, pull>>

\* The unique index on the node: an insertion waits while another transaction
\* that is open has inserted the same, and fails if it is committed.
Held(c) == TokenOf(c) \in tx[Other(c)].tables.names \ names
Saved(c, tables) ==
    IF tx[c].found THEN tables
    ELSE IF TokenOf(c) \in names THEN [tables EXCEPT !.broken = TRUE]
    ELSE Repo!SaveDomain(tables, {}, TokenOf(c))

\* Only an address of which the script saved a row may have two: nothing is said of
\* it, and one outcome is enough.
ReverseSaved(tables, e) ==
    CHOOSE v \in Repo!SaveReverse(tables, e.addr, e.token) : TRUE

\* The handler of one event; with a NewURI the resolution of the mint before is
\* saved again, and the domain looked up is passed on as committed.
Handled(c, tables, last, e) ==
    CASE e.type = "Transfer" -> AfterTransfer(tables, e)
      [] e.type = "NewURI" -> AfterNewUri(Saved(c, tables), {e.token}, last, e)
      [] e.type = "SetReverse" -> ReverseSaved(tables, e)
      [] e.type = "RemoveReverse" -> Repo!RemoveReverse(tables, e.addr)

Processed(c) ==
    LET events == Events(c)
        last(i) == IF i = 1 THEN NoEvent ELSE events[i - 1]
        after[i \in 0 .. Len(events)] ==
            IF i = 0 THEN tx[c].tables ELSE Handled(c, after[i - 1], last(i), events[i])
    IN after[Len(events)]

Transfers(c) == {e \in Range(Events(c)) : e.type = "Transfer"}
LostAfter(c) ==
    {t \in Tokens : IF \E e \in Transfers(c) : e.token = t
                    THEN t \notin Processed(c).names ELSE t \in tx[c].lost}
SkippedAfter(c) ==
    tx[c].skipped \cup {e.addr : e \in {e \in Range(Events(c)) :
                          e.type = "SetReverse" /\ e.token \notin tx[c].tables.names}}

Waits(c) == InRun(c, "insert") /\ ~tx[c].found /\ Held(c)

ProcessBlock(c) ==
    /\ \/ InRun(c, "insert") /\ ~Waits(c)
       \/ InRun(c, "block") /\ ~Inserts(c)
    /\ tx' = [tx EXCEPT ![c].pc = "block", ![c].block = @ + 1,
                        ![c].found = FALSE,
                        ![c].tables = Processed(c), ![c].lost = LostAfter(c),
                        ![c].skipped = SkippedAfter(c)]
    /\ UNCHANGED <<chainVars, names, db, pull>>

Done(c) == tx[c].pc = "block" /\ tx[c].block = tx[c].to

\* What the script committed during the run stays, and the run did not see it.
UnseenRev(c) == {row \in db[c].rev : row[2] \notin tx[c].tables.names}

Commit(c) ==
    /\ Done(c)
    /\ ~tx[c].tables.broken
    /\ names' = names \cup tx[c].tables.names
    /\ db' = [db EXCEPT ![c] = [block |-> tx[c].block,
                                rows |-> Over(tx[c].tables.rows, @.rows),
                                rev |-> tx[c].tables.rev \cup UnseenRev(c),
                                lost |-> tx[c].lost, skipped |-> tx[c].skipped]]
    /\ tx' = [tx EXCEPT ![c] = Idle]
    /\ UNCHANGED <<chainVars, pull>>

\* Postgres ends one of two transactions that wait for each other.
Deadlocked(c) == Waits(c) /\ Waits(Other(c))

Rollback(c) ==
    /\ Deadlocked(c) \/ (Done(c) /\ tx[c].tables.broken)
    /\ tx' = [tx EXCEPT ![c] = Idle]
    /\ UNCHANGED <<chainVars, names, db, pull>>

RunStep(c) == FindByNode(c) \/ ProcessBlock(c) \/ Rollback(c)

-----------------------------------------------------------------------------
(* The script: that the table lacks the domain is seen again by the insertion *)

PullAt(pc) == pull.pc = pc
Ended == [NoPull EXCEPT !.addresses = pull.addresses]

IsNullAddress(a) == a \in {None, Null}

\* The table lacks the domain: Polygon is asked, and Ethereum if there is no owner
\* on Polygon.
AskPolygon(t) ==
    LET owner == OwnerOn("MATIC", t) IN
    /\ PullAt("idle") /\ t \in Pulled \ names
    /\ pull' = [Ended EXCEPT !.token = t, !.owner = owner, !.on = "MATIC",
                            !.pc = IF IsNullAddress(owner) THEN "ask" ELSE "reverse"]
    /\ UNCHANGED <<chainVars, names, db, tx>>

AskEthereum ==
    LET owner == OwnerOn("ETH", pull.token) IN
    /\ PullAt("ask")
    /\ pull' = IF IsNullAddress(owner) THEN Ended
               ELSE [pull EXCEPT !.pc = "reverse", !.owner = owner, !.on = "ETH"]
    /\ UNCHANGED <<chainVars, names, db, tx>>

GetReverseOf ==
    /\ PullAt("reverse")
    /\ pull' = [pull EXCEPT !.pc = "save",
                            !.reverse = ReverseOf(pull.on, pull.owner) = pull.token]
    /\ UNCHANGED <<chainVars, names, db, tx>>

\* The domain with its rows in one transaction, which waits for one that has
\* inserted the same domain; it fails if the domain is there.
NewRowOf(owner) ==
    [owner |-> owner, registry |-> "uns", resolver |-> "uns", records |-> Repo!NoRecords]

SavePulled ==
    LET t == pull.token IN
    /\ PullAt("save")
    /\ \A c \in Chains : t \notin tx[c].tables.names \ names
    /\ IF t \in names
       THEN UNCHANGED <<names, db>> /\ pull' = Ended
       ELSE /\ names' = names \cup {t}
            /\ db' = [db EXCEPT
                         ![pull.on].rows = Put(@, t, NewRowOf(pull.owner)),
                         ![pull.on].rev = IF pull.reverse THEN @ \cup {<<pull.owner, t>>} ELSE @]
            /\ pull' = [Ended EXCEPT
                           !.addresses = IF pull.reverse THEN @ \cup {pull.owner} ELSE @]
    /\ UNCHANGED <<chainVars, tx>>

ScriptReads == (\E t \in Pulled : AskPolygon(t)) \/ AskEthereum \/ GetReverseOf
=============================================================================

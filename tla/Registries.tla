----------------------------- MODULE Registries -----------------------------
(***************************************************************************)
(* The UNS and CNS registry contracts of one chain and the resolvers of    *)
(* CNS names: external components, modelled from the events and the calls  *)
(* that UnsWorkerStrategy and CnsResolver use.  UNS keeps the records of a *)
(* token itself and tells every change in its events; CNS keeps them in a  *)
(* resolver contract, and its events only say that something changed.      *)
(*                                                                         *)
(* One action is one block with one transaction.  The block carries the    *)
(* events in log order, and the state of the registries after it for the   *)
(* properties to compare with.                                             *)
(***************************************************************************)
EXTENDS Integers, Sequences, FiniteSets, Maps

CONSTANTS
    Tokens, Owners, Keys, Values,
    Resolvers,         \* the resolver contracts a CNS token may use
    SameReverseAgain,  \* may an owner set the reverse record it has already?
    MaxBlocks          \* bound: blocks with events

ASSUME RegistriesAssumption ==
    /\ SameReverseAgain \in BOOLEAN
    /\ MaxBlocks \in Nat

VARIABLES
    rows,    \* the tokens minted so far: owner, registry, resolver, records
    rev,     \* the reverse record of each owner
    kept,    \* the records each resolver keeps for each token
    blocks   \* the blocks: [events, after]

registryVars == <<rows, rev, kept, blocks>>

Null == "null"      \* the address 0x0
None == "none"
NoRecords == <<>>   \* the empty function

\* A token as a row of the database shows it.
Row(owner, registry, resolver, records) ==
    [owner |-> owner, registry |-> registry, resolver |-> resolver,
     records |-> records]

Burnt == Row(Null, None, None, NoRecords)

Live(t) == t \in DOMAIN rows /\ rows[t].owner # Null
OnUns(t) == Live(t) /\ rows[t].registry = "uns"
OnCns(t) == Live(t) /\ rows[t].registry = "cns"

RegistryInit ==
    /\ rows = <<>>
    /\ rev = [a \in Owners |-> None]
    /\ kept = [r \in Resolvers |-> [t \in Tokens |-> NoRecords]]
    /\ blocks = <<>>

\* The state that the events of the blocks tell of.
RegistryState == [rows |-> rows, rev |-> {<<a, rev[a]>> :
                                            a \in {b \in Owners : rev[b] # None}}]

Mined(events) ==
    /\ Len(blocks) < MaxBlocks
    /\ blocks' = Append(blocks, [events |-> events, after |-> RegistryState'])

TransferEvent(t, from, to, registry) ==
    [type |-> "Transfer", token |-> t, from |-> from, to |-> to,
     registry |-> registry]
NewUriEvent(t, registry) ==
    [type |-> "NewURI", token |-> t, registry |-> registry]
TokenEvent(type, t) == [type |-> type, token |-> t]
RemoveReverseEvent(a) == [type |-> "RemoveReverse", addr |-> a]

-----------------------------------------------------------------------------
(* Both registries *)

Mint(t, o, registry) ==
    /\ ~Live(t)
    /\ rows' = Put(rows, t, Row(o, registry,
                              IF registry = "uns" THEN "uns" ELSE None, NoRecords))
    /\ UNCHANGED <<rev, kept>>
    /\ Mined(<<TransferEvent(t, Null, o, registry), NewUriEvent(t, registry)>>)

\* A UNS token that leaves its owner takes the owner's reverse record and its
\* own records with it; CNS has no reverse records and the resolver stays.
Leave(t, o, row) ==
    LET from    == rows[t].owner
        reverse == rev[from] = t
        before  == IF reverse THEN <<RemoveReverseEvent(from)>> ELSE <<>>
        after   == IF rows[t].registry = "uns"
                   THEN <<TokenEvent("ResetRecords", t)>> ELSE <<>>
    IN /\ rows' = [rows EXCEPT ![t] = row]
       /\ rev' = [rev EXCEPT ![from] = IF reverse THEN None ELSE @]
       /\ UNCHANGED kept
       /\ Mined(before \o <<TransferEvent(t, from, o, rows[t].registry)>> \o after)

Transfer(t, o) ==
    /\ Live(t)
    /\ rows[t].owner # o
    /\ Leave(t, o, [rows[t] EXCEPT
                      !.owner = o,
                      !.records = IF rows[t].registry = "uns"
                                  THEN NoRecords ELSE @])

Burn(t) == Live(t) /\ Leave(t, Null, Burnt)

-----------------------------------------------------------------------------
(* UNS *)

SetRecord(t, k, v) ==
    /\ OnUns(t)
    /\ rows' = [rows EXCEPT ![t].records = Put(@, k, v)]
    /\ UNCHANGED <<rev, kept>>
    /\ Mined(<<[type |-> "Set", token |-> t, key |-> k, value |-> v]>>)

ResetRecords(t) ==
    /\ OnUns(t)
    /\ rows' = [rows EXCEPT ![t].records = NoRecords]
    /\ UNCHANGED <<rev, kept>>
    /\ Mined(<<TokenEvent("ResetRecords", t)>>)

SetReverse(t) ==
    /\ OnUns(t)
    /\ LET a == rows[t].owner IN
       /\ rev[a] = t => SameReverseAgain
       /\ rev' = [rev EXCEPT ![a] = t]
       /\ UNCHANGED <<rows, kept>>
       /\ Mined(<<[type |-> "SetReverse", token |-> t, addr |-> a]>>)

RemoveReverse(a) ==
    /\ rev[a] # None
    /\ rev' = [rev EXCEPT ![a] = None]
    /\ UNCHANGED <<rows, kept>>
    /\ Mined(<<RemoveReverseEvent(a)>>)

-----------------------------------------------------------------------------
(* CNS *)

ResolveTo(t, r) ==
    /\ OnCns(t)
    /\ rows[t].resolver # r
    /\ rows' = [rows EXCEPT ![t].resolver = r, ![t].records = kept[r][t]]
    /\ UNCHANGED <<rev, kept>>
    /\ Mined(<<TokenEvent("Resolve", t)>>)

\* A resolver only takes records of the tokens that resolve to it, and tells
\* the registry the hash of the key; 0 says that all records are gone.
Write(t, records, updateId) ==
    /\ OnCns(t)
    /\ rows[t].resolver # None
    /\ kept' = [kept EXCEPT ![rows[t].resolver][t] = records]
    /\ rows' = [rows EXCEPT ![t].records = records]
    /\ UNCHANGED rev
    /\ Mined(<<[type |-> "Sync", token |-> t, updateId |-> updateId]>>)

SyncKey(t, k, v) == Write(t, Put(rows[t].records, k, v), k)
SyncReset(t) == Write(t, NoRecords, 0)

-----------------------------------------------------------------------------
RegistryStep ==
    \/ \E t \in Tokens :
         \/ \E o \in Owners : \/ Mint(t, o, "uns")
                              \/ Resolvers # {} /\ Mint(t, o, "cns")
                              \/ Transfer(t, o)
         \/ Burn(t)
         \/ \E k \in Keys, v \in Values : SetRecord(t, k, v) \/ SyncKey(t, k, v)
         \/ ResetRecords(t)
         \/ SetReverse(t)
         \/ SyncReset(t)
         \/ \E r \in Resolvers : ResolveTo(t, r)
    \/ \E a \in Owners : RemoveReverse(a)
=============================================================================

---------------------------- MODULE ZilRegistry -----------------------------
(***************************************************************************)
(* The ZNS registry contract on Zilliqa, the resolver contracts of its     *)
(* names and the ViewBlock index of its transactions: external components, *)
(* modelled from the events and the requests that ZNSWorkerStrategy and    *)
(* ZilProvider use.                                                        *)
(*                                                                         *)
(* The index numbers the transactions of the registry (atxuid).  Number 0  *)
(* is the deployment, without events; transaction n is txs[n].             *)
(***************************************************************************)
EXTENDS Integers, Sequences, FiniteSets, Maps

CONSTANTS
    Nodes, Owners, Keys, Values,
    Resolvers,     \* the resolver contracts that each node may deploy
    Root,          \* the node of "zil"
    ParentOf,      \* the parent of each node
    MaxTxs         \* bound: transactions with events

ASSUME ZilRegistryAssumption ==
    /\ Root \notin Nodes
    /\ ParentOf \in [Nodes -> Nodes \cup {Root}]
    /\ MaxTxs \in Nat

VARIABLES
    rows,    \* owner and resolver of each node registered so far
    kept,    \* the records in each resolver contract of each node
    txs      \* the transactions: their events, the newest first

registryVars == <<rows, kept, txs>>

Null == "null"      \* the address 0x0
None == "none"
NoRecords == <<>>

Owned(n) == n \in DOMAIN rows /\ rows[n].owner # Null

RegistryInit ==
    /\ rows = <<>>
    /\ kept = [r \in Resolvers |-> [n \in Nodes |-> NoRecords]]
    /\ txs = <<>>

Happened(events) ==
    /\ Len(txs) < MaxTxs
    /\ txs' = Append(txs, events)

NewDomain(n) == [type |-> "NewDomain", node |-> n]
Configured(n, owner, resolver) ==
    [type |-> "Configured", node |-> n, owner |-> owner, resolver |-> resolver]

Register(n, o) ==
    /\ ~Owned(n)
    /\ ParentOf[n] = Root \/ Owned(ParentOf[n])
    /\ rows' = Put(rows, n, [owner |-> o, resolver |-> None])
    /\ UNCHANGED kept
    /\ Happened(<<Configured(n, o, Null), NewDomain(n)>>)

\* The owner gives the node away, burns it (o = Null) or changes its resolver
\* (r = None: to none).
Configure(n, o, r) ==
    /\ Owned(n)
    /\ o = Null => r = None
    /\ rows[n] # [owner |-> o, resolver |-> r]
    /\ rows' = [rows EXCEPT ![n] = [owner |-> o, resolver |-> r]]
    /\ UNCHANGED kept
    /\ Happened(<<Configured(n, o, IF r = None THEN Null ELSE r)>>)

\* A resolver contract tells the registry that it has changed, which repeats
\* the configuration of the node.
SetRecord(n, k, v) ==
    /\ Owned(n)
    /\ rows[n].resolver # None
    /\ kept' = [kept EXCEPT ![rows[n].resolver][n] = Put(@, k, v)]
    /\ UNCHANGED rows
    /\ Happened(<<Configured(n, rows[n].owner, rows[n].resolver)>>)

RegistryStep ==
    \E n \in Nodes :
        \/ \E o \in Owners : Register(n, o)
        \/ \E o \in Owners \cup {Null}, r \in Resolvers \cup {None} :
             Configure(n, o, r)
        \/ \E k \in Keys, v \in Values : SetRecord(n, k, v)
=============================================================================

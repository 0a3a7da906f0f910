-------------------------- MODULE WorkerRepository --------------------------
(***************************************************************************)
(* The writes that a worker strategy may ask of the repository             *)
(* (workers/framework/WorkerRepository.ts): each operator takes the tables *)
(* of one chain as the open transaction sees them and gives the tables     *)
(* after the write.                                                        *)
(*                                                                         *)
(* A statement that violates a constraint breaks the transaction: Postgres *)
(* refuses every later statement of it until the rollback.                 *)
(***************************************************************************)
EXTENDS Integers, FiniteSets, Maps

Absent == "none"        \* null in the database
NullAddress == "null"   \* Domain.NullAddress
Keep == "keep"          \* undefined: the attribute is not to be changed
NoRecords == <<>>

\* names: the domains rows; rows: for a node, its domains_resolution row of this
\* chain; rev: the domains_reverse_resolution rows of this chain.
EmptyTables == [names |-> {}, rows |-> <<>>, rev |-> {}, broken |-> FALSE]

Executed(v, w) == IF v.broken THEN v ELSE w

\* A new row and what typeorm fills in.
NewRow == [owner |-> Absent, registry |-> Absent, resolver |-> Absent,
           records |-> NoRecords]

\* DbDomain.findByNode of saveDomains reads on the default connection, so it
\* finds what is committed and not what this transaction inserted before: the
\* second insert of a node violates the unique index of the domains.
\* The mutant always inserts.
InsertDomain(v, committed, node) ==
    Executed(v, [v EXCEPT !.names = @ \cup {node}, !.broken = node \in v.names])
SaveDomain(v, committed, node) ==
    Executed(v, IF node \in committed THEN v
                ELSE IF node \in v.names THEN [v EXCEPT !.broken = TRUE]
                ELSE [v EXCEPT !.names = @ \cup {node}])

Changed(new, old) == IF new = Keep THEN old ELSE new

\* A Resolution as its constructor makes it: nothing is to be changed.  With
\* clear (resolution = undefined) the records are dropped, else merged.
NoChange == [owner |-> Keep, registry |-> Keep, resolver |-> Keep,
             records |-> NoRecords, clear |-> FALSE]

Updated(c) == c # NoChange

MergedRecords(c, old) == IF c.clear THEN NoRecords ELSE Over(c.records, old)

\* A resolution needs a domain; the mutant saves it without.
AnyNode(v, node) == TRUE
KnownNode(v, node) == node \in v.names

SaveResolution(v, node, c) ==
    LET old == IF node \in DOMAIN v.rows THEN v.rows[node] ELSE NewRow
        new == [owner    |-> Changed(c.owner, old.owner),
                registry |-> Changed(c.registry, old.registry),
                resolver |-> Changed(c.resolver, old.resolver),
                records  |-> MergedRecords(c, old.records)]
    IN Executed(v, IF Updated(c) /\ KnownNode(v, node)
                   THEN [v EXCEPT !.rows = Put(@, node, new)] ELSE v)

\* A domain that has a reverse row keeps it, whatever its address is; then the
\* row found for the address before goes, even if it is the one kept.
\* (findOne may find any of several rows: the result is a set.)
\* The mutant does not look for the old row of the address.
SaveReverseKeepsOld(v, addr, node) ==
    {Executed(v, IF node \in v.names
                 THEN [v EXCEPT !.rev = @ \cup {<<addr, node>>}] ELSE v)}
SaveReverse(v, addr, node) ==
    LET ofAddr == {r \in v.rev : r[1] = addr}
        saved  == IF \E r \in v.rev : r[2] = node
                  THEN v.rev ELSE v.rev \cup {<<addr, node>>}
    IN {Executed(v, IF node \in v.names
                    THEN [v EXCEPT !.rev = saved \ old] ELSE v) :
            old \in IF ofAddr = {} THEN {{}} ELSE {{r} : r \in ofAddr}}

RemoveReverse(v, addr) ==
    Executed(v, [v EXCEPT !.rev = {r \in @ : r[1] # addr}])
=============================================================================

---------------------------- MODULE ReorgRebuild ----------------------------
(***************************************************************************)
(* handleReorg of BaseWorker.ts after findLastMatchingBlock: the events    *)
(* above the last matching block are deleted, and every domain they name   *)
(* is rebuilt from the events that are left.  BaseWorker rebuilds all      *)
(* domains in one step; here the rebuilds run as Promise.all starts them,  *)
(* concurrently on the one connection of the transaction, and the reverse  *)
(* resolutions are shared by all of them.                                  *)
(*                                                                         *)
(* Until the reorg the tables are those of the registry (PublishesRegistry *)
(* of UnsWorker).  Only UNS tokens are modelled: Resolvers is empty.       *)
(***************************************************************************)
EXTENDS Registries, UnsEvents, SequencesExt

\* An address is none of the marks for there being none.
ASSUME ReorgRebuildAssumption ==
    /\ Resolvers = {}
    /\ {Null, None, Repo!Keep} \cap Owners = {}

VARIABLES
    fork,      \* the last matching block, or 0 before the reorg
    stored,    \* the tables as committed before the reorg
    tables,    \* the tables as the transaction sees them
    task,      \* for each token, where its rebuild is
    todo,      \* for each token, its events that are still to be replayed
    read       \* for each token, what saveReverseResolutions has read

vars == <<registryVars, fork, stored, tables, task, todo, read>>

NothingRead == [own |-> {}, old |-> {}]

Init ==
    /\ RegistryInit
    /\ fork = 0
    /\ stored = Repo!EmptyTables
    /\ tables = stored
    /\ task = [t \in Tokens |-> "none"]
    /\ todo = [t \in Tokens |-> <<>>]
    /\ read = [t \in Tokens |-> NothingRead]

-----------------------------------------------------------------------------
(* Helpers *)

\* The token an event is stored with; RemoveReverse names an address only.
Names(e, t) == e.type # "RemoveReverse" /\ e.token = t

\* f[1] \o ... \o f[n]
Joined(f, n) ==
    LET joined[i \in 0 .. n] == IF i = 0 THEN <<>> ELSE joined[i - 1] \o f[i]
    IN joined[n]

OfToken(events, t) ==
    Joined([i \in DOMAIN events |-> IF Names(events[i], t) THEN <<events[i]>> ELSE <<>>],
           Len(events))

\* WorkerRepository.findEventsForDomain after the cleanup, in log order.
\* The mutant reads the newest block first.
NewestFirst(t) ==
    Joined([n \in DOMAIN blocks |-> OfToken(Reverse(blocks)[n].events, t)], Len(blocks))
EventsForDomain(t) ==
    Joined([n \in DOMAIN blocks |-> OfToken(blocks[n].events, t)], Len(blocks))

\* The tokens of the deleted events.
Affected(n) ==
    {t \in Tokens : \E i \in n + 1 .. Len(blocks) :
                      \E e \in ToSet(blocks[i].events) : Names(e, t)}

Event(t) == Head(todo[t])
LastReplayed(t) ==
    LET events == EventsForDomain(t)
        done   == Len(events) - Len(todo[t])
    IN IF done = 0 THEN NoEvent ELSE events[done]

\* What the rebuild of t removes: the rows of t that findByNode finds on the
\* default connection, that is, as committed.  The mutant keeps the reverse
\* resolutions.
ReverseKept(t) == {}
ReverseOf(t) == {r \in stored.rev : r[2] = t}

-----------------------------------------------------------------------------
(* The steps of handleReorg *)

StateAfter(n) == blocks[n].after

\* The worker finds that the chain left the mirrored one after block n:
\* cleanUpEvents, and the start of all rebuilds.  From here on blocks holds the
\* events that are left.
Reorg(n) ==
    /\ fork = 0
    /\ fork' = n
    /\ blocks' = SubSeq(blocks, 1, n)
    /\ stored' = [Repo!EmptyTables EXCEPT
                    !.names = DOMAIN rows,
                    !.rows = RegistryState.rows,
                    !.rev = RegistryState.rev]
    /\ tables' = stored'
    /\ task' = [t \in Tokens |-> IF t \in Affected(n) THEN "remove" ELSE "none"]
    /\ UNCHANGED <<rows, rev, kept, todo, read>>

\* removeAllResolutionsForDomain
RemoveAll(t) ==
    /\ task[t] = "remove"
    /\ tables' = [tables EXCEPT
                    !.rows = [u \in DOMAIN @ \ {t} |-> @[u]],
                    !.rev = @ \ ReverseOf(t)]
    /\ task' = [task EXCEPT ![t] = "replay"]
    /\ todo' = [todo EXCEPT ![t] = EventsForDomain(t)]
    /\ UNCHANGED <<registryVars, fork, stored, read>>

Replaying(t, type) ==
    /\ task[t] = "replay"
    /\ todo[t] # <<>>
    /\ Event(t).type = type

Replayed(t, new) ==
    /\ tables' = new
    /\ todo' = [todo EXCEPT ![t] = Tail(@)]
    /\ task' = [task EXCEPT ![t] = "replay"]
    /\ read' = [read EXCEPT ![t] = NothingRead]
    /\ UNCHANGED <<registryVars, fork, stored>>

\* The writes of these handlers touch the rows of t alone, which nobody else
\* reads or writes: each handler is one step.
ReplayTransfer(t) ==
    Replaying(t, "Transfer") /\ Replayed(t, AfterTransfer(tables, Event(t)))

ReplayNewUri(t) ==
    /\ Replaying(t, "NewURI")
    /\ Replayed(t, AfterNewUri(tables, stored.names, LastReplayed(t), Event(t)))

ReplaySet(t) == Replaying(t, "Set") /\ Replayed(t, AfterSet(tables, Event(t)))

ReplayResetRecords(t) ==
    /\ Replaying(t, "ResetRecords")
    /\ Replayed(t, AfterResetRecords(tables, Event(t)))

\* saveReverseResolutions awaits the domain's row and the address's row ...
ReadReverse(t) ==
    /\ Replaying(t, "SetReverse")
    /\ LET addr == Event(t).addr
           own == {r \in tables.rev : r[2] = t}
       IN \E old \in LET found == {r \in tables.rev : r[1] = addr}
                     IN IF found = {} THEN {{}} ELSE {{r} : r \in found} :
            read' = [read EXCEPT ![t] =
                       [own |-> IF own = {} THEN {<<addr, t>>} ELSE own,
                        old |-> old]]
    /\ task' = [task EXCEPT ![t] = "save"]
    /\ UNCHANGED <<registryVars, fork, stored, tables, todo>>

\* ... then saves the one ...
SaveReverseRow(t) ==
    /\ task[t] = "save"
    /\ tables' = [tables EXCEPT !.rev = @ \cup read[t].own]
    /\ task' = [task EXCEPT ![t] = "drop"]
    /\ UNCHANGED <<registryVars, fork, stored, todo, read>>

\* ... and removes the other.  The mutant forgets to.
DropNothing(t) ==
    /\ task[t] = "drop"
    /\ Replayed(t, tables)
DropReverseRow(t) ==
    /\ task[t] = "drop"
    /\ Replayed(t, [tables EXCEPT !.rev = @ \ read[t].old])

EndRebuild(t) ==
    /\ task[t] = "replay"
    /\ todo[t] = <<>>
    /\ task' = [task EXCEPT ![t] = "done"]
    /\ UNCHANGED <<registryVars, fork, stored, tables, todo, read>>

\* The script removeDuplicateReverseResolutions, run after the commit: of the rows
\* of an address those of the latest created_at, which is the start of the
\* transaction that inserted them, are RANKed first and kept.
FromRebuild(r) == task[r[2]] = "done"
RankedFirst ==
    {r \in tables.rev : \A s \in tables.rev : s[1] = r[1] /\ FromRebuild(s) => FromRebuild(r)}

Rebuild(t) ==
    \/ RemoveAll(t)
    \/ ReplayTransfer(t) \/ ReplayNewUri(t)
    \/ ReplaySet(t) \/ ReplayResetRecords(t)
    \/ ReadReverse(t) \/ SaveReverseRow(t) \/ DropReverseRow(t)
    \/ EndRebuild(t)

Next ==
    \/ /\ fork = 0
       /\ RegistryStep
       /\ UNCHANGED <<fork, stored, tables, task, todo, read>>
    \/ \E n \in 1 .. Len(blocks) - 1 : Reorg(n)
    \/ \E t \in Tokens : Rebuild(t)

Spec == Init /\ [][Next]_vars
FairSpec == Spec /\ \A t \in Tokens : WF_vars(Rebuild(t))

-----------------------------------------------------------------------------
(* Properties *)

\* Promise.all of handleReorg (BaseWorker.ts:101) has resolved.
Rebuilt == fork # 0 /\ \A t \in Tokens : task[t] \in {"none", "done"}

\* The rows are those of the registry after the last matching block, of the
\* domains that were rebuilt (BaseWorker.ts:79) and of those that were not,
\* in whatever order the rebuilds ran.
RowsReverted == Rebuilt => tables.rows = StateAfter(fork).rows

\* An event that is left sets the reverse resolution.
SetInEvents(r) ==
    \E n \in DOMAIN blocks :
        [type |-> "SetReverse", token |-> r[2], addr |-> r[1]] \in ToSet(blocks[n].events)

\* At any time a reverse resolution of a rebuilt domain stems from an event
\* that is left, and that of another domain was there before.
ReverseExplained ==
    fork # 0 =>
        \A r \in tables.rev :
            \/ r \in stored.rev /\ task[r[2]] \in {"none", "remove"}
            \/ SetInEvents(r)

\* No rebuild waits for another, and none breaks the transaction.
RebuildEnds == (fork # 0) ~> Rebuilt /\ ~tables.broken

\* When handleReorg is done, an address resolves to two domains only if both were
\* rebuilt and set in events that were kept: only then may saveReverseResolutions
\* (WorkerRepository.ts:169) look for the row of the address before the other
\* rebuild has saved its own.  The script that removes duplicates
\* (removeDuplicateReverseResolutions.ts:21) leaves both: they were inserted in one
\* transaction, and RANK does not tell them apart.
SharedAddressExplained ==
    Rebuilt =>
        \A r, s \in tables.rev : r[1] = s[1] /\ r # s =>
            /\ \A row \in {r, s} : task[row[2]] # "none" /\ SetInEvents(row)
            /\ {r, s} \subseteq RankedFirst
=============================================================================

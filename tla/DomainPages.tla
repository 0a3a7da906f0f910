---------------------------- MODULE DomainPages -----------------------------
(***************************************************************************)
(* GET /domains page by page, while the workers insert domains in          *)
(* transactions of their own.  A client asks for the first page and then,  *)
(* as long as hasMore, for the page after nextStartingAfter                *)
(* (controllers/DomainsController.ts, controllers/dto/Domains.ts).         *)
(*                                                                         *)
(* typeorm reads a page with joins in two queries that are in no           *)
(* transaction: the ids of the page, then the rows of these ids that still *)
(* match.  What a query filters by (owners, no dead owner, records, TLD) is*)
(* whether a domain matches, which a transfer may change.                  *)
(*                                                                         *)
(* One walk over all pages is modelled, of pages that the query cache does *)
(* not have yet.                                                           *)
(***************************************************************************)
EXTENDS Integers, Sequences, FiniteSetsExt

CONSTANTS
    Writers,       \* workers that insert domains
    Names,         \* positions in the order of names; a .zil name may have two rows
    PerPage,
    Millisecond,   \* ticks of the database's clock, which counts microseconds
    MaxRows,       \* bound: ids that are handed out
    MaxTime        \* bound: the clock of the database

ASSUME DomainPagesAssumption ==
    /\ Names \subseteq Nat
    /\ PerPage \in Nat \ {0} /\ Millisecond \in Nat \ {0}
    /\ MaxRows \in Nat /\ MaxTime \in Nat

VARIABLES
    table,         \* the committed rows: [id, createdAt, name]
    gone,          \* the ids of rows that match the filter no more
    tx,            \* of each writer: its open transaction, [start, rows], or Closed
    nextId,        \* the sequence of the ids
    now,           \* the clock of the database
    walk           \* the client: [pc, sort, dir, cursor, ids, page, earlier, atStart, left]:
                   \* page is the last page and earlier the rows of the pages before;
                   \* atStart and left are no part of the program

vars == <<table, gone, tx, nextId, now, walk>>

Closed == [start |-> 0, rows |-> {}]
NoWalk == [pc |-> "idle", sort |-> "id", dir |-> "ASC", cursor |-> <<>>, ids |-> {},
           page |-> {}, earlier |-> {}, atStart |-> {}, left |-> FALSE]

Init ==
    /\ table = {} /\ gone = {}
    /\ tx = [w \in Writers |-> Closed]
    /\ nextId = 1 /\ now = 1
    /\ walk = NoWalk

-----------------------------------------------------------------------------
(* The writers *)

Tick ==
    /\ now < MaxTime
    /\ now' = now + 1
    /\ UNCHANGED <<table, gone, tx, nextId, walk>>

Begin(w) ==
    /\ tx[w] = Closed
    /\ tx' = [tx EXCEPT ![w].start = now]
    /\ UNCHANGED <<table, gone, nextId, now, walk>>

\* The id is the next of the sequence, created_at the start of the transaction.
Insert(w) ==
    /\ tx[w] # Closed
    /\ nextId <= MaxRows
    /\ \E n \in Names :
          tx' = [tx EXCEPT ![w].rows =
                   @ \cup {[id |-> nextId, createdAt |-> tx[w].start, name |-> n]}]
    /\ nextId' = nextId + 1
    /\ UNCHANGED <<table, gone, now, walk>>

Commit(w) ==
    /\ tx[w].rows # {}
    /\ table' = table \cup tx[w].rows
    /\ tx' = [tx EXCEPT ![w] = Closed]
    /\ UNCHANGED <<gone, nextId, now, walk>>

\* A sequence takes no id back; the mutant does.
RollbackTakesIds(w) ==
    /\ tx[w] # Closed
    /\ tx' = [tx EXCEPT ![w] = Closed]
    /\ nextId' = nextId - Cardinality(tx[w].rows)
    /\ UNCHANGED <<table, gone, now, walk>>
Rollback(w) ==
    /\ tx[w] # Closed
    /\ tx' = [tx EXCEPT ![w] = Closed]
    /\ UNCHANGED <<table, gone, nextId, now, walk>>

\* A committed transfer: the domain matches the filter of the client no more.  Only
\* during the walk: before it, the domain is as one that never matched.
Leave(r) ==
    /\ walk.pc \in {"ids", "rows"}
    /\ r.id \notin gone
    /\ gone' = gone \cup {r.id}
    /\ walk' = [walk EXCEPT !.left = @ \/ r \in walk.ids]
    /\ UNCHANGED <<table, tx, nextId, now>>

-----------------------------------------------------------------------------
(* The client *)

\* SortFieldsMap: the columns that are sorted by, and their values in
\* nextStartingAfter; toISOString cuts created_at to milliseconds.
Columns(sort, r) ==
    CASE sort = "id" -> <<r.id>>
      [] sort = "name" -> <<r.name>>
      [] sort = "created_at" -> <<r.createdAt, r.id>>
Truncated(t) == t - (t % Millisecond)
StartingAfter(sort, r) ==
    IF sort = "created_at" THEN <<Truncated(r.createdAt), r.id>> ELSE Columns(sort, r)

Ordered(dir, x, y) == IF dir = "ASC" THEN x < y ELSE x > y

\* ORDER BY: the first column that differs decides.
Precedes(r, s) ==
    LET a == Columns(walk.sort, r)
        b == Columns(walk.sort, s)
    IN \E i \in DOMAIN a : /\ Ordered(walk.dir, a[i], b[i])
                           /\ \A j \in 1 .. i - 1 : a[j] = b[j]

\* WHERE: every column is beyond the one of the cursor.  The mutant takes the
\* cursor's row too.
BeyondOrAt(r) ==
    \A i \in DOMAIN walk.cursor :
        ~Ordered(walk.dir, Columns(walk.sort, r)[i], walk.cursor[i])
Beyond(r) ==
    \A i \in DOMAIN walk.cursor :
        Ordered(walk.dir, walk.cursor[i], Columns(walk.sort, r)[i])

Matching == {r \in table : r.id \notin gone /\ Beyond(r)}

\* The first n rows of a set in the order asked for; rows that the order does not
\* tell apart come in any order.
Firsts(rows, n) ==
    {s \in kSubset(Min({n, Cardinality(rows)}), rows) :
        \A r \in s, q \in rows \ s : ~Precedes(q, r)}

Start ==
    /\ walk.pc = "idle"
    /\ table # {}
    /\ \E sort \in {"id", "name", "created_at"}, dir \in {"ASC", "DESC"} :
          walk' = [NoWalk EXCEPT !.pc = "ids", !.sort = sort, !.dir = dir,
                                 !.atStart = table]
    /\ UNCHANGED <<table, gone, tx, nextId, now>>

\* One row more than a page, to know whether there are more.
SelectIds ==
    /\ walk.pc = "ids"
    /\ \E s \in Firsts(Matching, PerPage + 1) :
          walk' = [walk EXCEPT !.pc = "rows", !.ids = s]
    /\ UNCHANGED <<table, gone, tx, nextId, now>>

\* The mutant forgets the row more.
HasMoreFull(rows) == Cardinality(rows) >= PerPage + 2
HasMore(rows) == Cardinality(rows) > PerPage

LastOf(page) == CHOOSE r \in page : \A q \in page : ~Precedes(r, q)

LoadRows ==
    /\ walk.pc = "rows"
    /\ LET rows == {r \in walk.ids : r.id \notin gone} IN
       \E page \in Firsts(rows, PerPage) :
          walk' = [walk EXCEPT
             !.pc = IF HasMore(rows) THEN "ids" ELSE "end",
             !.ids = {},
             !.page = page,
             !.earlier = @ \cup walk.page,
             !.cursor = IF HasMore(rows) THEN StartingAfter(walk.sort, LastOf(page)) ELSE @]
    /\ UNCHANGED <<table, gone, tx, nextId, now>>

WalkStep == Start \/ SelectIds \/ LoadRows

-----------------------------------------------------------------------------
Next ==
    \/ Tick
    \/ \E w \in Writers : Begin(w) \/ Insert(w) \/ Commit(w) \/ Rollback(w)
    \/ \E r \in table : Leave(r)
    \/ WalkStep

Spec == Init /\ [][Next]_vars

-----------------------------------------------------------------------------
(* Properties *)

\* No two rows, committed or not, have the same id, and none is from the future.
TypeOK ==
    LET rows == table \cup UNION {tx[w].rows : w \in Writers} IN
    /\ \A r \in rows : r.id < nextId /\ r.createdAt <= now /\ r.name \in Names
    /\ \A r, q \in rows : r.id = q.id => r = q
    /\ \A w, v \in Writers : w # v => tx[w].rows \cap tx[v].rows = {}
    /\ walk.ids \cup walk.page \cup walk.earlier \subseteq table

\* Rows that the columns of a sort do not tell apart: the names of two rows of one
\* name; and, in the sort by created_at, rows whose ids go the other way than their
\* transactions began, rows of one transaction that began at a whole millisecond,
\* and, in the descending order, all rows of one millisecond.
Unordered(r, q) ==
    \/ walk.sort = "name" /\ r.name = q.name
    \/ /\ walk.sort = "created_at"
       /\ \/ r.createdAt < q.createdAt /\ r.id > q.id
          \/ r.createdAt > q.createdAt /\ r.id < q.id
          \/ r.createdAt = q.createdAt /\ Truncated(r.createdAt) = r.createdAt
          \/ walk.dir = "DESC" /\ Truncated(r.createdAt) = Truncated(q.createdAt)

\* A walk to the last page lists every domain that was there when it began and
\* still matches, whatever the workers insert meanwhile: always in the order of
\* ids; in the other orders it may miss a domain, but only one that the cursor
\* (DomainsController.ts:168) does not order after another one.  It may also end
\* too early because hasMore (DomainsController.ts:229) counts the rows of the
\* second query.
Complete ==
    walk.pc = "end" /\ ~walk.left =>
        LET listed == walk.page \cup walk.earlier IN
        \A r \in walk.atStart \ listed :
            r.id \in gone \/ \E q \in listed : Unordered(r, q)

\* The cursor of a sort by created_at is before its row, and then also before rows
\* of the page: the ones of the same millisecond whose ids go the other way.
Repeated(r, q) ==
    /\ walk.sort = "created_at" /\ walk.dir = "ASC"
    /\ r.createdAt < q.createdAt /\ Truncated(r.createdAt) = Truncated(q.createdAt)
    /\ r.id > q.id

\* No domain is on two pages, although rows are inserted between the pages, unless
\* the cursor is of a row that was created later in the same millisecond and got its
\* id before (Domains.ts:106).
ListedOnce ==
    \A r \in walk.page \cap walk.earlier : \E q \in walk.earlier : Repeated(r, q)
=============================================================================

------------------------------ MODULE ApiKeys -------------------------------
(***************************************************************************)
(* API keys: POST /enroll stores a key, and every other request is refused *)
(* with 403 unless its key is stored.  Both look the key up through the    *)
(* query cache of their own process (models/ApiKey.ts,                     *)
(* database/TypeormInMemoryCache.ts), which keeps what the database        *)
(* answered, also that there is no such key.  The requests of all          *)
(* processes interleave; a process may restart.                            *)
(*                                                                         *)
(* Time is counted in ticks, as the age of what is kept.  The token that   *)
(* allows to enroll and the rate limiter are left out.                     *)
(***************************************************************************)
EXTENDS Integers

CONSTANTS
    Processes,      \* processes that serve the API
    Requests,       \* requests that may be in flight at once
    Keys,
    Names,          \* what the holders of keys call themselves
    Duration,       \* ticks that an answer is kept
    QueryTime       \* ticks from the database's answer to its being kept, at most

ASSUME ApiKeysAssumption == Duration \in Nat /\ QueryTime \in Nat

VARIABLES
    enrolled,       \* the keys in the table
    taken,          \* the names in the table
    since,          \* of each key in the table: its age
    cache,          \* of each process and key: what is kept, [answer, age]
    req             \* of each request: where it is and what it was told

vars == <<enrolled, taken, since, cache, req>>

Answers == {"key", "none"}
Replies == {"accepted", "refused", "enrolled", "exists", "error"}

Request == [pc : {"cache", "query", "store", "insert"} \cup Replies,
            kind : {"use", "enroll"}, proc : Processes, key : Keys, name : Names,
            answer : Answers, age : Nat]
Idle == [pc |-> "idle"]
Nothing == [answer |-> "nothing", age |-> 0]
Entry == [answer : Answers, age : Nat] \cup {Nothing}

Init ==
    /\ enrolled = {} /\ taken = {}
    /\ since = [k \in Keys |-> 0]
    /\ cache = [p \in Processes |-> [k \in Keys |-> Nothing]]
    /\ req = [r \in Requests |-> Idle]

\* What is kept and what a request was told is an answer of the database.
TypeOK ==
    /\ enrolled \subseteq Keys /\ taken \subseteq Names
    /\ since \in [Keys -> Nat]
    /\ cache \in [Processes -> [Keys -> Entry]]
    /\ req \in [Requests -> Request \cup {Idle}]

-----------------------------------------------------------------------------
Start(r) ==
    /\ req[r] = Idle
    /\ \E kind \in {"use", "enroll"}, p \in Processes, k \in Keys, n \in Names :
          req' = [req EXCEPT ![r] =
                    [pc |-> "cache", kind |-> kind, proc |-> p, key |-> k,
                     name |-> n, answer |-> "none", age |-> 0]]
    /\ UNCHANGED <<enrolled, taken, since, cache>>

\* The middleware lets a known key pass; /enroll goes on with an unknown one.
Decided(r, answer) ==
    CASE req[r].kind = "use" /\ answer = "key" -> "accepted"
      [] req[r].kind = "use" /\ answer = "none" -> "refused"
      [] req[r].kind = "enroll" /\ answer = "key" -> "exists"
      [] req[r].kind = "enroll" /\ answer = "none" -> "insert"

Kept(r) == cache[req[r].proc][req[r].key]

\* The mutant keeps an answer for ever.
FreshAlways(e) == e # Nothing
Fresh(e) == e # Nothing /\ e.age <= Duration

\* The mutant renews what it finds.
GetFromCacheRenewed(r) ==
    /\ req[r].pc = "cache"
    /\ req' = [req EXCEPT ![r].pc = IF Fresh(Kept(r)) THEN Decided(r, Kept(r).answer)
                                    ELSE "query"]
    /\ cache' = IF Fresh(Kept(r))
                THEN [cache EXCEPT ![req[r].proc][req[r].key].age = 0] ELSE cache
    /\ UNCHANGED <<enrolled, taken, since>>
GetFromCache(r) ==
    /\ req[r].pc = "cache"
    /\ req' = [req EXCEPT ![r].pc = IF Fresh(Kept(r)) THEN Decided(r, Kept(r).answer)
                                    ELSE "query"]
    /\ UNCHANGED <<enrolled, taken, since, cache>>

AnswerOf(k) == IF k \in enrolled THEN "key" ELSE "none"

Query(r) ==
    /\ req[r].pc = "query"
    /\ req' = [req EXCEPT ![r].pc = "store", ![r].answer = AnswerOf(req[r].key)]
    /\ UNCHANGED <<enrolled, taken, since, cache>>

\* The entry is as old as its being kept, not as the answer.
StoreInCache(r) ==
    /\ req[r].pc = "store"
    /\ cache' = [cache EXCEPT ![req[r].proc][req[r].key] =
                    [answer |-> req[r].answer, age |-> 0]]
    /\ req' = [req EXCEPT ![r].pc = Decided(r, req[r].answer), ![r].age = 0]
    /\ UNCHANGED <<enrolled, taken, since>>

\* The insertion in a transaction of its own; apiKey and name are unique.  In the
\* mutant the name alone is.
FreeName(k, n) == n \notin taken
Free(k, n) == k \notin enrolled /\ n \notin taken

Insert(r) ==
    /\ req[r].pc = "insert"
    /\ LET k == req[r].key
           n == req[r].name
       IN IF Free(k, n)
          THEN /\ enrolled' = enrolled \cup {k}
               /\ taken' = taken \cup {n}
               /\ since' = [since EXCEPT ![k] = 0]
               /\ req' = [req EXCEPT ![r].pc = "enrolled"]
          ELSE /\ req' = [req EXCEPT ![r].pc = "error"]
               /\ UNCHANGED <<enrolled, taken, since>>
    /\ UNCHANGED cache

Respond(r) ==
    /\ req[r].pc \in Replies
    /\ req' = [req EXCEPT ![r] = Idle]
    /\ UNCHANGED <<enrolled, taken, since, cache>>

-----------------------------------------------------------------------------
\* Ages past these make no difference.
Older(age, limit) == IF age <= limit THEN age + 1 ELSE age

Storing(r) == req[r].pc = "store"

Tick ==
    /\ \A r \in Requests : Storing(r) => req[r].age < QueryTime
    /\ since' = [k \in Keys |-> IF k \in enrolled THEN Older(since[k], QueryTime + Duration)
                                ELSE 0]
    /\ cache' = [p \in Processes |-> [k \in Keys |->
                    IF cache[p][k] = Nothing THEN Nothing
                    ELSE [cache[p][k] EXCEPT !.age = Older(@, Duration)]]]
    /\ req' = [r \in Requests |->
                  IF Storing(r) THEN [req[r] EXCEPT !.age = @ + 1] ELSE req[r]]
    /\ UNCHANGED <<enrolled, taken>>

\* A process is restarted: its cache is empty and its requests are gone.
Restart(p) ==
    /\ cache' = [cache EXCEPT ![p] = [k \in Keys |-> Nothing]]
    /\ req' = [r \in Requests |->
                  IF req[r] # Idle /\ req[r].proc = p THEN Idle ELSE req[r]]
    /\ UNCHANGED <<enrolled, taken, since>>

RequestStep(r) ==
    \/ GetFromCache(r) \/ Query(r) \/ StoreInCache(r) \/ Insert(r) \/ Respond(r)

Next ==
    \/ \E r \in Requests : Start(r) \/ RequestStep(r)
    \/ Tick
    \/ \E p \in Processes : Restart(p)

Spec == Init /\ [][Next]_vars

\* Requests are answered and time goes on; no request and no restart is due.
FairSpec ==
    /\ Spec
    /\ \A r \in Requests : WF_vars(RequestStep(r))
    /\ WF_vars(Tick)

-----------------------------------------------------------------------------
(* Properties *)

\* Whichever process kept which answer, a request that is let through or told "Key
\* exists." has a key that is in the table.  Of the requests that all saw that a key was
\* free (EnrollmentController.ts:31) one at most is told that it is enrolled, and so of
\* those with a name, and the others fail with an unexpected error because of it.
HonestReplies ==
    \A r \in Requests :
        /\ req[r].pc \in {"accepted", "exists", "enrolled"} => req[r].key \in enrolled
        /\ req[r].pc = "enrolled" =>
              /\ req[r].name \in taken
              /\ \A q \in Requests \ {r} : req[q].pc = "enrolled" =>
                    req[q].key # req[r].key /\ req[q].name # req[r].name
        /\ req[r].pc = "error" => req[r].key \in enrolled \/ req[r].name \in taken

\* A key in the table is refused for as long as an answer from before may be on
\* its way and then kept, and no longer (ApiKey.ts:29): two requests that ask in
\* turn do not renew the stale answer.
RefusedOnlyWhileKept ==
    [][\A r \in Requests :
          req[r].pc # "refused" /\ req'[r].pc = "refused" /\ req[r].key \in enrolled
              => since[req[r].key] <= QueryTime + Duration]_vars

\* A key that was enrolled is accepted from some time on: the refusals end.
EventuallyAccepted ==
    \A k \in Keys :
        k \in enrolled ~> [](\A r \in Requests : ~(req[r].pc = "refused" /\ req[r].key = k))
=============================================================================

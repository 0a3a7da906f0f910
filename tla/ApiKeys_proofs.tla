--------------------------- MODULE ApiKeys_proofs ---------------------------
(***************************************************************************)
(* The safety properties of ApiKeys for any number of processes, requests, *)
(* keys and names and any durations.                                       *)
(*                                                                         *)
(* The invariant follows an answer from the table to the reply.  A "key"   *)
(* is the truth wherever it is, for keys are never removed.  A "none" may  *)
(* be stale, and the time since its key was enrolled is bounded by the     *)
(* time it spent on the way and in the cache.                              *)
(***************************************************************************)
EXTENDS ApiKeys, TLAPS

\* A kept answer is true, or was when it left the table.
KeptTrue ==
    \A p \in Processes, k \in Keys :
        /\ cache[p][k].answer = "key" => k \in enrolled
        /\ cache[p][k].answer = "none" /\ k \in enrolled
              => since[k] <= cache[p][k].age + QueryTime

\* So is one that a request is about to keep, and it is on its way for at most
\* QueryTime.
HeldTrue ==
    \A r \in Requests :
        /\ req[r].pc \in {"cache", "query"} => req[r].age = 0
        /\ req[r].pc = "store" =>
              /\ req[r].age <= QueryTime
              /\ req[r].answer = "key" => req[r].key \in enrolled
              /\ req[r].answer = "none" /\ req[r].key \in enrolled
                    => since[req[r].key] <= req[r].age

AgesBounded == \A k \in Keys : since[k] <= QueryTime + Duration + 1

IInv ==
    /\ TypeOK
    /\ KeptTrue
    /\ HeldTrue
    /\ AgesBounded
    /\ HonestReplies

-----------------------------------------------------------------------------
(* A request that is not idle is a whole record, and its answer decides it. *)

LEMMA NotIdle ==
    ASSUME TypeOK, NEW r \in Requests, req[r].pc # "idle"
    PROVE  req[r] \in Request
BY DEF TypeOK, Idle

LEMMA DecidedType ==
    ASSUME NEW r \in Requests, req[r] \in Request, NEW a \in Answers
    PROVE  /\ Decided(r, a) \in {"accepted", "refused", "exists", "insert"}
           /\ Decided(r, a) \in {"accepted", "exists"} => a = "key"
           /\ Decided(r, a) = "refused" => a = "none"
BY DEF Decided, Request, Answers

LEMMA OlderType ==
    ASSUME NEW age \in Nat, NEW limit \in Nat
    PROVE  /\ Older(age, limit) \in Nat
           /\ age <= Older(age, limit)
           /\ Older(age, limit) <= age + 1
           /\ age <= limit => Older(age, limit) = age + 1
           /\ age <= limit + 1 => Older(age, limit) <= limit + 1
BY DEF Older

-----------------------------------------------------------------------------
LEMMA InitIInv == Init => IInv
<1> SUFFICES ASSUME Init PROVE IInv
  OBVIOUS
<1> USE ApiKeysAssumption DEF Init, Idle, Nothing
<1>1. TypeOK
  BY DEF TypeOK, Entry
<1>2. KeptTrue /\ HeldTrue
  BY DEF KeptTrue, HeldTrue
<1>3. AgesBounded /\ HonestReplies
  BY DEF AgesBounded, HonestReplies
<1> QED
  BY <1>1, <1>2, <1>3 DEF IInv

-----------------------------------------------------------------------------
(* The steps that change no more than the request. *)

LEMMA StartIInv ==
    ASSUME IInv, NEW r \in Requests, Start(r)
    PROVE  IInv'
<1> USE ApiKeysAssumption DEF Start
<1>1. PICK kind \in {"use", "enroll"}, p \in Processes, k \in Keys, n \in Names :
         req' = [req EXCEPT ![r] =
                   [pc |-> "cache", kind |-> kind, proc |-> p, key |-> k,
                    name |-> n, answer |-> "none", age |-> 0]]
  OBVIOUS
<1>2. TypeOK'
  BY <1>1 DEF IInv, TypeOK, Request, Answers
<1>3. KeptTrue' /\ AgesBounded'
  BY DEF IInv, KeptTrue, AgesBounded
<1>4. HeldTrue'
  BY <1>1 DEF IInv, TypeOK, HeldTrue
<1>5. HonestReplies'
  BY <1>1 DEF IInv, TypeOK, HonestReplies
<1> QED
  BY <1>2, <1>3, <1>4, <1>5 DEF IInv

LEMMA GetFromCacheIInv ==
    ASSUME IInv, NEW r \in Requests, GetFromCache(r)
    PROVE  IInv'
<1> DEFINE next == IF Fresh(Kept(r)) THEN Decided(r, Kept(r).answer) ELSE "query"
<1> USE ApiKeysAssumption
<1>1. req[r] \in Request
  BY NotIdle DEF IInv, GetFromCache
<1>2. Kept(r) \in Entry
  BY <1>1 DEF IInv, TypeOK, Kept, Request
<1>3. ASSUME Fresh(Kept(r))
      PROVE  Kept(r).answer \in Answers
  BY <1>2, <1>3 DEF Fresh, Entry
<1>4. /\ next \in {"accepted", "refused", "exists", "insert", "query"}
      /\ next \in {"accepted", "exists"} => Fresh(Kept(r)) /\ Kept(r).answer = "key"
  BY <1>1, <1>3, DecidedType
<1>5. next \in {"accepted", "exists"} => req[r].key \in enrolled
  BY <1>1, <1>4 DEF IInv, KeptTrue, Kept, Request
<1>6. req' = [req EXCEPT ![r].pc = next]
  BY DEF GetFromCache
<1> HIDE DEF next
<1>7. TypeOK'
  BY <1>1, <1>4, <1>6 DEF IInv, TypeOK, Request, Replies, GetFromCache
<1>8. KeptTrue' /\ AgesBounded'
  BY DEF IInv, KeptTrue, AgesBounded, GetFromCache
<1>9. HeldTrue'
  BY <1>1, <1>4, <1>6 DEF IInv, TypeOK, HeldTrue, GetFromCache, Request
<1>10. HonestReplies'
  BY <1>1, <1>4, <1>5, <1>6
     DEF IInv, TypeOK, HonestReplies, GetFromCache, Request
<1> QED
  BY <1>7, <1>8, <1>9, <1>10 DEF IInv

LEMMA QueryIInv ==
    ASSUME IInv, NEW r \in Requests, Query(r)
    PROVE  IInv'
<1> USE ApiKeysAssumption
<1>1. req[r] \in Request
  BY NotIdle DEF IInv, Query
<1>2. AnswerOf(req[r].key) \in Answers
  BY DEF AnswerOf, Answers
<1>3. TypeOK'
  BY <1>1, <1>2 DEF IInv, TypeOK, Request, Query
<1>4. KeptTrue' /\ AgesBounded'
  BY DEF IInv, KeptTrue, AgesBounded, Query
<1>5. HeldTrue'
  BY <1>1 DEF IInv, TypeOK, HeldTrue, Query, Request, AnswerOf
<1>6. HonestReplies'
  BY <1>1 DEF IInv, TypeOK, HonestReplies, Query, Request
<1> QED
  BY <1>3, <1>4, <1>5, <1>6 DEF IInv

LEMMA RespondIInv ==
    ASSUME IInv, NEW r \in Requests, Respond(r)
    PROVE  IInv'
<1> USE DEF Respond, Idle
<1>1. TypeOK'
  BY DEF IInv, TypeOK
<1>2. KeptTrue' /\ AgesBounded' /\ HeldTrue'
  BY DEF IInv, TypeOK, KeptTrue, AgesBounded, HeldTrue
<1>3. HonestReplies'
  BY DEF IInv, TypeOK, HonestReplies
<1> QED
  BY <1>1, <1>2, <1>3 DEF IInv

-----------------------------------------------------------------------------
(* The steps that change the cache or the table. *)

LEMMA StoreInCacheIInv ==
    ASSUME IInv, NEW r \in Requests, StoreInCache(r)
    PROVE  IInv'
<1> DEFINE next == Decided(r, req[r].answer)
           kept == [answer |-> req[r].answer, age |-> 0]
<1> USE ApiKeysAssumption
<1>1. req[r] \in Request
  BY NotIdle DEF IInv, StoreInCache
<1>2. /\ next \in {"accepted", "refused", "exists", "insert"}
      /\ next \in {"accepted", "exists"} => req[r].answer = "key"
  BY <1>1, DecidedType DEF Request
<1>3. req[r].pc = "store" /\ UNCHANGED <<enrolled, taken, since>>
  BY DEF StoreInCache
<1>4. req' = [req EXCEPT ![r].pc = next, ![r].age = 0]
  BY DEF StoreInCache
<1>5. cache' = [cache EXCEPT ![req[r].proc][req[r].key] = kept]
  BY DEF StoreInCache
<1>6. next \in {"accepted", "exists"} => req[r].key \in enrolled
  BY <1>2, <1>3 DEF IInv, HeldTrue
<1> HIDE DEF next
<1>7. TypeOK'
  <2>1. kept \in Entry
    BY <1>1 DEF Request, Entry
  <2>2. cache' \in [Processes -> [Keys -> Entry]]
    BY <1>1, <1>5, <2>1 DEF IInv, TypeOK, Request
  <2>3. req' \in [Requests -> Request \cup {Idle}]
    BY <1>1, <1>2, <1>4 DEF IInv, TypeOK, Request, Replies
  <2> QED
    BY <1>3, <2>2, <2>3 DEF IInv, TypeOK
<1>8. KeptTrue'
  <2> SUFFICES ASSUME NEW p \in Processes, NEW k \in Keys
               PROVE  /\ cache'[p][k].answer = "key" => k \in enrolled
                      /\ cache'[p][k].answer = "none" /\ k \in enrolled
                            => since[k] <= cache'[p][k].age + QueryTime
    BY <1>3 DEF KeptTrue
  <2>1. CASE p = req[r].proc /\ k = req[r].key
    <3>1. cache'[p][k] = kept
      BY <1>5, <2>1 DEF IInv, TypeOK
    <3>2. since[k] \in Nat /\ req[r].age \in Nat
      BY <1>1 DEF IInv, TypeOK, Request
    <3> QED
      BY <1>3, <2>1, <3>1, <3>2 DEF IInv, HeldTrue
  <2>2. CASE ~(p = req[r].proc /\ k = req[r].key)
    <3>1. cache'[p][k] = cache[p][k]
      BY <1>5, <2>2 DEF IInv, TypeOK
    <3> QED
      BY <3>1 DEF IInv, KeptTrue
  <2> QED
    BY <2>1, <2>2
<1>9. HeldTrue' /\ AgesBounded'
  BY <1>1, <1>2, <1>3, <1>4 DEF IInv, TypeOK, HeldTrue, AgesBounded, Request
<1>10. HonestReplies'
  BY <1>1, <1>2, <1>3, <1>4, <1>6
     DEF IInv, TypeOK, HonestReplies, Request
<1> QED
  BY <1>7, <1>8, <1>9, <1>10 DEF IInv

LEMMA InsertIInv ==
    ASSUME IInv, NEW r \in Requests, Insert(r)
    PROVE  IInv'
<1> DEFINE k == req[r].key
           n == req[r].name
<1> USE ApiKeysAssumption
<1>1. req[r] \in Request /\ k \in Keys /\ n \in Names
  BY NotIdle DEF IInv, Insert, Request
<1>2. CASE Free(k, n)
  <2>1. /\ enrolled' = enrolled \cup {k} /\ taken' = taken \cup {n}
        /\ since' = [since EXCEPT ![k] = 0]
        /\ req' = [req EXCEPT ![r].pc = "enrolled"]
        /\ cache' = cache
    BY <1>2 DEF Insert
  <2>2. TypeOK'
    BY <1>1, <2>1 DEF IInv, TypeOK, Request, Replies
  <2>3. KeptTrue' /\ AgesBounded'
    <3>1. AgesBounded'
      BY <1>1, <2>1 DEF IInv, TypeOK, AgesBounded
    <3> SUFFICES ASSUME NEW p \in Processes, NEW j \in Keys
                 PROVE  /\ cache[p][j].answer = "key" => j \in enrolled'
                        /\ cache[p][j].answer = "none" /\ j \in enrolled'
                              => since'[j] <= cache[p][j].age + QueryTime
      BY <2>1, <3>1 DEF KeptTrue
    <3>2. cache[p][j].age \in Nat
      BY DEF IInv, TypeOK, Entry, Nothing
    <3> QED
      BY <1>1, <2>1, <3>2 DEF IInv, TypeOK, KeptTrue
  <2>4. HeldTrue'
    <3> SUFFICES ASSUME NEW q \in Requests
                 PROVE  /\ req'[q].pc \in {"cache", "query"} => req'[q].age = 0
                        /\ req'[q].pc = "store" =>
                              /\ req'[q].age <= QueryTime
                              /\ req'[q].answer = "key" => req'[q].key \in enrolled'
                              /\ req'[q].answer = "none" /\ req'[q].key \in enrolled'
                                    => since'[req'[q].key] <= req'[q].age
      BY DEF HeldTrue
    <3>1. CASE q = r
      BY <1>1, <2>1, <3>1 DEF IInv, TypeOK, Request
    <3>2. CASE q # r
      <4>1. req'[q] = req[q]
        BY <2>1, <3>2 DEF IInv, TypeOK
      <4>2. req[q].pc = "store" => req[q].age \in Nat /\ req[q].key \in Keys
        BY DEF IInv, TypeOK, Request, Idle
      <4> QED
        BY <1>1, <2>1, <4>1, <4>2 DEF IInv, TypeOK, HeldTrue
    <3> QED
      BY <3>1, <3>2
  <2>5. HonestReplies'
    <3>1. \A q \in Requests \ {r} : req'[q] = req[q]
      BY <2>1 DEF IInv, TypeOK
    <3>2. req'[r].pc = "enrolled" /\ req'[r].key = k /\ req'[r].name = n
      BY <1>1, <2>1 DEF IInv, TypeOK, Request
    <3>3. ASSUME NEW q \in Requests \ {r}, req[q].pc = "enrolled"
          PROVE  req[q].key # k /\ req[q].name # n
      BY <1>2, <3>3 DEF IInv, HonestReplies, Free
    <3>4. ASSUME NEW q \in Requests
          PROVE  /\ req'[q].pc \in {"accepted", "exists", "enrolled"} => req'[q].key \in enrolled'
                 /\ req'[q].pc = "enrolled" => req'[q].name \in taken'
                 /\ req'[q].pc = "error" => req'[q].key \in enrolled' \/ req'[q].name \in taken'
      <4>1. CASE q = r
        BY <1>1, <2>1, <3>2, <4>1
      <4>2. CASE q # r
        BY <2>1, <3>1, <4>2 DEF IInv, HonestReplies
      <4> QED
        BY <4>1, <4>2
    <3>5. ASSUME NEW p \in Requests, NEW q \in Requests \ {p},
                 req'[p].pc = "enrolled", req'[q].pc = "enrolled"
          PROVE  req'[q].key # req'[p].key /\ req'[q].name # req'[p].name
      <4>1. CASE p = r
        BY <3>1, <3>2, <3>3, <3>5, <4>1
      <4>2. CASE q = r
        BY <3>1, <3>2, <3>3, <3>5, <4>2
      <4>3. CASE p # r /\ q # r
        BY <3>1, <3>5, <4>3 DEF IInv, HonestReplies
      <4> QED
        BY <4>1, <4>2, <4>3
    <3> QED
      BY <3>4, <3>5 DEF HonestReplies
  <2> QED
    BY <2>2, <2>3, <2>4, <2>5 DEF IInv
<1>3. CASE ~Free(k, n)
  <2>1. /\ req' = [req EXCEPT ![r].pc = "error"]
        /\ UNCHANGED <<enrolled, taken, since, cache>>
    BY <1>3 DEF Insert
  <2>2. TypeOK'
    BY <1>1, <2>1 DEF IInv, TypeOK, Request, Replies
  <2>3. KeptTrue' /\ AgesBounded'
    BY <2>1 DEF IInv, KeptTrue, AgesBounded
  <2>4. HeldTrue'
    BY <1>1, <2>1 DEF IInv, TypeOK, HeldTrue, Request
  <2>5. HonestReplies'
    BY <1>1, <1>3, <2>1
       DEF IInv, TypeOK, HonestReplies, Request, Free
  <2> QED
    BY <2>2, <2>3, <2>4, <2>5 DEF IInv
<1> QED
  BY <1>2, <1>3

LEMMA RestartIInv ==
    ASSUME IInv, NEW p \in Processes, Restart(p)
    PROVE  IInv'
<1> USE ApiKeysAssumption DEF Restart
<1>1. TypeOK'
  BY DEF IInv, TypeOK, Entry, Nothing
<1>2. KeptTrue' /\ AgesBounded'
  BY DEF IInv, TypeOK, KeptTrue, AgesBounded, Nothing
<1>3. \A r \in Requests : req'[r] = Idle \/ req'[r] = req[r]
  BY DEF IInv, TypeOK
<1>4. HeldTrue' /\ HonestReplies'
  BY <1>3 DEF IInv, HeldTrue, HonestReplies, Idle
<1> QED
  BY <1>1, <1>2, <1>4 DEF IInv

-----------------------------------------------------------------------------
(* Time: what is kept ages with the time since its key was enrolled. *)

LEMMA TickIInv ==
    ASSUME IInv, Tick
    PROVE  IInv'
<1> USE ApiKeysAssumption
<1>1. UNCHANGED <<enrolled, taken>>
  BY DEF Tick
<1>2. ASSUME NEW k \in Keys
      PROVE  /\ since'[k] \in Nat
             /\ since'[k] <= since[k] + 1
             /\ since'[k] <= QueryTime + Duration + 1
  <2>1. since'[k] = IF k \in enrolled THEN Older(since[k], QueryTime + Duration) ELSE 0
    BY DEF Tick
  <2>2. since[k] \in Nat /\ since[k] <= QueryTime + Duration + 1
    BY DEF IInv, TypeOK, AgesBounded
  <2>3. QueryTime + Duration \in Nat
    OBVIOUS
  <2>4. /\ Older(since[k], QueryTime + Duration) \in Nat
        /\ Older(since[k], QueryTime + Duration) <= since[k] + 1
        /\ Older(since[k], QueryTime + Duration) <= QueryTime + Duration + 1
    BY <2>2, <2>3, OlderType
  <2> QED
    BY <2>1, <2>2, <2>4
<1>3. ASSUME NEW p \in Processes, NEW k \in Keys
      PROVE  /\ cache'[p][k] \in Entry
             /\ cache'[p][k].answer = cache[p][k].answer
             /\ cache[p][k].age \in Nat /\ cache'[p][k].age \in Nat
             /\ cache[p][k] # Nothing =>
                   cache'[p][k].age = cache[p][k].age + 1 \/ cache'[p][k].age > Duration
  <2>1. cache'[p][k] = IF cache[p][k] = Nothing THEN Nothing
                       ELSE [cache[p][k] EXCEPT !.age = Older(@, Duration)]
    BY DEF Tick
  <2>2. cache[p][k] \in Entry
    BY DEF IInv, TypeOK
  <2>3. CASE cache[p][k] = Nothing
    BY <2>1, <2>3 DEF Nothing, Entry
  <2>4. CASE cache[p][k] # Nothing
    <3>1. cache[p][k] \in [answer : Answers, age : Nat]
      BY <2>2, <2>4 DEF Entry
    <3>2. cache'[p][k] = [cache[p][k] EXCEPT !.age = Older(cache[p][k].age, Duration)]
      BY <2>1, <2>4
    <3>3. /\ Older(cache[p][k].age, Duration) \in Nat
          /\ cache[p][k].age <= Older(cache[p][k].age, Duration)
          /\ cache[p][k].age <= Duration =>
                Older(cache[p][k].age, Duration) = cache[p][k].age + 1
      BY <3>1, OlderType
    <3>4. /\ cache'[p][k] \in [answer : Answers, age : Nat]
          /\ cache'[p][k].answer = cache[p][k].answer
          /\ cache'[p][k].age = Older(cache[p][k].age, Duration)
          /\ cache[p][k].age \in Nat
      BY <3>1, <3>2, <3>3
    <3> QED
      BY <3>3, <3>4 DEF Entry
  <2> QED
    BY <2>3, <2>4
<1>4. ASSUME NEW r \in Requests
      PROVE  req'[r] = IF Storing(r) THEN [req[r] EXCEPT !.age = @ + 1] ELSE req[r]
  BY DEF Tick
<1>5. TypeOK'
  <2>1. since' \in [Keys -> Nat]
    BY <1>2 DEF Tick
  <2>2. cache' \in [Processes -> [Keys -> Entry]]
    BY <1>3 DEF Tick
  <2>3. req' \in [Requests -> Request \cup {Idle}]
    <3>1. ASSUME NEW r \in Requests
          PROVE  req'[r] \in Request \cup {Idle}
      <4>1. CASE Storing(r)
        <5>1. req[r] \in Request
          BY <4>1, NotIdle DEF IInv, Storing
        <5>2. req'[r] = [req[r] EXCEPT !.age = req[r].age + 1]
          BY <1>4, <4>1
        <5>3. [req[r] EXCEPT !.age = req[r].age + 1] \in Request
          BY <5>1 DEF Request
        <5> QED
          BY <5>2, <5>3
      <4>2. CASE ~Storing(r)
        BY <1>4, <4>2 DEF IInv, TypeOK
      <4> QED
        BY <4>1, <4>2
    <3> QED
      BY <3>1 DEF Tick
  <2> QED
    BY <1>1, <2>1, <2>2, <2>3 DEF IInv, TypeOK
<1>6. AgesBounded'
  BY <1>2 DEF AgesBounded
<1>7. KeptTrue'
  <2> SUFFICES ASSUME NEW p \in Processes, NEW k \in Keys
               PROVE  /\ cache'[p][k].answer = "key" => k \in enrolled
                      /\ cache'[p][k].answer = "none" /\ k \in enrolled
                            => since'[k] <= cache'[p][k].age + QueryTime
    BY <1>1 DEF KeptTrue
  <2>1. cache'[p][k].answer = "key" => k \in enrolled
    BY <1>3 DEF IInv, KeptTrue
  <2>2. ASSUME cache'[p][k].answer = "none", k \in enrolled
        PROVE  since'[k] <= cache'[p][k].age + QueryTime
    <3>1. since[k] <= cache[p][k].age + QueryTime /\ cache[p][k] # Nothing
      BY <1>3, <2>2 DEF IInv, KeptTrue, Nothing
    <3>2. since[k] \in Nat
      BY DEF IInv, TypeOK
    <3> QED
      BY <1>2, <1>3, <3>1, <3>2
  <2> QED
    BY <2>1, <2>2
<1>8. HeldTrue'
  <2> SUFFICES ASSUME NEW r \in Requests
               PROVE  /\ req'[r].pc \in {"cache", "query"} => req'[r].age = 0
                      /\ req'[r].pc = "store" =>
                            /\ req'[r].age <= QueryTime
                            /\ req'[r].answer = "key" => req'[r].key \in enrolled
                            /\ req'[r].answer = "none" /\ req'[r].key \in enrolled
                                  => since'[req'[r].key] <= req'[r].age
    BY <1>1 DEF HeldTrue
  <2>1. CASE ~Storing(r)
    BY <1>4, <2>1 DEF IInv, HeldTrue, Storing
  <2>2. CASE Storing(r)
    <3>1. req[r] \in Request
      BY <2>2, NotIdle DEF IInv, Storing
    <3>2. /\ req'[r].pc = "store" /\ req'[r].age = req[r].age + 1
          /\ req'[r].answer = req[r].answer /\ req'[r].key = req[r].key
          /\ req[r].key \in Keys /\ req[r].age \in Nat
      BY <1>4, <2>2, <3>1 DEF Request, Storing
    <3>3. req[r].age < QueryTime
      BY <2>2 DEF Tick
    <3>4. since[req[r].key] \in Nat
      BY <3>2 DEF IInv, TypeOK
    <3> QED
      BY <1>2, <2>2, <3>2, <3>3, <3>4 DEF IInv, HeldTrue, Storing
  <2> QED
    BY <2>1, <2>2
<1>9. HonestReplies'
  <2>1. ASSUME NEW r \in Requests, req'[r].pc \in Replies
        PROVE  req'[r] = req[r]
    <3>1. CASE Storing(r)
      <4>1. req[r] \in Request
        BY <3>1, NotIdle DEF IInv, Storing
      <4>2. req'[r].pc = "store"
        BY <1>4, <3>1, <4>1 DEF Storing, Request
      <4> QED
        BY <2>1, <4>2 DEF Replies
    <3> QED
      BY <1>4, <3>1
  <2> QED
    BY <1>1, <2>1 DEF IInv, HonestReplies, Replies
<1> QED
  BY <1>5, <1>6, <1>7, <1>8, <1>9 DEF IInv

-----------------------------------------------------------------------------
LEMMA NextIInv == IInv /\ [Next]_vars => IInv'
<1> SUFFICES ASSUME IInv, [Next]_vars PROVE IInv'
  OBVIOUS
<1>1. ASSUME NEW r \in Requests, RequestStep(r) PROVE IInv'
  BY <1>1, GetFromCacheIInv, QueryIInv, StoreInCacheIInv, InsertIInv, RespondIInv
     DEF RequestStep
<1>2. CASE UNCHANGED vars
  BY <1>2 DEF IInv, TypeOK, KeptTrue, HeldTrue, AgesBounded, HonestReplies, vars
<1> QED
  BY <1>1, <1>2, StartIInv, TickIInv, RestartIInv DEF Next

LEMMA Inductive == Spec => []IInv
BY InitIInv, NextIInv, PTL DEF Spec

\* Every answer that is kept, on its way or told is one the database may give.
THEOREM TypeCorrect == Spec => []TypeOK
BY Inductive, PTL DEF IInv

\* Whatever is kept where, a request passes, and is told "Key exists.", only with a key
\* that is in the table; and of all the requests that saw that a key or a name was free
\* one at most is told that it is enrolled.
THEOREM RepliesHonest == Spec => []HonestReplies
BY Inductive, PTL DEF IInv

-----------------------------------------------------------------------------
(* What a step makes "refused" is a kept answer or one just fetched. *)

LEMMA RefusedStep ==
    ASSUME IInv, [Next]_vars, NEW r \in Requests,
           req[r].pc # "refused", req'[r].pc = "refused", req[r].key \in enrolled
    PROVE  since[req[r].key] <= QueryTime + Duration
<1> USE ApiKeysAssumption
<1>1. ASSUME GetFromCache(r)
      PROVE  since[req[r].key] <= QueryTime + Duration
  <2>1. req[r] \in Request
    BY <1>1, NotIdle DEF IInv, GetFromCache
  <2>2. Kept(r) \in Entry /\ since[req[r].key] \in Nat
    BY <2>1 DEF IInv, TypeOK, Kept, Request
  <2>3. Fresh(Kept(r)) /\ Decided(r, Kept(r).answer) = "refused"
    BY <1>1, <2>1 DEF GetFromCache, IInv, TypeOK, Request
  <2>4. Kept(r) \in [answer : Answers, age : Nat] /\ Kept(r).age <= Duration
    BY <2>2, <2>3 DEF Fresh, Entry
  <2>5. Kept(r).answer = "none"
    BY <2>1, <2>3, <2>4, DecidedType
  <2>6. since[req[r].key] <= Kept(r).age + QueryTime
    BY <2>1, <2>5 DEF IInv, KeptTrue, Kept, Request
  <2> QED
    BY <2>2, <2>4, <2>6
<1>2. ASSUME StoreInCache(r)
      PROVE  since[req[r].key] <= QueryTime + Duration
  <2>1. req[r] \in Request /\ req[r].pc = "store"
    BY <1>2, NotIdle DEF IInv, StoreInCache
  <2>2. Decided(r, req[r].answer) = "refused"
    BY <1>2, <2>1 DEF StoreInCache, IInv, TypeOK, Request
  <2>3. req[r].answer = "none"
    BY <2>1, <2>2, DecidedType DEF Request
  <2>4. since[req[r].key] \in Nat /\ req[r].age \in Nat
    BY <2>1 DEF IInv, TypeOK, Request
  <2>5. since[req[r].key] <= req[r].age /\ req[r].age <= QueryTime
    BY <2>1, <2>3 DEF IInv, HeldTrue
  <2> QED
    BY <2>4, <2>5
<1>3. ASSUME NEW q \in Requests, q # r, Start(q) \/ RequestStep(q)
      PROVE  req'[r] = req[r]
  BY <1>3 DEF IInv, TypeOK, Start, RequestStep, GetFromCache, Query, StoreInCache,
              Insert, Respond
<1>4. ASSUME Start(r) \/ Query(r) \/ Insert(r) \/ Respond(r)
      PROVE  req'[r].pc # "refused"
  <2>1. CASE Start(r)
    BY <2>1 DEF Start, IInv, TypeOK
  <2>2. CASE Query(r)
    BY <2>2, NotIdle DEF Query, IInv, TypeOK, Request
  <2>3. CASE Insert(r)
    BY <2>3, NotIdle DEF Insert, IInv, TypeOK, Request
  <2>4. CASE Respond(r)
    BY <2>4 DEF Respond, IInv, TypeOK, Idle
  <2> QED
    BY <1>4, <2>1, <2>2, <2>3, <2>4
<1>5. ASSUME Tick \/ \E p \in Processes : Restart(p)
      PROVE  req'[r].pc \in {req[r].pc, "store", "idle"}
  <2>1. CASE Tick
    <3>1. CASE Storing(r)
      <4>1. req[r] \in Request
        BY <3>1, NotIdle DEF IInv, Storing
      <4> QED
        BY <2>1, <3>1, <4>1 DEF Tick, Request, Storing
    <3>2. CASE ~Storing(r)
      BY <2>1, <3>2 DEF Tick
    <3> QED
      BY <3>1, <3>2
  <2>2. CASE \E p \in Processes : Restart(p)
    BY <2>2 DEF Restart, Idle
  <2> QED
    BY <1>5, <2>1, <2>2
<1>6. CASE UNCHANGED vars
  BY <1>6 DEF vars
<1> QED
  BY <1>1, <1>2, <1>3, <1>4, <1>5, <1>6 DEF Next, RequestStep

\* A key in the table is refused for at most the time that an answer takes and is
\* kept, whatever processes ask for it meanwhile.
THEOREM RefusalsEnd == Spec => RefusedOnlyWhileKept
<1>1. IInv /\ [Next]_vars =>
         [\A r \in Requests :
             req[r].pc # "refused" /\ req'[r].pc = "refused" /\ req[r].key \in enrolled
                 => since[req[r].key] <= QueryTime + Duration]_vars
  BY RefusedStep
<1> QED
  BY <1>1, Inductive, PTL DEF Spec, RefusedOnlyWhileKept
=============================================================================

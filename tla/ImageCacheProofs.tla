--------------------------- MODULE ImageCacheProofs ---------------------------
(***************************************************************************)
(* Proofs about ImageCache, for any number of paths, requests and entries  *)
(* and any time limits: the Map stays within its limit, and no answer is   *)
(* older than the time to live and one fetch.                              *)
(***************************************************************************)
EXTENDS ImageCache, SequenceTheorems, TLAPS

\* Time spent by a fetch and age of its data go together, and so do the time
\* an entry has left and its age.
AgesBounded ==
  /\ \A k \in DOMAIN cache : cache[k].age + cache[k].left <= TTL + FetchLimit
  /\ \A r \in Requests :
       req[r].pc \in {"waiting", "reading"} => req[r].age <= req[r].spent

IInv == TypeOK /\ CacheBounded /\ AnswersRecent /\ AgesBounded

-----------------------------------------------------------------------------
(* Sequences.                                                              *)

\* A sequence is a function on the numbers up to its length.
LEMMA SeqFacts ==
  ASSUME NEW S, NEW s \in Seq(S)
  PROVE  Len(s) \in Nat /\ DOMAIN s = 1..Len(s) /\ s \in [1..Len(s) -> S]
  BY LenProperties

\* A function over a sequence's positions is a sequence of its length.
LEMMA SamePositions ==
  ASSUME NEW S, NEW n \in Nat, NEW f \in [1..n -> S]
  PROVE  f \in Seq(S) /\ Len(f) = n /\ DOMAIN f = 1..n
<1>1. f \in Seq(S)
  BY SeqDef
<1>2. DOMAIN f = 1..n /\ DOMAIN f = 1..Len(f) /\ Len(f) \in Nat
  BY <1>1, LenProperties
<1> QED
  BY <1>1, <1>2

distinct(s) == \A j, k \in DOMAIN s : s[j].path = s[k].path => j = k

\* cache.set before the eviction: the paths stay distinct, and there is at most
\* one entry too many.
LEMMA SetType ==
  ASSUME TypeOK, CacheBounded, NEW e \in Entry
  PROVE  /\ set(e) \in Seq(Entry) /\ distinct(set(e)) /\ Len(set(e)) <= CacheLimit + 1
         /\ \A k \in DOMAIN set(e) : set(e)[k] = e \/ \E j \in DOMAIN cache : set(e)[k] = cache[j]
<1>1. /\ cache \in Seq(Entry) /\ distinct(cache) /\ Len(cache) <= CacheLimit
      /\ Len(cache) \in Nat /\ DOMAIN cache = 1..Len(cache)
      /\ \A k \in 1..Len(cache) : cache[k] \in Entry
  BY SeqFacts DEF TypeOK, CacheBounded, distinct
<1>2. CASE \E k \in DOMAIN cache : cache[k].path = e.path
  <2> DEFINE f == [k \in DOMAIN cache |-> IF cache[k].path = e.path THEN e ELSE cache[k]]
  <2>1. set(e) = f
    BY <1>2 DEF set
  <2>2. f \in [1..Len(cache) -> Entry]
    BY <1>1
  <2>3. f \in Seq(Entry) /\ Len(f) = Len(cache) /\ DOMAIN f = 1..Len(cache)
    BY <1>1, <2>2, SamePositions
  <2>4. \A k \in DOMAIN f : f[k].path = cache[k].path
    BY <1>1
  <2>5. distinct(f)
    BY <1>1, <2>3, <2>4 DEF distinct
  <2>6. \A k \in DOMAIN f : f[k] = e \/ \E j \in DOMAIN cache : f[k] = cache[j]
    OBVIOUS
  <2> HIDE DEF f
  <2> QED
    BY <1>1, <2>1, <2>3, <2>5, <2>6, CacheAssumption
<1>3. CASE ~ \E k \in DOMAIN cache : cache[k].path = e.path
  <2> DEFINE f == Append(cache, e)
  <2>1. set(e) = f
    BY <1>3 DEF set
  <2>2. /\ f \in Seq(Entry) /\ Len(f) = Len(cache) + 1 /\ f[Len(cache) + 1] = e
        /\ \A k \in 1..Len(cache) : f[k] = cache[k]
    BY <1>1
  <2>3. DOMAIN f = 1..(Len(cache) + 1)
    BY <2>2, SeqFacts
  <2> HIDE DEF f
  <2>4. distinct(f)
    BY <1>1, <1>3, <2>2, <2>3 DEF distinct
  <2> QED
    BY <1>1, <2>1, <2>2, <2>3, <2>4, CacheAssumption
<1> QED
  BY <1>2, <1>3

\* The eviction removes that one and changes no other.
LEMMA EvictType ==
  ASSUME NEW s \in Seq(Entry), distinct(s), Len(s) <= CacheLimit + 1
  PROVE  /\ evict(s) \in Seq(Entry) /\ distinct(evict(s)) /\ Len(evict(s)) <= CacheLimit
         /\ \A k \in DOMAIN evict(s) : \E j \in DOMAIN s : evict(s)[k] = s[j]
<1>1. Len(s) \in Nat /\ DOMAIN s = 1..Len(s)
  BY SeqFacts
<1>2. CASE Len(s) > CacheLimit
  <2> DEFINE t == Tail(s)
  <2>1. evict(s) = t
    BY <1>2 DEF evict
  <2>2. /\ t \in Seq(Entry) /\ Len(t) = Len(s) - 1
        /\ \A k \in 1..(Len(s) - 1) : t[k] = s[k + 1]
    BY <1>1, <1>2, CacheAssumption
  <2>3. DOMAIN t = 1..(Len(s) - 1)
    BY <2>2, SeqFacts
  <2> HIDE DEF t
  <2>4. distinct(t)
    BY <1>1, <2>2, <2>3 DEF distinct
  <2> QED
    BY <1>1, <2>1, <2>2, <2>3, <2>4, CacheAssumption
<1>3. CASE ~(Len(s) > CacheLimit)
  BY <1>1, <1>3, CacheAssumption DEF evict
<1> QED
  BY <1>2, <1>3

-----------------------------------------------------------------------------
(* The steps.                                                              *)

\* A request that has not been made has the type of one.
LEMMA NoRequestType ==
  NoRequest \in Request /\ NoRequest.pc = "idle" /\ NoRequest.age = 0 /\ NoRequest.spent = 0
<1>1. PICK p : p = (CHOOSE x \in Paths : TRUE) /\ p \in Paths
  BY CacheAssumption
<1>2. 0 \in 0..FetchLimit /\ 0 \in 0..(TTL + FetchLimit)
  BY CacheAssumption
<1>3. NoRequest = [pc |-> "idle", kind |-> "search", path |-> p, status |-> "ok",
                   code |-> 0, spent |-> 0, age |-> 0]
  BY <1>1 DEF NoRequest
<1> QED
  BY <1>1, <1>2, <1>3 DEF Request, Status

\* The cache of a process that has just started.
LEMMA InitInv == Init => IInv
<1> SUFFICES ASSUME Init PROVE IInv
  OBVIOUS
<1>1. cache \in Seq(Entry) /\ Len(cache) = 0 /\ DOMAIN cache = {}
  BY DEF Init
<1>2. \A r \in Requests : req[r] = NoRequest
  BY DEF Init
<1>3. TypeOK /\ CacheBounded
  BY <1>1, NoRequestType, CacheAssumption DEF Init, TypeOK, CacheBounded
<1>4. AnswersRecent /\ AgesBounded
  BY <1>1, <1>2, NoRequestType DEF AnswersRecent, AgesBounded
<1> QED
  BY <1>3, <1>4 DEF IInv

\* An answer of the right age keeps the invariant.
LEMMA AnsweredType ==
  ASSUME NEW code \in {0, 200, 404, 502}, NEW age \in Nat, age < TTL + FetchLimit
  PROVE  /\ answered(code, age) \in Request
         /\ answered(code, age).pc = "done" /\ answered(code, age).age = age
<1>1. age \in 0..(TTL + FetchLimit)
  BY CacheAssumption
<1> QED
  BY <1>1, NoRequestType DEF answered, Request

\* The statuses that the proxy's routes answer with.
LEMMA ReplyType ==
  ASSUME NEW kind, NEW status, NEW body
  PROVE  reply(kind, status, body) \in {0, 200, 404, 502}
  BY DEF reply

\* Where one request changes and the cache does not.
LEMMA RequestOnly ==
  ASSUME IInv, NEW r \in Requests, NEW q \in Request,
         req' = [req EXCEPT ![r] = q], cache' = cache,
         q.pc = "done" => q.age < TTL + FetchLimit,
         q.pc \in {"waiting", "reading"} => q.age <= q.spent
  PROVE  IInv'
  BY DEF IInv, TypeOK, CacheBounded, AnswersRecent, AgesBounded

\* A request that arrives is answered from the cache or goes to Docker Hub.
LEMMA AskInv ==
  ASSUME IInv, NEW r \in Requests, NEW p \in Paths, NEW kind \in {"search", "lookup"},
         Hit(r, p, kind) \/ Miss(r, p, kind)
  PROVE  IInv'
<1>1. CASE Hit(r, p, kind)
  <2>1. PICK k \in DOMAIN cache :
          /\ fresh(cache[k], p)
          /\ req' = [req EXCEPT ![r] =
                       answered(reply(kind, cache[k].status, cache[k].body), cache[k].age)]
    BY <1>1 DEF Hit
  <2>2. cache[k] \in Entry /\ cache[k].age + cache[k].left <= TTL + FetchLimit
    BY SeqFacts DEF IInv, TypeOK, AgesBounded
  <2>3. cache[k].age \in Nat /\ cache[k].age < TTL + FetchLimit
    BY <2>1, <2>2, CacheAssumption DEF fresh, Entry
  <2> DEFINE q == answered(reply(kind, cache[k].status, cache[k].body), cache[k].age)
  <2>4. q \in Request /\ q.pc = "done" /\ q.age = cache[k].age
    BY <2>3, ReplyType, AnsweredType
  <2>5. cache' = cache
    BY <1>1 DEF Hit
  <2> HIDE DEF q
  <2>6. req' = [req EXCEPT ![r] = q]
    BY <2>1 DEF q
  <2> QED
    BY <2>3, <2>4, <2>5, <2>6, RequestOnly
<1>2. CASE Miss(r, p, kind)
  <2> DEFINE q == [NoRequest EXCEPT !.pc = "waiting", !.path = p, !.kind = kind]
  <2>1. q \in Request /\ q.pc = "waiting" /\ q.age = 0 /\ q.spent = 0
    BY NoRequestType DEF Request
  <2>2. cache' = cache /\ req' = [req EXCEPT ![r] = q]
    BY <1>2 DEF Miss
  <2> HIDE DEF q
  <2>3. q.age <= q.spent /\ q.pc # "done"
    BY <2>1
  <2> QED
    BY <2>1, <2>2, <2>3, RequestOnly
<1> QED
  BY <1>1, <1>2

\* A response that is stored is no older than the fetch took.
LEMMA StoreInv ==
  ASSUME IInv, NEW r \in Requests, NEW status \in Status, NEW body \in BOOLEAN,
         NEW age \in 0..FetchLimit, store(r, status, body, age)
  PROVE  IInv'
<1> DEFINE e == [path |-> req[r].path, status |-> status, body |-> body,
                 left |-> TTL, age |-> age]
           q == answered(reply(req[r].kind, status, body), age)
<1>1. e \in Entry /\ e.age + e.left <= TTL + FetchLimit
  BY CacheAssumption DEF IInv, TypeOK, Request, Entry
<1>2. age \in Nat /\ age < TTL + FetchLimit
  BY CacheAssumption
<1>3. q \in Request /\ q.pc = "done" /\ q.age = age
  BY <1>2, ReplyType, AnsweredType
<1>4. cache' = evict(set(e)) /\ req' = [req EXCEPT ![r] = q]
  BY DEF store
<1> HIDE DEF e, q
<1>5. /\ set(e) \in Seq(Entry) /\ distinct(set(e)) /\ Len(set(e)) <= CacheLimit + 1
      /\ \A k \in DOMAIN set(e) : set(e)[k] = e \/ \E j \in DOMAIN cache : set(e)[k] = cache[j]
  BY <1>1, SetType DEF IInv
<1>6. /\ cache' \in Seq(Entry) /\ distinct(cache') /\ Len(cache') <= CacheLimit
      /\ \A k \in DOMAIN cache' : \E j \in DOMAIN set(e) : cache'[k] = set(e)[j]
  BY <1>4, <1>5, EvictType
<1>7. \A k \in DOMAIN cache' : cache'[k].age + cache'[k].left <= TTL + FetchLimit
  BY <1>1, <1>5, <1>6 DEF IInv, AgesBounded
<1>8. TypeOK' /\ CacheBounded'
  BY <1>3, <1>4, <1>6 DEF IInv, TypeOK, CacheBounded, distinct
<1>9. AnswersRecent' /\ AgesBounded'
  BY <1>2, <1>3, <1>4, <1>7 DEF IInv, TypeOK, AnswersRecent, AgesBounded
<1> QED
  BY <1>8, <1>9 DEF IInv

\* A failed fetch is answered with 502 and leaves the cache alone.
LEMMA FailInv ==
  ASSUME IInv, NEW r \in Requests, fail(r)
  PROVE  IInv'
<1> DEFINE q == answered(502, 0)
<1>1. 0 < TTL + FetchLimit
  BY CacheAssumption
<1>2. q \in Request /\ q.pc = "done" /\ q.age = 0
  BY <1>1, AnsweredType
<1>3. req' = [req EXCEPT ![r] = q] /\ cache' = cache
  BY DEF fail
<1> HIDE DEF q
<1> QED
  BY <1>1, <1>2, <1>3, RequestOnly

\* What Docker Hub answers, or fails to answer before the timer ends it.
LEMMA HubInv ==
  ASSUME IInv, NEW r \in Requests, Hub(r) \/ Abort(r)
  PROVE  IInv'
<1>1. req[r] \in Request /\ (req[r].pc \in {"waiting", "reading"} => req[r].age <= req[r].spent)
  BY DEF IInv, TypeOK, AgesBounded
<1>2. ASSUME NEW body \in BOOLEAN, BodyEnds(r, body)
      PROVE  IInv'
  <2>1. req[r].age \in 0..FetchLimit /\ req[r].status \in Status
    BY <1>1, <1>2, CacheAssumption DEF BodyEnds, Request
  <2> QED
    BY <1>2, <2>1, StoreInv DEF BodyEnds
<1>3. ASSUME FetchFails(r)
      PROVE  IInv'
  BY <1>3, FailInv DEF FetchFails
<1>4. ASSUME NEW status \in Status, HubAnswers(r, status)
      PROVE  IInv'
  <2>1. CASE status = "missing"
    <3>1. 0 \in 0..FetchLimit /\ FALSE \in BOOLEAN
      BY CacheAssumption
    <3> QED
      BY <1>4, <2>1, <3>1, StoreInv DEF HubAnswers
  <2>2. CASE status # "missing"
    <3> DEFINE q == [req[r] EXCEPT !.pc = "reading", !.status = status]
    <3>1. q \in Request /\ q.pc = "reading" /\ q.age <= q.spent
      BY <1>1, <1>4 DEF HubAnswers, Request
    <3>2. cache' = cache /\ req' = [req EXCEPT ![r] = q]
      BY <1>4, <2>2 DEF HubAnswers, IInv, TypeOK
    <3> HIDE DEF q
    <3> QED
      BY <3>1, <3>2, RequestOnly
  <2> QED
    BY <2>1, <2>2
<1>5. CASE Abort(r)
  BY <1>2, <1>3, <1>5 DEF Abort
<1>6. CASE Hub(r)
  BY <1>2, <1>3, <1>4, <1>6 DEF Hub
<1> QED
  BY <1>5, <1>6

\* A tick leaves a request with time left a request, no older than its fetch.
LEMMA AgeingBounded ==
  ASSUME NEW q \in Request,
         fetching(q) => q.spent < FetchLimit /\ q.age <= q.spent,
         q.pc = "done" => q.age < TTL + FetchLimit
  PROVE  /\ ageing(q) \in Request
         /\ ageing(q).pc \in {"waiting", "reading"} => ageing(q).age <= ageing(q).spent
         /\ ageing(q).pc = "done" => ageing(q).age < TTL + FetchLimit
<1>1. CASE q.pc = "waiting"
  <2>1. ageing(q) = [q EXCEPT !.spent = q.spent + 1]
    BY <1>1 DEF ageing
  <2>2. q.spent + 1 \in 0..FetchLimit /\ q.age <= q.spent + 1
    BY <1>1, CacheAssumption DEF Request, fetching
  <2> QED
    BY <1>1, <2>1, <2>2 DEF Request
<1>2. CASE q.pc = "reading"
  <2>1. ageing(q) = [[q EXCEPT !.spent = q.spent + 1] EXCEPT !.age = q.age + 1]
    BY <1>2 DEF ageing, Request
  <2>2. /\ q.spent + 1 \in 0..FetchLimit /\ q.age + 1 <= q.spent + 1
        /\ q.age + 1 \in 0..(TTL + FetchLimit)
    BY <1>2, CacheAssumption DEF Request, fetching
  <2>3. PICK s \in 0..FetchLimit, a \in 0..(TTL + FetchLimit) : s = q.spent + 1 /\ a = q.age + 1
    BY <2>2
  <2>4. ageing(q) = [[q EXCEPT !.spent = s] EXCEPT !.age = a]
    BY <2>1, <2>3
  <2>5. ageing(q) \in Request /\ ageing(q).pc = "reading" /\ ageing(q).spent = s
        /\ ageing(q).age = a
    <3>1. /\ [q EXCEPT !.spent = s] \in Request
          /\ [q EXCEPT !.spent = s].pc = q.pc /\ [q EXCEPT !.spent = s].spent = s
      BY DEF Request
    <3>2. PICK n \in Request : n = [q EXCEPT !.spent = s] /\ n.pc = q.pc /\ n.spent = s
      BY <3>1
    <3>3. ageing(q) = [n EXCEPT !.age = a]
      BY <2>4, <3>2
    <3>4. /\ [n EXCEPT !.age = a] \in Request
          /\ [n EXCEPT !.age = a].pc = n.pc /\ [n EXCEPT !.age = a].spent = n.spent
          /\ [n EXCEPT !.age = a].age = a
      BY DEF Request
    <3> QED
      BY <1>2, <3>2, <3>3, <3>4
  <2> QED
    BY <2>2, <2>3, <2>5
<1>3. CASE q.pc \notin {"waiting", "reading"}
  BY <1>3 DEF ageing
<1> QED
  BY <1>1, <1>2, <1>3

\* Time passes for all entries and all fetches at once.
LEMMA TickInv ==
  ASSUME IInv, Tick
  PROVE  IInv'
<1>1. /\ cache \in Seq(Entry) /\ distinct(cache) /\ Len(cache) <= CacheLimit
      /\ Len(cache) \in Nat /\ DOMAIN cache = 1..Len(cache)
      /\ \A k \in 1..Len(cache) : cache[k] \in Entry
      /\ \A k \in DOMAIN cache : cache[k].age + cache[k].left <= TTL + FetchLimit
  BY SeqFacts DEF IInv, TypeOK, CacheBounded, AgesBounded, distinct
<1>2. ASSUME NEW e \in Entry, e.age + e.left <= TTL + FetchLimit
      PROVE  /\ older(e) \in Entry /\ older(e).path = e.path
             /\ older(e).age + older(e).left <= TTL + FetchLimit
  <2>1. CASE e.left = 0
    BY <1>2, <2>1 DEF older
  <2>2. CASE e.left # 0
    <3>1. older(e) = [e EXCEPT !.left = @ - 1, !.age = @ + 1]
      BY <2>2 DEF older
    <3>2. /\ e.left - 1 \in 0..TTL /\ e.age + 1 \in 0..(TTL + FetchLimit)
          /\ (e.age + 1) + (e.left - 1) <= TTL + FetchLimit
      BY <1>2, <2>2, CacheAssumption DEF Entry
    <3> QED
      BY <3>1, <3>2 DEF Entry
  <2> QED
    BY <2>1, <2>2
<1>3. cache' = [k \in 1..Len(cache) |-> older(cache[k])]
  BY <1>1 DEF Tick
<1>4. cache' \in [1..Len(cache) -> Entry]
  BY <1>1, <1>2, <1>3
<1>5. cache' \in Seq(Entry) /\ Len(cache') = Len(cache) /\ DOMAIN cache' = 1..Len(cache)
  BY <1>1, <1>4, SamePositions
<1>6. \A k \in 1..Len(cache) : cache'[k].path = cache[k].path
                               /\ cache'[k].age + cache'[k].left <= TTL + FetchLimit
  BY <1>1, <1>2, <1>3
<1>7. ASSUME NEW r \in Requests
      PROVE  /\ req'[r] \in Request
             /\ req'[r].pc \in {"waiting", "reading"} => req'[r].age <= req'[r].spent
             /\ req'[r].pc = "done" => req'[r].age < TTL + FetchLimit
  <2>1. /\ req[r] \in Request
        /\ fetching(req[r]) => req[r].spent < FetchLimit /\ req[r].age <= req[r].spent
        /\ req[r].pc = "done" => req[r].age < TTL + FetchLimit
    BY DEF IInv, TypeOK, Tick, AgesBounded, AnswersRecent, fetching
  <2>2. req'[r] = ageing(req[r])
    BY DEF Tick
  <2> QED
    BY <2>1, <2>2, AgeingBounded
<1>8. req' \in [Requests -> Request]
  BY <1>7 DEF Tick
<1>9. TypeOK' /\ CacheBounded'
  BY <1>1, <1>5, <1>6, <1>8 DEF TypeOK, CacheBounded, distinct
<1>10. AnswersRecent' /\ AgesBounded'
  BY <1>5, <1>6, <1>7 DEF AnswersRecent, AgesBounded
<1> QED
  BY <1>9, <1>10 DEF IInv

\* The inductive invariant holds in every reachable state of the proxy.
LEMMA Invariance == Spec => []IInv
<1>1. IInv /\ [Next]_vars => IInv'
  <2> SUFFICES ASSUME IInv, [Next]_vars PROVE IInv'
    OBVIOUS
  <2>1. CASE \E r \in Requests : Ask(r) \/ Hub(r) \/ Abort(r)
    BY <2>1, AskInv, HubInv DEF Ask
  <2>2. CASE Tick
    BY <2>2, TickInv
  <2>3. CASE UNCHANGED vars
    BY <2>3 DEF vars, IInv, TypeOK, CacheBounded, AnswersRecent, AgesBounded
  <2> QED
    BY <2>1, <2>2, <2>3 DEF Next
<1> QED
  BY <1>1, InitInv, PTL DEF Spec

\* Types are kept; no key gets a second entry.
THEOREM TypesKept == Spec => []TypeOK
<1>1. IInv => TypeOK
  BY DEF IInv
<1> QED
  BY <1>1, Invariance, PTL

\* Eviction keeps up with any number of concurrent fetches.
THEOREM CacheStaysBounded == Spec => []CacheBounded
<1>1. IInv => CacheBounded
  BY DEF IInv
<1> QED
  BY <1>1, Invariance, PTL

\* No client is told anything Hub did not say within the time to live and one
\* fetch: neither data nor the outcome of a failure outlives that.
THEOREM AnswersStayRecent == Spec => []AnswersRecent
<1>1. IInv => AnswersRecent
  BY DEF IInv
<1> QED
  BY <1>1, Invariance, PTL
=============================================================================

----------------------------- MODULE ImageCache -----------------------------
(***************************************************************************)
(* The Docker Hub proxy.  fetchHub answers from a Map while an entry is    *)
(* fresh and otherwise asks Hub, under one timer for headers and body.     *)
(* Requests for one path do not wait for each other.  Time passes in       *)
(* ticks; entries and fetches carry what is left of them and their ages,   *)
(* so that no clock grows.                                                 *)
(***************************************************************************)
EXTENDS Naturals, Sequences

CONSTANTS
  Paths,       \* Hub paths that clients ask for
  Requests,    \* bound: requests at work at the same time
  CacheLimit,  \* entries the Map may hold (500 in the code)
  TTL,         \* ticks an entry is fresh (10 minutes in the code)
  FetchLimit   \* ticks until a fetch is aborted (5 seconds in the code)

ASSUME CacheAssumption ==
  /\ Paths # {}
  /\ CacheLimit \in Nat \ {0} /\ TTL \in Nat \ {0} /\ FetchLimit \in Nat \ {0}

VARIABLES
  cache,  \* the Map: entries in the order their keys were first set
  req     \* the requests

vars == <<cache, req>>

\* Hub's answer: found, 404, or anything else (429, 5xx).
Status == {"ok", "missing", "refused"}

\* body: FALSE for null, the outcome of a body that is cut or is no JSON.
\* left: ticks until expiresAt.  age (history): ticks since Hub answered.
Entry == [path: Paths, status: Status, body: BOOLEAN,
          left: 0..TTL, age: 0..(TTL + FetchLimit)]

\* kind: search, or the lookup of a repository or its tags.  spent: ticks since
\* the fetch began.
Request == [pc: {"idle", "waiting", "reading", "done"}, kind: {"search", "lookup"},
            path: Paths, status: Status, code: {0, 200, 404, 502},
            spent: 0..FetchLimit, age: 0..(TTL + FetchLimit)]

NoRequest == [pc |-> "idle", kind |-> "search", path |-> CHOOSE p \in Paths : TRUE,
              status |-> "ok", code |-> 0, spent |-> 0, age |-> 0]

fetching(q) == q.pc \in {"waiting", "reading"}

\* Types, and the cache has one entry per key.
TypeOK ==
  /\ cache \in Seq(Entry)
  /\ req \in [Requests -> Request]
  /\ \A j, k \in DOMAIN cache : cache[j].path = cache[k].path => j = k

Init ==
  /\ cache = <<>>
  /\ req = [r \in Requests |-> NoRequest]

-----------------------------------------------------------------------------
(* The routes.                                                             *)

\* What the client is told.  A lookup cannot tell a null body from a 404.
reply(kind, status, body) ==
  IF status = "ok" /\ body THEN 200
  ELSE IF kind = "lookup" /\ (status = "missing" \/ ~body) THEN 404
  ELSE 502

answered(code, age) == [NoRequest EXCEPT !.pc = "done", !.code = code, !.age = age]

staleAllowed(e, p) == e.path = p

fresh(e, p) == e.path = p /\ e.left > 0

\* A fresh entry answers at once.
Hit(r, p, kind) ==
  /\ ~fetching(req[r])
  /\ \E k \in DOMAIN cache :
       /\ fresh(cache[k], p)
       /\ req' = [req EXCEPT ![r] =
            answered(reply(kind, cache[k].status, cache[k].body), cache[k].age)]
  /\ UNCHANGED cache

\* Otherwise Hub is asked and the abort timer set.
Miss(r, p, kind) ==
  /\ ~fetching(req[r])
  /\ \A k \in DOMAIN cache : ~fresh(cache[k], p)
  /\ req' = [req EXCEPT ![r] = [NoRequest EXCEPT !.pc = "waiting", !.path = p,
                                                 !.kind = kind]]
  /\ UNCHANGED cache

-----------------------------------------------------------------------------
(* fetchHub.                                                               *)

neverEvicts(s) == s

\* Bound cache size (FIFO): the first key goes.
evict(s) == IF Len(s) > CacheLimit THEN Tail(s) ELSE s

\* cache.set: a key that is there keeps its place, however old it is.
set(e) ==
  IF \E k \in DOMAIN cache : cache[k].path = e.path
  THEN [k \in DOMAIN cache |-> IF cache[k].path = e.path THEN e ELSE cache[k]]
  ELSE Append(cache, e)

storeLonger(r, status, body, age) ==
  /\ cache' = evict(set([path |-> req[r].path, status |-> status, body |-> body,
                         left |-> TTL + FetchLimit, age |-> age]))
  /\ req' = [req EXCEPT ![r] = answered(reply(@.kind, status, body), age)]

\* Entry, eviction and answer follow the last await together.
store(r, status, body, age) ==
  /\ cache' = evict(set([path |-> req[r].path, status |-> status, body |-> body,
                         left |-> TTL, age |-> age]))
  /\ req' = [req EXCEPT ![r] = answered(reply(@.kind, status, body), age)]

\* The headers arrive.  A 404 has no body to wait for.
HubAnswers(r, status) ==
  /\ req[r].pc = "waiting"
  /\ IF status = "missing" THEN store(r, status, FALSE, 0)
     ELSE /\ req' = [req EXCEPT ![r].pc = "reading", ![r].status = status]
          /\ UNCHANGED cache

\* The body arrives, or the connection breaks: res.json().catch(() => null).
\* Either outcome is cached.
BodyEnds(r, body) ==
  /\ req[r].pc = "reading"
  /\ store(r, req[r].status, body, req[r].age)

\* fetch rejects: nothing is cached, the route's catch answers.
fail(r) ==
  /\ req' = [req EXCEPT ![r] = answered(502, 0)]
  /\ UNCHANGED cache

FetchFails(r) == req[r].pc = "waiting" /\ fail(r)

TimerForHeadersOnly(r) ==
  /\ req[r].pc = "waiting"
  /\ req[r].spent = FetchLimit
  /\ fail(r)

\* The timer fires: an unanswered fetch rejects, a body read ends with null.
Abort(r) ==
  /\ req[r].spent = FetchLimit
  /\ \/ FetchFails(r)
     \/ BodyEnds(r, FALSE)

older(e) == IF e.left = 0 THEN e ELSE [e EXCEPT !.left = @ - 1, !.age = @ + 1]

ageing(q) ==
  IF q.pc = "waiting" THEN [q EXCEPT !.spent = @ + 1]
  ELSE IF q.pc = "reading" THEN [q EXCEPT !.spent = @ + 1, !.age = @ + 1]
  ELSE q

\* Time passes, but not beyond a timer that is due.
Tick ==
  /\ \A r \in Requests : fetching(req[r]) => req[r].spent < FetchLimit
  /\ cache' = [k \in DOMAIN cache |-> older(cache[k])]
  /\ req' = [r \in Requests |-> ageing(req[r])]

-----------------------------------------------------------------------------
Ask(r) == \E p \in Paths, kind \in {"search", "lookup"} : Hit(r, p, kind) \/ Miss(r, p, kind)

Hub(r) ==
  \/ \E status \in Status : HubAnswers(r, status)
  \/ \E body \in BOOLEAN : BodyEnds(r, body)
  \/ FetchFails(r)

Next ==
  \/ \E r \in Requests : Ask(r) \/ Hub(r) \/ Abort(r)
  \/ Tick

Spec == Init /\ [][Next]_vars

\* Time passes and timers fire; Hub may never answer.
Fairness == WF_vars(Tick) /\ \A r \in Requests : WF_vars(Abort(r))

FairSpec == Spec /\ Fairness

-----------------------------------------------------------------------------
(* Properties.                                                             *)

\* However many fetches end together, the Map never holds more than its limit.
CacheBounded == Len(cache) <= CacheLimit

\* What a client is told was Hub's word less than the time to live and one
\* fetch ago, cached failures and null bodies included.
AnswersRecent ==
  \A r \in Requests : req[r].pc = "done" => req[r].age < TTL + FetchLimit

\* Whatever Hub does, a request is answered: the timer covers the body too.
EveryRequestAnswered == \A r \in Requests : fetching(req[r]) ~> req[r].pc = "done"
=============================================================================

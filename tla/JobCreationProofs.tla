-------------------------- MODULE JobCreationProofs --------------------------
(***************************************************************************)
(* Proofs about JobCreation, for any sets of keys, job ids and requests.   *)
(***************************************************************************)
EXTENDS JobCreation, TLAPS

IInv == TypeOK /\ NamesAreTrue /\ AnswersAgree

\* The empty tables satisfy the invariant.
LEMMA InitIInv == Init => IInv
BY CreationAssumption DEF Init, IInv, TypeOK, NamesAreTrue, AnswersAgree, Idle

\* A job row and a stored key stay what they are for good.
LEMMA RowsStay ==
  ASSUME TypeOK, [Next]_vars
  PROVE  /\ \A k \in Keys : keyRow[k] # NoJob => keyRow'[k] = keyRow[k]
         /\ \A j \in JobIds : madeFor[j] # NoKey => madeFor'[j] = madeFor[j]
<1> USE DEF TypeOK
<1>1. ASSUME NEW r \in Requests, NEW j \in JobIds, Insert(r, j)
      PROVE  /\ UNCHANGED keyRow
             /\ \A i \in JobIds : madeFor[i] # NoKey => madeFor'[i] = madeFor[i]
  BY <1>1 DEF Insert
<1>2. ASSUME NEW r \in Requests, StoreKey(r)
      PROVE  /\ UNCHANGED madeFor
             /\ \A k \in Keys : keyRow[k] # NoJob => keyRow'[k] = keyRow[k]
  BY <1>2 DEF StoreKey
<1>3. ASSUME NEW r \in Requests, RequestStep(r), ~StoreKey(r), ~(\E j \in JobIds : Insert(r, j))
      PROVE  UNCHANGED <<keyRow, madeFor>>
  BY <1>3
  DEF RequestStep, Receive, CheckStaging, LookupExisting, Recheck, Reply, AbandonRequest
<1>4. ASSUME NEW k \in Staging, Upload(k) \/ DeleteUpload(k) PROVE UNCHANGED <<keyRow, madeFor>>
  BY <1>4 DEF Upload, DeleteUpload
<1>5. CASE UNCHANGED vars
  BY <1>5 DEF vars
<1> QED
  BY <1>1, <1>2, <1>3, <1>4, <1>5 DEF Next

\* Every step of one request keeps the invariant.
LEMMA RequestIInv ==
  ASSUME IInv, NEW r \in Requests, RequestStep(r) PROVE IInv'
<1> USE CreationAssumption
<1>1. TypeOK /\ NamesAreTrue /\ AnswersAgree
  BY DEF IInv
<1>2. ASSUME req' = [req EXCEPT ![r] = Idle], UNCHANGED <<keyRow, madeFor, staged, answers>>
      PROVE  IInv'
  BY <1>1, <1>2 DEF IInv, TypeOK, NamesAreTrue, AnswersAgree, Idle
<1>3. ASSUME NEW q \in Request, q.pc \in {"staging", "lookup", "recheck", "insert"},
             req' = [req EXCEPT ![r] = q],
             UNCHANGED <<keyRow, madeFor, staged, answers>>
      PROVE  IInv'
  BY <1>1, <1>3 DEF IInv, TypeOK, NamesAreTrue, AnswersAgree
<1>4. ASSUME NEW k \in Keys, Receive(r, k) PROVE IInv'
  <2> DEFINE q == [pc |-> IF k \in Staging THEN "staging" ELSE "lookup", key |-> k, job |-> NoJob]
  <2>1. q \in Request /\ q.pc \in {"staging", "lookup"}
    BY DEF Request
  <2> QED
    BY <1>3, <1>4, <2>1 DEF Receive
<1>5. CASE CheckStaging(r)
  <2>1. req[r] \in Request
    BY <1>1, <1>5 DEF CheckStaging, TypeOK, Idle
  <2>2. CASE req[r].key \in staged
    <3>1. [req[r] EXCEPT !.pc = "lookup"] \in Request
      BY <2>1 DEF Request
    <3> QED
      BY <1>1, <1>3, <1>5, <2>1, <2>2, <3>1 DEF CheckStaging, TypeOK, Request
  <2>3. CASE req[r].key \notin staged
    BY <1>2, <1>5, <2>3 DEF CheckStaging
  <2> QED
    BY <2>2, <2>3
<1>6. ASSUME NEW next \in {"recheck", "insert"}, req[r] \in Request,
             req' = [req EXCEPT ![r] = lookedUp(@, next)],
             UNCHANGED <<keyRow, madeFor, staged, answers>>
      PROVE  IInv'
  <2> DEFINE q == req[r]
  <2>1. CASE keyRow[q.key] # NoJob
    <3> DEFINE f == [q EXCEPT !.pc = "reply", !.job = keyRow[q.key]]
    <3>1. f \in Request /\ f.pc = "reply" /\ f.key = q.key /\ f.job = keyRow[q.key]
      BY <1>1, <1>6 DEF TypeOK, Request
    <3>2. req' = [req EXCEPT ![r] = f]
      BY <1>6, <2>1 DEF lookedUp
    <3> HIDE DEF f
    <3> QED
      BY <1>1, <1>6, <2>1, <3>1, <3>2 DEF IInv, TypeOK, NamesAreTrue, AnswersAgree
  <2>2. CASE keyRow[q.key] = NoJob
    <3> DEFINE f == [q EXCEPT !.pc = next]
    <3>1. f \in Request /\ f.pc = next
      BY <1>6 DEF Request
    <3>2. req' = [req EXCEPT ![r] = f]
      BY <1>6, <2>2 DEF lookedUp
    <3> HIDE DEF f
    <3> QED
      BY <1>3, <1>6, <3>1, <3>2
  <2> QED
    BY <2>1, <2>2
<1>7. CASE LookupExisting(r) \/ Recheck(r)
  <2>1. req[r] \in Request
    BY <1>1, <1>7 DEF LookupExisting, Recheck, TypeOK, Idle
  <2> QED
    BY <1>6, <1>7, <2>1 DEF LookupExisting, Recheck
<1>8. ASSUME NEW j \in JobIds, Insert(r, j) PROVE IInv'
  <2>1. req[r] \in Request
    BY <1>1, <1>8 DEF Insert, TypeOK, Idle
  <2> DEFINE f == [req[r] EXCEPT !.pc = "store", !.job = j]
  <2>2. f \in Request /\ f.pc = "store" /\ f.key = req[r].key /\ f.job = j
    BY <2>1 DEF Request
  <2>3. /\ req' = [req EXCEPT ![r] = f] /\ madeFor[j] = NoKey
        /\ madeFor' = [madeFor EXCEPT ![j] = f.key]
        /\ UNCHANGED <<keyRow, staged, answers>>
    BY <1>8, <2>2 DEF Insert
  <2> HIDE DEF f
  <2>4. TypeOK'
    BY <1>1, <2>2, <2>3 DEF TypeOK, Request
  <2>5. \A i \in JobIds, k \in Keys : madeFor[i] = k => madeFor'[i] = k
    BY <1>1, <2>3 DEF TypeOK
  <2>6. madeFor'[j] = f.key
    BY <1>1, <2>3 DEF TypeOK
  <2>7. NamesAreTrue'
    BY <1>1, <2>2, <2>3, <2>5, <2>6 DEF NamesAreTrue, TypeOK, Request, Idle
  <2>8. AnswersAgree'
    BY <1>1, <2>3, <2>5 DEF AnswersAgree, TypeOK
  <2> QED
    BY <2>4, <2>7, <2>8 DEF IInv
<1>9. CASE StoreKey(r)
  <2>1. req[r] \in Request /\ req[r].job # NoJob /\ madeFor[req[r].job] = req[r].key
    BY <1>1, <1>9 DEF StoreKey, TypeOK, Idle, NamesAreTrue
  <2>2. CASE keyRow[req[r].key] = NoJob
    <3> DEFINE f == [req[r] EXCEPT !.pc = "reply"]
    <3>1. f \in Request /\ f.pc = "reply" /\ f.key = req[r].key /\ f.job = req[r].job
      BY <2>1 DEF Request
    <3>2. /\ req' = [req EXCEPT ![r] = f]
          /\ keyRow' = [keyRow EXCEPT ![f.key] = f.job]
          /\ UNCHANGED <<madeFor, staged, answers>>
      BY <1>9, <2>2, <3>1 DEF StoreKey
    <3>3. f.job \in JobIds /\ f.key \in Keys /\ f.job # NoJob /\ madeFor[f.job] = f.key
            /\ keyRow[f.key] = NoJob
      BY <2>1, <2>2, <3>1 DEF Request
    <3> HIDE DEF f
    <3>4. TypeOK'
      BY <1>1, <3>1, <3>2, <3>3 DEF TypeOK
    <3>5. NamesAreTrue'
      BY <1>1, <3>1, <3>2, <3>3 DEF TypeOK, NamesAreTrue, Request, Idle
    <3>6. AnswersAgree'
      BY <1>1, <3>2, <3>3 DEF TypeOK, AnswersAgree
    <3> QED
      BY <3>4, <3>5, <3>6 DEF IInv
  <2>3. CASE keyRow[req[r].key] # NoJob
    BY <1>1, <1>2, <1>9, <2>3 DEF StoreKey, TypeOK
  <2> QED
    BY <2>2, <2>3
<1>10. CASE Reply(r)
  <2>1. /\ req[r] \in Request /\ req[r].job \in JobIds
        /\ keyRow[req[r].key] = req[r].job /\ madeFor[req[r].job] = req[r].key
    BY <1>1, <1>10 DEF Reply, TypeOK, Idle, NamesAreTrue, Request
  <2>2. /\ answers' = answers \cup {<<req[r].key, req[r].job>>}
        /\ req' = [req EXCEPT ![r] = Idle]
        /\ UNCHANGED <<keyRow, madeFor, staged>>
    BY <1>10 DEF Reply
  <2>3. TypeOK'
    BY <1>1, <2>1, <2>2 DEF TypeOK, Request
  <2>4. NamesAreTrue'
    BY <1>1, <2>2 DEF TypeOK, NamesAreTrue, Idle
  <2>5. AnswersAgree'
    BY <1>1, <2>1, <2>2 DEF AnswersAgree
  <2> QED
    BY <2>3, <2>4, <2>5 DEF IInv
<1>11. CASE AbandonRequest(r)
  BY <1>1, <1>2, <1>11 DEF AbandonRequest, TypeOK
<1> QED
  BY <1>4, <1>5, <1>7, <1>8, <1>9, <1>10, <1>11 DEF RequestStep

\* The inductive invariant holds in every reachable state.
THEOREM Invariance == Spec => []IInv
<1>1. ASSUME IInv, NEW k \in Staging, Upload(k) \/ DeleteUpload(k) PROVE IInv'
  BY <1>1 DEF Upload, DeleteUpload, IInv, TypeOK, NamesAreTrue, AnswersAgree
<1>2. ASSUME IInv, UNCHANGED vars PROVE IInv'
  BY <1>2 DEF vars, IInv, TypeOK, NamesAreTrue, AnswersAgree
<1>3. IInv /\ [Next]_vars => IInv'
  BY <1>1, <1>2, RequestIInv DEF Next
<1> QED
  BY <1>3, InitIInv, PTL DEF Spec

\* Type correctness: every handler sits at one of the points of the code, and
\* every key and answer names a job id.
THEOREM TypeCorrect == Spec => []TypeOK
BY Invariance, PTL DEF IInv

\* All successful answers to a key name one job, made for that key.
THEOREM SuccessesAgree == Spec => []AnswersAgree
BY Invariance, PTL DEF IInv

\* A stored key admits no further job once nobody is past the second lookup.
THEOREM StoredKeyCloses == Spec => KeyCloses
<1>1. ASSUME IInv, Next, NEW k \in Keys, keyRow[k] # NoJob, ~PastLookup(k)
      PROVE  ~PastLookup(k)' /\ JobsFor(k)' = JobsFor(k)
  <2>1. /\ req \in [Requests -> Request \cup {Idle}]
        /\ madeFor \in [JobIds -> Keys \cup {NoKey}]
    BY <1>1 DEF IInv, TypeOK
  <2>2. ASSUME NEW r \in Requests, RequestStep(r)
        PROVE  ~PastLookup(k)' /\ JobsFor(k)' = JobsFor(k)
    <3>1. \A q \in Requests \ {r} : req'[q] = req[q]
      BY <2>1, <2>2
      DEF RequestStep, Receive, CheckStaging, LookupExisting, Recheck, Insert, StoreKey, Reply,
          AbandonRequest
    <3>2. ~(req'[r].pc \in {"insert", "store"} /\ req'[r].key = k)
      <4>1. Idle.pc \notin {"insert", "store"}
        BY DEF Idle
      <4>2. CASE \E i \in Keys : Receive(r, i)
        BY <2>1, <4>2 DEF Receive
      <4>3. CASE AbandonRequest(r) \/ Reply(r)
        BY <2>1, <4>1, <4>3 DEF AbandonRequest, Reply
      <4>4. CASE CheckStaging(r) \/ StoreKey(r)
        <5>1. req[r] \in Request
          BY <2>1, <4>4 DEF CheckStaging, StoreKey, Idle
        <5> QED
          BY <2>1, <4>1, <4>4, <5>1 DEF CheckStaging, StoreKey, Request
      <4>5. CASE LookupExisting(r) \/ Recheck(r)
        <5>1. req[r] \in Request
          BY <2>1, <4>5 DEF LookupExisting, Recheck, Idle
        <5>2. PICK next \in {"recheck", "insert"} : req'[r] = lookedUp(req[r], next)
          BY <2>1, <4>5 DEF LookupExisting, Recheck
        <5>3. req'[r].key = req[r].key /\ (req'[r].pc = "reply" \/ keyRow[req[r].key] = NoJob)
          BY <5>1, <5>2 DEF lookedUp, Request
        <5> QED
          BY <1>1, <5>3
      <4>6. ASSUME NEW j \in JobIds, Insert(r, j) PROVE req[r].key # k /\ req'[r].key = req[r].key
        <5>1. req[r] \in Request
          BY <2>1, <4>6 DEF Insert, Idle
        <5> QED
          BY <1>1, <2>1, <4>6, <5>1 DEF Insert, PastLookup, Request
      <4> QED
        BY <2>2, <4>2, <4>3, <4>4, <4>5, <4>6 DEF RequestStep
    <3>3. JobsFor(k)' = JobsFor(k)
      <4>1. ASSUME NEW j \in JobIds, Insert(r, j) PROVE JobsFor(k)' = JobsFor(k)
        <5>1. req[r].key # k /\ madeFor[j] # k
          BY <1>1, <4>1, CreationAssumption DEF Insert, PastLookup
        <5> QED
          BY <2>1, <4>1, <5>1 DEF Insert, JobsFor
      <4>2. CASE UNCHANGED madeFor
        BY <4>2 DEF JobsFor
      <4>3. UNCHANGED madeFor \/ \E j \in JobIds : Insert(r, j)
        BY <2>2
        DEF RequestStep, Receive, CheckStaging, LookupExisting, Recheck, StoreKey, Reply,
            AbandonRequest
      <4> QED
        BY <4>1, <4>2, <4>3
    <3> QED
      BY <1>1, <3>1, <3>2, <3>3 DEF PastLookup
  <2>3. ASSUME NEW i \in Staging, Upload(i) \/ DeleteUpload(i)
        PROVE  ~PastLookup(k)' /\ JobsFor(k)' = JobsFor(k)
    BY <1>1, <2>3 DEF Upload, DeleteUpload, PastLookup, JobsFor
  <2> QED
    BY <1>1, <2>2, <2>3 DEF Next
<1>2. ASSUME UNCHANGED vars, NEW k \in Keys, ~PastLookup(k)
      PROVE  ~PastLookup(k)' /\ JobsFor(k)' = JobsFor(k)
  BY <1>2 DEF vars, PastLookup, JobsFor
<1>3. IInv /\ [Next]_vars =>
        [\A k \in Keys :
           keyRow[k] # NoJob /\ ~PastLookup(k) => ~PastLookup(k)' /\ JobsFor(k)' = JobsFor(k)]_vars
  BY <1>1, <1>2
<1> QED
  BY <1>3, Invariance, PTL DEF Spec, KeyCloses

\* The handlers implement IdempotentCreate: storing a key binds it, replying
\* answers from the binding, and every other step is invisible.
THEOREM CreationImplements == Spec => ImplementsIdempotentCreate
<1>1. Init => Abstract!Init
  BY DEF Init, Abstract!Init
<1>2. IInv /\ [Next]_vars => [Abstract!Next]_<<keyRow, answers>>
  <2> SUFFICES ASSUME IInv, [Next]_vars
               PROVE  Abstract!Next \/ UNCHANGED <<keyRow, answers>>
    OBVIOUS
  <2>1. ASSUME NEW r \in Requests, StoreKey(r)
        PROVE  Abstract!Next \/ UNCHANGED <<keyRow, answers>>
    <3>1. req[r] \in Request /\ req[r].job \in JobIds
      BY <2>1 DEF StoreKey, IInv, TypeOK, NamesAreTrue, Idle, Request
    <3>2. Abstract!Bind(req[r].key, req[r].job) \/ UNCHANGED <<keyRow, answers>>
      BY <2>1 DEF StoreKey, Abstract!Bind
    <3> QED
      BY <3>1, <3>2 DEF Abstract!Next, Request
  <2>2. ASSUME NEW r \in Requests, Reply(r) PROVE Abstract!Next
    <3>1. req[r] \in Request /\ req[r].job # NoJob /\ keyRow[req[r].key] = req[r].job
      BY <2>2 DEF Reply, IInv, TypeOK, NamesAreTrue, Idle
    <3>2. Abstract!Answer(req[r].key)
      BY <2>2, <3>1 DEF Reply, Abstract!Answer
    <3> QED
      BY <3>1, <3>2 DEF Abstract!Next, Request
  <2>3. ASSUME NEW r \in Requests, RequestStep(r), ~StoreKey(r), ~Reply(r)
        PROVE  UNCHANGED <<keyRow, answers>>
    BY <2>3
    DEF RequestStep, Receive, CheckStaging, LookupExisting, Recheck, Insert, AbandonRequest
  <2>4. ASSUME NEW k \in Staging, Upload(k) \/ DeleteUpload(k)
        PROVE  UNCHANGED <<keyRow, answers>>
    BY <2>4 DEF Upload, DeleteUpload
  <2>5. CASE UNCHANGED vars
    BY <2>5 DEF vars
  <2> QED
    BY <2>1, <2>2, <2>3, <2>4, <2>5 DEF Next
<1> QED
  BY <1>1, <1>2, Invariance, PTL DEF Spec, ImplementsIdempotentCreate, Abstract!Spec
==============================================================================

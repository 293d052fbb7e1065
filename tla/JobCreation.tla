---------------------------- MODULE JobCreation ----------------------------
(***************************************************************************)
(* POST /api/v1/jobs from the staging check to the answer.  The job row is *)
(* committed in one transaction (with its CREATED event) and the           *)
(* idempotency key in another statement after it; requests with the same   *)
(* key, retries or not, interleave between any two of the awaits.  A key   *)
(* here is a pair of the primary key of idempotency_keys: header and user. *)
(***************************************************************************)
EXTENDS Naturals

CONSTANTS
  Keys,      \* (Idempotency-Key, user) pairs
  NoKey,
  Staging,   \* the keys whose request body names a staged input object
  JobIds,    \* bound: the ids that job rows can get
  NoJob,
  Requests   \* HTTP handlers that can be in flight at the same time

ASSUME CreationAssumption ==
  /\ Staging \subseteq Keys
  /\ NoJob \notin JobIds
  /\ NoKey \notin Keys

VARIABLES
  keyRow,    \* idempotency_keys
  madeFor,   \* the key whose request inserted a job row, NoKey before
  staged,    \* the keys whose staged object is in the bucket
  req,       \* the handlers in flight
  answers    \* history: successful answers, as <<key, job>>

vars == <<keyRow, madeFor, staged, req, answers>>

Idle == [pc |-> "idle"]

Request ==
  [pc: {"staging", "lookup", "recheck", "insert", "store", "reply"},
   key: Keys, job: JobIds \cup {NoJob}]

\* Every variable has its type.
TypeOK ==
  /\ keyRow \in [Keys -> JobIds \cup {NoJob}]
  /\ madeFor \in [JobIds -> Keys \cup {NoKey}]
  /\ staged \subseteq Staging
  /\ req \in [Requests -> Request \cup {Idle}]
  /\ answers \subseteq Keys \X JobIds

Init ==
  /\ keyRow = [k \in Keys |-> NoJob]
  /\ madeFor = [j \in JobIds |-> NoKey]
  /\ staged = {}
  /\ req = [r \in Requests |-> Idle]
  /\ answers = {}

-----------------------------------------------------------------------------
(* The staging area: uploads, and DELETE /api/v1/uploads.                  *)

Upload(k) ==
  /\ k \in Staging
  /\ staged' = staged \cup {k}
  /\ UNCHANGED <<keyRow, madeFor, req, answers>>

DeleteUpload(k) ==
  /\ k \in staged
  /\ staged' = staged \ {k}
  /\ UNCHANGED <<keyRow, madeFor, req, answers>>

-----------------------------------------------------------------------------
(* The handler.                                                            *)

\* A missing header or an invalid body ends the request here, without effect.
Receive(r, k) ==
  /\ req[r] = Idle
  /\ req' = [req EXCEPT ![r] = [pc |-> IF k \in Staging THEN "staging" ELSE "lookup",
                                key |-> k, job |-> NoJob]]
  /\ UNCHANGED <<keyRow, madeFor, staged, answers>>

\* stagingKeyExists, asked before the idempotency key is looked at.
CheckStaging(r) ==
  /\ req[r].pc = "staging"
  /\ req' = [req EXCEPT ![r] =
               IF @.key \in staged THEN [@ EXCEPT !.pc = "lookup"] ELSE Idle]
  /\ UNCHANGED <<keyRow, madeFor, staged, answers>>

\* A stored key leads to its job, which is never deleted; without one the
\* handler goes on.
lookedUp(q, next) ==
  IF keyRow[q.key] # NoJob
    THEN [q EXCEPT !.pc = "reply", !.job = keyRow[q.key]]
    ELSE [q EXCEPT !.pc = next]

\* The controller asks for the key first ...
LookupExisting(r) ==
  /\ req[r].pc = "lookup"
  /\ req' = [req EXCEPT ![r] = lookedUp(@, "recheck")]
  /\ UNCHANGED <<keyRow, madeFor, staged, answers>>

IgnoreStored(r) ==
  /\ req[r].pc = "recheck"
  /\ req' = [req EXCEPT ![r].pc = "insert"]
  /\ UNCHANGED <<keyRow, madeFor, staged, answers>>

\* ... and JobService.createJob asks once more.
Recheck(r) ==
  /\ req[r].pc = "recheck"
  /\ req' = [req EXCEPT ![r] = lookedUp(@, "insert")]
  /\ UNCHANGED <<keyRow, madeFor, staged, answers>>

InsertLosesId(r, j) ==
  /\ req[r].pc = "insert"
  /\ madeFor[j] = NoKey
  /\ madeFor' = [madeFor EXCEPT ![j] = req[r].key]
  /\ req' = [req EXCEPT ![r].pc = "store"]
  /\ UNCHANGED <<keyRow, staged, answers>>

\* JobRepository.createJob: the row, under a fresh id, and its event.
Insert(r, j) ==
  /\ req[r].pc = "insert"
  /\ madeFor[j] = NoKey
  /\ madeFor' = [madeFor EXCEPT ![j] = req[r].key]
  /\ req' = [req EXCEPT ![r].pc = "store", ![r].job = j]
  /\ UNCHANGED <<keyRow, staged, answers>>

UpsertKey(r) ==
  /\ req[r].pc = "store"
  /\ keyRow' = [keyRow EXCEPT ![req[r].key] = req[r].job]
  /\ req' = [req EXCEPT ![r].pc = "reply"]
  /\ UNCHANGED <<madeFor, staged, answers>>

IgnoreConflict(r) ==
  /\ req[r].pc = "store"
  /\ req' = [req EXCEPT ![r].pc = "reply"]
  /\ keyRow' = IF keyRow[req[r].key] = NoJob
                 THEN [keyRow EXCEPT ![req[r].key] = req[r].job]
                 ELSE keyRow
  /\ UNCHANGED <<madeFor, staged, answers>>

\* createIdempotencyKey: the primary key admits the first row only; whoever
\* comes second is answered 500 and leaves its job behind.
StoreKey(r) ==
  /\ req[r].pc = "store"
  /\ IF keyRow[req[r].key] = NoJob
       THEN /\ keyRow' = [keyRow EXCEPT ![req[r].key] = req[r].job]
            /\ req' = [req EXCEPT ![r].pc = "reply"]
       ELSE /\ req' = [req EXCEPT ![r] = Idle]
            /\ UNCHANGED keyRow
  /\ UNCHANGED <<madeFor, staged, answers>>

\* 200 for a job that was found, 201 otherwise.
Reply(r) ==
  /\ req[r].pc = "reply"
  /\ answers' = answers \cup {<<req[r].key, req[r].job>>}
  /\ req' = [req EXCEPT ![r] = Idle]
  /\ UNCHANGED <<keyRow, madeFor, staged>>

\* A query fails, the process dies or the answer is lost on its way.
AbandonRequest(r) ==
  /\ req[r] # Idle
  /\ req' = [req EXCEPT ![r] = Idle]
  /\ UNCHANGED <<keyRow, madeFor, staged, answers>>

RequestStep(r) ==
  \/ \E k \in Keys : Receive(r, k)
  \/ CheckStaging(r)
  \/ LookupExisting(r)
  \/ Recheck(r)
  \/ \E j \in JobIds : Insert(r, j)
  \/ StoreKey(r)
  \/ Reply(r)
  \/ AbandonRequest(r)

Next ==
  \/ \E r \in Requests : RequestStep(r)
  \/ \E k \in Staging : Upload(k) \/ DeleteUpload(k)

Spec == Init /\ [][Next]_vars

-----------------------------------------------------------------------------
(* Properties that hold.                                                   *)

\* Whatever races and failures a key went through, all successful answers to
\* it name the same job, the one of the stored key, and that job was created
\* by a request with this very key (and so of this user).
AnswersAgree ==
  \A a \in answers : a[2] = keyRow[a[1]] /\ madeFor[a[2]] = a[1]

\* What makes this inductive: a stored key, a request about to store one and a
\* request about to answer name jobs made for the key in question.
NamesAreTrue ==
  /\ \A k \in Keys : keyRow[k] # NoJob => madeFor[keyRow[k]] = k
  /\ \A r \in Requests :
       LET q == req[r] IN
         /\ q.pc = "store" => q.job # NoJob /\ madeFor[q.job] = q.key
         /\ q.pc = "reply" => q.job # NoJob /\ keyRow[q.key] = q.job

JobsFor(k) == {j \in JobIds : madeFor[j] = k}

PastLookup(k) ==
  \E r \in Requests : req[r].pc \in {"insert", "store"} /\ req[r].key = k

\* Once the key is stored and nobody is past the second look at it, no retry
\* creates a job for it ever again.
KeyCloses ==
  [][\A k \in Keys :
       keyRow[k] # NoJob /\ ~PastLookup(k) => ~PastLookup(k)' /\ JobsFor(k)' = JobsFor(k)]_vars

Abstract == INSTANCE IdempotentCreate

\* The handlers implement what IdempotentCreate promises.
ImplementsIdempotentCreate == Abstract!Spec

-----------------------------------------------------------------------------
(* Properties that documents state and the code does not keep.             *)

\* QUICK_REFERENCE.md:31 and ARCHITECTURE.md:142: a retry with the same key
\* creates no duplicate.
NoDuplicateJobs == \A k \in Keys : \A i, j \in JobsFor(k) : i = j
=============================================================================

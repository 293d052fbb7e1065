---------------------------- MODULE JobLifecycle ----------------------------
(***************************************************************************)
(* Who writes a job's status, and in which steps.  Three HTTP handlers     *)
(* (internal state update, cancel, hard cancel) read the row, validate and *)
(* only then write it together with an outbox event; the consumer of the   *)
(* queue job-service.events reads the row and then overwrites it with what *)
(* a worker reported.  Every await is a step of its own, so any number of  *)
(* handlers, of one process or of several, interleave between a read and   *)
(* the write that relies on it.                                            *)
(***************************************************************************)
EXTENDS JobState, Naturals, Sequences

CONSTANTS
  Jobs,         \* job ids
  Nodes,        \* worker nodes
  NoNode,       \* assignedNodeId = null
  Requests,     \* HTTP handlers that can be in flight at the same time
  Msgs,         \* worker messages that can exist at the same time
  ReportKinds,  \* which reports workers send after the start report
  MaxEvents     \* bound: rows of outbox_events

AllReportKinds == {"completed", "failed", "cancelled", "timeout", "other"}

ASSUME LifecycleAssumption ==
  /\ NoNode \notin Nodes
  /\ ReportKinds \subseteq AllReportKinds
  /\ MaxEvents \in Nat

VARIABLES
  status,          \* jobs.status, "ABSENT" before the row exists
  assignedNodeId,  \* jobs.assignedNodeId
  outbox,          \* rows of outbox_events, in createdAt order
  byWorker,        \* history: jobs whose row the consumer wrote last
  req,             \* the HTTP handlers in flight
  msg,             \* worker messages: in the queue, or delivered and unacked
  container,       \* environment: which node runs a container of which job
  taken,           \* history: which node ever took which job
  cancelQueue      \* CANCEL payloads put on queue.node.<n>(.cancel)

dbVars     == <<status, assignedNodeId, outbox, byWorker>>
workerVars == <<container, taken>>
vars       == <<dbVars, req, msg, workerVars, cancelQueue>>

RowStatus == JobStatus \cup {"ABSENT"}
NodeOrNone == Nodes \cup {NoNode}

Event == [job: Jobs, type: EventType, prev: RowStatus, new: JobStatus]

Idle == [pc |-> "idle"]

Request ==
  [pc: {"check", "lookup", "validate", "commit", "publish"},
   op: {"update", "cancel", "hardCancel"}, job: Jobs, to: JobStatus,
   seen: RowStatus, node: NodeOrNone]

Free == [state |-> "free"]

Message ==
  [state: {"ready", "read", "handled"}, kind: AllReportKinds \cup {"start"},
   job: Jobs, node: Nodes, seen: RowStatus]

\* Every variable has its type: a request holds one of the handlers' program
\* points, a message one of the delivery states, and no row ever holds a
\* status outside the enum of the schema.
TypeOK ==
  /\ status \in [Jobs -> RowStatus]
  /\ assignedNodeId \in [Jobs -> NodeOrNone]
  /\ outbox \in Seq(Event)
  /\ byWorker \subseteq Jobs
  /\ req \in [Requests -> Request \cup {Idle}]
  /\ msg \in [Msgs -> Message \cup {Free}]
  /\ container \subseteq taken /\ taken \subseteq Nodes \X Jobs
  /\ cancelQueue \subseteq Nodes \X Jobs

Init ==
  /\ status = [j \in Jobs |-> "ABSENT"]
  /\ assignedNodeId = [j \in Jobs |-> NoNode]
  /\ outbox = <<>>
  /\ byWorker = {}
  /\ req = [r \in Requests |-> Idle]
  /\ msg = [m \in Msgs |-> Free]
  /\ container = {} /\ taken = {}
  /\ cancelQueue = {}

-----------------------------------------------------------------------------
(* Creation: the row and its CREATED event are one transaction.  The       *)
(* idempotency protocol around it is the subject of JobCreation.           *)

CreateJob(j) ==
  /\ status[j] = "ABSENT"
  /\ Len(outbox) < MaxEvents
  /\ status' = [status EXCEPT ![j] = "QUEUED"]
  /\ outbox' = Append(outbox, [job |-> j, type |-> "CREATED",
                               prev |-> "ABSENT", new |-> "QUEUED"])
  /\ UNCHANGED <<assignedNodeId, byWorker, req, msg, workerVars, cancelQueue>>

-----------------------------------------------------------------------------
(* HTTP handlers.  The ownership checks of the controllers read columns    *)
(* that never change, so they are part of the arrival step.                *)

\* updateJobStateSchema accepts every status but SCHEDULED.
RequestableStatus == JobStatus \ {"SCHEDULED"}

Arrive(r, q) ==
  /\ req[r] = Idle
  /\ status[q.job] # "ABSENT"
  /\ req' = [req EXCEPT ![r] = q]
  /\ UNCHANGED <<dbVars, msg, workerVars, cancelQueue>>

NewRequest(op, j, to, pc) ==
  [pc |-> pc, op |-> op, job |-> j, to |-> to, seen |-> "ABSENT", node |-> NoNode]

ReceiveUpdate(r, j, to) == Arrive(r, NewRequest("update", j, to, "validate"))

ReceiveCancel(r, j) == Arrive(r, NewRequest("cancel", j, "CANCELLED", "check"))

ReceiveHardCancel(r, j) ==
  Arrive(r, NewRequest("hardCancel", j, "CANCELLED", "lookup"))

\* JobService.cancelJob: the first of its two reads of the row.
CancelCheck(r) ==
  /\ req[r].pc = "check"
  /\ req' = [req EXCEPT ![r] =
               IF status[@.job] \in {"QUEUED", "RUNNING"}
                 THEN [@ EXCEPT !.pc = "validate"]
                 ELSE Idle]
  /\ UNCHANGED <<dbVars, msg, workerVars, cancelQueue>>

\* JobService.emitCancelJobEvent: the node is taken from this first read.
HardCancelLookup(r) ==
  /\ req[r].pc = "lookup"
  /\ req' = [req EXCEPT ![r].pc = "validate",
                        ![r].node = assignedNodeId[req[r].job]]
  /\ UNCHANGED <<dbVars, msg, workerVars, cancelQueue>>

\* What validation makes of the status it read.  An error ends the request
\* (409 from the update and cancel routes, 500 from the hard cancel).
validated(q, accepted) ==
  IF accepted THEN [q EXCEPT !.pc = "commit", !.seen = status[q.job]] ELSE Idle

UncheckedTransition(r) ==
  /\ req[r].pc = "validate"
  /\ req' = [req EXCEPT ![r] = validated(@, TRUE)]
  /\ UNCHANGED <<dbVars, msg, workerVars, cancelQueue>>

\* JobService.updateJobStatus up to the transaction.
ValidateTransition(r) ==
  /\ req[r].pc = "validate"
  /\ req' = [req EXCEPT ![r] =
               validated(@, validateStateTransition(status[@.job], @.to))]
  /\ UNCHANGED <<dbVars, msg, workerVars, cancelQueue>>

SelfTransitionEvent(q) ==
  [job |-> q.job, type |-> getEventType(q.seen, q.to),
   prev |-> q.seen, new |-> q.seen]

EventFromRow(q) ==
  [job |-> q.job, type |-> getEventType(q.seen, q.to),
   prev |-> status[q.job], new |-> q.to]

\* The event describes the status that was read, not the one overwritten.
transitionEvent(q) ==
  [job |-> q.job, type |-> getEventType(q.seen, q.to),
   prev |-> q.seen, new |-> q.to]

\* A hard cancel goes on to publish if its first read found a node.
afterCommit(q) ==
  IF q.op = "hardCancel" /\ q.node # NoNode
    THEN [q EXCEPT !.pc = "publish"]
    ELSE Idle

CommitRowOnly(r) ==
  /\ req[r].pc = "commit"
  /\ status' = [status EXCEPT ![req[r].job] = req[r].to]
  /\ byWorker' = byWorker \ {req[r].job}
  /\ req' = [req EXCEPT ![r] = afterCommit(@)]
  /\ UNCHANGED <<assignedNodeId, outbox, msg, workerVars, cancelQueue>>

ReleasingCommit(r) ==
  /\ req[r].pc = "commit"
  /\ Len(outbox) < MaxEvents
  /\ status' = [status EXCEPT ![req[r].job] = req[r].to]
  /\ assignedNodeId' = [assignedNodeId EXCEPT ![req[r].job] = NoNode]
  /\ outbox' = Append(outbox, transitionEvent(req[r]))
  /\ byWorker' = byWorker \ {req[r].job}
  /\ req' = [req EXCEPT ![r] = afterCommit(@)]
  /\ UNCHANGED <<msg, workerVars, cancelQueue>>

\* JobRepository.updateJobStatus: the unconditional UPDATE of the row and the
\* INSERT of the event are one transaction.
Commit(r) ==
  /\ req[r].pc = "commit"
  /\ Len(outbox) < MaxEvents
  /\ status' = [status EXCEPT ![req[r].job] = req[r].to]
  /\ outbox' = Append(outbox, transitionEvent(req[r]))
  /\ byWorker' = byWorker \ {req[r].job}
  /\ req' = [req EXCEPT ![r] = afterCommit(@)]
  /\ UNCHANGED <<assignedNodeId, msg, workerVars, cancelQueue>>

\* The CANCEL payload goes to the priority queue and to the main queue of the
\* node; a full write buffer (publish returns false) is only logged.
PublishCancel(r) ==
  /\ req[r].pc = "publish"
  /\ cancelQueue' = cancelQueue \cup {<<req[r].node, req[r].job>>}
  /\ req' = [req EXCEPT ![r] = Idle]
  /\ UNCHANGED <<dbVars, msg, workerVars>>

\* A query fails, assertQueue rejects, or the process dies: nothing after the
\* last completed step of this request happens.
AbandonRequest(r) ==
  /\ req[r] # Idle
  /\ req' = [req EXCEPT ![r] = Idle]
  /\ UNCHANGED <<dbVars, msg, workerVars, cancelQueue>>

-----------------------------------------------------------------------------
(* The workers, as far as this service relies on them: a worker that takes *)
(* a job reports the start, and later one result.  Nothing here keeps two  *)
(* nodes from taking the same job, or one from taking it again: events are *)
(* published more than once.  A worker may also take a job that was        *)
(* cancelled meanwhile; it reports "cancelled" only after a CANCEL payload *)
(* reached its queue.                                                      *)

Report(m, kind, j, n) ==
  /\ msg[m] = Free
  /\ msg' = [msg EXCEPT ![m] = [state |-> "ready", kind |-> kind, job |-> j,
                                node |-> n, seen |-> "ABSENT"]]
  /\ UNCHANGED <<dbVars, req, cancelQueue>>

WorkerPickUp(m, j, n) ==
  /\ status[j] # "ABSENT"
  /\ <<n, j>> \notin container
  /\ container' = container \cup {<<n, j>>}
  /\ taken' = taken \cup {<<n, j>>}
  /\ Report(m, "start", j, n)

WorkerProgress(m, j, n) ==
  /\ <<n, j>> \in container
  /\ "other" \in ReportKinds
  /\ Report(m, "other", j, n)
  /\ UNCHANGED workerVars

WorkerFinish(m, j, n, kind) ==
  /\ <<n, j>> \in container
  /\ kind \in ReportKinds \ {"other"}
  /\ kind = "cancelled" => <<n, j>> \in cancelQueue
  /\ container' = container \ {<<n, j>>}
  /\ Report(m, kind, j, n)
  /\ UNCHANGED taken

-----------------------------------------------------------------------------
(* The consumer of job-service.events.  channel.prefetch is never called:  *)
(* every queued message is delivered at once and its handler runs beside   *)
(* all the others, so handlers of one job overlap in any order.            *)

\* findUnique on the job row; its status guards the write that comes later.
ReadJob(m) ==
  /\ msg[m].state = "ready"
  /\ msg' = [msg EXCEPT ![m].state = "read", ![m].seen = status[msg[m].job]]
  /\ UNCHANGED <<dbVars, req, workerVars, cancelQueue>>

ResultGuardedKinds == {"completed", "failed"}

\* The branches that ignore the message when the row read was CANCELLED.
CancelGuardedKinds == {"start", "completed", "failed"}

Skips(q) ==
  \/ q.seen = "CANCELLED" /\ q.kind \in CancelGuardedKinds
  \/ q.kind = "other"  \* log chunks go to Redis, unknown types are logged

\* The handler returns without touching the row.
SkipEvent(m) ==
  /\ msg[m].state = "read"
  /\ Skips(msg[m])
  /\ msg' = [msg EXCEPT ![m].state = "handled"]
  /\ UNCHANGED <<dbVars, req, workerVars, cancelQueue>>

ReportedKindAsStatus(kind) == kind

reportedStatus(kind) ==
  CASE kind = "start" -> "RUNNING"
    [] kind = "cancelled" -> "CANCELLED"
    [] kind = "completed" -> "COMPLETED"
    [] kind \in {"failed", "timeout"} -> "FAILED"

\* prisma.job.update by id alone: whatever the row holds by now, it is
\* overwritten, and no outbox event is written.
ApplyEvent(m) ==
  LET q == msg[m] IN
  /\ q.state = "read"
  /\ ~Skips(q)
  /\ status' = [status EXCEPT ![q.job] = reportedStatus(q.kind)]
  /\ assignedNodeId' = IF q.kind = "start"
                         THEN [assignedNodeId EXCEPT ![q.job] = q.node]
                         ELSE assignedNodeId
  /\ byWorker' = byWorker \cup {q.job}
  /\ msg' = [msg EXCEPT ![m].state = "handled"]
  /\ UNCHANGED <<outbox, req, workerVars, cancelQueue>>

Ack(m) ==
  /\ msg[m].state = "handled"
  /\ msg' = [msg EXCEPT ![m] = Free]
  /\ UNCHANGED <<dbVars, req, workerVars, cancelQueue>>

DropUnacked(m) ==
  /\ msg[m].state \in {"read", "handled"}
  /\ msg' = [msg EXCEPT ![m] = Free]
  /\ UNCHANGED <<dbVars, req, workerVars, cancelQueue>>

\* nack with requeue after an error, or the broker's redelivery of what a
\* lost connection or process left unacked, also after the row was written.
Redeliver(m) ==
  /\ msg[m].state \in {"read", "handled"}
  /\ msg' = [msg EXCEPT ![m].state = "ready", ![m].seen = "ABSENT"]
  /\ UNCHANGED <<dbVars, req, workerVars, cancelQueue>>

-----------------------------------------------------------------------------
RequestStep(r) ==
  \/ \E j \in Jobs, to \in RequestableStatus : ReceiveUpdate(r, j, to)
  \/ \E j \in Jobs : ReceiveCancel(r, j) \/ ReceiveHardCancel(r, j)
  \/ CancelCheck(r)
  \/ HardCancelLookup(r)
  \/ ValidateTransition(r)
  \/ Commit(r)
  \/ PublishCancel(r)
  \/ AbandonRequest(r)

WorkerStep(m, j, n) ==
  \/ WorkerPickUp(m, j, n)
  \/ WorkerProgress(m, j, n)
  \/ \E kind \in ReportKinds : WorkerFinish(m, j, n, kind)

ConsumerStep(m) ==
  ReadJob(m) \/ SkipEvent(m) \/ ApplyEvent(m) \/ Ack(m) \/ Redeliver(m)

Next ==
  \/ \E j \in Jobs : CreateJob(j)
  \/ \E r \in Requests : RequestStep(r)
  \/ \E m \in Msgs, j \in Jobs, n \in Nodes : WorkerStep(m, j, n)
  \/ \E m \in Msgs : ConsumerStep(m)

Spec == Init /\ [][Next]_vars

\* A delivered message is handled; a message that is redelivered again and
\* again is in the end handled without an error and acked.
Fairness ==
  \A m \in Msgs :
    /\ WF_vars(ReadJob(m))
    /\ SF_vars(SkipEvent(m) \/ ApplyEvent(m))
    /\ SF_vars(Ack(m))

FairSpec == Spec /\ Fairness

-----------------------------------------------------------------------------
(* Properties that hold.                                                   *)

EventsOf(j) == {i \in DOMAIN outbox : outbox[i].job = j}

HasEvent(j, type) == \E i \in EventsOf(j) : outbox[i].type = type

\* The outbox is a well-formed history of each job whatever requests and
\* workers do: it opens with the one CREATED event, and each later event
\* describes a legal transition by its own name, never STATE_CHANGED
\* (updateJobStatus names the event after the status it validated).
EventLogWellFormed ==
  \A i \in DOMAIN outbox :
    LET e == outbox[i] IN
      IF e.type = "CREATED"
        THEN \A k \in 1..(i-1) : outbox[k].job # e.job
        ELSE /\ \E k \in 1..(i-1) : outbox[k].job = e.job
             /\ validateStateTransition(e.prev, e.new)
             /\ e.type = getEventType(e.prev, e.new)
             /\ e.type # "STATE_CHANGED"

\* The row and the newest event of a job agree on its status unless the
\* consumer wrote the row since: the transactions of createJob and
\* updateJobStatus keep them together through every interleaving and abort.
StatusMatchesNewestEvent ==
  \A j \in Jobs :
    status[j] # "ABSENT" /\ j \notin byWorker =>
      \E i \in EventsOf(j) :
        /\ outbox[i].new = status[j]
        /\ \A k \in EventsOf(j) : k <= i

\* Row i starts from another status than the last event of its job has led to.
BreaksChain(i) ==
  \E k \in EventsOf(outbox[i].job) :
    /\ k < i
    /\ \A h \in EventsOf(outbox[i].job) : h < i => h <= k
    /\ outbox[k].new # outbox[i].prev

\* Requests validate what they have read and overwrite what is there by then, so
\* one may undo what another has written, a terminal status too.  It never does
\* so unseen: where requests alone write a row, each change follows the rules,
\* or its event does not continue from the event before it.
LostUpdatesShow ==
  [][\A j \in Jobs :
       j \notin byWorker /\ j \notin byWorker' /\ status'[j] # status[j] =>
         \/ status[j] = "ABSENT" /\ status'[j] = "QUEUED"
         \/ validateStateTransition(status[j], status'[j])
         \/ \E i \in EventsOf(j)' : i \notin DOMAIN outbox /\ BreaksChain(i)']_vars

\* No CANCEL payload is on a worker's queue unless the cancellation of that
\* job was committed first (emitCancelJobEvent publishes after the update).
NoCancelBeforeCommit ==
  \A p \in cancelQueue : HasEvent(p[2], "CANCELLED")

Committing(j) == \E r \in Requests : req[r].pc = "commit" /\ req[r].job = j

MessageOf(m, j) == msg[m] # Free /\ msg[m].job = j

\* Cancelled, with nothing in flight that read the row before it was.
CancelSettled(j) ==
  /\ status[j] = "CANCELLED"
  /\ ~Committing(j)
  /\ \A m \in Msgs :
       MessageOf(m, j) /\ msg[m].state = "read"
         /\ msg[m].kind \in {"start", "completed", "failed"}
       => msg[m].seen = "CANCELLED"

\* Once settled, a cancellation is never undone by a start, a completion or a
\* failure report, however late, repeated or reordered, nor by a request: the
\* guards of the consumer and of updateJobStatus hold.  Only a timeout report
\* undoes it, for that branch has no guard.
CancellationSticks ==
  [][\A j \in Jobs :
       CancelSettled(j) =>
         \/ CancelSettled(j)'
         \/ \E m \in Msgs : MessageOf(m, j) /\ msg[m].kind = "timeout" /\ ApplyEvent(m)]_vars

\* Ended, with no container and no message of the job left and no request
\* about to commit.
Settled(j) ==
  /\ status[j] \in Terminal
  /\ \A n \in Nodes : <<n, j>> \notin container
  /\ ~Committing(j)
  /\ \A m \in Msgs : ~MessageOf(m, j)

\* When the containers have ended, their messages are acked and no request sits
\* between validation and commit, a terminal status stays, and only a worker
\* that takes the job again puts it at risk: what the README promises at all
\* times, the code keeps from this point on.
SettledIsFinal ==
  [][\A j \in Jobs :
       Settled(j) =>
         /\ status'[j] = status[j]
         /\ Settled(j)' \/ \E m \in Msgs, n \in Nodes : WorkerPickUp(m, j, n)]_vars

Result == {"completed", "failed", "cancelled", "timeout"}

\* A result a worker reported reaches the row: the job is terminal at some
\* later point, through failed handlers and redeliveries.
WorkerResultRecorded ==
  \A j \in Jobs :
    (\E m \in Msgs : MessageOf(m, j) /\ msg[m].state = "ready" /\ msg[m].kind \in Result)
      ~> status[j] \in Terminal

-----------------------------------------------------------------------------
(* The inductive invariant behind them.                                    *)

\* Requests and messages exist for rows only, and so do containers.
RowsExist ==
  /\ \A r \in Requests : req[r] # Idle => status[req[r].job] # "ABSENT"
  /\ \A m \in Msgs : msg[m] # Free => status[msg[m].job] # "ABSENT"
  /\ \A p \in container : status[p[2]] # "ABSENT"

\* What a request knows when it is about to commit, and about to publish.
ChecksPassed ==
  \A r \in Requests :
    LET q == req[r] IN
      /\ q.pc = "commit" => validateStateTransition(q.seen, q.to)
      /\ q # Idle /\ q.op # "update" => q.to = "CANCELLED"
      /\ q.pc = "publish" => q.node # NoNode /\ HasEvent(q.job, "CANCELLED")

LogCoversRows == \A j \in Jobs : status[j] = "ABSENT" <=> EventsOf(j) = {}

IInv ==
  /\ TypeOK
  /\ RowsExist
  /\ ChecksPassed
  /\ LogCoversRows
  /\ EventLogWellFormed
  /\ StatusMatchesNewestEvent
  /\ NoCancelBeforeCommit

-----------------------------------------------------------------------------
(* Properties that documents and comments state and the code does not keep *)

\* internal.service.ts:79-80: never revive a CANCELLED job back to RUNNING.
NeverRevived ==
  [][\A j \in Jobs : status[j] = "CANCELLED" => status'[j] # "RUNNING"]_vars
=============================================================================

# A verification project for job-service

`job-service` accepts jobs over HTTP, keeps them in PostgreSQL, tells workers about them
through RabbitMQ, and records what workers report. This directory holds TLA+ models of the
parts of it that keep or change state, TLC configurations that check them on small
instances, and proofs, checked by TLAPS, that their safety properties hold for instances of
any size.

Paths below are relative to the root of the service (`src/...` is its TypeScript).

## 1. The system

| Component | State | Operations | Hard behaviour | Correct means |
|---|---|---|---|---|
| Job state rules (`services/job/job.state.ts`, `prisma/schema.prisma`) | none; the enum of statuses | `validateStateTransition`, `getEventType` | – | the table of transitions is what every reader of a job sees |
| Status writers (`internal.controller.ts`, `job.controller.ts`, `job.service.ts`, `job.repository.ts`) | `jobs.status`, `outbox_events` | `updateJobStatus`, `cancelJob`, `emitCancelJobEvent` | read, validate and write are separate awaits without a row lock; a hard cancel commits and then publishes | row and event change together; events form a legal history; nobody is told of a cancellation that was not committed |
| Consumer of `job-service.events` (`internal.service.ts`) | `jobs.status`, `jobs.assignedNodeId` | start, completed, failed, cancelled, timeout, log chunk, `node.registered` | handlers run side by side (no prefetch); nack with requeue; the row is read first and overwritten later by id alone | a result gets recorded; a cancelled job stays cancelled |
| Outbox publisher (`publishOutboxEvents`, the interval in `index.ts`, `rabbitmq.ts`) | `published`, the channel's write buffer | read a batch, look a node up, publish, mark | overlapping polls, failing queries, a closed channel, a process that dies between publish and write | no event is lost, none overtakes an older one, cancellations reach the worker |
| Job creation and idempotency (`job.controller.ts`, `job.service.ts`) | `jobs`, `idempotency_keys`, staged objects | `createJob` | concurrent and retried requests; two transactions | one key, one job |
| Log streaming (`log.service.ts`, `redis.ts`, `job.routes.ts`) | connections, pending lists, Redis list and channel | subscribe, replay, flush, completion | replay races with live messages, disconnects and the end of the job; several instances | nothing that reached a viewer's process gets lost; a process listens while it has viewers; a stream ends when its job does |
| Reads and paging (`job.controller.ts`, `job.repository.ts`) | none | list, get | two queries without a snapshot; offsets shift; timestamps tie | no job is passed by; nothing is shown twice without cause |
| Image proxy (`image.routes.ts`) | an in-process cache | search, tags | expiry, eviction, concurrent misses, a Hub that hangs | bounded, never older than its TTL and one fetch; every request is answered |
| Artifacts (`artifact.routes.ts`, `s3.ts`) | objects in the bucket | upload, delete, list, archive | – | – |
| Authentication, schemas, bootstrap, health | none | – | – | – |

How they interact. The status writers and the consumer share the `jobs` row: neither locks
it, and each writes on the strength of an earlier read. The status writers append rows to
`outbox_events`, which the publisher reads. The publisher reads `assignedNodeId`, which the
consumer writes. Both a hard cancel and the publisher put CANCEL payloads on a node's queue;
the worker's "cancelled" report comes back through the consumer. The consumer also hands log
chunks to Redis and completions to log streaming.

## 2. The modules

| Module | Stands for | Relation to others |
|---|---|---|
| `JobState` | `job.state.ts` as sets and operators | extended by the next |
| `JobLifecycle` | all writers of `jobs.status`: HTTP handlers, consumer, and the workers as its environment | – |
| `OutboxPublisher` | `publishOutboxEvents`, its interval, the channel, the failures; as its environment, what the rest of the service does to the outbox and to nodes | implemented by `JobService` |
| `JobService` | the two above over one outbox, one `assignedNodeId`, one set of node queues | extends `JobLifecycle`, instantiates and implements `OutboxPublisher` |
| `IdempotentCreate` | abstract: what a client of `POST /api/v1/jobs` may rely on | implemented by `JobCreation` |
| `JobCreation` | the create handler from the staging check to the answer | – |
| `LogStream` | chunks from the consumer through Redis to the viewers of one job, and the notice of its end | – |
| `ImageCache` | `fetchHub` and the three routes in front of it | – |
| `JobListing` | `GET /api/v1/jobs` as a client pages through it, beside `createJob` | – |
| `MC...` | instances for TLC: symmetry sets and event sets | extend the module they are named after |
| `...Proofs` | theorems and proofs | extend the module they are named after; `JobServiceProofs` also uses those of `JobLifecycle` and `OutboxPublisher` |

### JobLifecycle

Each await is a step. An HTTP handler is a record in `req[r]` whose `pc` names the await it
stands before: a hard cancel goes `lookup` (the read that yields the node), `validate` (the
read in `updateJobStatus`), `commit` (the transaction of row and event), `publish`. A worker
message is a record in `msg[m]`: `ready` in the queue, `read` once its handler has the row,
`handled` before its ack. `seen` is the status that was read and is used later. Statuses,
event names, guards and the fields of events are the code's. A CREATED event, whose payload
has no statuses, gets `prev = "ABSENT"`.

`container` is the environment: which node runs a container of which job. A worker that takes a job
reports its start and later one result; a cancelled result needs a CANCEL payload on its queue. Two
nodes may take one job at the same time, and one node may take it again after it has ended: events
reach the broker more than once (`CopiesBounded`), and nothing in this repository keeps a worker from
it. The row has the node of the last start report that was written. `taken` and `byWorker` are
history variables: which node ever took which job, and the jobs whose row was last written by the
consumer, which writes no events.

A request may be abandoned at any point (a failing query, a rejected `assertQueue`, a process
that dies), a message redelivered at any point before its ack (an error and nack, a lost
connection, a restart). Since each request is abandoned and each message redelivered on its
own, a crash of one instance among several is a sequence of such steps.

Left out: timestamps, `error`, `outputArtifacts` and `workerInfo`; `job_attempts`, to which
nothing the service runs writes; requests answered 400, 403 or 404, which change nothing;
`node.registered`, which binds an exchange. Log chunks and unknown events are the report kind
"other", which leaves the row alone; what a chunk and `sendJobCompletion` do to viewers is in
`LogStream`.

### OutboxPublisher

`poll[p]` is one invocation of `publishOutboxEvents`: the rows of its batch that it has yet
to finish and the await it stands before. The poll reads at most `BatchLimit` unpublished rows,
oldest `createdAt` first. `createdAt` holds ranks: they are distinct, and a row may be committed
with an older rank than one committed before it, because a transaction takes its timestamp
before it commits. This allows more orders than the database does (a CREATED event may even
carry a later stamp than a later event of its job), which is sound for the safety properties.

`sent` is a history of what was handed to a channel and where it is: in the write `buffer`,
at the `broker`, or `lost`. `Publish` only fills the buffer; `Flush` writes the socket. The
channel has no publisher confirms, so nothing in the code waits for `Flush`. Failures are a
failing query (`AbortPoll`), an orderly close by the broker (`ChannelCloses`: amqplib emits only
`close`, to which nobody listens, and the process lives on with a dead channel), and a process
that dies (`Restart`; also what an unhandled `error` of the connection leads to).

The environment is what the rest of the service may do to the tables and queues that the publisher
uses: append a stamped row of any kind (`AppendEvent`), write a job's node, also over another one
(`AssignNode`, a start report), and queue a CANCEL payload at any node (`emitCancelJobEvent`, a hard
cancel, which uses the node it once read). It is more liberal than the handlers and the consumer
are; that they do nothing else is the refinement `ImplementsPublisher` of `JobService`.

### JobCreation

`req[r].pc` again names the await. A key of the model is the pair (header, user) that is the
primary key of `idempotency_keys`. `madeFor[j]` tells which key's request inserted the row of
`j`: rows exist from then on and are never deleted. The second lookup by `JobService.createJob`
is a step apart from the controller's. Upload and deletion of the staged input run beside it.

### JobService

The handlers and the consumer step together with the stamp of any event they append; the
publisher's steps leave the lifecycle's own variables alone. The composition is what makes the
route of a cancellation visible: commit, poll, lookup, buffer, queue of the node. It is also what
the assumptions of `OutboxPublisher` about its environment are checked against.

### LogStream

One job. A chunk goes through its consumer handler in two steps, `PublishChunk` (the await of
PUBLISH, which puts the line into the `inbox` of each subscribed process) and `PushBacklog` (the
pipeline of RPUSH and LTRIM). `streams[i]` is the entry of `activeStreams` in process `i`; the
commands of its subscriber connection are queued in `commands` and executed by Redis in order,
while LRANGE goes over the publisher's connection and may overtake them. `conn[c]` is a request
for the stream: `joining` once the row was read, `asking` and `answered` while its replay waits
for LRANGE and for the event loop, `live` after. `Replay` writes the backlog and flushes what was
held back in one step, because the code does so without an await.

A replay keeps the Set it was added to. When the last viewer leaves while others are still
replaying on a closed response, that Set is no longer in the Map; `orphans` are the connections
whose replay holds such a Set, so that their flush reaches nobody. `response.write` on an ended or
broken response takes nothing and does not throw, so the `catch` branches around it are never
taken and are not modelled.

`owed` is a history variable: the lines that reached the process for a connection, live or in
the backlog it asked for. `written` counts copies, as the order of lines is not what the
properties are about (`Lines` have no order; two chunk handlers run side by side anyway). The
report of the worker is read, written and announced by one process, `report.at`. Failures: a
failing Redis call (`ChunkFails`, `ReplayFails`), a refused SUBSCRIBE (`RedisRefuses`), a message
handled again from the start (`RedeliverChunk`, `RedeliverReport`), a process that dies with its
viewers (`Restart`).

### ImageCache

`cache` is the Map in the order in which its keys were set, `req[r]` a request at work: `waiting` for
headers, `reading` the body. Time passes in ticks. An entry carries the ticks it has `left` and the
`age` of what Hub said (a history field), a fetch the ticks it has `spent`; a tick does not pass a
timer that is due, which stands for a timer that fires on time. A request may be made anew once
it is answered, so `Requests` bounds how many run side by side, not how many there are. A path is
asked for by search and by the lookups; the lookups of a repository and of its tags answer alike.

### JobListing

The jobs of one owner. `createdAt[j] = 0` is a row that is not there yet. Rows may appear with any
timestamp, also one that is older than, or as old as, what is there: instances have clocks of their own,
and a row becomes visible later than its timestamp says. `ReadPage` and `CountRows` are the two
queries of `Promise.all`, in either order, with creations between them. `isPage` says what ORDER BY
with OFFSET and LIMIT may return when timestamps tie. The client asks for the next page by
the limit the answer names, and asks again when it got a 500.

## 3. The checks

Every run is one cfg file with the run's name.

| Run | Instance | Shows |
|---|---|---|
| `lifecycle_safety` | 1 job, 1 node, 2 handlers, 2 messages, reports "start", "cancelled" and "timeout", 3 events | `TypeOK`, the inductive invariant `IInv`; the outbox is a legal history (`EventLogWellFormed`); row and newest event agree unless the consumer wrote last (`StatusMatchesNewestEvent`); a change that breaks the rules because requests raced shows in the events (`LostUpdatesShow`); no CANCEL before its commit; a settled cancellation is undone by a timeout only (`CancellationSticks`); a settled result is final until the job is taken again (`SettledIsFinal`) |
| `lifecycle_liveness` | 1 job, 1 handler, 2 messages, all report kinds | a reported result reaches the row (`WorkerResultRecorded`) |
| `outbox_overlap` | 2 polls, 2 events, batches of 1, one failure of any kind | `HandedBeforeMarked`, `HandedInOrder`, `CopiesBounded`; every event reaches the broker unless the channel is closed for good or a process dies between mark and write (`EveryEventSettled`) |
| `creation_safety` | 2 keys (one with a staged input), 3 handlers, 4 job ids | `AnswersAgree`, `KeyCloses`, refinement of `IdempotentCreate` |
| `service_cancel` | 1 job, 2 nodes that may both take it, 1 handler, 1 message, 1 poll, one failing query | a CANCEL is queued only at nodes that took the job (`CancelGoesToTaker`) and gets to one (`CancelReachesTaker`); what the rest of the service does to the publisher is what `OutboxPublisher` allows (`ImplementsPublisher`) |
| `log_stream` | 2 viewers on one process, a second process that may handle the report, 1 line, a backlog of 1, one failure of any kind | `SubscriptionFollowsStreams`, `ViewersReachable`, `OwedKept`, `RepeatsBounded`; lines that are owed are written (`OwedLinesArrive`); a report ends the streams of its process (`ReportEndsStreams`) |
| `image_cache` | 2 paths, 2 requests, 1 entry, entries fresh for 2 ticks, fetches aborted after 2 | `CacheBounded`, `AnswersRecent`, `EveryRequestAnswered` |
| `job_listing` | 4 jobs, 4 timestamps, pages of 1 or 2 | `ListingComplete`, `RepeatsNeedArrivals`, `AnnouncedPageHasRows` |
| `never_revived` | 1 job, 1 handler, 1 message | violated, see below |
| `outbox_loss` | 1 event, one restart | violated |
| `creation_race` | 1 key, 2 handlers | violated |
| `log_boundary` | 1 viewer, 1 process, 1 line, no failure | violated |

The bounds. `MaxEvents` caps the outbox, `MaxFaults` the failures, `Pollers` the polls that overlap,
`JobIds` the rows that can be created. One job suffices where nothing relates jobs; the handlers of
two jobs share only the order of the outbox, which `outbox_overlap` varies on its own with arbitrary
events. Two handlers and two messages are enough for every race between a read and a write: one of
each pair reads, the other writes in between. Three events let a job be created, changed, and
overwritten by a commit that was validated before. The reports "completed" and "failed" take the
same guard as "start" and are left to `lifecycle_liveness`; "cancelled" and "timeout" are the kinds
without one. `service_cancel` has start reports only: what the later reports do to the row concerns
no CANCEL. In `outbox_overlap` batches are smaller than the number of rows, so that polls cut off
rows that others have read; `service_cancel` has batches of two, in which a poll works through what
it read earlier. Two nodes in `service_cancel` let the second take the job while a hard cancel or a
poll holds the first. Two viewers in `log_stream` suffice for a flush that reaches another
connection, two processes for a notice that reaches nobody, and a redelivered line fills the backlog
past its limit of one. Two requests and a cache of one entry make an older fetch end after a newer
one, and every second store evict. Four jobs make three pages of different limits, with jobs created
in front of, between and behind them. The safety properties listed in section 5 do not depend on any
of these bounds.

Symmetry is used in `lifecycle_safety`, `creation_safety` and `job_listing`, over sets of model
values that no definition distinguishes; the runs with liveness properties use none.

Deadlock is checked for the lifecycle, creation, service and image runs. The others turn it off,
because they may really stop: once `MaxEvents` rows are published and written to the socket, once all
viewers are gone and the report is handled, once the listing is done and all jobs exist.

Fairness, and why the code justifies it:

- `WF(PollStep(p))`: the interval fires every five seconds for as long as the process lives,
  and an awaited query returns or fails. Failures are steps of their own, and are not fair.
- `WF(Flush)`: node writes a socket's buffer as long as the socket is open.
- `WF(ReadJob(m))`: the broker delivers every queued message at once (no prefetch).
- `SF(SkipEvent(m) \/ ApplyEvent(m))`, `SF(Ack(m))`: a message that is redelivered again and
  again is in the end handled. This is weaker than "handlers do not fail" and cannot be
  dropped: a database that rejects every write for ever records nothing.
- `WF(ReportStep)` in `LogStream`: the broker delivers the report, and its handler goes on.
- `WF(ConnectionStep(c))`: LRANGE is answered or fails, and the event loop goes on with it. Nothing
  is assumed of chunks, of SUBSCRIBE, or of the delivery of published lines.
- `WF(Tick)`, `WF(Abort(r))` in `ImageCache`: time passes and a timer that is due fires. Hub owes
  nothing.

HTTP requests, viewers, workers and failures are under no obligation to act.

`WorkerResultRecorded` speaks of a broker connection that is there again after it was lost, a
database that answers sometimes, and an outbox within its bound. `EveryEventSettled` names the two
ways in which an event is not delivered.

## 4. Where the code and its documentation disagree

Four runs end in a counterexample.

- `never_revived`. `internal.service.ts:79-80` says "never revive a CANCELLED job back to
  RUNNING". The start branch reads the row, a cancellation commits, and the update by id
  writes RUNNING. `CancellationSticks` is what holds instead.
- `outbox_loss`. `OUTBOX_PATTERN.md:203-209` promises no event loss. The row is marked when the
  message is in the process's buffer; a process that dies there has lost it.
- `creation_race`. `QUICK_REFERENCE.md:31` says a retry creates no duplicates. Two requests that
  both pass the lookups both insert a job; the key is stored after, in a statement of its own.
- `log_boundary`. `log.service.ts:112-113` promises that nothing is lost or duplicated where replay
  and live stream meet. A line that was appended before LRANGE and published after SUBSCRIBE is
  written twice; one that was published before SUBSCRIBE and appended after LRANGE is never
  written. `OwedKept` and `RepeatsBounded` are what holds.

More of the kind, seen while modelling and not kept as runs of their own:

- `ARCHITECTURE.md:75` promises reliable publishing through an outage of the queue. After the broker
  closed the connection in good order nothing reopens the channel (`rabbitmq.ts:13`): the case
  `~channelOpen` of `EveryEventSettled`, which fails without it.
- `job.service.ts:196` says a cancellation must reach the worker that holds the container. If the
  start report is not processed yet when the poll looks the node up, the event goes to the
  exchange and the row is marked. And if two nodes hold one, the row names the one whose report was
  written last, and only that one is told. `CancelReachesTaker` is what holds.
- `ARCHITECTURE.md:338` allows for several instances. The end of a job is announced to viewers of the
  reporting process only, never for a result that a CANCELLED row makes the consumer ignore,
  never after a PATCH of the internal API that ends the job, and not to a viewer who read the row
  before the result was written and subscribed after the notice (`job.routes.ts:44`). Those
  streams stay open until the client gives up.
- A refused SUBSCRIBE is logged (`log.service.ts:102`); the Set is in the Map, so no later viewer of
  that process asks again: they all see history and no live line.
- A job that ends in the middle of a replay closes the stream without its history: the reply of
  LRANGE is written to a response that was ended (`log.service.ts:182`). The client has to read the
  log from the finished job.
- A viewer who disconnects while the row is read is subscribed all the same (`job.routes.ts:86`) and
  kept until the job ends.
- `image.routes.ts:31-33` caches every outcome for ten minutes: a 429, a 5xx, and a body that
  was cut off or is no JSON. The lookups answer 404 "not found on Docker Hub" for the last.
- `README.md:61` calls COMPLETED, FAILED and CANCELLED terminal. The consumer overwrites any of
  them with a later or repeated report: a start that is redelivered after the completion puts
  the job back to RUNNING, and so does a worker that takes the job again. `SettledIsFinal` says from
  when on, and until when, the promise is kept.
- The timeout branch (`internal.service.ts:206-217`) has no guard on CANCELLED, unlike the
  branches whose comments (line 157) explain why it is there.
- `QUICK_REFERENCE.md:48` has an event written with every status change; the consumer's changes
  write none.
- Two concurrent requests both validate against the status they read: a cancellation may
  overwrite COMPLETED, against the documented state machine. The row does not tell, the events do:
  the second does not continue from the first (`LostUpdatesShow`).
- `ARCHITECTURE.md:118` and `OUTBOX_PATTERN.md:134` exclude duplicates of events; overlap of polls
  and failures produce them. `CopiesBounded` says how many.
- `ARCHITECTURE.md:132-139` has a retry find its key first; the staging check comes before it, so a
  retry whose staged input was deleted meanwhile is answered 400.

## 5. The proofs

The modules of proofs use nothing but the named assumptions of the modules they extend: null
values are not members of the sets, bounds are naturals, limits are positive, each request for
logs has a process it is routed to, and the sets of which elements are counted (requests for
logs, jobs of an owner, polls of a process) are finite. The sets of jobs, nodes, handlers, messages,
keys, lines, processes and paths may have any size, and the finite ones any finite size. Every safety
property that a run expects to hold is a theorem.

**JobLifecycle.** `Invariance` proves `IInv`, a conjunction of the type invariant and

- `RowsExist`: whatever is in flight is about an existing row, so a commit never writes an event
  that precedes its job's CREATED;
- `ChecksPassed`: what a handler knows at each point. Without it `Commit` could append any event
  at all, and `PublishCancel` could precede the commit;
- `LogCoversRows`: a row exists exactly if it has events, which makes CREATED unique;
- the three properties themselves.

From it follow `EventLogCorrect`, `RowAgreesWithLog` and `CancelAfterCommit`. `CancelledStays` and
`SettledStays` are action properties: the lemma `RequestsKeepTerminal` shows that no request gets
past validation on a terminal row, and the consumer's guards do the rest.

`LostUpdatesAreVisible` is about requests that race, any number of them. A commit either finds the
status that it validated, and then the change follows the rules, or another one. In that case the
newest event of the job ends with what the row has (`StatusMatchesNewestEvent`) and the new one starts
from what was read, so the chain of events breaks at the new one (`StaleCommitBreaksChain`).

A second invariant, `NodeInv`, is about the nodes a job is at. Nothing is assumed of the workers, so the
node of a row may change under those who have read it. What stays true is that it names a node that
took the job: reports come from such nodes (`ReportsFromTakers`), rows have theirs from reports
(`RowsNameTakers`), hard cancels from rows (`RequestsNameTakers`) and queues from hard cancels, and who has
taken a job has taken it (`TakenStays`).

**OutboxPublisher.** The invariant adds to the two properties that timestamps are distinct, that
only existing rows were handed over, and `PollOK`, the heart of the argument: for every row of a
poll's batch, each older row committed before it is in that batch as well or was handed over
already. `BatchTakesPredecessors` shows it of a fresh batch: the batch is cut off by age, so it
holds the older unpublished rows, and the published ones were handed over. A poll takes the
oldest row of its batch first (`OldestIsFirst`), so what precedes it has been handed over by
then, whatever the other polls do: `NothingOvertakes`. `MarkedWasHanded` needs that a poll that
stands before `mark` has handed its current row over.

`CopiesStayBounded` counts. For a row, `Marking` are the polls that have handed it over and are
about to mark it, `Waiting` those that have it in their batch and have yet to hand it over. As long
as the row is unpublished, its copies number at most one per poll for each failure there was, plus
the polls in `Marking`: a poll that hands the row over joins `Marking` and stays there until it
marks the row or a failure takes it away, and a failure raises the bound by one per poll. Once the
row is published no new batch has it, so only the polls in `Waiting` can still add a copy: copies
and `Waiting` together are at most one per poll for each failure and one more. `Waiting` and
`Marking` share no poll, which is what the step that publishes the row needs.

**JobService.** `ServiceIInv` joins the invariants of the two components, which are taken over by name from
their modules, and adds what only the composition can say: a poll that holds a node looked it up
for a cancellation, and the node took the row's job (`PollsKnowNode`), and the same of every message it
handed over (`SentToNode`). Both stay true after the lookup, whoever else takes the job. From it
follow `CancelFindsTaker`, that no CANCEL goes to a node that never had the job however stale the batch,
and that each component keeps its promises with the other at work (`PublisherKeepsPromises`,
`LogStaysCorrect`, `SettledThroughout`).

`ServiceImplementsPublisher` is the refinement, with the identity for a mapping. A transaction of
`JobLifecycle` that appends a row is an `AppendEvent` and touches neither nodes nor queues (`RowsAdded`). A
start report that changes a node is an `AssignNode` (`NodeAssigned`). A hard cancel's payload is an
`emitCancelJobEvent`: by `ChecksPassed` it has a node when it gets there (`NodeToldByHardCancel`). All else
does not concern the publisher.

**JobCreation.** `NamesAreTrue` records which job a handler carries: about to store a key, one that
was made for it; about to answer, the one in the key's row. Since rows and keys never change
once written (`RowsStay`), all answers agree (`SuccessesAgree`), a stored key stays closed
(`StoredKeyCloses`) and the handlers implement `IdempotentCreate` (`CreationImplements`).

**LogStream.** The invariant ties each connection to its place: what a connection that is past its
first await and open has to be in, who may be an orphan, and `Settled`, which says of every
connection that what it owes is written, held back or in the reply. The heart is the flush: it
gives what one connection held back to all connections of the Set, in the middle of their own
replays, and `TakeType` shows that giving a line to a connection settles it and unsettles
nothing. `ListensForViewers` follows from what each command queue ends in.

`RepeatsStayBounded` has an invariant of its own. A line that was published reaches a connection
once by delivery; what makes more of it are flushes, which write what one connection held back to
all the others. The weight is the number of subsets of the connections that are past their replay
(`Past`): it doubles with each flush, and a connection flushes once. A connection holds back at most
the deliveries times the weight, and was written at most what was published plus the deliveries
times the weight less one. Deliveries to a process are what was published less what its queue still
holds (`Times` counts it), so they are no more than what was published. A replay adds the backlog,
which holds no more copies than were published; a flush adds one held-back share, which the doubled
weight pays for. At most all connections are past their replay, whence the power of two.

**ImageCache.** A `set` adds at most one entry and `evict` takes one, so one eviction per store is enough,
however many fetches end together. `AgesBounded` carries `AnswersStayRecent`: a fetch is no older than
the time it has spent, and an entry's age and the time it has left add up to at most the time to
live and one fetch.

**JobListing.** The offset stands for what the client has behind it. `Ahead`: a job not shown yet has at
least as many newer rows as the offset says, so the next page starts no further down than it;
creations only add to them. `Behind`: a job that was shown has no more than that, itself
included, unless a row joined in front of it. `Counts` adds that no total promises more rows than
there are. With the cardinalities of a page (`PageParts`) each step is arithmetic. The exceptions in
`ListingComplete` are both needed: TLC finds counterexamples without either.

Model-checked only: the liveness properties `WorkerResultRecorded`, `EveryEventSettled`,
`CancelReachesTaker`, `OwedLinesArrive`, `ReportEndsStreams` and `EveryRequestAnswered`. They rest on
fairness, for which the prover has no rules (nor for ENABLED).

## 6. Not modelled

- **Of log streaming**: the expiry of the backlog after 24 hours, a subscriber that reconnects to
  Redis, a failing UNSUBSCRIBE, timestamps, levels and blank lines.
- **Of the image proxy**: the shape of the answers, and the checks of names and queries.
- **Of the reads**: `getJob`, which is one query, and ownership, decided on columns that never change;
  negative limits and offsets, which Prisma reads backwards or refuses.
- **Artifacts**: listings and downloads read object storage. The archive is written under a key that is
  a function of the job, so that two requests write the same object; no component reads it.
- **Authentication, schemas, health, metrics, configuration**: stateless. Of the schemas, only which
  statuses an internal update may ask for matters.
- **Unused code** (`libs/artifact.upload.ts`, `utils/error.ts`, `test.ts`, `createJobAttempt`).

## 7. Plan

1. The safety half of each liveness property as a theorem: for instance, that a result whose handler
   reads the row is either written or ignored because of a cancellation, and is not acked before.
2. Larger instances of `LogStream`: two lines, for a backlog that drops one line in favour of another.

The runs stay one per question, and liveness stays with TLC.

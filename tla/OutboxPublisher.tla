-------------------------- MODULE OutboxPublisher --------------------------
(***************************************************************************)
(* The poller that moves outbox rows to RabbitMQ.  setInterval starts      *)
(* publishOutboxEvents every five seconds whether or not the last call has *)
(* returned, so several polls may be at work in one process.  A message is *)
(* handed to the channel, which buffers it; nothing confirms that the      *)
(* broker got it.  The row is marked published right after the handing.    *)
(***************************************************************************)
EXTENDS Naturals, Sequences, FiniteSetsExt

CONSTANTS
  Jobs, Nodes, NoNode,
  Events,      \* outbox rows: records with a job and a type
  Pollers,     \* bound: polls that can be at work at the same time
  BatchLimit,  \* rows one poll reads (100 in the code)
  MaxEvents,   \* bound: rows of outbox_events
  Faults,      \* kinds of failures that may happen
  MaxFaults    \* bound: how many failures may happen

ASSUME PublisherAssumption ==
  /\ NoNode \notin Nodes
  /\ \A e \in Events : e.job \in Jobs
  /\ IsFiniteSet(Pollers)  \* one process has finitely many calls at work
  /\ BatchLimit \in Nat \ {0} /\ MaxEvents \in Nat /\ MaxFaults \in Nat
  /\ Faults \subseteq {"abort", "close", "restart"}

VARIABLES
  outbox,          \* rows of outbox_events, in the order they were committed
  createdAt,       \* their timestamps, taken when the transaction began
  assignedNodeId,  \* jobs.assignedNodeId
  cancelQueue,     \* CANCEL payloads on queue.node.<n>
  published,       \* rows whose published column is true
  poll,            \* the polls of the running process
  channelOpen,     \* the process's only channel
  sent,            \* history: what was handed to a channel, and where it is
  faults           \* failures so far

sharedVars == <<outbox, createdAt, assignedNodeId, cancelQueue>>
pollerVars == <<published, poll, channelOpen, sent, faults>>
vars       == <<sharedVars, pollerVars>>

NodeOrNone == Nodes \cup {NoNode}
RowId == Nat \ {0}

\* Timestamps are kept as ranks: only their order matters.
Time == 1..MaxEvents

\* batch: the rows the poll has yet to finish; node: the destination looked up.
NoPoll == [pc |-> "idle", batch |-> {}, node |-> NoNode]

Poll == [pc: {"idle", "lookup", "publish", "mark"}, batch: SUBSET RowId, node: NodeOrNone]

Sending == [event: RowId, node: NodeOrNone, at: {"buffer", "broker", "lost"}]

\* Every variable has its type; only existing rows are published.
TypeOK ==
  /\ outbox \in Seq(Events)
  /\ createdAt \in Seq(Time) /\ Len(createdAt) = Len(outbox)
  /\ assignedNodeId \in [Jobs -> NodeOrNone]
  /\ cancelQueue \subseteq Nodes \X Jobs
  /\ published \subseteq DOMAIN outbox
  /\ poll \in [Pollers -> Poll]
  /\ channelOpen \in BOOLEAN
  /\ sent \in Seq(Sending)
  /\ faults \in 0..MaxFaults

Init ==
  /\ outbox = <<>> /\ createdAt = <<>>
  /\ assignedNodeId = [j \in Jobs |-> NoNode]
  /\ cancelQueue = {}
  /\ published = {}
  /\ poll = [p \in Pollers |-> NoPoll]
  /\ channelOpen = TRUE
  /\ sent = <<>>
  /\ faults = 0

-----------------------------------------------------------------------------
(* The rest of the service: transactions append rows, the consumer records *)
(* the node of every start report, and a hard cancel tells a node itself.  *)

\* Transactions overlap, so a row may appear with an older timestamp than one
\* that was committed before it.
Stamp(t) ==
  /\ \A i \in DOMAIN createdAt : createdAt[i] # t
  /\ createdAt' = Append(createdAt, t)

AppendEvent(t) ==
  /\ Stamp(t)
  /\ Len(outbox) < MaxEvents
  /\ \E e \in Events : outbox' = Append(outbox, e)
  /\ UNCHANGED <<assignedNodeId, cancelQueue, pollerVars>>

AssignNode(j, n) ==
  /\ assignedNodeId' = [assignedNodeId EXCEPT ![j] = n]
  /\ UNCHANGED <<outbox, createdAt, cancelQueue, pollerVars>>

\* The node is the one its first read found, whichever the job has by now.
emitCancelJobEvent(j, n) ==
  /\ cancelQueue' = cancelQueue \cup {<<n, j>>}
  /\ UNCHANGED <<outbox, createdAt, assignedNodeId, pollerVars>>

-----------------------------------------------------------------------------
(* publishOutboxEvents.                                                    *)

Unpublished == DOMAIN outbox \ published

Older(i, k) == createdAt[i] < createdAt[k]

NewestUnpublished(limit) ==
  {i \in Unpublished : Cardinality({k \in Unpublished : Older(i, k)}) < limit}

\* where published = false, oldest first, at most limit rows.
getUnpublishedEvents(limit) ==
  {i \in Unpublished : Cardinality({k \in Unpublished : Older(k, i)}) < limit}

oldest(batch) == CHOOSE i \in batch : \A k \in batch : ~Older(k, i)

\* The loop takes the oldest row of its batch; only a CANCELLED event needs its
\* job's node.  After the last row the poll returns.
continueWith(batch) ==
  IF batch = {} THEN NoPoll
  ELSE [pc |-> IF outbox[oldest(batch)].type = "CANCELLED" THEN "lookup" ELSE "publish",
        batch |-> batch, node |-> NoNode]

current(p) == oldest(poll[p].batch)

Tick(p) ==
  /\ poll[p].pc = "idle"
  /\ Unpublished # {}
  /\ poll' = [poll EXCEPT ![p] = continueWith(getUnpublishedEvents(BatchLimit))]
  /\ UNCHANGED <<sharedVars, published, channelOpen, sent, faults>>

SkipUnassigned(p) ==
  /\ poll[p].pc = "lookup"
  /\ LET node == assignedNodeId[outbox[current(p)].job] IN
       poll' = [poll EXCEPT ![p] =
                  IF node = NoNode THEN continueWith(@.batch \ {current(p)})
                  ELSE [@ EXCEPT !.pc = "publish", !.node = node]]
  /\ UNCHANGED <<sharedVars, published, channelOpen, sent, faults>>

JobIdAsNode(p) ==
  /\ poll[p].pc = "lookup"
  /\ poll' = [poll EXCEPT ![p].pc = "publish",
                          ![p].node = outbox[current(p)].job]
  /\ UNCHANGED <<sharedVars, published, channelOpen, sent, faults>>

CancelToExchange(p) ==
  /\ poll[p].pc = "lookup"
  /\ poll' = [poll EXCEPT ![p].pc = "publish"]
  /\ UNCHANGED <<sharedVars, published, channelOpen, sent, faults>>

\* getJobById: a job that has a node gets the CANCEL payload on the node's
\* queue, any other event goes to the exchange.
LookupNode(p) ==
  /\ poll[p].pc = "lookup"
  /\ poll' = [poll EXCEPT ![p].pc = "publish",
                          ![p].node = assignedNodeId[outbox[current(p)].job]]
  /\ UNCHANGED <<sharedVars, published, channelOpen, sent, faults>>

\* instrumentedPublish puts the message in the channel's write buffer.  That
\* the buffer is full (the call returns false) is logged and changes nothing.
Publish(p) ==
  /\ poll[p].pc = "publish"
  /\ channelOpen
  /\ sent' = Append(sent, [event |-> current(p), node |-> poll[p].node,
                           at |-> "buffer"])
  /\ poll' = [poll EXCEPT ![p].pc = "mark"]
  /\ UNCHANGED <<sharedVars, published, channelOpen, faults>>

SwallowedThrow(p) ==
  /\ poll[p].pc = "publish"
  /\ ~channelOpen
  /\ poll' = [poll EXCEPT ![p].pc = "mark"]
  /\ UNCHANGED <<sharedVars, published, channelOpen, sent, faults>>

\* publish on a closed channel throws; the interval's catch ends the poll.
PublishThrows(p) ==
  /\ poll[p].pc = "publish"
  /\ ~channelOpen
  /\ poll' = [poll EXCEPT ![p] = NoPoll]
  /\ UNCHANGED <<sharedVars, published, channelOpen, sent, faults>>

SkippedMark(p) ==
  /\ poll[p].pc = "mark"
  /\ poll' = [poll EXCEPT ![p] = continueWith(@.batch \ {current(p)})]
  /\ UNCHANGED <<sharedVars, published, channelOpen, sent, faults>>

Mark(p) ==
  /\ poll[p].pc = "mark"
  /\ published' = published \cup {current(p)}
  /\ poll' = [poll EXCEPT ![p] = continueWith(@.batch \ {current(p)})]
  /\ UNCHANGED <<sharedVars, channelOpen, sent, faults>>

-----------------------------------------------------------------------------
(* The channel and the failures.                                           *)

Buffered == {k \in DOMAIN sent : sent[k].at = "buffer"}

\* The oldest buffered message reaches the broker; a CANCEL payload lands on
\* the queue of its node.
Flush ==
  /\ Buffered # {}
  /\ LET k == Min(Buffered)
         s == sent[k]
     IN /\ sent' = [sent EXCEPT ![k].at = "broker"]
        /\ cancelQueue' = IF s.node = NoNode THEN cancelQueue
                          ELSE cancelQueue \cup {<<s.node, outbox[s.event].job>>}
  /\ UNCHANGED <<outbox, createdAt, assignedNodeId, published, poll, channelOpen, faults>>

Fault(kind) ==
  /\ kind \in Faults
  /\ faults < MaxFaults
  /\ faults' = faults + 1

bufferLost == [k \in DOMAIN sent |->
                 IF k \in Buffered THEN [sent[k] EXCEPT !.at = "lost"] ELSE sent[k]]

\* A query of the poll fails (the read of the job, the update of the row).
AbortPoll(p) ==
  /\ poll[p].pc \in {"lookup", "mark"}
  /\ Fault("abort")
  /\ poll' = [poll EXCEPT ![p] = NoPoll]
  /\ UNCHANGED <<sharedVars, published, channelOpen, sent>>

\* The broker closes the connection.  Nothing opens a channel again:
\* connectRabbitMQ returns as soon as it sees the old connection object.
ChannelCloses ==
  /\ channelOpen
  /\ Fault("close")
  /\ channelOpen' = FALSE
  /\ sent' = bufferLost
  /\ UNCHANGED <<sharedVars, published, poll>>

\* The process dies, with its polls and its buffer, and is started anew.
Restart ==
  /\ Fault("restart")
  /\ poll' = [p \in Pollers |-> NoPoll]
  /\ channelOpen' = TRUE
  /\ sent' = bufferLost
  /\ UNCHANGED <<sharedVars, published>>

-----------------------------------------------------------------------------
PollStep(p) ==
  Tick(p) \/ LookupNode(p) \/ Publish(p) \/ PublishThrows(p) \/ Mark(p)

PublisherStep ==
  \/ \E p \in Pollers : PollStep(p) \/ AbortPoll(p)
  \/ Flush
  \/ ChannelCloses
  \/ Restart

Environment ==
  \/ \E t \in Time : AppendEvent(t)
  \/ \E j \in Jobs, n \in Nodes : AssignNode(j, n) \/ emitCancelJobEvent(j, n)

Next == PublisherStep \/ Environment

Spec == Init /\ [][Next]_vars

\* The interval keeps firing, awaited queries return, the socket is written.
Fairness == WF_vars(Flush) /\ \A p \in Pollers : WF_vars(PollStep(p))

FairSpec == Spec /\ Fairness

-----------------------------------------------------------------------------
(* Properties that hold.                                                   *)

Handed == {sent[k].event : k \in DOMAIN sent}

\* A row is marked published only after its event was handed to a channel,
\* also when polls overlap, queries fail, publish throws or the process dies.
HandedBeforeMarked == published \subseteq Handed

\* No event overtakes one that is older and was committed before it, of its
\* own job or of another: polls overlap and fail, yet when an event has been
\* handed over so have all of those.  Repeats may come late, first sendings not.
HandedInOrder == \A i \in Handed : \A k \in 1..(i-1) : Older(k, i) => k \in Handed

Copies(i) == Cardinality({k \in DOMAIN sent : sent[k].event = i})

\* Overlap and failures multiply an event no further than this: once per poll
\* at work, and once more per poll for every failure.
CopiesBounded ==
  \A i \in Handed : Copies(i) <= Cardinality(Pollers) * (faults + 1)

LostCopies(i) == \A k \in DOMAIN sent : sent[k].event = i => sent[k].at = "lost"

\* Every committed event reaches the broker, through failing queries, restarts
\* and rows that appear behind the ones already read, but for two cases: the
\* channel is closed for good, or the process died between the marking of the
\* row and the writing of its buffer.
EveryEventSettled ==
  \A i \in 1..MaxEvents :
    i \in DOMAIN outbox
      ~> \/ \E k \in DOMAIN sent : sent[k].event = i /\ sent[k].at = "broker"
         \/ i \in published /\ LostCopies(i)
         \/ ~channelOpen

-----------------------------------------------------------------------------
(* A property that a document states and the code does not keep.           *)

\* OUTBOX_PATTERN.md:203-209: a row marked published is in the channel's
\* buffer or at the broker, whatever happens to the process.
NoEventLoss ==
  \A i \in published : ~LostCopies(i)
=============================================================================

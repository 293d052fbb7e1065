----------------------------- MODULE JobService -----------------------------
(***************************************************************************)
(* The service as one system: the handlers and the consumer of             *)
(* JobLifecycle write the rows and the events that the polls of            *)
(* OutboxPublisher read.  The two meet in three places: outbox, where the  *)
(* handlers' transactions append and the polls read; assignedNodeId, which *)
(* the consumer writes and a poll looks up for a CANCELLED event; and the  *)
(* cancel queues of the nodes, which both a hard cancel and the publisher  *)
(* feed and the workers obey.                                              *)
(***************************************************************************)
EXTENDS JobLifecycle, FiniteSets

CONSTANTS Pollers, BatchLimit, Faults, MaxFaults  \* as in OutboxPublisher

ASSUME ServiceAssumption ==
  /\ IsFiniteSet(Pollers)
  /\ BatchLimit \in Nat \ {0} /\ MaxFaults \in Nat
  /\ Faults \subseteq {"abort", "close", "restart"}

VARIABLES createdAt, published, poll, channelOpen, sent, faults

Publisher == INSTANCE OutboxPublisher WITH Events <- Event

pollerVars == <<published, poll, channelOpen, sent, faults>>

publisherVars == <<createdAt, pollerVars>>

serviceVars == <<vars, publisherVars>>

\* A publisher step leaves alone what only the lifecycle has.
lifecycleOnly == <<status, byWorker, req, msg, workerVars>>

ServiceTypeOK == TypeOK /\ Publisher!TypeOK

ServiceInit == Init /\ Publisher!Init

\* A transaction that appends an event also stamps it.
LifecycleStep ==
  /\ Next
  /\ IF outbox' = outbox
       THEN UNCHANGED createdAt
       ELSE \E t \in Publisher!Time : Publisher!Stamp(t)
  /\ UNCHANGED pollerVars

\* A poll, or the channel.  A restart also ends the requests of the process
\* and has its unacked messages redelivered: AbandonRequest and Redeliver do
\* that one by one, so that requests of other instances survive it.
PublisherStep == Publisher!PublisherStep /\ UNCHANGED lifecycleOnly

ServiceNext == LifecycleStep \/ PublisherStep

ServiceSpec == ServiceInit /\ [][ServiceNext]_serviceVars

\* The polls and the channel are scheduled as in OutboxPublisher, the consumer
\* as in JobLifecycle; requests, workers and failures are not obliged to act.
PollStep(p) == Publisher!PollStep(p) /\ UNCHANGED lifecycleOnly

FlushStep == Publisher!Flush /\ UNCHANGED lifecycleOnly

Untouched == UNCHANGED publisherVars

ServiceFairness ==
  /\ WF_serviceVars(FlushStep)
  /\ \A p \in Pollers : WF_serviceVars(PollStep(p))
  /\ \A m \in Msgs :
       /\ WF_serviceVars(ReadJob(m) /\ Untouched)
       /\ SF_serviceVars((SkipEvent(m) \/ ApplyEvent(m)) /\ Untouched)
       /\ SF_serviceVars(Ack(m) /\ Untouched)

FairServiceSpec == ServiceSpec /\ ServiceFairness

-----------------------------------------------------------------------------
(* Properties.                                                             *)

\* A CANCEL payload on a node's queue is for a job whose cancellation is
\* committed and which that node did take: neither a hard cancel nor a poll,
\* however stale what it read, tells a node that never had the job.
CancelGoesToTaker ==
  \A p \in cancelQueue : HasEvent(p[2], "CANCELLED") /\ p \in taken

\* Together with the handlers and the consumer the polls run as OutboxPublisher
\* has them run with its environment: rows are only added, each with a stamp of
\* its own that stays, and nothing else touches what a poll has read.
ImplementsPublisher == Publisher!Spec

\* The cancellation of j waits in the outbox for a poll to look its node up.
AwaitsLookup(j) ==
  \E i \in EventsOf(j) :
    /\ outbox[i].type = "CANCELLED"
    /\ i \notin Publisher!Handed
    /\ \A p \in Pollers :
         poll[p].pc = "publish" /\ i \in poll[p].batch
           => Publisher!current(p) # i

\* A cancellation committed when the node of the job is known reaches the queue
\* of a node that took the job, through stale batches and failing queries, also
\* if the request that committed it went no further or another node takes the
\* job meanwhile.  Where one node only took it, it is that one.
CancelReachesTaker ==
  \A j \in Jobs :
    (AwaitsLookup(j) /\ assignedNodeId[j] # NoNode)
      ~> \E n \in Nodes : <<n, j>> \in cancelQueue \cap taken
=============================================================================

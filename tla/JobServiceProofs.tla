-------------------------- MODULE JobServiceProofs --------------------------
(***************************************************************************)
(* Proofs about JobService: what was proved of the two components holds of *)
(* their composition, and the CANCEL payloads of both go to nodes that     *)
(* took the job.                                                           *)
(***************************************************************************)
EXTENDS JobService, JobLifecycleProofs

\* The publisher with the theorems about it.
Pub == INSTANCE OutboxPublisherProofs WITH Events <- Event

-----------------------------------------------------------------------------
(* The two instances are the same publisher.                               *)

\* What is assumed of its constants holds here.
LEMMA PublisherAssumed == Pub!PublisherAssumption
<1>1. Pub!IsFiniteSet(Pollers)
  BY ServiceAssumption DEF IsFiniteSet, Pub!IsFiniteSet
<1> QED
  BY <1>1, LifecycleAssumption, ServiceAssumption DEF Pub!PublisherAssumption, Event

\* The operators both instances bring along.
LEMMA SameOperators ==
  /\ \A S : Publisher!Cardinality(S) = Pub!Cardinality(S)
  /\ \A batch : Publisher!oldest(batch) = Pub!oldest(batch)
  /\ \A p : Publisher!current(p) = Pub!current(p)
  /\ \A batch : Publisher!continueWith(batch) = Pub!continueWith(batch)
  /\ Publisher!getUnpublishedEvents(BatchLimit) = Pub!getUnpublishedEvents(BatchLimit)
  /\ Publisher!Buffered = Pub!Buffered
  /\ Publisher!Handed = Pub!Handed
  /\ Publisher!Time = Pub!Time
<1>1. \A S : Publisher!Cardinality(S) = Pub!Cardinality(S)
  BY DEF Publisher!Cardinality, Pub!Cardinality, Publisher!IsFiniteSet, Pub!IsFiniteSet
<1>2. \A i, k : Publisher!Older(i, k) <=> Pub!Older(i, k)
  BY DEF Publisher!Older, Pub!Older
<1>3. \A batch : Publisher!oldest(batch) = Pub!oldest(batch)
  BY DEF Publisher!oldest, Pub!oldest, Publisher!Older, Pub!Older
<1>4. \A batch : Publisher!continueWith(batch) = Pub!continueWith(batch)
  BY <1>3 DEF Publisher!continueWith, Pub!continueWith, Publisher!NoPoll, Pub!NoPoll
<1>5. Publisher!getUnpublishedEvents(BatchLimit) = Pub!getUnpublishedEvents(BatchLimit)
  BY <1>1 DEF Publisher!getUnpublishedEvents, Pub!getUnpublishedEvents, Publisher!Unpublished,
              Pub!Unpublished, Publisher!Older, Pub!Older
<1> QED
  BY <1>1, <1>3, <1>4, <1>5
  DEF Publisher!current, Pub!current, Publisher!Buffered, Pub!Buffered, Publisher!Handed,
      Pub!Handed, Publisher!Time, Pub!Time

\* And so do they take the same steps.
LEMMA SameSteps ==
  ASSUME Publisher!PublisherStep
  PROVE  Pub!PublisherStep
<1>1. ASSUME NEW p \in Pollers, Publisher!PollStep(p) PROVE Pub!PollStep(p)
  <2>1. Publisher!Tick(p) => Pub!Tick(p)
    BY SameOperators DEF Publisher!Tick, Pub!Tick, Publisher!Unpublished, Pub!Unpublished,
       Publisher!sharedVars, Pub!sharedVars
  <2>2. Publisher!LookupNode(p) => Pub!LookupNode(p)
    BY SameOperators DEF Publisher!LookupNode, Pub!LookupNode, Publisher!sharedVars, Pub!sharedVars
  <2>3. Publisher!Publish(p) => Pub!Publish(p)
    BY SameOperators DEF Publisher!Publish, Pub!Publish, Publisher!sharedVars, Pub!sharedVars
  <2>4. Publisher!PublishThrows(p) => Pub!PublishThrows(p)
    BY DEF Publisher!PublishThrows, Pub!PublishThrows, Publisher!NoPoll, Pub!NoPoll,
       Publisher!sharedVars, Pub!sharedVars
  <2>5. Publisher!Mark(p) => Pub!Mark(p)
    BY SameOperators DEF Publisher!Mark, Pub!Mark, Publisher!sharedVars, Pub!sharedVars
  <2> QED
    BY <1>1, <2>1, <2>2, <2>3, <2>4, <2>5 DEF Publisher!PollStep, Pub!PollStep
<1>2. ASSUME NEW p \in Pollers, Publisher!AbortPoll(p) PROVE Pub!AbortPoll(p)
  BY <1>2 DEF Publisher!AbortPoll, Pub!AbortPoll, Publisher!Fault, Pub!Fault, Publisher!NoPoll,
     Pub!NoPoll, Publisher!sharedVars, Pub!sharedVars
<1>3. Publisher!Flush => Pub!Flush
  BY SameOperators DEF Publisher!Flush, Pub!Flush, Publisher!Min, Pub!Min
<1>4. Publisher!bufferLost = Pub!bufferLost
  BY SameOperators DEF Publisher!bufferLost, Pub!bufferLost
<1>5. Publisher!ChannelCloses => Pub!ChannelCloses
  BY <1>4 DEF Publisher!ChannelCloses, Pub!ChannelCloses, Publisher!Fault, Pub!Fault,
     Publisher!sharedVars, Pub!sharedVars
<1>6. Publisher!Restart => Pub!Restart
  BY <1>4 DEF Publisher!Restart, Pub!Restart, Publisher!Fault, Pub!Fault, Publisher!NoPoll,
     Pub!NoPoll, Publisher!sharedVars, Pub!sharedVars
<1> QED
  BY <1>1, <1>2, <1>3, <1>5, <1>6 DEF Publisher!PublisherStep, Pub!PublisherStep

\* And their properties are the same.
LEMMA SameProperties ==
  /\ Publisher!TypeOK <=> Pub!TypeOK
  /\ Publisher!HandedBeforeMarked <=> Pub!HandedBeforeMarked
  /\ Publisher!HandedInOrder <=> Pub!HandedInOrder
  /\ Publisher!CopiesBounded <=> Pub!CopiesBounded
<1>1. Publisher!TypeOK <=> Pub!TypeOK
  BY DEF Publisher!TypeOK, Pub!TypeOK, Publisher!Time, Pub!Time, Publisher!NodeOrNone,
     Pub!NodeOrNone, Publisher!Sending, Pub!Sending, Publisher!Poll, Pub!Poll, Publisher!RowId,
     Pub!RowId
<1>2. /\ Publisher!HandedBeforeMarked <=> Pub!HandedBeforeMarked
      /\ Publisher!HandedInOrder <=> Pub!HandedInOrder
  BY SameOperators
  DEF Publisher!HandedBeforeMarked, Pub!HandedBeforeMarked, Publisher!HandedInOrder,
      Pub!HandedInOrder, Publisher!Older, Pub!Older
<1>3. Publisher!CopiesBounded <=> Pub!CopiesBounded
  BY SameOperators DEF Publisher!CopiesBounded, Pub!CopiesBounded, Publisher!Copies, Pub!Copies
<1> QED
  BY <1>1, <1>2, <1>3

\* The empty outbox of the service.
LEMMA SameInit == Publisher!Init => Pub!Init
BY DEF Publisher!Init, Pub!Init, Publisher!NoPoll, Pub!NoPoll

-----------------------------------------------------------------------------
(* The invariant: those of the components, and what ties them together.    *)

\* Row i cancels a job that node n has taken.
CancelRow(i, n) ==
  /\ i \in DOMAIN outbox
  /\ outbox[i].type = "CANCELLED"
  /\ <<n, outbox[i].job>> \in taken

\* What a poll knows of its current row: it looks a node up for a cancellation
\* only, and a node that it has found did take the row's job.
PollKnowsNode(q) ==
  /\ q.pc = "lookup" => outbox[Pub!oldest(q.batch)].type = "CANCELLED"
  /\ q.pc \in {"publish", "mark"} /\ q.node # NoNode => CancelRow(Pub!oldest(q.batch), q.node)

PollsKnowNode == \A p \in Pollers : PollKnowsNode(poll[p])

\* A message for a node's queue is a cancellation of a job the node has taken.
SentToNode ==
  \A k \in DOMAIN sent : sent[k].node # NoNode => CancelRow(sent[k].event, sent[k].node)

ServiceIInv ==
  /\ IInv
  /\ Pub!IInv
  /\ Pub!Counted
  /\ NodeInv
  /\ PollsKnowNode
  /\ SentToNode

-----------------------------------------------------------------------------
(* Steps of the handlers, the consumer and the workers.                    *)

\* They hand nothing over, and begin or end no poll.
LEMMA LifecycleCount ==
  ASSUME ServiceIInv, LifecycleStep PROVE Pub!Counted'
<1> SUFFICES ASSUME NEW i \in Pub!RowId PROVE Pub!CountOK(i)'
  BY DEF Pub!Counted
<1>1. Pub!IInv /\ Pub!CountOK(i)
  BY DEF ServiceIInv, Pub!Counted
<1>2. UNCHANGED Pub!pollerVars
  BY DEF LifecycleStep, pollerVars, Pub!pollerVars
<1>3. UNCHANGED createdAt \/ \E t \in Pub!Time : Pub!Stamp(t)
  BY SameOperators DEF LifecycleStep, Publisher!Stamp, Pub!Stamp
<1> QED
  BY <1>1, <1>2, <1>3, Pub!EnvironmentCount, PublisherAssumed

\* To the publisher they are steps of its environment.
LEMMA LifecycleIsEnvironment ==
  ASSUME ServiceIInv, LifecycleStep
  PROVE  Pub!IInv' /\ Pub!Counted'
<1>1. TypeOK /\ Next /\ Pub!IInv
  BY DEF ServiceIInv, IInv, LifecycleStep
<1>2. UNCHANGED <<published, poll, channelOpen, sent, faults>>
  BY DEF LifecycleStep, pollerVars
<1>3. TypeOK'
  BY <1>1, InvariantStep DEF ServiceIInv, IInv
<1>4. CASE UNCHANGED outbox
  <2>1. UNCHANGED createdAt
    BY <1>4 DEF LifecycleStep
  <2>2. assignedNodeId' \in [Jobs -> Pub!NodeOrNone] /\ cancelQueue' \subseteq Nodes \X Jobs
    BY <1>3 DEF TypeOK, NodeOrNone, Pub!NodeOrNone
  <2>3. Pub!IInv'
    BY <1>1, <1>2, <1>4, <2>1, <2>2, Pub!NodeStep, PublisherAssumed
  <2> QED
    BY <1>4, <2>1, <2>3, LifecycleCount
<1>5. CASE ~UNCHANGED outbox
  <2>1. PICK e \in Event : /\ Len(outbox) < MaxEvents
                           /\ outbox' = Append(outbox, e)
                           /\ UNCHANGED <<assignedNodeId, cancelQueue>>
    BY <1>1, <1>5, RowsAdded
  <2>2. PICK t \in Pub!Time : Pub!Stamp(t)
    BY <1>5, SameOperators DEF LifecycleStep, Publisher!Stamp, Pub!Stamp
  <2>3. Pub!AppendEvent(t)
    BY <1>2, <2>1, <2>2 DEF Pub!AppendEvent, Pub!pollerVars
  <2>4. Pub!IInv'
    BY <1>1, <2>3, Pub!AppendStep, PublisherAssumed
  <2> QED
    BY <2>4, LifecycleCount
<1> QED
  BY <1>4, <1>5

\* Every row is an event of some job.
LEMMA RowsHaveJobs == IInv => \A i \in DOMAIN outbox : outbox[i].job \in Jobs
<1> SUFFICES ASSUME IInv PROVE \A i \in DOMAIN outbox : outbox[i].job \in Jobs
  OBVIOUS
<1>1. \A i \in DOMAIN outbox : outbox[i] \in Event
  BY DEF IInv, TypeOK
<1>2. \A e \in Event : e.job \in Jobs
  BY DEF Event
<1> QED
  BY <1>1, <1>2

\* A row stays what it is.
LEMMA RowsStay ==
  ASSUME IInv, [Next]_vars
  PROVE  /\ DOMAIN outbox \subseteq DOMAIN outbox'
         /\ \A i \in DOMAIN outbox : outbox'[i] = outbox[i]
<1>1. TypeOK /\ outbox \in Seq(Event)
  BY DEF IInv, TypeOK
<1>2. ASSUME NEW e \in Event, outbox' = Append(outbox, e)
      PROVE  /\ DOMAIN outbox \subseteq DOMAIN outbox'
             /\ \A i \in DOMAIN outbox : outbox'[i] = outbox[i]
  BY <1>1, <1>2, AppendEvent
<1> QED
  BY <1>1, <1>2, RowsAdded

\* What a poll once knew of a cancellation and its node stays true.
LEMMA CancelRowStays ==
  ASSUME IInv, [Next]_vars, NEW i, NEW n, CancelRow(i, n)
  PROVE  CancelRow(i, n)'
<1>1. i \in DOMAIN outbox' /\ outbox'[i] = outbox[i]
  BY RowsStay DEF CancelRow
<1> QED
  BY <1>1, TakenStays DEF CancelRow

\* What is known of a node stays known.
LEMMA LifecycleKeepsNodes ==
  ASSUME ServiceIInv, LifecycleStep
  PROVE  PollsKnowNode' /\ SentToNode'
<1>1. IInv /\ Next /\ Pub!IInv /\ Pub!TypeOK
  BY DEF ServiceIInv, LifecycleStep, Pub!IInv
<1>2. UNCHANGED <<poll, sent>>
  BY DEF LifecycleStep, pollerVars
<1>3. SentToNode'
  BY <1>1, <1>2, CancelRowStays DEF ServiceIInv, SentToNode
<1>4. \A i, k \in DOMAIN outbox : Pub!Older(i, k)' <=> Pub!Older(i, k)
  <2>1. CASE UNCHANGED createdAt
    BY <2>1 DEF Pub!Older
  <2>2. ASSUME NEW t, createdAt' = Append(createdAt, t)
        PROVE  \A i \in DOMAIN outbox : createdAt'[i] = createdAt[i]
    BY <1>1, <2>2 DEF Pub!TypeOK
  <2> QED
    BY <2>1, <2>2 DEF LifecycleStep, Publisher!Stamp, Pub!Older
<1>5. ASSUME NEW p \in Pollers PROVE PollKnowsNode(poll[p])'
  <2>1. PICK x : x = poll[p]
    OBVIOUS
  <2>2. PollKnowsNode(x) /\ Pub!PollOK(x)
    BY <2>1 DEF ServiceIInv, PollsKnowNode, Pub!IInv
  <2>3. Pub!oldest(x.batch)' = Pub!oldest(x.batch)
    BY <1>4, <2>2 DEF Pub!oldest, Pub!PollOK
  <2>4. x.pc = "lookup" => Pub!oldest(x.batch) \in DOMAIN outbox
    BY <1>1, <2>2, Pub!OldestIsFirst, PublisherAssumed DEF Pub!PollOK
  <2>5. x.pc = "lookup" => outbox'[Pub!oldest(x.batch)].type = "CANCELLED"
    BY <1>1, <2>2, <2>4, RowsStay DEF PollKnowsNode
  <2>6. x.pc \in {"publish", "mark"} /\ x.node # NoNode => CancelRow(Pub!oldest(x.batch), x.node)'
    <3> PICK i : i = Pub!oldest(x.batch)
      OBVIOUS
    <3>1. x.pc \in {"publish", "mark"} /\ x.node # NoNode => CancelRow(i, x.node)'
      BY <1>1, <2>2, CancelRowStays DEF PollKnowsNode
    <3> QED
      BY <2>3, <3>1 DEF CancelRow
  <2> QED
    BY <1>2, <2>1, <2>3, <2>5, <2>6 DEF PollKnowsNode
<1> QED
  BY <1>3, <1>5 DEF PollsKnowNode

-----------------------------------------------------------------------------
(* Steps of the polls and of the channel.                                  *)

\* What a poll knows is not changed by what other polls do.
LEMMA PollKnowsNodeStays ==
  ASSUME UNCHANGED <<outbox, createdAt, taken>>, NEW q, PollKnowsNode(q)
  PROVE  PollKnowsNode(q)'
BY DEF PollKnowsNode, CancelRow, Pub!oldest, Pub!Older

\* A poll that continues knows its row's type and no node.
LEMMA ContinueKnows ==
  ASSUME NEW batch PROVE PollKnowsNode(Pub!continueWith(batch))
<1>1. CASE batch = {}
  BY <1>1 DEF Pub!continueWith, Pub!NoPoll, PollKnowsNode
<1>2. CASE batch # {}
  <2> PICK q : q = Pub!continueWith(batch)
    OBVIOUS
  <2>1. q.batch = batch /\ q.node = NoNode /\ q.pc \in {"lookup", "publish"}
        /\ (q.pc = "lookup" => outbox[Pub!oldest(batch)].type = "CANCELLED")
    BY <1>2 DEF Pub!continueWith
  <2>2. PollKnowsNode(q)
    BY <2>1 DEF PollKnowsNode
  <2> QED
    BY <2>2
<1> QED
  BY <1>1, <1>2

\* Each step of a poll leaves it with a state that it can justify.
LEMMA PollStepKnows ==
  ASSUME ServiceIInv, NEW p \in Pollers, Pub!PollStep(p) \/ Pub!AbortPoll(p)
  PROVE  \E q : poll' = [poll EXCEPT ![p] = q] /\ PollKnowsNode(q)
<1>1. /\ Pub!TypeOK /\ Pub!PollOK(poll[p]) /\ PollKnowsNode(poll[p])
      /\ poll \in [Pollers -> Pub!Poll] /\ poll[p] \in Pub!Poll
  BY DEF ServiceIInv, Pub!IInv, Pub!TypeOK, PollsKnowNode
<1>2. CASE Pub!Tick(p)
  BY <1>2, ContinueKnows DEF Pub!Tick
<1>3. CASE Pub!Mark(p)
  <2>1. poll' = [poll EXCEPT ![p] = Pub!continueWith(poll[p].batch \ {Pub!current(p)})]
    BY <1>1, <1>3 DEF Pub!Mark
  <2> QED
    BY <2>1, ContinueKnows
<1>4. CASE Pub!PublishThrows(p) \/ Pub!AbortPoll(p)
  <2>1. PollKnowsNode(Pub!NoPoll)
    BY DEF Pub!NoPoll, PollKnowsNode
  <2> QED
    BY <1>4, <2>1 DEF Pub!PublishThrows, Pub!AbortPoll
<1>5. CASE Pub!LookupNode(p)
  <2> PICK q : q = [poll[p] EXCEPT !.pc = "publish",
                                   !.node = assignedNodeId[outbox[Pub!current(p)].job]]
    OBVIOUS
  <2>1. poll' = [poll EXCEPT ![p] = q] /\ poll[p].pc = "lookup"
    BY <1>1, <1>5 DEF Pub!LookupNode
  <2>2. q.pc = "publish" /\ q.batch = poll[p].batch
        /\ q.node = assignedNodeId[outbox[Pub!current(p)].job]
    BY <1>1 DEF Pub!Poll
  <2>3. Pub!current(p) \in DOMAIN outbox
    BY <1>1, <2>1, Pub!OldestIsFirst, PublisherAssumed DEF Pub!PollOK, Pub!current
  <2>4. q.node # NoNode => CancelRow(Pub!oldest(q.batch), q.node)
    <3>1. outbox[Pub!current(p)].job \in Jobs
      BY <2>3, RowsHaveJobs DEF ServiceIInv
    <3>2. q.node # NoNode => <<q.node, outbox[Pub!current(p)].job>> \in taken
      BY <2>2, <3>1 DEF ServiceIInv, NodeInv, RowsNameTakers
    <3> QED
      BY <1>1, <2>1, <2>2, <2>3, <3>2 DEF PollKnowsNode, CancelRow, Pub!current
  <2> QED
    BY <2>1, <2>2, <2>4 DEF PollKnowsNode
<1>6. CASE Pub!Publish(p)
  <2> PICK q : q = [poll[p] EXCEPT !.pc = "mark"]
    OBVIOUS
  <2>1. poll' = [poll EXCEPT ![p] = q] /\ poll[p].pc = "publish"
    BY <1>1, <1>6 DEF Pub!Publish
  <2>2. q.pc = "mark" /\ q.batch = poll[p].batch /\ q.node = poll[p].node
    BY <1>1 DEF Pub!Poll
  <2> QED
    BY <1>1, <2>1, <2>2 DEF PollKnowsNode
<1> QED
  BY <1>2, <1>3, <1>4, <1>5, <1>6 DEF Pub!PollStep

\* So what polls and messages know is so after each publisher step.
LEMMA PublisherKeepsNodes ==
  ASSUME ServiceIInv, Pub!PublisherStep, UNCHANGED taken
  PROVE  PollsKnowNode' /\ SentToNode'
<1>1. Pub!TypeOK /\ sent \in Seq(Pub!Sending) /\ Len(sent) \in Nat /\ DOMAIN sent = 1..Len(sent)
      /\ poll \in [Pollers -> Pub!Poll]
  BY DEF ServiceIInv, Pub!IInv, Pub!TypeOK
<1>2. UNCHANGED <<outbox, createdAt, taken>>
  BY DEF Pub!PublisherStep, Pub!PollStep, Pub!Tick, Pub!LookupNode, Pub!Publish, Pub!PublishThrows,
     Pub!Mark, Pub!AbortPoll, Pub!Flush, Pub!ChannelCloses, Pub!Restart, Pub!sharedVars
<1>3. \A i, n : CancelRow(i, n)' <=> CancelRow(i, n)
  BY <1>2 DEF CancelRow
<1>4. ASSUME NEW p \in Pollers, Pub!PollStep(p) \/ Pub!AbortPoll(p) PROVE PollsKnowNode'
  <2>1. PICK q : poll' = [poll EXCEPT ![p] = q] /\ PollKnowsNode(q)
    BY <1>4, PollStepKnows
  <2>2. ASSUME NEW r \in Pollers PROVE PollKnowsNode(poll[r])'
    <3>1. PICK x : x = poll'[r]
      OBVIOUS
    <3>2. PollKnowsNode(x)
      BY <1>1, <2>1, <3>1 DEF ServiceIInv, PollsKnowNode
    <3>3. PollKnowsNode(x)'
      BY <1>2, <3>2, PollKnowsNodeStays
    <3> QED
      BY <3>1, <3>3
  <2> QED
    BY <2>2 DEF PollsKnowNode
<1>5. ASSUME Pub!Flush \/ Pub!ChannelCloses \/ Pub!Restart PROVE PollsKnowNode'
  <2>1. ASSUME NEW r \in Pollers PROVE PollKnowsNode(poll[r])'
    <3>1. PICK x : x = poll'[r]
      OBVIOUS
    <3>2. x = poll[r] \/ x = Pub!NoPoll
      BY <1>5, <3>1 DEF Pub!Flush, Pub!ChannelCloses, Pub!Restart
    <3>3. PollKnowsNode(x)
      BY <3>2 DEF Pub!NoPoll, PollKnowsNode, ServiceIInv, PollsKnowNode
    <3>4. PollKnowsNode(x)'
      BY <1>2, <3>3, PollKnowsNodeStays
    <3> QED
      BY <3>1, <3>4
  <2> QED
    BY <2>1 DEF PollsKnowNode
<1>6. ASSUME NEW p \in Pollers, Pub!Publish(p) PROVE SentToNode'
  <2> PICK s : s = [event |-> Pub!current(p), node |-> poll[p].node, at |-> "buffer"]
    OBVIOUS
  <2>1. sent' = Append(sent, s) /\ poll[p].pc = "publish"
    BY <1>6 DEF Pub!Publish
  <2>2. DOMAIN sent' = 1..(Len(sent)+1) /\ sent'[Len(sent)+1] = s
        /\ \A k \in 1..Len(sent) : sent'[k] = sent[k]
    BY <1>1, <2>1
  <2>3. s.node # NoNode => CancelRow(s.event, s.node)
    BY <2>1 DEF ServiceIInv, PollsKnowNode, PollKnowsNode, Pub!current
  <2>4. ASSUME NEW k \in 1..Len(sent), sent[k].node # NoNode PROVE CancelRow(sent[k].event, sent[k].node)
    BY <1>1, <2>4 DEF ServiceIInv, SentToNode
  <2> QED
    BY <1>1, <1>3, <2>2, <2>3, <2>4 DEF SentToNode
<1> DEFINE SameMessages ==
             /\ DOMAIN sent' = DOMAIN sent
             /\ \A k \in DOMAIN sent : sent'[k].event = sent[k].event /\ sent'[k].node = sent[k].node
<1>7. SameMessages => SentToNode'
  BY <1>3 DEF ServiceIInv, SentToNode
<1>8. ASSUME UNCHANGED sent PROVE SentToNode'
  BY <1>7, <1>8
<1>9. ASSUME Pub!Flush PROVE SentToNode'
  <2> PICK m : sent' = [sent EXCEPT ![m].at = "broker"]
    BY <1>9 DEF Pub!Flush
  <2> PICK f : f = [sent[m] EXCEPT !.at = "broker"]
    OBVIOUS
  <2>1. m \in DOMAIN sent => f.event = sent[m].event /\ f.node = sent[m].node
    BY <1>1 DEF Pub!Sending
  <2>2. sent' = [sent EXCEPT ![m] = f]
    OBVIOUS
  <2> QED
    BY <1>7, <2>1, <2>2
<1>10. ASSUME Pub!ChannelCloses \/ Pub!Restart PROVE SentToNode'
  <2>1. sent' = [m \in DOMAIN sent |->
                   IF m \in Pub!Buffered THEN [sent[m] EXCEPT !.at = "lost"] ELSE sent[m]]
    BY <1>10 DEF Pub!ChannelCloses, Pub!Restart, Pub!bufferLost
  <2>2. \A x \in Pub!Sending :
          [x EXCEPT !.at = "lost"].event = x.event /\ [x EXCEPT !.at = "lost"].node = x.node
    BY DEF Pub!Sending
  <2>3. \A m \in DOMAIN sent : sent[m] \in Pub!Sending
    BY <1>1
  <2> QED
    BY <1>7, <2>1, <2>2, <2>3
<1>11. ASSUME NEW p \in Pollers, Pub!PollStep(p) \/ Pub!AbortPoll(p), ~Pub!Publish(p)
       PROVE  UNCHANGED sent
  BY <1>11 DEF Pub!PollStep, Pub!Tick, Pub!LookupNode, Pub!PublishThrows, Pub!Mark, Pub!AbortPoll
<1> QED
  BY <1>4, <1>5, <1>6, <1>8, <1>9, <1>10, <1>11 DEF Pub!PublisherStep

\* A message that reaches a node's queue cancels a job the node has taken.
LEMMA PublisherQueues ==
  ASSUME ServiceIInv, Pub!PublisherStep, NEW p \in cancelQueue', p \notin cancelQueue
  PROVE  HasEvent(p[2], "CANCELLED") /\ p \in taken
<1>1. CASE ~Pub!Flush
  BY <1>1
  DEF Pub!PublisherStep, Pub!PollStep, Pub!Tick, Pub!LookupNode, Pub!Publish, Pub!PublishThrows,
      Pub!Mark, Pub!AbortPoll, Pub!ChannelCloses, Pub!Restart, Pub!sharedVars
<1>2. CASE Pub!Flush
  <2> PICK k : k = Pub!Min(Pub!Buffered)
    OBVIOUS
  <2>1. k \in DOMAIN sent
    BY <1>2, Pub!OldestBuffered, PublisherAssumed DEF Pub!Flush, Pub!Buffered, ServiceIInv, Pub!IInv
  <2>2. sent[k].node # NoNode /\ p = <<sent[k].node, outbox[sent[k].event].job>>
    BY <1>2 DEF Pub!Flush
  <2>3. CancelRow(sent[k].event, sent[k].node)
    BY <2>1, <2>2 DEF ServiceIInv, SentToNode
  <2> QED
    BY <2>2, <2>3 DEF CancelRow, HasEvent, EventsOf
<1> QED
  BY <1>1, <1>2

\* The lifecycle's invariant does not speak of what the publisher writes but
\* for the queues.
LEMMA PublisherKeepsLifecycle ==
  ASSUME ServiceIInv, Pub!PublisherStep, UNCHANGED lifecycleOnly, Pub!TypeOK'
  PROVE  IInv' /\ NodeInv'
<1>1. UNCHANGED <<outbox, assignedNodeId>>
  BY DEF Pub!PublisherStep, Pub!PollStep, Pub!Tick, Pub!LookupNode, Pub!Publish, Pub!PublishThrows,
     Pub!Mark, Pub!AbortPoll, Pub!Flush, Pub!ChannelCloses, Pub!Restart, Pub!sharedVars
<1>2. UNCHANGED <<status, byWorker, req, msg, container, taken>>
  BY DEF lifecycleOnly, workerVars
<1>3. TypeOK'
  <2>1. cancelQueue' \subseteq Nodes \X Jobs
    BY DEF Pub!TypeOK
  <2> QED
    BY <1>1, <1>2, <2>1 DEF ServiceIInv, IInv, TypeOK
<1>4. RowsExist' /\ ChecksPassed'
  BY <1>1, <1>2 DEF ServiceIInv, IInv, RowsExist, ChecksPassed, HasEvent, EventsOf
<1>5. LogCoversRows' /\ EventLogWellFormed' /\ StatusMatchesNewestEvent'
  BY <1>1, <1>2 DEF ServiceIInv, IInv, LogCoversRows, EventLogWellFormed, StatusMatchesNewestEvent,
     EventsOf
<1>6. NoCancelBeforeCommit' /\ cancelQueue' \subseteq taken'
  <2> SUFFICES ASSUME NEW p \in cancelQueue'
               PROVE  HasEvent(p[2], "CANCELLED")' /\ p \in taken'
    BY DEF NoCancelBeforeCommit
  <2>1. HasEvent(p[2], "CANCELLED") /\ p \in taken
    BY PublisherQueues DEF ServiceIInv, IInv, NodeInv, NoCancelBeforeCommit
  <2> QED
    BY <1>1, <1>2, <2>1 DEF HasEvent, EventsOf
<1>7. ReportsFromTakers' /\ RowsNameTakers' /\ RequestsNameTakers'
  BY <1>1, <1>2 DEF ServiceIInv, NodeInv, ReportsFromTakers, RowsNameTakers, RequestsNameTakers
<1> QED
  BY <1>3, <1>4, <1>5, <1>6, <1>7 DEF IInv, NodeInv

-----------------------------------------------------------------------------
(* The invariant of the service.                                           *)

\* A handler's, the consumer's or a worker's step.
LEMMA LifecycleStepKeeps == ServiceIInv /\ LifecycleStep => ServiceIInv'
<1> SUFFICES ASSUME ServiceIInv, LifecycleStep PROVE ServiceIInv'
  OBVIOUS
<1>1. IInv' /\ NodeInv'
  BY InvariantStep, NodeInvStep DEF ServiceIInv, LifecycleStep
<1> QED
  BY <1>1, LifecycleIsEnvironment, LifecycleKeepsNodes DEF ServiceIInv

\* A publisher step.
LEMMA PublisherStepKeeps == ServiceIInv /\ PublisherStep => ServiceIInv'
<1> SUFFICES ASSUME ServiceIInv, PublisherStep PROVE ServiceIInv'
  OBVIOUS
<1>1. Pub!PublisherStep /\ UNCHANGED lifecycleOnly
  BY SameSteps DEF PublisherStep
<1>2. Pub!IInv' /\ Pub!Counted'
  <2>1. Pub!IInv /\ Pub!Counted /\ [Pub!Next]_Pub!vars
    BY <1>1 DEF ServiceIInv, Pub!Next
  <2> QED
    BY <2>1, Pub!InvariantStep, Pub!CountStep, PublisherAssumed
<1>3. Pub!TypeOK' /\ UNCHANGED taken
  BY <1>1, <1>2 DEF Pub!IInv, lifecycleOnly, workerVars
<1> QED
  BY <1>1, <1>2, <1>3, PublisherKeepsLifecycle, PublisherKeepsNodes DEF ServiceIInv

\* A step of neither.
LEMMA StutterKeeps == ServiceIInv /\ UNCHANGED serviceVars => ServiceIInv'
<1> SUFFICES ASSUME ServiceIInv, UNCHANGED serviceVars PROVE ServiceIInv'
  OBVIOUS
<1>1. UNCHANGED vars
  BY DEF serviceVars
<1>2. UNCHANGED <<outbox, assignedNodeId, createdAt, cancelQueue, published, poll, channelOpen, sent, faults, taken>>
  BY DEF serviceVars, publisherVars, pollerVars, vars, dbVars, workerVars
<1>3. IInv' /\ NodeInv'
  BY <1>1, InvariantStep, NodeInvStep DEF ServiceIInv
<1>4. Pub!IInv' /\ Pub!Counted'
  <2>1. Pub!IInv /\ Pub!Counted /\ [Pub!Next]_Pub!vars
    BY <1>2 DEF ServiceIInv, Pub!vars, Pub!sharedVars, Pub!pollerVars
  <2> QED
    BY <2>1, Pub!InvariantStep, Pub!CountStep, PublisherAssumed
<1>5. PollsKnowNode'
  <2> SUFFICES ASSUME NEW p \in Pollers PROVE PollKnowsNode(poll[p])'
    BY DEF PollsKnowNode
  <2>1. PICK x : x = poll[p]
    OBVIOUS
  <2>2. PollKnowsNode(x)'
    BY <1>2, <2>1, PollKnowsNodeStays DEF ServiceIInv, PollsKnowNode
  <2> QED
    BY <1>2, <2>1, <2>2
<1>6. SentToNode'
  BY <1>2 DEF ServiceIInv, SentToNode, CancelRow
<1> QED
  BY <1>3, <1>4, <1>5, <1>6 DEF ServiceIInv

\* The service before its first request.
LEMMA InitServiceIInv == ServiceInit => ServiceIInv
<1> SUFFICES ASSUME ServiceInit PROVE ServiceIInv
  OBVIOUS
<1>1. Init /\ Pub!Init
  BY SameInit DEF ServiceInit
<1>2. Pub!IInv /\ Pub!Counted
  BY <1>1, Pub!InitIInv, Pub!InitCounted, PublisherAssumed
<1>3. PollsKnowNode /\ SentToNode
  BY <1>1 DEF Pub!Init, Pub!NoPoll, PollsKnowNode, PollKnowsNode, SentToNode
<1> QED
  BY <1>1, <1>2, <1>3, InitIInv, InitNodeInv DEF ServiceIInv

\* The inductive invariant holds in every reachable state of the service.
THEOREM ServiceInvariance == ServiceSpec => []ServiceIInv
<1>1. ServiceIInv /\ [ServiceNext]_serviceVars => ServiceIInv'
  BY LifecycleStepKeeps, PublisherStepKeeps, StutterKeeps DEF ServiceNext
<1> QED
  BY <1>1, InitServiceIInv, PTL DEF ServiceSpec

-----------------------------------------------------------------------------
(* Theorems.                                                               *)

\* Type correctness of the whole: what the handlers, the consumer and the polls
\* write keeps the types on which the others rely.
THEOREM ServiceTypes == ServiceSpec => []ServiceTypeOK
<1>1. ServiceIInv => ServiceTypeOK
  BY SameProperties DEF ServiceIInv, IInv, Pub!IInv, ServiceTypeOK
<1> QED
  BY <1>1, ServiceInvariance, PTL

\* A CANCEL payload is only on queues of nodes that took the job, and the
\* cancellation is committed, whichever of the hard cancel and the polls put it
\* there, however stale what they read and whoever took the job meanwhile.
THEOREM CancelFindsTaker == ServiceSpec => []CancelGoesToTaker
<1>1. ServiceIInv => CancelGoesToTaker
  BY DEF ServiceIInv, IInv, NoCancelBeforeCommit, NodeInv, CancelGoesToTaker
<1> QED
  BY <1>1, ServiceInvariance, PTL

\* With the real writers of the outbox the publisher keeps its promises:
\* nothing is marked that was not handed over, nothing overtakes, and nothing
\* is handed over more often than polls and failures account for.
THEOREM PublisherKeepsPromises ==
  ServiceSpec => [](/\ Publisher!HandedBeforeMarked
                    /\ Publisher!HandedInOrder
                    /\ Publisher!CopiesBounded)
<1>1. ServiceIInv => Pub!CopiesBounded
  BY Pub!CountBounds, PublisherAssumed DEF ServiceIInv
<1>2. ServiceIInv => /\ Publisher!HandedBeforeMarked
                     /\ Publisher!HandedInOrder
                     /\ Publisher!CopiesBounded
  BY <1>1, SameProperties DEF ServiceIInv, Pub!IInv
<1> QED
  BY <1>2, ServiceInvariance, PTL

\* With the polls at work, too, the outbox is a well-formed history of every
\* job that the rows agree with.
THEOREM LogStaysCorrect ==
  ServiceSpec => [](EventLogWellFormed /\ StatusMatchesNewestEvent)
<1>1. ServiceIInv => EventLogWellFormed /\ StatusMatchesNewestEvent
  BY DEF ServiceIInv, IInv
<1> QED
  BY <1>1, ServiceInvariance, PTL

\* With CANCEL payloads also coming from the polls, a settled cancellation is
\* undone by a timeout report only, and a settled job stays as it is until a
\* worker takes it again.
THEOREM SettledThroughout == ServiceSpec => CancellationSticks /\ SettledIsFinal
<1> DEFINE Sticks ==
             \A j \in Jobs :
               CancelSettled(j) =>
                 \/ CancelSettled(j)'
                 \/ \E m \in Msgs : MessageOf(m, j) /\ msg[m].kind = "timeout" /\ ApplyEvent(m)
           Final ==
             \A j \in Jobs :
               Settled(j) =>
                 /\ status'[j] = status[j]
                 /\ Settled(j)' \/ \E m \in Msgs, n \in Nodes : WorkerPickUp(m, j, n)
<1>1. IInv /\ [Next]_vars => [Sticks]_vars /\ [Final]_vars
  BY CancelSettledStep, SettledStep
<1>2. PublisherStep \/ UNCHANGED serviceVars => Sticks /\ Final
  <2>1. PublisherStep \/ UNCHANGED serviceVars => UNCHANGED <<status, req, msg, container>>
    BY DEF PublisherStep, lifecycleOnly, workerVars, serviceVars, vars, dbVars
  <2>2. UNCHANGED <<status, req, msg, container>> => Sticks /\ Final
    BY DEF CancelSettled, Settled, Committing, MessageOf
  <2> HIDE DEF Sticks, Final
  <2> QED
    BY <2>1, <2>2
<1> HIDE DEF Sticks, Final
<1>3. ServiceIInv /\ [ServiceNext]_serviceVars => [Sticks]_vars /\ [Final]_vars
  BY <1>1, <1>2 DEF ServiceIInv, ServiceNext, LifecycleStep
<1>4. ServiceSpec => [][Sticks]_vars /\ [][Final]_vars
  BY <1>3, ServiceInvariance, PTL DEF ServiceSpec
<1> QED
  BY <1>4 DEF CancellationSticks, SettledIsFinal, Sticks, Final
-----------------------------------------------------------------------------
(* The refinement: to the publisher, every step of a handler, the consumer *)
(* or a worker is one of its environment or does not concern it.           *)

\* A start report gives a job a node.
LEMMA NodeAssigned ==
  ASSUME ServiceIInv, Next, ~UNCHANGED assignedNodeId
  PROVE  /\ UNCHANGED <<outbox, cancelQueue>>
         /\ \E j \in Jobs, n \in Nodes : assignedNodeId' = [assignedNodeId EXCEPT ![j] = n]
<1>1. PICK m \in Msgs : /\ ApplyEvent(m)
                        /\ assignedNodeId' = [assignedNodeId EXCEPT ![msg[m].job] = msg[m].node]
  BY NodeWriters
<1>2. msg[m] \in Message
  BY <1>1 DEF ServiceIInv, IInv, TypeOK, ApplyEvent, Free
<1>3. msg[m].job \in Jobs /\ msg[m].node \in Nodes
  BY <1>2 DEF Message
<1>4. UNCHANGED <<outbox, cancelQueue>>
  BY <1>1 DEF ApplyEvent
<1> QED
  BY <1>1, <1>3, <1>4

\* A hard cancel tells the node it has read.
LEMMA NodeToldByHardCancel ==
  ASSUME ServiceIInv, NEW r \in Requests, PublishCancel(r)
  PROVE  /\ UNCHANGED <<outbox, assignedNodeId>>
         /\ \E j \in Jobs, n \in Nodes : cancelQueue' = cancelQueue \cup {<<n, j>>}
<1>1. req \in [Requests -> Request \cup {Idle}]
  BY DEF ServiceIInv, IInv, TypeOK
<1>2. req[r] \in Request
  BY <1>1 DEF PublishCancel, Idle
<1>3. req[r].node # NoNode
  BY DEF ServiceIInv, IInv, ChecksPassed, PublishCancel
<1>4. req[r].job \in Jobs /\ req[r].node \in Nodes
  BY <1>2, <1>3 DEF Request, NodeOrNone
<1>5. UNCHANGED <<outbox, assignedNodeId>> /\ cancelQueue' = cancelQueue \cup {<<req[r].node, req[r].job>>}
  BY DEF PublishCancel, dbVars
<1> QED
  BY <1>4, <1>5

\* So each such step is the environment's or does not concern the publisher.
LEMMA LifecycleImplements ==
  ASSUME ServiceIInv, LifecycleStep
  PROVE  Publisher!Environment \/ UNCHANGED Publisher!vars
<1>1. TypeOK /\ Next /\ UNCHANGED <<published, poll, channelOpen, sent, faults>>
  BY DEF ServiceIInv, IInv, LifecycleStep, pollerVars
<1>2. CASE ~UNCHANGED outbox
  <2>1. PICK e \in Event : /\ Len(outbox) < MaxEvents
                           /\ outbox' = Append(outbox, e)
                           /\ UNCHANGED <<assignedNodeId, cancelQueue>>
    BY <1>1, <1>2, RowsAdded
  <2>2. PICK t \in Publisher!Time : Publisher!Stamp(t)
    BY <1>2 DEF LifecycleStep
  <2>3. Publisher!AppendEvent(t)
    BY <1>1, <2>1, <2>2 DEF Publisher!AppendEvent, Publisher!pollerVars
  <2> QED
    BY <2>3 DEF Publisher!Environment
<1>3. CASE UNCHANGED outbox /\ ~UNCHANGED assignedNodeId
  <2>1. PICK j \in Jobs, n \in Nodes : /\ assignedNodeId' = [assignedNodeId EXCEPT ![j] = n]
                                       /\ UNCHANGED <<outbox, cancelQueue>>
    BY <1>1, <1>3, NodeAssigned
  <2>2. Publisher!AssignNode(j, n)
    BY <1>1, <1>3, <2>1 DEF Publisher!AssignNode, Publisher!pollerVars, LifecycleStep
  <2> QED
    BY <2>2 DEF Publisher!Environment
<1>4. CASE UNCHANGED <<outbox, assignedNodeId>> /\ ~UNCHANGED cancelQueue
  <2>1. PICK r \in Requests : PublishCancel(r)
    BY <1>1, <1>4, QueueWriters
  <2>2. PICK j \in Jobs, n \in Nodes : cancelQueue' = cancelQueue \cup {<<n, j>>}
    BY <2>1, NodeToldByHardCancel
  <2>3. Publisher!emitCancelJobEvent(j, n)
    BY <1>1, <1>4, <2>2 DEF Publisher!emitCancelJobEvent, Publisher!pollerVars, LifecycleStep
  <2> QED
    BY <2>3 DEF Publisher!Environment
<1>5. CASE UNCHANGED <<outbox, assignedNodeId, cancelQueue>>
  BY <1>1, <1>5 DEF LifecycleStep, Publisher!vars, Publisher!sharedVars, Publisher!pollerVars
<1> QED
  BY <1>2, <1>3, <1>4, <1>5

\* The service implements the publisher with its environment: whatever the
\* handlers, the consumer and the workers do, they only append stamped rows,
\* give jobs a node and queue CANCEL payloads at nodes.
\* What holds of OutboxPublisher therefore holds in the service.
THEOREM ServiceImplementsPublisher == ServiceSpec => ImplementsPublisher
<1>1. ServiceInit => Publisher!Init
  BY DEF ServiceInit
<1>2. ServiceIInv /\ [ServiceNext]_serviceVars => [Publisher!Next]_Publisher!vars
  <2> SUFFICES ASSUME ServiceIInv, [ServiceNext]_serviceVars
               PROVE  Publisher!Next \/ UNCHANGED Publisher!vars
    OBVIOUS
  <2>1. CASE LifecycleStep
    BY <2>1, LifecycleImplements DEF Publisher!Next
  <2>2. CASE PublisherStep
    BY <2>2 DEF PublisherStep, Publisher!Next
  <2>3. CASE UNCHANGED serviceVars
    BY <2>3
    DEF serviceVars, publisherVars, pollerVars, vars, dbVars, Publisher!vars,
        Publisher!sharedVars, Publisher!pollerVars
  <2> QED
    BY <2>1, <2>2, <2>3 DEF ServiceNext
<1> QED
  BY <1>1, <1>2, ServiceInvariance, PTL DEF ServiceSpec, ImplementsPublisher, Publisher!Spec
=============================================================================

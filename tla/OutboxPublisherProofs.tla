------------------------ MODULE OutboxPublisherProofs ------------------------
(***************************************************************************)
(* Proofs about OutboxPublisher, for any number of polls, rows, rows per   *)
(* batch and failures: nothing is marked before it was handed over, and    *)
(* nothing overtakes.                                                      *)
(***************************************************************************)
EXTENDS OutboxPublisher, FiniteSetTheorems, TLAPS

-----------------------------------------------------------------------------
(* The invariant.                                                          *)

\* createdAt orders the rows strictly.
StampsDistinct ==
  \A i, k \in DOMAIN createdAt : createdAt[i] = createdAt[k] => i = k

\* What holds of a poll at work: its rows exist, the one it is about to mark
\* was handed over, and whatever should precede one of its rows has been handed
\* over or is in the same batch.
PollOK(q) ==
  /\ q \in Poll
  /\ q.batch \subseteq DOMAIN outbox
  /\ q.pc # "idle" => q.batch # {}
  /\ q.pc = "mark" => oldest(q.batch) \in Handed
  /\ \A i \in q.batch : \A k \in 1..(i-1) : Older(k, i) => k \in Handed \cup q.batch

IInv ==
  /\ TypeOK
  /\ StampsDistinct
  /\ Handed \subseteq DOMAIN outbox
  /\ HandedBeforeMarked
  /\ HandedInOrder
  /\ \A p \in Pollers : PollOK(poll[p])

-----------------------------------------------------------------------------
(* Rows and their order.                                                   *)

\* Of a nonempty set of rows, one is preceded by none of the others.  (Among
\* the sets of predecessors one is minimal; a row that preceded its owner would
\* have fewer.)
LEMMA FirstOfBatch ==
  ASSUME NEW n \in Nat, NEW c \in [1..n -> Nat], NEW batch \in SUBSET (1..n), batch # {}
  PROVE  \E i \in batch : \A k \in batch : ~(c[k] < c[i])
<1> DEFINE before(i) == {k \in batch : c[k] < c[i]}
           T == {before(i) : i \in batch}
<1>1. IsFiniteSet(batch)
  <2>1. IsFiniteSet(1..n)
    BY FS_Interval
  <2> QED
    BY <2>1, FS_Subset
<1>2. T \subseteq FiniteSubsetsOf(batch) /\ T # {}
  <2>1. \A i \in batch : before(i) \in SUBSET batch /\ IsFiniteSet(before(i))
    BY <1>1, FS_Subset
  <2> QED
    BY <2>1 DEF FiniteSubsetsOf
<1> HIDE DEF T
<1>3. \E x \in T : \A y \in T : ~(<<y, x>> \in StrictSubsetOrdering(batch))
  BY <1>2, FS_StrictSubsetOrderingWellFounded, WFMin
<1> USE DEF T
<1>4. PICK i \in batch : \A k \in batch : <<before(k), before(i)>> \notin StrictSubsetOrdering(batch)
  BY <1>3
<1>5. ASSUME NEW k \in batch, c[k] < c[i] PROVE FALSE
  <2>1. \A l \in batch : c[l] \in Nat
    OBVIOUS
  <2>2. k \in before(i)
    BY <1>5
  <2>3. k \notin before(k)
    BY <2>1
  <2>4. before(k) \subseteq before(i)
    <3> SUFFICES ASSUME NEW l \in batch, c[l] < c[k] PROVE c[l] < c[i]
      OBVIOUS
    <3> QED
      BY <1>5, <2>1
  <2>5. before(k) \in SUBSET batch /\ before(i) \in SUBSET batch
    OBVIOUS
  <2> HIDE DEF before
  <2> QED
    BY <1>4, <2>2, <2>3, <2>4, <2>5 DEF StrictSubsetOrdering
<1> QED
  BY <1>5

\* The same for the order of the natural numbers.
LEMMA LeastIndex ==
  ASSUME NEW n \in Nat, NEW S \in SUBSET (1..n), S # {}
  PROVE  \E i \in S : \A m \in S : i <= m
<1>1. PICK c \in [1..n -> Nat] : \A i \in 1..n : c[i] = i
  <2>1. [i \in 1..n |-> i] \in [1..n -> Nat]
    OBVIOUS
  <2> QED
    BY <2>1
<1>2. \E i \in S : \A m \in S : ~(c[m] < c[i])
  BY FirstOfBatch
<1> QED
  BY <1>1, <1>2

\* The rows of the table, in the shape the lemma above wants.
LEMMA RowsAreNumbered ==
  ASSUME TypeOK
  PROVE  /\ Len(outbox) \in Nat
         /\ DOMAIN outbox = 1..Len(outbox)
         /\ DOMAIN createdAt = 1..Len(outbox)
         /\ createdAt \in [1..Len(outbox) -> Nat]
BY PublisherAssumption DEF TypeOK, Time

\* So the loop takes a row that none of the others in its batch precedes.
LEMMA OldestIsFirst ==
  ASSUME TypeOK, NEW batch \in SUBSET (DOMAIN outbox), batch # {}
  PROVE  oldest(batch) \in batch /\ \A k \in batch : ~Older(k, oldest(batch))
<1>1. \E i \in batch : \A k \in batch : ~(createdAt[k] < createdAt[i])
  BY RowsAreNumbered, FirstOfBatch
<1> QED
  BY <1>1 DEF oldest, Older

\* A row that precedes one of the oldest unpublished rows, and is unpublished
\* itself, is among them.
LEMMA BatchTakesPredecessors ==
  ASSUME TypeOK, NEW i \in getUnpublishedEvents(BatchLimit), NEW k \in Unpublished, Older(k, i)
  PROVE  k \in getUnpublishedEvents(BatchLimit)
<1> DEFINE before(m) == {l \in Unpublished : Older(l, m)}
<1>1. IsFiniteSet(Unpublished) /\ Unpublished \subseteq DOMAIN outbox
  <2>1. IsFiniteSet(DOMAIN outbox)
    BY RowsAreNumbered, FS_Interval
  <2> QED
    BY <2>1, FS_Subset DEF Unpublished
<1>2. before(k) \in SUBSET before(i)
  BY <1>1, RowsAreNumbered DEF Older, getUnpublishedEvents
<1>3. IsFiniteSet(before(i)) /\ IsFiniteSet(before(k))
  BY <1>1, FS_Subset
<1>4. Cardinality(before(k)) <= Cardinality(before(i))
  BY <1>2, <1>3, FS_Subset
<1>5. Cardinality(before(k)) \in Nat /\ Cardinality(before(i)) \in Nat
  BY <1>3, FS_CardinalityType
<1>6. Cardinality(before(i)) < BatchLimit
  BY DEF getUnpublishedEvents
<1> HIDE DEF before
<1>7. Cardinality(before(k)) < BatchLimit
  BY <1>4, <1>5, <1>6, PublisherAssumption
<1> QED
  BY <1>7 DEF before, getUnpublishedEvents

-----------------------------------------------------------------------------
(* Steps.                                                                  *)

\* What handing one message over does to the history.
LEMMA HandedAppend ==
  ASSUME TypeOK, NEW s \in Sending, sent' = Append(sent, s)
  PROVE  sent' \in Seq(Sending) /\ Handed' = Handed \cup {s.event}
<1>1. sent \in Seq(Sending)
  BY DEF TypeOK
<1>2. Len(sent) \in Nat /\ DOMAIN sent = 1..Len(sent)
      /\ DOMAIN sent' = 1..(Len(sent)+1) /\ sent' \in Seq(Sending)
  BY <1>1
<1>3. \A k \in DOMAIN sent : sent'[k] = sent[k]
  BY <1>1
<1>4. sent'[Len(sent)+1] = s
  BY <1>1
<1>5. Handed' \subseteq Handed \cup {s.event}
  <2> SUFFICES ASSUME NEW k \in DOMAIN sent' PROVE sent'[k].event \in Handed \cup {s.event}
    BY DEF Handed
  <2> QED
    BY <1>2, <1>3, <1>4 DEF Handed
<1>6. Handed \subseteq Handed'
  <2> SUFFICES ASSUME NEW k \in DOMAIN sent PROVE sent[k].event \in Handed'
    BY DEF Handed
  <2>1. k \in DOMAIN sent' /\ sent'[k] = sent[k]
    BY <1>2, <1>3
  <2> QED
    BY <2>1 DEF Handed
<1>7. s.event \in Handed'
  BY <1>2, <1>4 DEF Handed
<1> QED
  BY <1>2, <1>5, <1>6, <1>7

\* Losing or delivering what is buffered does not change what was handed over.
LEMMA HandedStays ==
  ASSUME TypeOK, DOMAIN sent' = DOMAIN sent, \A k \in DOMAIN sent : sent'[k].event = sent[k].event
  PROVE  Handed' = Handed
BY DEF Handed

\* A poll that does nothing keeps its assertion while rows keep their place and
\* more is handed over.
LEMMA PollOKStays ==
  ASSUME TypeOK, NEW q, PollOK(q), UNCHANGED <<outbox, createdAt>>, Handed \subseteq Handed'
  PROVE  PollOK(q)'
BY DEF PollOK, oldest, Older

\* With one row less to go, the poll continues in order.
LEMMA ContinueOK ==
  ASSUME TypeOK, NEW batch \in SUBSET (DOMAIN outbox),
         \A i \in batch : \A k \in 1..(i-1) : Older(k, i) => k \in Handed \cup batch
  PROVE  PollOK(continueWith(batch))
<1>1. NoNode \in NodeOrNone /\ DOMAIN outbox \subseteq RowId
  BY RowsAreNumbered DEF NodeOrNone, RowId
<1>2. CASE batch = {}
  BY <1>1, <1>2 DEF continueWith, NoPoll, PollOK, Poll
<1>3. CASE batch # {}
  <2> DEFINE q == continueWith(batch)
  <2>1. q.pc \in {"lookup", "publish"} /\ q.batch = batch /\ q.node = NoNode
        /\ q = [pc |-> q.pc, batch |-> batch, node |-> NoNode]
    BY <1>3 DEF continueWith
  <2>2. q \in Poll
    BY <1>1, <2>1 DEF Poll
  <2> HIDE DEF q
  <2>3. PollOK(q)
    BY <1>3, <2>1, <2>2 DEF PollOK
  <2> QED
    BY <2>3 DEF q
<1> QED
  BY <1>2, <1>3

\* The idle poll.
LEMMA NoPollOK == PollOK(NoPoll)
BY DEF PollOK, NoPoll, Poll, NodeOrNone

\* A step of one poll that hands nothing over keeps the invariant when what is
\* newly marked was handed over and the poll's new state is as it should be.
LEMMA QuietPollStep ==
  ASSUME IInv, NEW p \in Pollers, NEW q, PollOK(q), poll' = [poll EXCEPT ![p] = q],
         UNCHANGED <<sharedVars, channelOpen, sent>>, faults' \in 0..MaxFaults,
         published \subseteq published', published' \subseteq Handed
  PROVE  IInv'
<1>1. TypeOK /\ Handed' = Handed /\ UNCHANGED <<outbox, createdAt>>
  BY DEF IInv, Handed, sharedVars
<1>2. q \in Poll /\ PollOK(q)'
  BY <1>1, PollOKStays DEF PollOK
<1>3. \A r \in Pollers : (PollOK(poll[r]))'
  <2> SUFFICES ASSUME NEW r \in Pollers PROVE (PollOK(poll[r]))'
    OBVIOUS
  <2>1. PICK x : x = poll[r]
    OBVIOUS
  <2>2. PollOK(x) /\ PollOK(x)'
    BY <1>1, <2>1, PollOKStays DEF IInv
  <2>3. poll'[r] = IF r = p THEN q ELSE x
    BY <2>1 DEF IInv, TypeOK
  <2> QED
    BY <1>2, <2>2, <2>3
<1>4. TypeOK'
  BY <1>1, <1>2 DEF IInv, TypeOK, sharedVars
<1>5. HandedInOrder' /\ StampsDistinct'
  BY <1>1 DEF IInv, HandedInOrder, StampsDistinct, Older
<1> QED
  BY <1>1, <1>3, <1>4, <1>5 DEF IInv, HandedBeforeMarked

\* The channel and the failures change where messages are, not which were sent.
LEMMA ChannelStep ==
  ASSUME IInv, sent' \in Seq(Sending), DOMAIN sent' = DOMAIN sent,
         \A k \in DOMAIN sent : sent'[k].event = sent[k].event,
         UNCHANGED <<outbox, createdAt, assignedNodeId, published>>,
         cancelQueue' \subseteq Nodes \X Jobs, channelOpen' \in BOOLEAN, faults' \in 0..MaxFaults,
         poll' = poll \/ poll' = [p \in Pollers |-> NoPoll]
  PROVE  IInv'
<1>1. TypeOK /\ Handed' = Handed
  BY HandedStays DEF IInv
<1>2. \A r \in Pollers : (PollOK(poll[r]))'
  <2> SUFFICES ASSUME NEW r \in Pollers PROVE (PollOK(poll[r]))'
    OBVIOUS
  <2>1. PICK x : x = poll'[r]
    OBVIOUS
  <2>2. x = poll[r] \/ x = NoPoll
    BY <2>1
  <2>3. PollOK(x)
    BY <2>2, NoPollOK DEF IInv
  <2>4. PollOK(x)'
    BY <1>1, <2>3, PollOKStays
  <2> QED
    BY <2>1, <2>4
<1>3. poll' \in [Pollers -> Poll]
  BY <1>1 DEF TypeOK, NoPoll, Poll, NodeOrNone
<1>4. TypeOK'
  BY <1>1, <1>3 DEF TypeOK
<1>5. HandedInOrder' /\ StampsDistinct' /\ HandedBeforeMarked'
  BY <1>1 DEF IInv, HandedInOrder, StampsDistinct, Older, HandedBeforeMarked
<1> QED
  BY <1>1, <1>2, <1>4, <1>5 DEF IInv

\* A transaction appends one row, with a timestamp of its own.
LEMMA AppendStep ==
  ASSUME IInv, NEW t \in Time, AppendEvent(t) PROVE IInv'
<1> DEFINE n == Len(outbox)
<1> PICK e \in Events : outbox' = Append(outbox, e)
  BY DEF AppendEvent
<1>1. TypeOK /\ n \in Nat /\ DOMAIN outbox = 1..n /\ DOMAIN createdAt = 1..n
      /\ createdAt \in [1..n -> Nat]
  BY RowsAreNumbered DEF IInv
<1>2. /\ outbox' \in Seq(Events) /\ DOMAIN outbox' = 1..(n+1) /\ Len(outbox') = n+1
      /\ \A i \in 1..n : outbox'[i] = outbox[i]
  BY <1>1 DEF AppendEvent, TypeOK
<1>3. /\ createdAt' \in Seq(Time) /\ DOMAIN createdAt' = 1..(n+1) /\ Len(createdAt') = n+1
      /\ \A i \in 1..n : createdAt'[i] = createdAt[i]
      /\ createdAt'[n+1] = t /\ \A i \in 1..n : createdAt[i] # t
  BY <1>1 DEF AppendEvent, Stamp, TypeOK
<1>4. Handed' = Handed /\ UNCHANGED <<assignedNodeId, cancelQueue, published, poll, channelOpen, sent, faults>>
  BY DEF AppendEvent, pollerVars, Handed
<1>5. TypeOK'
  BY <1>1, <1>2, <1>3, <1>4 DEF TypeOK
<1>6. StampsDistinct'
  BY <1>1, <1>3 DEF IInv, StampsDistinct
<1>7. \A i, k \in 1..n : Older(i, k)' <=> Older(i, k)
  BY <1>3 DEF Older
<1>8. HandedInOrder'
  <2> SUFFICES ASSUME NEW i \in Handed, NEW k \in 1..(i-1), Older(k, i)' PROVE k \in Handed
    BY <1>4 DEF HandedInOrder
  <2>1. i \in 1..n /\ k \in 1..n
    BY <1>1 DEF IInv
  <2> QED
    BY <1>7, <2>1 DEF IInv, HandedInOrder
<1>9. ASSUME NEW r \in Pollers PROVE (PollOK(poll[r]))'
  <2>1. PICK x : x = poll[r]
    OBVIOUS
  <2>2. PollOK(x) /\ x.batch \subseteq 1..n
    BY <1>1, <2>1 DEF IInv, PollOK
  <2>3. oldest(x.batch)' = oldest(x.batch)
    BY <1>7, <2>2 DEF oldest
  <2>4. \A i \in x.batch : \A k \in 1..(i-1) : Older(k, i)' => k \in Handed' \cup x.batch
    <3> SUFFICES ASSUME NEW i \in x.batch, NEW k \in 1..(i-1), Older(k, i)'
                 PROVE  k \in Handed \cup x.batch
      BY <1>4
    <3>1. i \in 1..n /\ k \in 1..n
      BY <2>2
    <3> QED
      BY <1>7, <2>2, <3>1 DEF PollOK
  <2>5. PollOK(x)'
    BY <1>1, <1>2, <1>4, <2>2, <2>3, <2>4 DEF PollOK
  <2> QED
    BY <1>4, <2>1, <2>5
<1> QED
  BY <1>1, <1>2, <1>4, <1>5, <1>6, <1>8, <1>9 DEF IInv, HandedBeforeMarked

\* Reading a batch: what should precede a row of it was handed over when it was
\* published, or is unpublished and in the batch.
LEMMA TickStep ==
  ASSUME IInv, NEW p \in Pollers, Tick(p) PROVE IInv'
<1> DEFINE batch == getUnpublishedEvents(BatchLimit)
<1>1. TypeOK /\ batch \in SUBSET (DOMAIN outbox)
  BY DEF IInv, getUnpublishedEvents, Unpublished
<1>2. ASSUME NEW i \in batch, NEW k \in 1..(i-1), Older(k, i) PROVE k \in Handed \cup batch
  <2>1. k \in DOMAIN outbox
    BY <1>1, RowsAreNumbered
  <2>2. CASE k \in published
    BY <2>2 DEF IInv, HandedBeforeMarked
  <2>3. CASE k \notin published
    BY <1>1, <1>2, <2>1, <2>3, BatchTakesPredecessors DEF Unpublished
  <2> QED
    BY <2>2, <2>3
<1> HIDE DEF batch
<1>3. PollOK(continueWith(batch))
  BY <1>1, <1>2, ContinueOK
<1>4. poll' = [poll EXCEPT ![p] = continueWith(batch)]
      /\ UNCHANGED <<sharedVars, published, channelOpen, sent, faults>>
  BY DEF Tick, batch
<1>5. published \subseteq Handed /\ faults \in 0..MaxFaults
  BY DEF IInv, HandedBeforeMarked, TypeOK
<1> QED
  BY <1>3, <1>4, <1>5, QuietPollStep

\* Looking up the node of the current row's job.
LEMMA LookupStep ==
  ASSUME IInv, NEW p \in Pollers, LookupNode(p) PROVE IInv'
<1> DEFINE q == [poll[p] EXCEPT !.pc = "publish",
                                !.node = assignedNodeId[outbox[current(p)].job]]
<1>1. TypeOK /\ PollOK(poll[p]) /\ poll[p] \in Poll /\ poll[p].pc = "lookup"
  BY DEF IInv, TypeOK, LookupNode
<1>2. current(p) \in DOMAIN outbox
  BY <1>1, OldestIsFirst DEF PollOK, current
<1>3. outbox[current(p)] \in Events
  BY <1>1, <1>2 DEF TypeOK
<1>4. assignedNodeId[outbox[current(p)].job] \in NodeOrNone
  BY <1>1, <1>3, PublisherAssumption DEF TypeOK
<1>5. q \in Poll /\ q.pc = "publish" /\ q.batch = poll[p].batch
  BY <1>1, <1>4 DEF Poll
<1>6. poll' = [poll EXCEPT ![p] = q]
      /\ UNCHANGED <<sharedVars, published, channelOpen, sent, faults>>
  BY <1>1 DEF LookupNode, TypeOK
<1> HIDE DEF q
<1>7. PollOK(q)
  BY <1>1, <1>5 DEF PollOK
<1>8. published \subseteq Handed /\ faults \in 0..MaxFaults
  BY DEF IInv, HandedBeforeMarked, TypeOK
<1> QED
  BY <1>6, <1>7, <1>8, QuietPollStep

\* Handing over the oldest row of a batch: everything that should precede it
\* was handed over before, for none of it is left in the batch.
LEMMA PublishStep ==
  ASSUME IInv, NEW p \in Pollers, Publish(p) PROVE IInv'
<1> DEFINE c == current(p)
           s == [event |-> c, node |-> poll[p].node, at |-> "buffer"]
<1> PICK q : q = [poll[p] EXCEPT !.pc = "mark"]
  OBVIOUS
<1>1. TypeOK /\ PollOK(poll[p]) /\ poll[p] \in Poll /\ poll[p].pc = "publish"
  BY DEF IInv, TypeOK, Publish
<1>2. c \in poll[p].batch /\ \A k \in poll[p].batch : ~Older(k, c)
  BY <1>1, OldestIsFirst DEF PollOK, current
<1>3. c \in DOMAIN outbox /\ c \in RowId
  BY <1>1, <1>2, RowsAreNumbered DEF PollOK, RowId
<1>4. s \in Sending
  BY <1>1, <1>3 DEF Sending, Poll
<1>5. sent' = Append(sent, s) /\ poll' = [poll EXCEPT ![p] = q]
      /\ UNCHANGED <<outbox, createdAt, assignedNodeId, cancelQueue, published, channelOpen, faults>>
  BY DEF Publish, sharedVars
<1>6. sent' \in Seq(Sending) /\ Handed' = Handed \cup {c}
  BY <1>1, <1>4, <1>5, HandedAppend
<1>7. q \in Poll /\ q.pc = "mark" /\ q.batch = poll[p].batch
  BY <1>1 DEF Poll
<1>8. TypeOK'
  BY <1>1, <1>5, <1>6, <1>7 DEF TypeOK
<1>9. \A i, k : Older(i, k)' <=> Older(i, k)
  BY <1>5 DEF Older
<1>10. HandedInOrder'
  <2> SUFFICES ASSUME NEW i \in Handed \cup {c}, NEW k \in 1..(i-1), Older(k, i)
               PROVE  k \in Handed \cup {c}
    BY <1>6, <1>9 DEF HandedInOrder
  <2>1. CASE i \in Handed
    BY <2>1 DEF IInv, HandedInOrder
  <2>2. CASE i = c
    BY <1>1, <1>2, <2>2 DEF PollOK
  <2> QED
    BY <2>1, <2>2
<1>11. PollOK(q)'
  <2>1. oldest(q.batch)' = c
    BY <1>5, <1>7 DEF current, oldest, Older
  <2>2. \A i \in q.batch : \A k \in 1..(i-1) : Older(k, i)' => k \in Handed' \cup q.batch
    BY <1>1, <1>6, <1>7, <1>9 DEF PollOK
  <2>3. q.batch \subseteq DOMAIN outbox' /\ q.batch # {}
    BY <1>1, <1>5, <1>7 DEF PollOK
  <2> QED
    BY <1>6, <1>7, <2>1, <2>2, <2>3 DEF PollOK
<1>12. ASSUME NEW r \in Pollers PROVE (PollOK(poll[r]))'
  <2>1. PICK x : x = poll'[r]
    OBVIOUS
  <2>2. CASE r = p
    BY <1>1, <1>5, <1>11, <2>1, <2>2 DEF TypeOK
  <2>3. CASE r # p
    <3>1. x = poll[r]
      BY <1>1, <1>5, <2>1, <2>3 DEF TypeOK
    <3>2. PollOK(x)
      BY <3>1 DEF IInv
    <3>3. PollOK(x)'
      BY <1>1, <1>5, <1>6, <3>2, PollOKStays
    <3> QED
      BY <2>1, <3>3
  <2> QED
    BY <2>2, <2>3
<1>13. StampsDistinct' /\ (Handed \subseteq DOMAIN outbox)' /\ HandedBeforeMarked'
  BY <1>3, <1>5, <1>6 DEF IInv, StampsDistinct, HandedBeforeMarked
<1> QED
  BY <1>8, <1>10, <1>12, <1>13 DEF IInv

\* Marking a row: it was handed over, and the rows left are still in order.
LEMMA MarkStep ==
  ASSUME IInv, NEW p \in Pollers, Mark(p) PROVE IInv'
<1> DEFINE c == current(p)
           batch == poll[p].batch \ {c}
<1>1. TypeOK /\ PollOK(poll[p]) /\ poll[p] \in Poll /\ poll[p].pc = "mark"
  BY DEF IInv, TypeOK, Mark
<1>2. c \in Handed
  BY <1>1 DEF PollOK, current
<1>3. batch \in SUBSET (DOMAIN outbox)
  BY <1>1 DEF PollOK
<1>4. \A i \in batch : \A k \in 1..(i-1) : Older(k, i) => k \in Handed \cup batch
  BY <1>1, <1>2 DEF PollOK
<1>5. poll' = [poll EXCEPT ![p] = continueWith(batch)] /\ published' = published \cup {c}
      /\ UNCHANGED <<sharedVars, channelOpen, sent, faults>>
  BY <1>1 DEF Mark, TypeOK
<1> HIDE DEF batch
<1>6. PollOK(continueWith(batch))
  BY <1>1, <1>3, <1>4, ContinueOK
<1>7. published \cup {c} \subseteq Handed /\ faults \in 0..MaxFaults
  BY <1>2 DEF IInv, HandedBeforeMarked, TypeOK
<1> QED
  BY <1>5, <1>6, <1>7, QuietPollStep

\* A poll that ends early.
LEMMA AbortStep ==
  ASSUME IInv, NEW p \in Pollers, PublishThrows(p) \/ AbortPoll(p) PROVE IInv'
<1>1. poll' = [poll EXCEPT ![p] = NoPoll] /\ UNCHANGED <<sharedVars, channelOpen, sent, published>>
      /\ (faults' = faults \/ Fault("abort"))
  BY DEF PublishThrows, AbortPoll
<1>2. faults' \in 0..MaxFaults
  BY <1>1, PublisherAssumption DEF IInv, TypeOK, Fault
<1>3. published' \subseteq Handed /\ published \subseteq published'
  BY <1>1 DEF IInv, HandedBeforeMarked
<1> QED
  BY <1>1, <1>2, <1>3, NoPollOK, QuietPollStep

\* There is an oldest one among the messages of the buffer.
LEMMA OldestBuffered ==
  ASSUME TypeOK, Buffered # {} PROVE Min(Buffered) \in Buffered
<1>1. sent \in Seq(Sending) /\ Len(sent) \in Nat /\ DOMAIN sent = 1..Len(sent)
  BY DEF TypeOK
<1>2. Buffered \in SUBSET (1..Len(sent))
  BY <1>1 DEF Buffered
<1>3. \E i \in Buffered : \A m \in Buffered : i <= m
  BY <1>1, <1>2, LeastIndex
<1> QED
  BY <1>3 DEF Min

\* A buffered message reaches the broker: it names an existing row.
LEMMA FlushStep ==
  ASSUME IInv, Flush PROVE IInv'
<1> DEFINE k == Min(Buffered)
           n == Len(sent)
<1>1. TypeOK /\ sent \in Seq(Sending) /\ n \in Nat /\ DOMAIN sent = 1..n /\ sent \in [1..n -> Sending]
  BY DEF IInv, TypeOK
<1>2. k \in DOMAIN sent
  BY <1>1, OldestBuffered DEF Flush, Buffered
<1>3. sent' = [sent EXCEPT ![k].at = "broker"]
  BY DEF Flush
<1> HIDE DEF k, n
<1>4. sent[k] \in Sending /\ [sent[k] EXCEPT !.at = "broker"] \in Sending
      /\ [sent[k] EXCEPT !.at = "broker"].event = sent[k].event
  BY <1>1, <1>2 DEF Sending
<1>5. sent' \in Seq(Sending) /\ DOMAIN sent' = DOMAIN sent
      /\ \A m \in DOMAIN sent : sent'[m].event = sent[m].event
  <2> DEFINE f == [sent[k] EXCEPT !.at = "broker"]
  <2>1. sent' = [sent EXCEPT ![k] = f]
    BY <1>3
  <2> HIDE DEF f
  <2>2. f \in Sending /\ f.event = sent[k].event
    BY <1>4 DEF f
  <2> QED
    BY <1>1, <1>2, <2>1, <2>2
<1>6. sent[k].event \in DOMAIN outbox
  BY <1>2 DEF IInv, Handed
<1>7. outbox[sent[k].event].job \in Jobs
  BY <1>1, <1>6, PublisherAssumption DEF TypeOK
<1>8. cancelQueue' \subseteq Nodes \X Jobs
  <2>1. sent[k].node # NoNode => sent[k].node \in Nodes
    BY <1>4 DEF Sending, NodeOrNone
  <2> QED
    BY <1>1, <1>7, <2>1 DEF Flush, TypeOK, k
<1> QED
  BY <1>1, <1>5, <1>8, ChannelStep DEF Flush, TypeOK

\* The channel closes, or the process is started anew.
LEMMA FailureStep ==
  ASSUME IInv, ChannelCloses \/ Restart PROVE IInv'
<1>1. TypeOK /\ sent \in Seq(Sending) /\ DOMAIN sent = 1..Len(sent) /\ Len(sent) \in Nat
  BY DEF IInv, TypeOK
<1>2. \A m \in DOMAIN sent : sent[m] \in Sending /\ [sent[m] EXCEPT !.at = "lost"] \in Sending
        /\ [sent[m] EXCEPT !.at = "lost"].event = sent[m].event
  <2> SUFFICES ASSUME NEW s \in Sending
               PROVE  /\ [s EXCEPT !.at = "lost"] \in Sending
                      /\ [s EXCEPT !.at = "lost"].event = s.event
    BY <1>1
  <2> QED
    BY DEF Sending
<1>3. sent' = [m \in DOMAIN sent |->
                 IF m \in Buffered THEN [sent[m] EXCEPT !.at = "lost"] ELSE sent[m]]
  BY DEF ChannelCloses, Restart, bufferLost
<1>4. sent' \in Seq(Sending) /\ DOMAIN sent' = DOMAIN sent
      /\ \A m \in DOMAIN sent : sent'[m].event = sent[m].event
  <2>1. sent' \in [1..Len(sent) -> Sending]
    BY <1>1, <1>2, <1>3
  <2> QED
    BY <1>1, <1>2, <1>3, <2>1
<1>5. faults' \in 0..MaxFaults
  BY <1>1, PublisherAssumption DEF TypeOK, ChannelCloses, Restart, Fault
<1>6. /\ UNCHANGED <<outbox, createdAt, assignedNodeId, cancelQueue, published>>
      /\ channelOpen' \in BOOLEAN
      /\ poll' = poll \/ poll' = [p \in Pollers |-> NoPoll]
  BY DEF ChannelCloses, Restart, sharedVars
<1> QED
  BY <1>1, <1>4, <1>5, <1>6, ChannelStep DEF TypeOK

\* What the rest of the service writes besides the outbox: the nodes of jobs
\* and, by itself, the queues of nodes.
LEMMA NodeStep ==
  ASSUME IInv, assignedNodeId' \in [Jobs -> NodeOrNone], cancelQueue' \subseteq Nodes \X Jobs,
         UNCHANGED <<outbox, createdAt, published, poll, channelOpen, sent, faults>>
  PROVE  IInv'
<1>1. TypeOK'
  BY DEF IInv, TypeOK
<1>2. StampsDistinct' /\ (Handed \subseteq DOMAIN outbox)' /\ HandedBeforeMarked' /\ HandedInOrder'
  BY DEF IInv, StampsDistinct, Handed, HandedBeforeMarked, HandedInOrder, Older
<1>3. (\A p \in Pollers : PollOK(poll[p]))'
  BY DEF IInv, PollOK, oldest, Older, Handed
<1> QED
  BY <1>1, <1>2, <1>3 DEF IInv

\* The consumer records a node, and a hard cancel tells it.
LEMMA AssignStep ==
  ASSUME IInv, NEW j \in Jobs, NEW n \in Nodes, AssignNode(j, n) \/ emitCancelJobEvent(j, n)
  PROVE  IInv'
<1>1. UNCHANGED <<outbox, createdAt, published, poll, channelOpen, sent, faults>>
  BY DEF AssignNode, emitCancelJobEvent, pollerVars
<1>2. assignedNodeId' \in [Jobs -> NodeOrNone]
  BY DEF AssignNode, emitCancelJobEvent, IInv, TypeOK, NodeOrNone
<1>3. cancelQueue' \subseteq Nodes \X Jobs
  BY DEF AssignNode, emitCancelJobEvent, IInv, TypeOK
<1> QED
  BY <1>1, <1>2, <1>3, NodeStep

\* The empty outbox.
LEMMA InitIInv == Init => IInv
BY PublisherAssumption DEF Init, IInv, TypeOK, StampsDistinct, Handed, HandedBeforeMarked,
   HandedInOrder, PollOK, NoPoll, Poll, NodeOrNone

\* Every step keeps the invariant.
LEMMA InvariantStep == IInv /\ [Next]_vars => IInv'
<1>1. ASSUME IInv, UNCHANGED vars PROVE IInv'
  <2>1. /\ UNCHANGED <<outbox, createdAt, assignedNodeId, cancelQueue>>
        /\ UNCHANGED <<published, poll, channelOpen, sent, faults>>
    BY <1>1 DEF vars, sharedVars, pollerVars
  <2>2. TypeOK' /\ StampsDistinct' /\ Handed' = Handed
    BY <1>1, <2>1 DEF IInv, TypeOK, StampsDistinct, Handed
  <2>3. (Handed \subseteq DOMAIN outbox)' /\ HandedBeforeMarked' /\ HandedInOrder'
    BY <1>1, <2>1, <2>2 DEF IInv, HandedBeforeMarked, HandedInOrder, Older
  <2>4. ASSUME NEW p \in Pollers PROVE PollOK(poll[p])'
    <3>1. PICK x : x = poll[p]
      OBVIOUS
    <3>2. PollOK(x) /\ PollOK(x)'
      BY <1>1, <2>1, <2>2, <3>1, PollOKStays DEF IInv
    <3> QED
      BY <2>1, <3>1, <3>2
  <2> QED
    BY <2>2, <2>3, <2>4 DEF IInv
<1> QED
  BY <1>1, AppendStep, AssignStep, TickStep, LookupStep, PublishStep, MarkStep, AbortStep,
     FlushStep, FailureStep
  DEF Next, Environment, PublisherStep, PollStep

-----------------------------------------------------------------------------
(* How often an event is handed over.  A poll spends a copy of a row when  *)
(* it hands it over, so the bound counts the polls that may still do so:   *)
(* those that hold the row but have not handed it over (Waiting) can once  *)
(* the row is marked, for no new poll reads it then; until it is marked,   *)
(* those that have handed it over (Marking) are about to mark it, unless a *)
(* failure ends them, which the count of failures pays for.                *)

N == Cardinality(Pollers)

handing(q, i) == q.pc = "mark" /\ oldest(q.batch) = i
awaiting(q, i) == i \in q.batch /\ ~handing(q, i)

Marking(i) == {p \in Pollers : handing(poll[p], i)}
Waiting(i) == {p \in Pollers : awaiting(poll[p], i)}

CountOK(i) ==
  /\ i \in published => Copies(i) + Cardinality(Waiting(i)) <= N * (faults + 1)
  /\ i \notin published => Copies(i) <= N * faults + Cardinality(Marking(i))

Counted == \A i \in RowId : CountOK(i)

\* Sets of polls are finite: they count no further than N, together too when
\* they share no poll.
LEMMA PollCounts ==
  ASSUME NEW S \in SUBSET Pollers, NEW T \in SUBSET Pollers
  PROVE  /\ N \in Nat
         /\ Cardinality(S) \in Nat /\ Cardinality(S) <= N
         /\ S \subseteq T => Cardinality(S) <= Cardinality(T)
         /\ S \cap T = {} => Cardinality(S) + Cardinality(T) <= N
<1>1. IsFiniteSet(S) /\ IsFiniteSet(T) /\ IsFiniteSet(Pollers)
  BY PublisherAssumption, FS_Subset
<1>2. N \in Nat /\ Cardinality(S) \in Nat /\ Cardinality(T) \in Nat
  BY <1>1, FS_CardinalityType DEF N
<1>3. Cardinality(S) <= N /\ (S \subseteq T => Cardinality(S) <= Cardinality(T))
  BY <1>1, FS_Subset DEF N
<1>4. ASSUME S \cap T = {} PROVE Cardinality(S) + Cardinality(T) <= N
  <2>1. Cardinality(S \cap T) = 0
    BY <1>4, FS_EmptySet
  <2>2. Cardinality(S \cup T) = Cardinality(S) + Cardinality(T) - Cardinality(S \cap T)
    BY <1>1, FS_Union
  <2>3. Cardinality(S \cup T) = Cardinality(S) + Cardinality(T)
    BY <1>2, <2>1, <2>2
  <2>4. Cardinality(S \cup T) <= N
    BY <1>1, FS_Subset DEF N
  <2> QED
    BY <2>3, <2>4
<1> QED
  BY <1>2, <1>3, <1>4

\* Taking one poll out, or putting one in, changes the count by one.
LEMMA OnePollMore ==
  ASSUME NEW S \in SUBSET Pollers, NEW p \in Pollers, p \notin S
  PROVE  Cardinality(S \cup {p}) = Cardinality(S) + 1
BY PublisherAssumption, FS_Subset, FS_AddElement

\* One more failure is worth one more copy per poll.
LEMMA OneMoreRound ==
  ASSUME NEW f \in Nat PROVE N * f \in Nat /\ N * (f + 1) = N * f + N /\ N * (f + 1) \in Nat
<1>1. N \in Nat
  BY PollCounts
<1>2. \A a, b \in Nat : a * b \in Nat /\ a * (b + 1) = a * b + a /\ a * (b + 1) \in Nat
  BY SMT
<1> QED
  BY <1>1, <1>2

\* The history is finite.
LEMMA CopiesFinite ==
  ASSUME TypeOK, NEW i
  PROVE  IsFiniteSet({k \in DOMAIN sent : sent[k].event = i}) /\ Copies(i) \in Nat
<1>1. DOMAIN sent = 1..Len(sent) /\ Len(sent) \in Nat
  BY DEF TypeOK
<1>2. IsFiniteSet(DOMAIN sent)
  BY <1>1, FS_Interval
<1>3. IsFiniteSet({k \in DOMAIN sent : sent[k].event = i})
  BY <1>2, FS_Subset
<1> QED
  BY <1>3, FS_CardinalityType DEF Copies

\* Losing or delivering messages copies none.
LEMMA CopiesStay ==
  ASSUME DOMAIN sent' = DOMAIN sent, \A k \in DOMAIN sent : sent'[k].event = sent[k].event, NEW i
  PROVE  Copies(i)' = Copies(i)
<1>1. {k \in DOMAIN sent : sent[k].event = i}' = {k \in DOMAIN sent : sent[k].event = i}
  OBVIOUS
<1> QED
  BY <1>1 DEF Copies

\* Handing a message over makes one copy, of its own event.
LEMMA CopiesAppend ==
  ASSUME TypeOK, NEW s \in Sending, sent' = Append(sent, s), NEW i
  PROVE  Copies(i)' = IF i = s.event THEN Copies(i) + 1 ELSE Copies(i)
<1> DEFINE n == Len(sent)
           C == {k \in DOMAIN sent : sent[k].event = i}
<1>1. sent \in Seq(Sending)
  BY DEF TypeOK
<1>2. n \in Nat /\ DOMAIN sent = 1..n /\ DOMAIN sent' = 1..(n+1)
      /\ sent'[n+1] = s /\ \A k \in 1..n : sent'[k] = sent[k]
  BY <1>1
<1>3. {k \in DOMAIN sent : sent[k].event = i}' = IF i = s.event THEN C \cup {n+1} ELSE C
  BY <1>2
<1>4. IsFiniteSet(C) /\ Cardinality(C) \in Nat /\ n + 1 \notin C
  <2>1. IsFiniteSet(C) /\ Cardinality(C) \in Nat
    BY CopiesFinite DEF Copies
  <2> QED
    BY <1>2, <2>1
<1>5. Cardinality(C \cup {n+1}) = Cardinality(C) + 1
  BY <1>4, FS_AddElement
<1> QED
  BY <1>3, <1>5 DEF Copies

\* What keeps the count of a row: no copy, no failure, no poll that begins to
\* wait for a marked row, none that lets go of an unmarked one.
LEMMA CountStays ==
  ASSUME TypeOK, NEW i, CountOK(i), UNCHANGED faults, Copies(i)' = Copies(i),
         i \in published' <=> i \in published,
         i \in published => Waiting(i)' \subseteq Waiting(i),
         i \notin published => Marking(i) \subseteq Marking(i)'
  PROVE  CountOK(i)'
<1>1. Copies(i) \in Nat /\ faults \in Nat
  <2>1. Copies(i) \in Nat
    BY CopiesFinite
  <2>2. faults \in Nat
    BY PublisherAssumption DEF TypeOK
  <2> QED
    BY <2>1, <2>2
<1>2. N' = N
  BY DEF N
<1>3. CASE i \in published
  <2> PICK S, T : S = Waiting(i)' /\ T = Waiting(i)
    OBVIOUS
  <2>1. S \subseteq T /\ T \subseteq Pollers
    BY <1>3 DEF Waiting
  <2>2. Cardinality(S) <= Cardinality(T) /\ Cardinality(S) \in Nat /\ Cardinality(T) \in Nat
    BY <2>1, PollCounts
  <2>3. N * (faults + 1) \in Nat
    BY <1>1, OneMoreRound
  <2>4. Copies(i) + Cardinality(T) <= N * (faults + 1)
    BY <1>3 DEF CountOK
  <2>5. Copies(i) + Cardinality(S) <= N * (faults + 1)
    BY <1>1, <2>2, <2>3, <2>4
  <2> QED
    BY <1>2, <1>3, <2>5 DEF CountOK
<1>4. CASE i \notin published
  <2> PICK S, T : S = Marking(i)' /\ T = Marking(i)
    OBVIOUS
  <2>1. T \subseteq S /\ S \subseteq Pollers
    BY <1>4 DEF Marking
  <2>2. Cardinality(T) <= Cardinality(S) /\ Cardinality(S) \in Nat /\ Cardinality(T) \in Nat
    BY <2>1, PollCounts
  <2>3. N * faults \in Nat
    BY <1>1, OneMoreRound
  <2>4. Copies(i) <= N * faults + Cardinality(T)
    BY <1>4 DEF CountOK
  <2>5. Copies(i) <= N * faults + Cardinality(S)
    BY <1>1, <2>2, <2>3, <2>4
  <2> QED
    BY <1>2, <1>4, <2>5 DEF CountOK
<1> QED
  BY <1>3, <1>4

\* A failure may end any poll.
LEMMA CountAfterFault ==
  ASSUME TypeOK, NEW i, CountOK(i), faults' = faults + 1, UNCHANGED published,
         Copies(i)' = Copies(i)
  PROVE  CountOK(i)'
<1>1. Copies(i) \in Nat /\ faults \in Nat
  <2>1. Copies(i) \in Nat
    BY CopiesFinite
  <2>2. faults \in Nat
    BY PublisherAssumption DEF TypeOK
  <2> QED
    BY <2>1, <2>2
<1>2. N * faults \in Nat /\ N * (faults + 1) = N * faults + N /\ N * (faults + 2) = N * (faults + 1) + N
  <2>1. faults + 1 \in Nat /\ faults + 2 = (faults + 1) + 1
    BY <1>1
  <2> QED
    BY <1>1, <2>1, OneMoreRound
<1> PICK M, W : M = Marking(i)' /\ W = Waiting(i)'
  OBVIOUS
<1>3. /\ M \subseteq Pollers /\ W \subseteq Pollers
      /\ Marking(i) \subseteq Pollers /\ Waiting(i) \subseteq Pollers
  BY DEF Marking, Waiting
<1>4. /\ N \in Nat /\ Cardinality(M) \in Nat /\ Cardinality(W) \in Nat /\ Cardinality(W) <= N
      /\ Cardinality(Marking(i)) \in Nat /\ Cardinality(Marking(i)) <= N
      /\ Cardinality(Waiting(i)) \in Nat
  BY <1>3, PollCounts
<1>5. /\ i \in published => Copies(i) + Cardinality(W) <= N * (faults + 2)
      /\ i \notin published => Copies(i) <= N * (faults + 1) + Cardinality(M)
  <2> PICK a, b : a = N * faults /\ b = N * (faults + 1)
    OBVIOUS
  <2>1. /\ i \in published => Copies(i) + Cardinality(Waiting(i)) <= b
        /\ i \notin published => Copies(i) <= a + Cardinality(Marking(i))
    BY DEF CountOK
  <2> QED
    BY <1>1, <1>2, <1>4, <2>1
<1>6. N' = N /\ (faults + 1) + 1 = faults + 2
  BY <1>1 DEF N
<1> QED
  BY <1>5, <1>6 DEF CountOK

\* The counts after a step of one poll, in terms of that poll.
LEMMA CountsOfPoll ==
  ASSUME TypeOK, NEW p \in Pollers, NEW q, poll' = [poll EXCEPT ![p] = q], UNCHANGED createdAt, NEW i
  PROVE  /\ Waiting(i)' = IF awaiting(q, i) THEN Waiting(i) \cup {p} ELSE Waiting(i) \ {p}
         /\ Marking(i)' = IF handing(q, i) THEN Marking(i) \cup {p} ELSE Marking(i) \ {p}
<1>1. \A x : (handing(x, i)' <=> handing(x, i)) /\ (awaiting(x, i)' <=> awaiting(x, i))
  BY DEF handing, awaiting, oldest, Older
<1>2. ASSUME NEW r \in Pollers
      PROVE  /\ handing(poll[r], i)' <=> handing(IF r = p THEN q ELSE poll[r], i)
             /\ awaiting(poll[r], i)' <=> awaiting(IF r = p THEN q ELSE poll[r], i)
  <2>1. PICK x : x = poll'[r]
    OBVIOUS
  <2>2. x = IF r = p THEN q ELSE poll[r]
    BY <2>1 DEF TypeOK
  <2>3. (handing(poll[r], i)' <=> handing(x, i)) /\ (awaiting(poll[r], i)' <=> awaiting(x, i))
    BY <1>1, <2>1
  <2> QED
    BY <2>2, <2>3
<1> QED
  BY <1>2 DEF Waiting, Marking

\* A step of one poll that hands nothing over and marks nothing new.
LEMMA CountPollStep ==
  ASSUME TypeOK, NEW p \in Pollers, NEW q, poll' = [poll EXCEPT ![p] = q],
         UNCHANGED <<createdAt, faults, sent>>, NEW i, CountOK(i),
         i \in published' <=> i \in published,
         i \in published /\ awaiting(q, i) => awaiting(poll[p], i),
         i \notin published => ~handing(poll[p], i)
  PROVE  CountOK(i)'
<1>1. /\ Waiting(i)' = IF awaiting(q, i) THEN Waiting(i) \cup {p} ELSE Waiting(i) \ {p}
      /\ Marking(i)' = IF handing(q, i) THEN Marking(i) \cup {p} ELSE Marking(i) \ {p}
  BY CountsOfPoll
<1>2. i \in published => Waiting(i)' \subseteq Waiting(i)
  BY <1>1 DEF Waiting
<1>3. i \notin published => Marking(i) \subseteq Marking(i)'
  BY <1>1 DEF Marking
<1>4. Copies(i)' = Copies(i)
  BY CopiesStay
<1> QED
  BY <1>2, <1>3, <1>4, CountStays

\* What a poll continues with marks nothing yet.
LEMMA ContinueCounts ==
  ASSUME NEW batch, NEW i
  PROVE  /\ ~handing(continueWith(batch), i)
         /\ awaiting(continueWith(batch), i) => i \in batch
<1>1. continueWith(batch).pc # "mark" /\ continueWith(batch).batch \subseteq batch
  BY DEF continueWith, NoPoll
<1> QED
  BY <1>1 DEF handing, awaiting

\* Reading a batch: no marked row is in it.
LEMMA TickCount ==
  ASSUME IInv, NEW p \in Pollers, Tick(p), NEW i, CountOK(i) PROVE CountOK(i)'
<1> DEFINE batch == getUnpublishedEvents(BatchLimit)
<1>1. TypeOK /\ poll[p].pc = "idle"
  BY DEF IInv, Tick
<1>2. poll' = [poll EXCEPT ![p] = continueWith(batch)]
      /\ UNCHANGED <<createdAt, published, sent, faults>>
  BY DEF Tick, sharedVars
<1>3. batch \cap published = {}
  BY DEF getUnpublishedEvents, Unpublished
<1> HIDE DEF batch
<1>4. i \in published => ~awaiting(continueWith(batch), i)
  BY <1>3, ContinueCounts
<1>5. ~handing(poll[p], i)
  BY <1>1 DEF handing
<1> QED
  BY <1>1, <1>2, <1>4, <1>5, CountPollStep

\* Looking up a node, and the throw that ends the poll.
LEMMA LookupCount ==
  ASSUME IInv, NEW p \in Pollers, LookupNode(p) \/ PublishThrows(p), NEW i, CountOK(i)
  PROVE  CountOK(i)'
<1>1. TypeOK /\ poll[p].pc \in {"lookup", "publish"} /\ poll[p] \in Poll
  BY DEF IInv, TypeOK, LookupNode, PublishThrows
<1>2. PICK q : poll' = [poll EXCEPT ![p] = q] /\ q.pc # "mark" /\ q.batch \subseteq poll[p].batch
  <2>1. CASE LookupNode(p)
    <3> PICK q : q = [poll[p] EXCEPT !.pc = "publish",
                                     !.node = assignedNodeId[outbox[current(p)].job]]
      OBVIOUS
    <3>1. q.pc = "publish" /\ q.batch = poll[p].batch
      BY <1>1 DEF Poll
    <3>2. poll' = [poll EXCEPT ![p] = q]
      BY <1>1, <2>1 DEF LookupNode, TypeOK
    <3> QED
      BY <3>1, <3>2
  <2>2. CASE PublishThrows(p)
    <3>1. NoPoll.pc = "idle" /\ NoPoll.batch = {}
      BY DEF NoPoll
    <3>2. poll' = [poll EXCEPT ![p] = NoPoll]
      BY <2>2 DEF PublishThrows
    <3> QED
      BY <3>1, <3>2
  <2> QED
    BY <2>1, <2>2
<1>3. UNCHANGED <<createdAt, published, sent, faults>>
  BY DEF LookupNode, PublishThrows, sharedVars
<1>4. (awaiting(q, i) => awaiting(poll[p], i)) /\ ~handing(poll[p], i)
  BY <1>1, <1>2 DEF awaiting, handing
<1> QED
  BY <1>1, <1>2, <1>3, <1>4, CountPollStep

\* Handing over: the poll that did so waits no longer if the row is marked, and
\* is about to mark it if it is not.
LEMMA PublishCount ==
  ASSUME IInv, NEW p \in Pollers, Publish(p), NEW i, CountOK(i) PROVE CountOK(i)'
<1> DEFINE c == current(p)
           s == [event |-> c, node |-> poll[p].node, at |-> "buffer"]
<1> PICK q : q = [poll[p] EXCEPT !.pc = "mark"]
  OBVIOUS
<1>1. TypeOK /\ PollOK(poll[p]) /\ poll[p] \in Poll /\ poll[p].pc = "publish"
  BY DEF IInv, TypeOK, Publish
<1>2. c \in poll[p].batch /\ c \in RowId
  BY <1>1, OldestIsFirst, RowsAreNumbered DEF PollOK, current, RowId
<1>3. s \in Sending /\ s.event = c
  BY <1>1, <1>2 DEF Sending, Poll
<1>4. sent' = Append(sent, s) /\ poll' = [poll EXCEPT ![p] = q]
      /\ UNCHANGED <<createdAt, published, faults>>
  BY DEF Publish, sharedVars
<1>5. q.pc = "mark" /\ q.batch = poll[p].batch
  BY <1>1 DEF Poll
<1> HIDE DEF s
<1>6. Copies(i)' = IF i = c THEN Copies(i) + 1 ELSE Copies(i)
  BY <1>1, <1>3, <1>4, CopiesAppend
<1>7. /\ Waiting(i)' = IF awaiting(q, i) THEN Waiting(i) \cup {p} ELSE Waiting(i) \ {p}
      /\ Marking(i)' = IF handing(q, i) THEN Marking(i) \cup {p} ELSE Marking(i) \ {p}
  BY <1>1, <1>4, CountsOfPoll
<1>8. (handing(q, i) <=> c = i) /\ ~handing(poll[p], i)
      /\ (awaiting(q, i) <=> i # c /\ awaiting(poll[p], i))
  BY <1>1, <1>5 DEF handing, awaiting, current
<1>9. CASE i # c
  <2>1. Waiting(i)' \subseteq Waiting(i) /\ Marking(i) \subseteq Marking(i)'
    BY <1>7, <1>8, <1>9 DEF Waiting, Marking
  <2> QED
    BY <1>1, <1>4, <1>6, <1>9, <2>1, CountStays
<1>10. CASE i = c
  <2> PICK W, M, W1, M1 : W = Waiting(i) /\ M = Marking(i) /\ W1 = Waiting(i)' /\ M1 = Marking(i)'
    OBVIOUS
  <2>1. p \in W /\ p \notin M /\ W1 = W \ {p} /\ M1 = M \cup {p}
    BY <1>2, <1>7, <1>8, <1>10 DEF Waiting, Marking, awaiting
  <2>2. W \subseteq Pollers /\ M \subseteq Pollers /\ W1 \subseteq Pollers /\ p \notin W1 /\ W = W1 \cup {p}
    BY <2>1 DEF Waiting, Marking
  <2>3. Cardinality(W) = Cardinality(W1) + 1 /\ Cardinality(M1) = Cardinality(M) + 1
    BY <2>1, <2>2, OnePollMore
  <2>4. Cardinality(W1) \in Nat /\ Cardinality(M) \in Nat
    BY <2>2, PollCounts
  <2>5. Copies(i) \in Nat
    BY <1>1, CopiesFinite
  <2>6. faults \in Nat
    BY <1>1, PublisherAssumption DEF TypeOK
  <2> PICK a, b : a = N * faults /\ b = N * (faults + 1)
    OBVIOUS
  <2>7. a \in Nat /\ b \in Nat
    BY <2>6, OneMoreRound
  <2>8. /\ i \in published => Copies(i) + Cardinality(W) <= b
        /\ i \notin published => Copies(i) <= a + Cardinality(M)
    BY DEF CountOK
  <2>9. /\ i \in published => (Copies(i) + 1) + Cardinality(W1) <= b
        /\ i \notin published => Copies(i) + 1 <= a + Cardinality(M1)
    BY <2>3, <2>4, <2>5, <2>7, <2>8
  <2>10. Copies(i)' = Copies(i) + 1 /\ N' = N
    BY <1>6, <1>10 DEF N
  <2> QED
    BY <1>4, <2>9, <2>10 DEF CountOK
<1> QED
  BY <1>9, <1>10

\* Marking: who still holds the row has not handed it over, so the polls that
\* may hand it over and those that did so unmarked are different ones.
LEMMA MarkCount ==
  ASSUME IInv, NEW p \in Pollers, Mark(p), NEW i, CountOK(i) PROVE CountOK(i)'
<1> DEFINE c == current(p)
           batch == poll[p].batch \ {c}
<1>1. TypeOK /\ poll[p].pc = "mark"
  BY DEF IInv, Mark
<1>2. poll' = [poll EXCEPT ![p] = continueWith(batch)] /\ published' = published \cup {c}
      /\ UNCHANGED <<createdAt, sent, faults>>
  BY <1>1 DEF Mark, TypeOK, sharedVars
<1>3. handing(poll[p], i) <=> i = c
  BY <1>1 DEF handing, current
<1>4. ~handing(continueWith(batch), i) /\ (awaiting(continueWith(batch), i) => i \in poll[p].batch /\ i # c)
  BY ContinueCounts
<1> HIDE DEF batch
<1>5. CASE i # c \/ i \in published
  <2>1. awaiting(continueWith(batch), i) => awaiting(poll[p], i)
    BY <1>3, <1>4 DEF awaiting
  <2>2. i \notin published => ~handing(poll[p], i)
    BY <1>3, <1>5
  <2>3. i \in published' <=> i \in published
    BY <1>2, <1>5
  <2> QED
    BY <1>1, <1>2, <2>1, <2>2, <2>3, CountPollStep
<1>6. CASE i = c /\ i \notin published
  <2> PICK M, W1 : M = Marking(i) /\ W1 = Waiting(i)'
    OBVIOUS
  <2>1. W1 = Waiting(i) \ {p}
    BY <1>1, <1>2, <1>4, <1>6, CountsOfPoll
  <2>2. W1 \subseteq Pollers /\ M \subseteq Pollers /\ W1 \cap M = {}
    BY <2>1 DEF Waiting, Marking, awaiting
  <2>3. Cardinality(W1) \in Nat /\ Cardinality(M) \in Nat /\ Cardinality(W1) + Cardinality(M) <= N /\ N \in Nat
    BY <2>2, PollCounts
  <2>4. Copies(i) \in Nat
    BY <1>1, CopiesFinite
  <2>5. faults \in Nat
    BY <1>1, PublisherAssumption DEF TypeOK
  <2> PICK a, b : a = N * faults /\ b = N * (faults + 1)
    OBVIOUS
  <2>6. a \in Nat /\ b = a + N
    BY <2>5, OneMoreRound
  <2>7. Copies(i) <= a + Cardinality(M)
    BY <1>6 DEF CountOK
  <2>8. Copies(i) + Cardinality(W1) <= b
    BY <2>3, <2>4, <2>6, <2>7
  <2>9. Copies(i)' = Copies(i)
    BY <1>2, CopiesStay
  <2>10. i \in published' /\ N' = N
    BY <1>2, <1>6 DEF N
  <2> QED
    BY <1>2, <2>8, <2>9, <2>10 DEF CountOK
<1> QED
  BY <1>5, <1>6

\* A failure, and a message that reaches the broker.
LEMMA ChannelCount ==
  ASSUME IInv, Flush \/ ChannelCloses \/ Restart \/ (\E p \in Pollers : AbortPoll(p)),
         NEW i, CountOK(i)
  PROVE  CountOK(i)'
<1>1. TypeOK
  BY DEF IInv
<1>2. Copies(i)' = Copies(i)
  <2>1. CASE Flush
    <3>1. DOMAIN sent' = DOMAIN sent /\ \A k \in DOMAIN sent : sent'[k].event = sent[k].event
      <4> PICK m : sent' = [sent EXCEPT ![m].at = "broker"]
        BY <2>1 DEF Flush
      <4>1. \A k \in DOMAIN sent : sent[k] \in Sending
        BY <1>1 DEF TypeOK
      <4> PICK f : f = [sent[m] EXCEPT !.at = "broker"]
        OBVIOUS
      <4>2. sent' = [sent EXCEPT ![m] = f] /\ (m \in DOMAIN sent => f.event = sent[m].event)
        BY <4>1 DEF Sending
      <4> QED
        BY <4>2
    <3> QED
      BY <3>1, CopiesStay
  <2>2. CASE ChannelCloses \/ Restart
    <3>1. sent' = [m \in DOMAIN sent |->
                     IF m \in Buffered THEN [sent[m] EXCEPT !.at = "lost"] ELSE sent[m]]
      BY <2>2 DEF ChannelCloses, Restart, bufferLost
    <3>2. \A k \in DOMAIN sent : sent[k] \in Sending
      BY <1>1 DEF TypeOK
    <3>3. \A x \in Sending : [x EXCEPT !.at = "lost"].event = x.event
      BY DEF Sending
    <3>4. DOMAIN sent' = DOMAIN sent /\ \A k \in DOMAIN sent : sent'[k].event = sent[k].event
      BY <3>1, <3>2, <3>3
    <3> QED
      BY <3>4, CopiesStay
  <2>3. CASE \E p \in Pollers : AbortPoll(p)
    BY <2>3, CopiesStay DEF AbortPoll
  <2> QED
    BY <2>1, <2>2, <2>3
<1>3. CASE Flush
  <2>1. UNCHANGED <<createdAt, published, poll, faults>>
    BY <1>3 DEF Flush
  <2>2. Waiting(i)' = Waiting(i) /\ Marking(i)' = Marking(i)
    BY <2>1 DEF Waiting, Marking, awaiting, handing, oldest, Older
  <2> QED
    BY <1>1, <1>2, <2>1, <2>2, CountStays
<1>4. CASE ~Flush
  <2>1. faults' = faults + 1 /\ UNCHANGED published
    BY <1>4 DEF ChannelCloses, Restart, AbortPoll, Fault
  <2> QED
    BY <1>1, <1>2, <2>1, CountAfterFault
<1> QED
  BY <1>3, <1>4

\* The rest of the service: a row that is added is in no batch.
LEMMA EnvironmentCount ==
  ASSUME IInv, UNCHANGED pollerVars, UNCHANGED createdAt \/ (\E t \in Time : Stamp(t)),
         NEW i, CountOK(i)
  PROVE  CountOK(i)'
<1>1. TypeOK /\ UNCHANGED <<published, poll, sent, faults>>
  BY DEF IInv, pollerVars
<1>2. \A m, k \in DOMAIN outbox : Older(m, k)' <=> Older(m, k)
  <2>1. CASE UNCHANGED createdAt
    BY <2>1 DEF Older
  <2>2. CASE \E t \in Time : Stamp(t)
    <3>1. DOMAIN createdAt = 1..Len(outbox) /\ DOMAIN outbox = 1..Len(outbox)
          /\ createdAt \in Seq(Time) /\ Len(createdAt) = Len(outbox) /\ Len(outbox) \in Nat
      BY <1>1, RowsAreNumbered DEF TypeOK
    <3>2. PICK t \in Time : createdAt' = Append(createdAt, t)
      BY <2>2 DEF Stamp
    <3>3. \A m \in 1..Len(createdAt) : Append(createdAt, t)[m] = createdAt[m]
      BY <3>1
    <3>4. \A m \in DOMAIN outbox : createdAt'[m] = createdAt[m]
      BY <3>1, <3>2, <3>3
    <3> QED
      BY <3>4 DEF Older
  <2> QED
    BY <2>1, <2>2
<1>3. ASSUME NEW r \in Pollers
      PROVE  (handing(poll[r], i)' <=> handing(poll[r], i)) /\ (awaiting(poll[r], i)' <=> awaiting(poll[r], i))
  <2>1. PICK x : x = poll[r]
    OBVIOUS
  <2>2. PollOK(x)
    BY <2>1 DEF IInv
  <2>3. oldest(x.batch)' = oldest(x.batch)
    BY <1>2, <2>2 DEF oldest, PollOK
  <2>4. (handing(x, i)' <=> handing(x, i)) /\ (awaiting(x, i)' <=> awaiting(x, i))
    BY <2>3 DEF handing, awaiting
  <2> QED
    BY <1>1, <2>1, <2>4
<1>4. Waiting(i)' = Waiting(i) /\ Marking(i)' = Marking(i)
  BY <1>3 DEF Waiting, Marking
<1>5. Copies(i)' = Copies(i)
  BY <1>1, CopiesStay
<1> QED
  BY <1>1, <1>4, <1>5, CountStays

\* Every step keeps the count, and the count is within the bound.
LEMMA CountStep ==
  ASSUME IInv, Counted, [Next]_vars PROVE Counted'
<1> SUFFICES ASSUME NEW i \in RowId, CountOK(i) PROVE CountOK(i)'
  BY DEF Counted
<1>1. CASE UNCHANGED vars
  <2>1. TypeOK /\ UNCHANGED <<createdAt, published, poll, sent, faults>>
    BY <1>1 DEF IInv, vars, sharedVars, pollerVars
  <2>2. Waiting(i)' = Waiting(i) /\ Marking(i)' = Marking(i) /\ Copies(i)' = Copies(i)
    BY <2>1, CopiesStay DEF Waiting, Marking, awaiting, handing, oldest, Older
  <2> QED
    BY <2>1, <2>2, CountStays
<1>2. CASE \E p \in Pollers : PollStep(p)
  BY <1>2, TickCount, LookupCount, PublishCount, MarkCount DEF PollStep
<1>3. CASE Environment
  <2>1. UNCHANGED pollerVars /\ (UNCHANGED createdAt \/ \E t \in Time : Stamp(t))
    BY <1>3 DEF Environment, AppendEvent, AssignNode, emitCancelJobEvent
  <2> QED
    BY <2>1, EnvironmentCount
<1> QED
  BY <1>1, <1>2, <1>3, ChannelCount DEF Next, PublisherStep

\* The count implies the bound.
LEMMA CountBounds ==
  ASSUME IInv, Counted PROVE CopiesBounded
<1> SUFFICES ASSUME NEW i \in Handed PROVE Copies(i) <= N * (faults + 1)
  BY DEF CopiesBounded, N
<1>1. TypeOK /\ i \in RowId
  BY RowsAreNumbered DEF IInv, RowId
<1>2. Copies(i) \in Nat
  BY <1>1, CopiesFinite
<1>3. faults \in Nat
  BY <1>1, PublisherAssumption DEF TypeOK
<1>4. Waiting(i) \subseteq Pollers /\ Marking(i) \subseteq Pollers
  BY DEF Waiting, Marking
<1> PICK a, b, w, m : a = N * faults /\ b = N * (faults + 1)
                      /\ w = Cardinality(Waiting(i)) /\ m = Cardinality(Marking(i))
  OBVIOUS
<1>5. a \in Nat /\ b = a + N
  BY <1>3, OneMoreRound
<1>6. w \in Nat /\ m \in Nat /\ m <= N /\ N \in Nat
  BY <1>4, PollCounts
<1>7. (i \in published => Copies(i) + w <= b) /\ (i \notin published => Copies(i) <= a + m)
  BY <1>1 DEF Counted, CountOK
<1> QED
  BY <1>2, <1>5, <1>6, <1>7

\* Nothing has been handed over yet.
LEMMA InitCounted == Init => Counted
<1> SUFFICES ASSUME Init, NEW i \in RowId PROVE CountOK(i)
  BY DEF Counted
<1>1. {k \in DOMAIN sent : sent[k].event = i} = {}
  BY DEF Init
<1>2. Copies(i) = 0
  BY <1>1, FS_EmptySet DEF Copies
<1>3. Marking(i) \subseteq Pollers /\ N * 0 \in Nat
  BY OneMoreRound DEF Marking
<1>4. Cardinality(Marking(i)) \in Nat
  BY <1>3, PollCounts
<1>5. faults = 0 /\ published = {}
  BY DEF Init
<1>6. 0 <= N * 0 + Cardinality(Marking(i))
  BY <1>3, <1>4
<1> QED
  BY <1>2, <1>5, <1>6 DEF CountOK

-----------------------------------------------------------------------------
(* Theorems.                                                               *)

\* The inductive invariant holds in every reachable state.
THEOREM Invariance == Spec => []IInv
BY InitIInv, InvariantStep, PTL DEF Spec

\* Type correctness: polls sit at the points of the loop, rows marked published
\* exist, and what lies on a node's queue names a node and a job.
THEOREM TypeCorrect == Spec => []TypeOK
BY Invariance, PTL DEF IInv

\* No row is marked published before its event was handed to a channel, however
\* polls overlap and whatever fails.
THEOREM MarkedWasHanded == Spec => []HandedBeforeMarked
BY Invariance, PTL DEF IInv

\* No event overtakes one that is older and was committed before it.
THEOREM NothingOvertakes == Spec => []HandedInOrder
BY Invariance, PTL DEF IInv

\* However polls overlap and whatever fails, an event is handed over no more
\* often than there are polls, times one more than there were failures.
THEOREM CopiesStayBounded == Spec => []CopiesBounded
<1>1. Spec => []Counted
  BY InitCounted, CountStep, Invariance, PTL DEF Spec
<1> QED
  BY <1>1, Invariance, CountBounds, PTL
=============================================================================

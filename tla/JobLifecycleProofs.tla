------------------------- MODULE JobLifecycleProofs -------------------------
(***************************************************************************)
(* Proofs about JobLifecycle, for any sets of jobs, nodes, concurrent      *)
(* requests and messages and any bound on the outbox.                      *)
(***************************************************************************)
EXTENDS JobLifecycle, TLAPS

-----------------------------------------------------------------------------
(* Types.                                                                  *)

\* Every action keeps the types: in particular no handler and no report ever
\* writes a status outside the enum, and no CANCEL goes to a queue without a
\* node.
LEMMA TypeStep == TypeOK /\ ChecksPassed /\ [Next]_vars => TypeOK'
<1> USE LifecycleAssumption
<1> SUFFICES ASSUME TypeOK, ChecksPassed, [Next]_vars PROVE TypeOK'
  OBVIOUS
<1> USE DEF TypeOK, RowStatus, NodeOrNone, JobStatus, dbVars, workerVars
<1>1. ASSUME NEW j \in Jobs, CreateJob(j) PROVE TypeOK'
  <2>1. [job |-> j, type |-> "CREATED", prev |-> "ABSENT", new |-> "QUEUED"] \in Event
    BY DEF Event, EventType
  <2> QED
    BY <1>1, <2>1 DEF CreateJob
<1>2. ASSUME NEW r \in Requests, NEW q \in Request, Arrive(r, q) PROVE TypeOK'
  BY <1>2 DEF Arrive
<1>3. ASSUME NEW r \in Requests, NEW j \in Jobs, NEW to \in RequestableStatus,
             ReceiveUpdate(r, j, to)
      PROVE  TypeOK'
  <2>1. NewRequest("update", j, to, "validate") \in Request
    BY DEF NewRequest, Request, RequestableStatus
  <2> QED
    BY <1>2, <1>3, <2>1 DEF ReceiveUpdate
<1>4. ASSUME NEW r \in Requests, NEW j \in Jobs, ReceiveCancel(r, j) \/ ReceiveHardCancel(r, j)
      PROVE  TypeOK'
  <2>1. /\ NewRequest("cancel", j, "CANCELLED", "check") \in Request
        /\ NewRequest("hardCancel", j, "CANCELLED", "lookup") \in Request
    BY DEF NewRequest, Request
  <2> QED
    BY <1>2, <1>4, <2>1 DEF ReceiveCancel, ReceiveHardCancel
<1>5. ASSUME NEW r \in Requests, CancelCheck(r) PROVE TypeOK'
  <2>1. req[r] \in Request
    BY <1>5 DEF CancelCheck, Idle
  <2>2. [req[r] EXCEPT !.pc = "validate"] \in Request
    BY <2>1 DEF Request
  <2> QED
    BY <1>5, <2>2 DEF CancelCheck
<1>6. ASSUME NEW r \in Requests, HardCancelLookup(r) PROVE TypeOK'
  <2>1. req[r] \in Request
    BY <1>6 DEF HardCancelLookup, Idle
  <2>2. [req[r] EXCEPT !.pc = "validate", !.node = assignedNodeId[req[r].job]] \in Request
    BY <2>1 DEF Request
  <2> QED
    BY <1>6, <2>2 DEF HardCancelLookup
<1>7. ASSUME NEW r \in Requests, ValidateTransition(r) PROVE TypeOK'
  <2>1. req[r] \in Request
    BY <1>7 DEF ValidateTransition, Idle
  <2>2. [req[r] EXCEPT !.pc = "commit", !.seen = status[req[r].job]] \in Request
    BY <2>1 DEF Request
  <2> QED
    BY <1>7, <2>2 DEF ValidateTransition, validated
<1>8. ASSUME NEW r \in Requests, Commit(r) PROVE TypeOK'
  <2>1. req[r] \in Request
    BY <1>8 DEF Commit, Idle
  <2>2. transitionEvent(req[r]) \in Event
    BY <2>1 DEF transitionEvent, getEventType, Event, EventType, Request
  <2>3. afterCommit(req[r]) \in Request \cup {Idle}
    BY <2>1 DEF afterCommit, Request
  <2> QED
    BY <1>8, <2>1, <2>2, <2>3 DEF Commit, Request
<1>9. ASSUME NEW r \in Requests, PublishCancel(r) \/ AbandonRequest(r) PROVE TypeOK'
  <2>1. CASE PublishCancel(r)
    <3>1. req[r] \in Request
      BY <2>1 DEF PublishCancel, Idle
    <3>2. req[r].node \in Nodes
      BY <2>1, <3>1 DEF PublishCancel, ChecksPassed, Request
    <3> QED
      BY <2>1, <3>1, <3>2 DEF PublishCancel, Request
  <2>2. CASE AbandonRequest(r)
    BY <2>2 DEF AbandonRequest
  <2> QED
    BY <1>9, <2>1, <2>2
<1>10. ASSUME NEW m \in Msgs, NEW j \in Jobs, NEW n \in Nodes, WorkerStep(m, j, n) PROVE TypeOK'
  <2>1. ASSUME NEW kind \in AllReportKinds \cup {"start"}, Report(m, kind, j, n)
        PROVE  /\ msg' \in [Msgs -> Message \cup {Free}]
               /\ UNCHANGED <<dbVars, req, cancelQueue>>
    <3>1. [state |-> "ready", kind |-> kind, job |-> j, node |-> n, seen |-> "ABSENT"]
            \in Message
      BY DEF Message
    <3> QED
      BY <2>1, <3>1 DEF Report
  <2>2. CASE WorkerPickUp(m, j, n)
    BY <2>1, <2>2 DEF WorkerPickUp
  <2>3. CASE WorkerProgress(m, j, n)
    BY <2>1, <2>3 DEF WorkerProgress, AllReportKinds
  <2>4. ASSUME NEW kind \in ReportKinds, WorkerFinish(m, j, n, kind) PROVE TypeOK'
    BY <2>1, <2>4 DEF WorkerFinish
  <2> QED
    BY <1>10, <2>2, <2>3, <2>4 DEF WorkerStep
<1>11. ASSUME NEW m \in Msgs, ReadJob(m) \/ SkipEvent(m) \/ Redeliver(m) PROVE TypeOK'
  <2>1. msg[m] \in Message
    BY <1>11 DEF ReadJob, SkipEvent, Redeliver, Free
  <2>2. /\ [msg[m] EXCEPT !.state = "read", !.seen = status[msg[m].job]] \in Message
        /\ [msg[m] EXCEPT !.state = "handled"] \in Message
        /\ [msg[m] EXCEPT !.state = "ready", !.seen = "ABSENT"] \in Message
    BY <2>1 DEF Message
  <2> QED
    BY <1>11, <2>2 DEF ReadJob, SkipEvent, Redeliver
<1>12. ASSUME NEW m \in Msgs, ApplyEvent(m) PROVE TypeOK'
  <2>1. msg[m] \in Message
    BY <1>12 DEF ApplyEvent, Free
  <2>2. [msg[m] EXCEPT !.state = "handled"] \in Message
    BY <2>1 DEF Message
  <2>3. reportedStatus(msg[m].kind) \in JobStatus
    BY <1>12, <2>1 DEF ApplyEvent, Skips, Message, AllReportKinds, reportedStatus
  <2> QED
    BY <1>12, <2>1, <2>2, <2>3 DEF ApplyEvent, Message
<1>13. ASSUME NEW m \in Msgs, Ack(m) PROVE TypeOK'
  BY <1>13 DEF Ack
<1>14. CASE UNCHANGED vars
  BY <1>14 DEF vars
<1> QED
  BY <1>1, <1>3, <1>4, <1>5, <1>6, <1>7, <1>8, <1>9, <1>10, <1>11, <1>12, <1>13, <1>14
  DEF Next, RequestStep, ConsumerStep

-----------------------------------------------------------------------------
(* The event log.                                                          *)

Log == LogCoversRows /\ EventLogWellFormed /\ StatusMatchesNewestEvent

\* What appending one event does to the log and to the events of each job.
LEMMA AppendEvent ==
  ASSUME outbox \in Seq(Event), NEW e \in Event, outbox' = Append(outbox, e)
  PROVE  LET n == Len(outbox) + 1 IN
         /\ n \in Nat \ {0}
         /\ DOMAIN outbox = 1..(n-1)
         /\ DOMAIN outbox' = 1..n
         /\ outbox'[n] = e
         /\ \A i \in DOMAIN outbox : outbox'[i] = outbox[i]
         /\ \A j \in Jobs : EventsOf(j)' = IF j = e.job THEN EventsOf(j) \cup {n} ELSE EventsOf(j)
<1>1. /\ Len(outbox) + 1 \in Nat \ {0}
      /\ DOMAIN outbox = 1..Len(outbox)
      /\ DOMAIN outbox' = 1..(Len(outbox) + 1)
      /\ outbox'[Len(outbox) + 1] = e
      /\ \A i \in 1..Len(outbox) : outbox'[i] = outbox[i]
  OBVIOUS
<1> QED
  BY <1>1 DEF EventsOf

\* A step that touches neither rows nor events keeps what the log says.
LEMMA LogUnchanged == Log /\ UNCHANGED <<status, outbox, byWorker>> => Log'
BY DEF Log, LogCoversRows, EventLogWellFormed, StatusMatchesNewestEvent, EventsOf

\* An event of a job is never taken back.
LEMMA EventsStay ==
  ASSUME outbox \in Seq(Event), NEW e \in Event, outbox' = Append(outbox, e)
  PROVE  \A j \in Jobs, type \in EventType : HasEvent(j, type) => HasEvent(j, type)'
BY AppendEvent DEF HasEvent, EventsOf

\* A legal transition has a name of its own in the event table.
LEMMA LegalTransitionsNamed ==
  ASSUME NEW c, NEW n, validateStateTransition(c, n)
  PROVE  /\ getEventType(c, n) \notin {"CREATED", "STATE_CHANGED"}
         /\ n = "CANCELLED" => getEventType(c, n) = "CANCELLED"
<1>1. \/ c = "QUEUED" /\ n = "RUNNING"
      \/ c = "RUNNING" /\ n \in {"COMPLETED", "FAILED"}
      \/ c \in {"QUEUED", "RUNNING"} /\ n = "CANCELLED"
  BY DEF validateStateTransition, validTransitions
<1> QED
  BY <1>1 DEF getEventType

\* Appending an event e of a job whose row it describes keeps the log
\* well-formed: it opens the history of a new job, or extends an old one by a
\* legal transition.
LEMMA LogAppend ==
  ASSUME TypeOK, Log, NEW e \in Event, outbox' = Append(outbox, e),
         status' = [status EXCEPT ![e.job] = e.new],
         byWorker' \in {byWorker, byWorker \ {e.job}},
         \/ e.type = "CREATED" /\ EventsOf(e.job) = {}
         \/ /\ EventsOf(e.job) # {}
            /\ e.type \notin {"CREATED", "STATE_CHANGED"}
            /\ validateStateTransition(e.prev, e.new)
            /\ e.type = getEventType(e.prev, e.new)
  PROVE  Log'
<1> DEFINE n == Len(outbox) + 1
<1>1. outbox \in Seq(Event) /\ e.job \in Jobs /\ e.new \in JobStatus /\ status \in [Jobs -> RowStatus]
  BY DEF TypeOK, Event
<1>2. /\ n \in Nat \ {0}
      /\ DOMAIN outbox = 1..(n-1)
      /\ DOMAIN outbox' = 1..n
      /\ outbox'[n] = e
      /\ \A i \in DOMAIN outbox : outbox'[i] = outbox[i]
      /\ \A j \in Jobs : EventsOf(j)' = IF j = e.job THEN EventsOf(j) \cup {n} ELSE EventsOf(j)
  BY <1>1, AppendEvent
<1>3. \A j \in Jobs : EventsOf(j) \subseteq 1..(n-1)
  BY <1>2 DEF EventsOf
<1> HIDE DEF n
<1>4. LogCoversRows'
  BY <1>1, <1>2 DEF Log, LogCoversRows, JobStatus
<1>5. EventLogWellFormed'
  <2> SUFFICES ASSUME NEW i \in 1..n
               PROVE  LET f == outbox'[i] IN
                        IF f.type = "CREATED"
                          THEN \A k \in 1..(i-1) : outbox'[k].job # f.job
                          ELSE /\ \E k \in 1..(i-1) : outbox'[k].job = f.job
                               /\ validateStateTransition(f.prev, f.new)
                               /\ f.type = getEventType(f.prev, f.new)
                               /\ f.type # "STATE_CHANGED"
    BY <1>2 DEF EventLogWellFormed
  <2>1. \A k \in 1..(i-1) : outbox'[k] = outbox[k]
    BY <1>2
  <2>2. CASE i = n
    <3>1. CASE e.type = "CREATED" /\ EventsOf(e.job) = {}
      BY <1>2, <2>1, <2>2, <3>1 DEF EventsOf
    <3>2. CASE ~(e.type = "CREATED" /\ EventsOf(e.job) = {})
      <4>1. PICK k \in EventsOf(e.job) : TRUE
        BY <3>2
      <4>2. k \in 1..(i-1) /\ outbox[k].job = e.job
        BY <1>2, <2>2, <4>1 DEF EventsOf
      <4> QED
        BY <1>2, <2>1, <2>2, <3>2, <4>2
    <3> QED
      BY <3>1, <3>2
  <2>3. CASE i # n
    <3>1. i \in DOMAIN outbox /\ outbox'[i] = outbox[i]
      BY <1>2, <2>3
    <3> QED
      BY <2>1, <3>1 DEF Log, EventLogWellFormed
  <2> QED
    BY <2>2, <2>3
<1>6. StatusMatchesNewestEvent'
  <2> SUFFICES ASSUME NEW j \in Jobs, status'[j] # "ABSENT", j \notin byWorker'
               PROVE  \E i \in EventsOf(j)' :
                        outbox'[i].new = status'[j] /\ \A k \in EventsOf(j)' : k <= i
    BY DEF StatusMatchesNewestEvent
  <2>1. CASE j = e.job
    <3>1. n \in EventsOf(j)' /\ outbox'[n].new = status'[j] /\ \A k \in EventsOf(j)' : k <= n
      BY <1>1, <1>2, <1>3, <2>1
    <3> QED
      BY <3>1
  <2>2. CASE j # e.job
    <3>1. status'[j] = status[j] /\ j \notin byWorker /\ EventsOf(j)' = EventsOf(j)
      BY <1>1, <1>2, <2>2
    <3>2. PICK i \in EventsOf(j) : outbox[i].new = status[j] /\ \A k \in EventsOf(j) : k <= i
      BY <3>1 DEF Log, StatusMatchesNewestEvent
    <3>3. outbox'[i] = outbox[i]
      BY <1>2, <1>3
    <3> QED
      BY <3>1, <3>2, <3>3
  <2> QED
    BY <2>1, <2>2
<1> QED
  BY <1>4, <1>5, <1>6 DEF Log

\* A transaction of createJob or updateJobStatus extends the log, a report only
\* writes the row, and no other action touches either.
LEMMA LogStep == IInv /\ [Next]_vars => Log'
<1> SUFFICES ASSUME IInv, [Next]_vars PROVE Log'
  OBVIOUS
<1> USE DEF IInv
<1>1. Log
  BY DEF Log
<1>2. ASSUME NEW j \in Jobs, CreateJob(j) PROVE Log'
  <2> DEFINE e == [job |-> j, type |-> "CREATED", prev |-> "ABSENT", new |-> "QUEUED"]
  <2>1. e \in Event
    BY DEF Event, EventType, RowStatus, JobStatus
  <2>2. EventsOf(e.job) = {}
    BY <1>2 DEF CreateJob, LogCoversRows
  <2>3. /\ outbox' = Append(outbox, e)
        /\ status' = [status EXCEPT ![e.job] = e.new]
        /\ byWorker' = byWorker
    BY <1>2 DEF CreateJob
  <2> QED
    BY <1>1, <2>1, <2>2, <2>3, LogAppend
<1>3. ASSUME NEW r \in Requests, Commit(r) PROVE Log'
  <2> DEFINE e == transitionEvent(req[r])
  <2>1. req[r] \in Request /\ validateStateTransition(req[r].seen, req[r].to)
    BY <1>3 DEF Commit, Idle, ChecksPassed, TypeOK
  <2>2. e \in Event
    BY <2>1 DEF transitionEvent, getEventType, Event, EventType, Request
  <2>3. e.job = req[r].job /\ e.new = req[r].to /\ e.prev = req[r].seen
          /\ e.type = getEventType(req[r].seen, req[r].to)
    BY DEF transitionEvent
  <2>4. EventsOf(e.job) # {}
    BY <1>3, <2>1, <2>3 DEF Commit, RowsExist, LogCoversRows, Idle, Request
  <2>5. e.type \notin {"CREATED", "STATE_CHANGED"}
    BY <2>1, <2>3, LegalTransitionsNamed
  <2>6. /\ outbox' = Append(outbox, e)
        /\ status' = [status EXCEPT ![e.job] = e.new]
        /\ byWorker' = byWorker \ {e.job}
    BY <1>3, <2>3 DEF Commit
  <2> HIDE DEF e
  <2> QED
    BY <1>1, <2>1, <2>2, <2>3, <2>4, <2>5, <2>6, LogAppend
<1>4. ASSUME NEW m \in Msgs, ApplyEvent(m) PROVE Log'
  <2>1. msg[m] \in Message
    BY <1>4 DEF ApplyEvent, Free, TypeOK
  <2>2. /\ status[msg[m].job] # "ABSENT" /\ msg[m].job \in Jobs
        /\ reportedStatus(msg[m].kind) # "ABSENT"
    BY <1>4, <2>1 DEF ApplyEvent, Free, RowsExist, Message, Skips, AllReportKinds, reportedStatus
  <2>3. /\ status' = [status EXCEPT ![msg[m].job] = reportedStatus(msg[m].kind)]
        /\ byWorker' = byWorker \cup {msg[m].job}
        /\ UNCHANGED outbox
    BY <1>4 DEF ApplyEvent
  <2>4. \A j \in Jobs : EventsOf(j)' = EventsOf(j) /\ (status'[j] = "ABSENT" <=> status[j] = "ABSENT")
    BY <2>2, <2>3 DEF EventsOf, TypeOK
  <2>5. LogCoversRows'
    BY <2>4 DEF LogCoversRows
  <2>6. EventLogWellFormed'
    BY <2>3 DEF EventLogWellFormed
  <2>7. StatusMatchesNewestEvent'
    BY <2>2, <2>3, <2>4 DEF StatusMatchesNewestEvent, TypeOK
  <2> QED
    BY <2>5, <2>6, <2>7 DEF Log
<1>5. ASSUME NEW r \in Requests, RequestStep(r), ~Commit(r) PROVE Log'
  BY <1>1, <1>5, LogUnchanged
  DEF RequestStep, ReceiveUpdate, ReceiveCancel, ReceiveHardCancel, Arrive, CancelCheck,
      HardCancelLookup, ValidateTransition, PublishCancel, AbandonRequest, dbVars
<1>6. ASSUME NEW m \in Msgs, NEW j \in Jobs, NEW n \in Nodes, WorkerStep(m, j, n) PROVE Log'
  BY <1>1, <1>6, LogUnchanged
  DEF WorkerStep, WorkerPickUp, WorkerProgress, WorkerFinish, Report, dbVars
<1>7. ASSUME NEW m \in Msgs, ConsumerStep(m), ~ApplyEvent(m) PROVE Log'
  BY <1>1, <1>7, LogUnchanged DEF ConsumerStep, ReadJob, SkipEvent, Ack, Redeliver, dbVars
<1>8. CASE UNCHANGED vars
  BY <1>1, <1>8, LogUnchanged DEF vars, dbVars
<1> QED
  BY <1>2, <1>3, <1>4, <1>5, <1>6, <1>7, <1>8 DEF Next

-----------------------------------------------------------------------------
(* Requests, messages and containers.                                      *)

\* A transaction that adds an event writes neither nodes nor queues; nothing
\* else touches the outbox.
LEMMA RowsAdded ==
  ASSUME TypeOK, [Next]_vars
  PROVE  \/ UNCHANGED outbox
         \/ \E e \in Event : /\ Len(outbox) < MaxEvents
                             /\ outbox' = Append(outbox, e)
                             /\ UNCHANGED <<assignedNodeId, cancelQueue>>
<1> DEFINE Added == \E e \in Event : /\ Len(outbox) < MaxEvents
                                     /\ outbox' = Append(outbox, e)
                                     /\ UNCHANGED <<assignedNodeId, cancelQueue>>
<1>1. ASSUME NEW j \in Jobs, CreateJob(j) PROVE Added
  <2>1. [job |-> j, type |-> "CREATED", prev |-> "ABSENT", new |-> "QUEUED"] \in Event
    BY DEF Event, EventType, RowStatus, JobStatus
  <2> QED
    BY <1>1, <2>1 DEF CreateJob
<1>2. ASSUME NEW r \in Requests, Commit(r) PROVE Added
  <2>1. req[r] \in Request
    BY <1>2 DEF Commit, Idle, TypeOK
  <2>2. transitionEvent(req[r]) \in Event
    BY <2>1 DEF transitionEvent, getEventType, Event, EventType, Request
  <2> QED
    BY <1>2, <2>2 DEF Commit
<1>3. ASSUME NEW r \in Requests, RequestStep(r), ~Commit(r) PROVE UNCHANGED outbox
  BY <1>3
  DEF RequestStep, ReceiveUpdate, ReceiveCancel, ReceiveHardCancel, Arrive, CancelCheck,
      HardCancelLookup, ValidateTransition, PublishCancel, AbandonRequest, dbVars
<1>4. ASSUME NEW m \in Msgs, NEW j \in Jobs, NEW n \in Nodes, WorkerStep(m, j, n) PROVE UNCHANGED outbox
  BY <1>4 DEF WorkerStep, WorkerPickUp, WorkerProgress, WorkerFinish, Report, dbVars
<1>5. ASSUME NEW m \in Msgs, ConsumerStep(m) PROVE UNCHANGED outbox
  BY <1>5 DEF ConsumerStep, ReadJob, SkipEvent, ApplyEvent, Ack, Redeliver, dbVars
<1>6. CASE UNCHANGED vars
  BY <1>6 DEF vars, dbVars
<1> QED
  BY <1>1, <1>2, <1>3, <1>4, <1>5, <1>6 DEF Next

\* The outbox only grows: what it says of a job stays said, and a row that
\* exists stays.
LEMMA OutboxGrows ==
  ASSUME IInv, [Next]_vars
  PROVE  /\ \A j \in Jobs, type \in EventType : HasEvent(j, type) => HasEvent(j, type)'
         /\ \A j \in Jobs : status[j] # "ABSENT" => status'[j] # "ABSENT"
<1>1. UNCHANGED outbox \/ \E e \in Event : outbox' = Append(outbox, e)
  BY RowsAdded DEF IInv
<1>2. \A j \in Jobs : EventsOf(j) \subseteq EventsOf(j)'
  BY <1>1, AppendEvent DEF EventsOf, IInv, TypeOK
<1>3. \A j \in Jobs, type \in EventType : HasEvent(j, type) => HasEvent(j, type)'
  BY <1>1, EventsStay DEF HasEvent, EventsOf, IInv, TypeOK
<1>4. LogCoversRows'
  BY LogStep DEF Log
<1> QED
  BY <1>2, <1>3, <1>4 DEF IInv, LogCoversRows

\* Every action starts from an existing row, and rows are never deleted.
LEMMA RowsExistStep == IInv /\ [Next]_vars => RowsExist'
<1> SUFFICES ASSUME IInv, [Next]_vars PROVE RowsExist'
  OBVIOUS
<1>1. \A j \in Jobs : status[j] # "ABSENT" => status'[j] # "ABSENT"
  BY OutboxGrows
<1>2. /\ RowsExist
      /\ req \in [Requests -> Request \cup {Idle}]
      /\ msg \in [Msgs -> Message \cup {Free}]
      /\ container \subseteq Nodes \X Jobs
  BY DEF IInv, TypeOK
<1>3. /\ \A r \in Requests : req[r] # Idle => req[r].job \in Jobs
      /\ \A m \in Msgs : msg[m] # Free => msg[m].job \in Jobs
  BY <1>2 DEF Request, Message
<1>4. ASSUME NEW r \in Requests, RequestStep(r) PROVE RowsExist'
  <2>1. req'[r] # Idle => req'[r].job \in Jobs /\ status[req'[r].job] # "ABSENT"
    <3>1. ASSUME NEW j \in Jobs, NEW to \in RequestableStatus, ReceiveUpdate(r, j, to)
          PROVE  req'[r].job = j /\ status[j] # "ABSENT"
      BY <1>2, <3>1 DEF ReceiveUpdate, NewRequest, Arrive
    <3>2. ASSUME NEW j \in Jobs, ReceiveCancel(r, j) \/ ReceiveHardCancel(r, j)
          PROVE  req'[r].job = j /\ status[j] # "ABSENT"
      BY <1>2, <3>2 DEF ReceiveCancel, ReceiveHardCancel, NewRequest, Arrive
    <3>3. CASE PublishCancel(r) \/ AbandonRequest(r)
      BY <1>2, <3>3 DEF PublishCancel, AbandonRequest
    <3>4. CASE CancelCheck(r) \/ HardCancelLookup(r) \/ ValidateTransition(r) \/ Commit(r)
      <4>1. req[r] \in Request /\ req[r] # Idle
        BY <1>2, <3>4 DEF CancelCheck, HardCancelLookup, ValidateTransition, Commit, Idle
      <4>2. req'[r] # Idle => req'[r].job = req[r].job
        <5>1. CASE CancelCheck(r)
          BY <1>2, <4>1, <5>1 DEF CancelCheck, Request
        <5>2. CASE HardCancelLookup(r)
          BY <1>2, <4>1, <5>2 DEF HardCancelLookup, Request
        <5>3. CASE ValidateTransition(r)
          BY <1>2, <4>1, <5>3 DEF ValidateTransition, validated, Request
        <5>4. CASE Commit(r)
          <6>1. req'[r] = afterCommit(req[r])
            BY <1>2, <5>4 DEF Commit
          <6> QED
            BY <4>1, <6>1 DEF afterCommit, Request
        <5> QED
          BY <3>4, <5>1, <5>2, <5>3, <5>4
      <4> QED
        BY <1>2, <1>3, <4>1, <4>2 DEF RowsExist
    <3> QED
      BY <1>4, <3>1, <3>2, <3>3, <3>4 DEF RequestStep
  <2>2. /\ \A q \in Requests \ {r} : req'[q] = req[q]
        /\ UNCHANGED <<msg, container>>
    BY <1>2, <1>4
    DEF RequestStep, ReceiveUpdate, ReceiveCancel, ReceiveHardCancel, Arrive, CancelCheck,
        HardCancelLookup, ValidateTransition, Commit, PublishCancel, AbandonRequest, workerVars
  <2> QED
    BY <1>1, <1>2, <1>3, <2>1, <2>2 DEF RowsExist
<1>5. ASSUME NEW m \in Msgs, NEW j \in Jobs, NEW n \in Nodes, WorkerStep(m, j, n) PROVE RowsExist'
  <2>1. /\ status[j] # "ABSENT"
        /\ msg'[m] # Free /\ msg'[m].job = j
        /\ \A q \in Msgs \ {m} : msg'[q] = msg[q]
        /\ UNCHANGED <<req, status>>
        /\ container' \subseteq container \cup {<<n, j>>}
    BY <1>2, <1>5
    DEF WorkerStep, WorkerPickUp, WorkerProgress, WorkerFinish, Report, RowsExist, Free, dbVars,
        workerVars
  <2> QED
    BY <1>2, <1>3, <2>1 DEF RowsExist
<1>6. ASSUME NEW m \in Msgs, ConsumerStep(m) PROVE RowsExist'
  <2>1. msg[m] \in Message /\ msg[m] # Free
    BY <1>2, <1>6 DEF ConsumerStep, ReadJob, SkipEvent, ApplyEvent, Ack, Redeliver, Free
  <2>2. /\ \A q \in Msgs \ {m} : msg'[q] = msg[q]
        /\ msg'[m] # Free => msg'[m].job = msg[m].job
        /\ UNCHANGED <<req, container>>
    BY <1>2, <1>6, <2>1
    DEF Message, ConsumerStep, ReadJob, SkipEvent, ApplyEvent, Ack, Redeliver, dbVars, workerVars
  <2> QED
    BY <1>1, <1>2, <1>3, <2>1, <2>2 DEF RowsExist
<1>7. ASSUME NEW j \in Jobs, CreateJob(j) PROVE RowsExist'
  BY <1>1, <1>2, <1>3, <1>7 DEF CreateJob, RowsExist, workerVars
<1>8. CASE UNCHANGED vars
  BY <1>2, <1>8 DEF vars, dbVars, workerVars, RowsExist
<1> QED
  BY <1>4, <1>5, <1>6, <1>7, <1>8 DEF Next

\* The conjunct of ChecksPassed about one request.
Checked(q) ==
  /\ q.pc = "commit" => validateStateTransition(q.seen, q.to)
  /\ q # Idle /\ q.op # "update" => q.to = "CANCELLED"
  /\ q.pc = "publish" => q.node # NoNode /\ HasEvent(q.job, "CANCELLED")

\* The committed cancellation is what a hard cancel takes with it to the
\* publishing of its CANCEL payload.
LEMMA ChecksPassedStep == IInv /\ [Next]_vars => ChecksPassed'
<1> SUFFICES ASSUME IInv, [Next]_vars PROVE ChecksPassed'
  OBVIOUS
<1>1. /\ req \in [Requests -> Request \cup {Idle}]
      /\ outbox \in Seq(Event)
      /\ \A r \in Requests : Checked(req[r])
  BY DEF IInv, TypeOK, ChecksPassed, Checked
<1>2. \A j \in Jobs : HasEvent(j, "CANCELLED") => HasEvent(j, "CANCELLED")'
  BY OutboxGrows DEF EventType
<1>3. SUFFICES ASSUME NEW r \in Requests PROVE Checked(req[r])'
  BY DEF ChecksPassed, Checked
<1>4. Checked(Idle)'
  BY DEF Checked, Idle
<1>5. CASE req'[r] = req[r]
  BY <1>1, <1>2, <1>4, <1>5 DEF Checked, Request
<1>6. CASE req'[r] # req[r]
  <2>1. RequestStep(r)
    <3>1. ASSUME NEW q \in Requests, RequestStep(q), q # r PROVE req'[r] = req[r]
      BY <1>1, <3>1
      DEF RequestStep, ReceiveUpdate, ReceiveCancel, ReceiveHardCancel, Arrive, CancelCheck,
          HardCancelLookup, ValidateTransition, Commit, PublishCancel, AbandonRequest
    <3>2. ASSUME NEW j \in Jobs, CreateJob(j) PROVE req'[r] = req[r]
      BY <3>2 DEF CreateJob
    <3>3. ASSUME NEW m \in Msgs, NEW j \in Jobs, NEW n \in Nodes, WorkerStep(m, j, n) PROVE req'[r] = req[r]
      BY <3>3 DEF WorkerStep, WorkerPickUp, WorkerProgress, WorkerFinish, Report
    <3>4. ASSUME NEW m \in Msgs, ConsumerStep(m) PROVE req'[r] = req[r]
      BY <3>4 DEF ConsumerStep, ReadJob, SkipEvent, ApplyEvent, Ack, Redeliver
    <3>5. CASE UNCHANGED vars
      BY <1>6, <3>5 DEF vars
    <3> QED
      BY <1>6, <3>1, <3>2, <3>3, <3>4, <3>5 DEF Next
  <2>2. CASE \/ \E j \in Jobs, to \in RequestableStatus : ReceiveUpdate(r, j, to)
             \/ \E j \in Jobs : ReceiveCancel(r, j) \/ ReceiveHardCancel(r, j)
    BY <1>1, <2>2
    DEF ReceiveUpdate, ReceiveCancel, ReceiveHardCancel, NewRequest, Arrive, Checked
  <2>3. CASE CancelCheck(r) \/ HardCancelLookup(r) \/ ValidateTransition(r)
    <3>1. req[r] \in Request /\ req[r] # Idle
      BY <1>1, <2>3 DEF CancelCheck, HardCancelLookup, ValidateTransition, Idle
    <3>2. \/ req'[r] = Idle
          \/ /\ req'[r] \in Request
             /\ req'[r].pc \in {"validate", "commit"}
             /\ req'[r].pc = "commit" => validateStateTransition(req'[r].seen, req'[r].to)
             /\ req'[r].op = req[r].op /\ req'[r].to = req[r].to
      <4>1. CASE CancelCheck(r)
        BY <1>1, <3>1, <4>1 DEF CancelCheck, Request
      <4>2. CASE HardCancelLookup(r)
        BY <1>1, <3>1, <4>2 DEF HardCancelLookup, Request, IInv, TypeOK
      <4>3. CASE ValidateTransition(r)
        BY <1>1, <3>1, <4>3 DEF ValidateTransition, validated, Request, IInv, TypeOK
      <4> QED
        BY <2>3, <4>1, <4>2, <4>3
    <3> QED
      BY <1>1, <1>4, <3>1, <3>2 DEF Checked
  <2>4. CASE Commit(r)
    <3>1. req[r] \in Request /\ req[r] # Idle /\ validateStateTransition(req[r].seen, req[r].to)
      BY <1>1, <2>4 DEF Commit, Idle, Checked
    <3>2. CASE req[r].op = "hardCancel" /\ req[r].node # NoNode
      <4> DEFINE e == transitionEvent(req[r])
      <4>1. e \in Event
        BY <3>1 DEF transitionEvent, getEventType, Event, EventType, Request
      <4>2. e.type = "CANCELLED" /\ e.job = req[r].job
        BY <1>1, <3>1, <3>2, LegalTransitionsNamed DEF Checked, transitionEvent
      <4>3. outbox' = Append(outbox, e)
        BY <2>4 DEF Commit
      <4> HIDE DEF e
      <4>4. PICK j \in Jobs : j = req[r].job
        BY <3>1 DEF Request
      <4>5. HasEvent(j, "CANCELLED")'
        <5>1. /\ EventsOf(j)' = EventsOf(j) \cup {Len(outbox) + 1}
              /\ outbox'[Len(outbox) + 1] = e
          BY <1>1, <4>1, <4>2, <4>3, <4>4, AppendEvent
        <5> QED
          BY <4>2, <5>1 DEF HasEvent
      <4>6. /\ req'[r].pc = "publish" /\ req'[r].op = req[r].op /\ req'[r].to = req[r].to
            /\ req'[r].node = req[r].node /\ req'[r].job = j
        BY <1>1, <2>4, <3>1, <3>2, <4>4 DEF Commit, afterCommit, Request
      <4> QED
        BY <1>1, <3>1, <3>2, <4>5, <4>6 DEF Checked
    <3>3. CASE ~(req[r].op = "hardCancel" /\ req[r].node # NoNode)
      BY <1>1, <1>4, <2>4, <3>3 DEF Commit, afterCommit
    <3> QED
      BY <3>2, <3>3
  <2>5. CASE PublishCancel(r) \/ AbandonRequest(r)
    BY <1>1, <1>4, <2>5 DEF PublishCancel, AbandonRequest
  <2> QED
    BY <2>1, <2>2, <2>3, <2>4, <2>5 DEF RequestStep
<1> QED
  BY <1>5, <1>6

\* Only PublishCancel adds a payload, and it comes after its own commit.
LEMMA NoCancelBeforeCommitStep == IInv /\ [Next]_vars => NoCancelBeforeCommit'
<1> SUFFICES ASSUME IInv, [Next]_vars PROVE NoCancelBeforeCommit'
  OBVIOUS
<1>1. \A j \in Jobs : HasEvent(j, "CANCELLED") => HasEvent(j, "CANCELLED")'
  BY OutboxGrows DEF EventType
<1>2. cancelQueue \subseteq Nodes \X Jobs /\ NoCancelBeforeCommit
  BY DEF IInv, TypeOK
<1>3. ASSUME NEW r \in Requests, PublishCancel(r) PROVE NoCancelBeforeCommit'
  <2>1. req[r].job \in Jobs /\ HasEvent(req[r].job, "CANCELLED")
    BY <1>3 DEF PublishCancel, IInv, TypeOK, ChecksPassed, Request, Idle
  <2>2. cancelQueue' = cancelQueue \cup {<<req[r].node, req[r].job>>}
    BY <1>3 DEF PublishCancel
  <2> QED
    BY <1>1, <1>2, <2>1, <2>2 DEF NoCancelBeforeCommit
<1>4. CASE UNCHANGED cancelQueue
  BY <1>1, <1>2, <1>4 DEF NoCancelBeforeCommit
<1>5. (\E r \in Requests : PublishCancel(r)) \/ UNCHANGED cancelQueue
  BY DEF Next, vars, CreateJob, RequestStep, ReceiveUpdate, ReceiveCancel, ReceiveHardCancel, Arrive,
         CancelCheck, HardCancelLookup, ValidateTransition, Commit, AbandonRequest, WorkerStep,
         WorkerPickUp, WorkerProgress, WorkerFinish, Report, ConsumerStep, ReadJob, SkipEvent,
         ApplyEvent, Ack, Redeliver
<1> QED
  BY <1>3, <1>4, <1>5

-----------------------------------------------------------------------------
(* The theorems.                                                           *)

\* The empty tables satisfy the invariant.
LEMMA InitIInv == Init => IInv
<1> SUFFICES ASSUME Init PROVE IInv
  OBVIOUS
<1> USE DEF Init
<1>1. TypeOK
  BY LifecycleAssumption DEF TypeOK, RowStatus, NodeOrNone, Event
<1>2. RowsExist /\ ChecksPassed
  BY DEF RowsExist, ChecksPassed, Idle
<1>3. LogCoversRows /\ EventLogWellFormed /\ StatusMatchesNewestEvent /\ NoCancelBeforeCommit
  BY DEF LogCoversRows, EventLogWellFormed, StatusMatchesNewestEvent, NoCancelBeforeCommit, EventsOf
<1> QED
  BY <1>1, <1>2, <1>3 DEF IInv

\* Every step keeps the invariant.
LEMMA InvariantStep == IInv /\ [Next]_vars => IInv'
BY TypeStep, RowsExistStep, ChecksPassedStep, LogStep, NoCancelBeforeCommitStep DEF IInv, Log

\* The inductive invariant holds in every reachable state.
THEOREM Invariance == Spec => []IInv
BY InitIInv, InvariantStep, PTL DEF Spec

\* Type correctness: no row ever holds a status outside the schema's enum.
THEOREM TypeCorrect == Spec => []TypeOK
BY Invariance, PTL DEF IInv

\* The outbox is a well-formed history of every job: CREATED once and first,
\* then legal transitions under their own names.
THEOREM EventLogCorrect == Spec => []EventLogWellFormed
BY Invariance, PTL DEF IInv

\* A row that the consumer did not write last agrees with its newest event.
THEOREM RowAgreesWithLog == Spec => []StatusMatchesNewestEvent
BY Invariance, PTL DEF IInv

\* No worker is told to cancel a job whose cancellation is not committed.
THEOREM CancelAfterCommit == Spec => []NoCancelBeforeCommit
BY Invariance, PTL DEF IInv

-----------------------------------------------------------------------------
(* What stays when it is settled.                                          *)

\* No transition leads out of a terminal status.
LEMMA TerminalIsDeadEnd ==
  ASSUME NEW c \in Terminal, NEW n PROVE ~validateStateTransition(c, n)
BY DEF Terminal, validateStateTransition, validTransitions

\* No request moves a terminal job that none of them is about to commit: a
\* transition validated from now on is refused.
LEMMA RequestsKeepTerminal ==
  ASSUME TypeOK, NEW j \in Jobs, status[j] \in Terminal, ~Committing(j),
         NEW r \in Requests, RequestStep(r)
  PROVE  status'[j] = status[j] /\ ~Committing(j)' /\ UNCHANGED <<msg, container>>
<1>1. status \in [Jobs -> RowStatus] /\ req \in [Requests -> Request \cup {Idle}]
  BY DEF TypeOK
<1>2. UNCHANGED <<msg, container>>
  BY DEF RequestStep, ReceiveUpdate, ReceiveCancel, ReceiveHardCancel, Arrive, CancelCheck,
         HardCancelLookup, ValidateTransition, Commit, PublishCancel, AbandonRequest, workerVars
<1>3. \A q \in Requests \ {r} : req'[q] = req[q]
  BY <1>1
  DEF RequestStep, ReceiveUpdate, ReceiveCancel, ReceiveHardCancel, Arrive, CancelCheck,
      HardCancelLookup, ValidateTransition, Commit, PublishCancel, AbandonRequest
<1>4. status'[j] = status[j]
  <2>1. CASE Commit(r)
    <3>1. req[r] \in Request /\ req[r].job # j
      BY <1>1, <2>1 DEF Commit, Committing, Idle
    <3> QED
      BY <1>1, <2>1, <3>1 DEF Commit, Request
  <2>2. CASE ~Commit(r)
    BY <2>2
    DEF RequestStep, ReceiveUpdate, ReceiveCancel, ReceiveHardCancel, Arrive, CancelCheck,
        HardCancelLookup, ValidateTransition, PublishCancel, AbandonRequest, dbVars
  <2> QED
    BY <2>1, <2>2
<1>5. ~(req'[r].pc = "commit" /\ req'[r].job = j)
  <2>1. Idle.pc # "commit"
    BY DEF Idle
  <2>2. CASE \/ \E i \in Jobs, to \in RequestableStatus : ReceiveUpdate(r, i, to)
             \/ \E i \in Jobs : ReceiveCancel(r, i) \/ ReceiveHardCancel(r, i)
    BY <1>1, <2>2 DEF ReceiveUpdate, ReceiveCancel, ReceiveHardCancel, NewRequest, Arrive
  <2>3. CASE ValidateTransition(r)
    <3>1. req[r] \in Request
      BY <1>1, <2>3 DEF ValidateTransition, Idle
    <3>2. CASE req[r].job = j
      BY <1>1, <2>1, <2>3, <3>2, TerminalIsDeadEnd DEF ValidateTransition, validated
    <3>3. CASE req[r].job # j
      BY <1>1, <2>1, <2>3, <3>1, <3>3 DEF ValidateTransition, validated, Request
    <3> QED
      BY <3>2, <3>3
  <2>4. CASE CancelCheck(r) \/ HardCancelLookup(r) \/ Commit(r)
    <3>1. req[r] \in Request
      BY <1>1, <2>4 DEF CancelCheck, HardCancelLookup, Commit, Idle
    <3> QED
      BY <1>1, <2>1, <2>4, <3>1 DEF CancelCheck, HardCancelLookup, Commit, afterCommit, Request
  <2>5. CASE PublishCancel(r) \/ AbandonRequest(r)
    BY <1>1, <2>1, <2>5 DEF PublishCancel, AbandonRequest
  <2> QED
    BY <2>2, <2>3, <2>4, <2>5 DEF RequestStep
<1> QED
  BY <1>2, <1>3, <1>4, <1>5 DEF Committing

\* A step undoes a settled cancellation only if it applies a timeout report.
LEMMA CancelSettledStep ==
  IInv /\ [Next]_vars =>
    [\A j \in Jobs :
       CancelSettled(j) =>
         \/ CancelSettled(j)'
         \/ \E m \in Msgs : MessageOf(m, j) /\ msg[m].kind = "timeout" /\ ApplyEvent(m)]_vars
<1>1. ASSUME IInv, Next, NEW j \in Jobs, CancelSettled(j)
      PROVE  \/ CancelSettled(j)'
             \/ \E m \in Msgs : MessageOf(m, j) /\ msg[m].kind = "timeout" /\ ApplyEvent(m)
  <2>1. /\ status[j] = "CANCELLED" /\ ~Committing(j) /\ "CANCELLED" \in Terminal
        /\ status \in [Jobs -> RowStatus] /\ msg \in [Msgs -> Message \cup {Free}]
    BY <1>1 DEF CancelSettled, Terminal, IInv, TypeOK
  <2>2. ASSUME NEW r \in Requests, RequestStep(r) PROVE CancelSettled(j)'
    <3>1. status'[j] = status[j] /\ ~Committing(j)' /\ UNCHANGED msg
      BY <1>1, <2>1, <2>2, RequestsKeepTerminal DEF IInv
    <3> QED
      BY <1>1, <3>1 DEF CancelSettled, MessageOf
  <2>3. ASSUME NEW i \in Jobs, CreateJob(i) PROVE CancelSettled(j)'
    BY <1>1, <2>1, <2>3 DEF CreateJob, CancelSettled, Committing, MessageOf
  <2>4. ASSUME NEW m \in Msgs, NEW i \in Jobs, NEW n \in Nodes, WorkerStep(m, i, n) PROVE CancelSettled(j)'
    <3>1. /\ UNCHANGED <<status, req>>
          /\ \A q \in Msgs \ {m} : msg'[q] = msg[q]
          /\ msg'[m].state = "ready"
      BY <2>1, <2>4 DEF WorkerStep, WorkerPickUp, WorkerProgress, WorkerFinish, Report, dbVars
    <3> QED
      BY <1>1, <3>1 DEF CancelSettled, Committing, MessageOf
  <2>5. ASSUME NEW m \in Msgs, ReadJob(m) PROVE CancelSettled(j)'
    <3>1. msg[m] \in Message
      BY <2>1, <2>5 DEF ReadJob, Free
    <3>2. /\ UNCHANGED <<status, req>>
          /\ \A q \in Msgs \ {m} : msg'[q] = msg[q]
          /\ msg'[m].job = msg[m].job /\ msg'[m].seen = status[msg[m].job]
      BY <2>1, <2>5, <3>1 DEF ReadJob, dbVars, Message
    <3> QED
      BY <1>1, <2>1, <3>1, <3>2 DEF CancelSettled, Committing, MessageOf
  <2>6. ASSUME NEW m \in Msgs, SkipEvent(m) \/ Ack(m) \/ Redeliver(m) PROVE CancelSettled(j)'
    <3>1. msg[m] \in Message
      BY <2>1, <2>6 DEF SkipEvent, Ack, Redeliver, Free
    <3>2. /\ UNCHANGED <<status, req>>
          /\ \A q \in Msgs \ {m} : msg'[q] = msg[q]
          /\ msg'[m].state # "read"
      BY <2>1, <2>6, <3>1 DEF SkipEvent, Ack, Redeliver, dbVars, Message, Free
    <3> QED
      BY <1>1, <3>2 DEF CancelSettled, Committing, MessageOf
  <2>7. ASSUME NEW m \in Msgs, ApplyEvent(m), ~(MessageOf(m, j) /\ msg[m].kind = "timeout")
        PROVE  CancelSettled(j)'
    <3>1. msg[m] \in Message /\ msg[m] # Free
      BY <2>1, <2>7 DEF ApplyEvent, Free
    <3>2. /\ UNCHANGED req
          /\ \A q \in Msgs \ {m} : msg'[q] = msg[q]
          /\ msg'[m].state = "handled"
          /\ status' = [status EXCEPT ![msg[m].job] = reportedStatus(msg[m].kind)]
      BY <2>1, <2>7, <3>1 DEF ApplyEvent, Message
    <3>3. msg[m].job = j => msg[m].kind = "cancelled"
      BY <1>1, <2>7, <3>1
      DEF MessageOf, CancelSettled, ApplyEvent, Skips, CancelGuardedKinds, Message, AllReportKinds
    <3>4. status'[j] = "CANCELLED"
      BY <2>1, <3>1, <3>2, <3>3 DEF reportedStatus, Message
    <3> QED
      BY <1>1, <3>2, <3>4 DEF CancelSettled, Committing, MessageOf
  <2> QED
    BY <1>1, <2>2, <2>3, <2>4, <2>5, <2>6, <2>7 DEF Next, ConsumerStep
<1>2. ASSUME NEW j \in Jobs, CancelSettled(j), UNCHANGED vars PROVE CancelSettled(j)'
  BY <1>2 DEF vars, dbVars, CancelSettled, Committing, MessageOf
<1> QED
  BY <1>1, <1>2

\* A settled cancellation is undone by a timeout report only.
THEOREM CancelledStays == Spec => CancellationSticks
BY CancelSettledStep, Invariance, PTL DEF Spec, CancellationSticks

\* No step moves a job that is settled, and only a pick-up unsettles it.
LEMMA SettledStep ==
  IInv /\ [Next]_vars =>
    [\A j \in Jobs :
       Settled(j) =>
         /\ status'[j] = status[j]
         /\ Settled(j)' \/ \E m \in Msgs, n \in Nodes : WorkerPickUp(m, j, n)]_vars
<1>1. ASSUME IInv, Next, NEW j \in Jobs, Settled(j)
      PROVE  /\ status'[j] = status[j]
             /\ Settled(j)' \/ \E m \in Msgs, n \in Nodes : WorkerPickUp(m, j, n)
  <2>1. /\ status[j] \in Terminal /\ ~Committing(j)
        /\ \A m \in Msgs : ~MessageOf(m, j)
        /\ \A n \in Nodes : <<n, j>> \notin container
        /\ status \in [Jobs -> RowStatus] /\ msg \in [Msgs -> Message \cup {Free}]
    BY <1>1 DEF Settled, IInv, TypeOK
  <2>2. ASSUME NEW r \in Requests, RequestStep(r) PROVE Settled(j)' /\ status'[j] = status[j]
    <3>1. status'[j] = status[j] /\ ~Committing(j)' /\ UNCHANGED <<msg, container>>
      BY <1>1, <2>1, <2>2, RequestsKeepTerminal DEF IInv
    <3> QED
      BY <2>1, <3>1 DEF Settled, MessageOf
  <2>3. ASSUME NEW i \in Jobs, CreateJob(i) PROVE Settled(j)' /\ status'[j] = status[j]
    <3>1. i # j
      BY <2>1, <2>3 DEF CreateJob, Terminal
    <3> QED
      BY <2>1, <2>3, <3>1 DEF CreateJob, Settled, Committing, MessageOf, workerVars
  <2>4. ASSUME NEW m \in Msgs, NEW i \in Jobs, NEW n \in Nodes, WorkerStep(m, i, n),
               i # j \/ ~WorkerPickUp(m, i, n)
        PROVE  Settled(j)' /\ status'[j] = status[j]
    <3>1. /\ i # j
          /\ UNCHANGED <<status, req>>
          /\ \A q \in Msgs \ {m} : msg'[q] = msg[q]
          /\ msg'[m].job = i
          /\ container' \subseteq container \cup {<<n, i>>}
      BY <2>1, <2>4
      DEF WorkerStep, WorkerPickUp, WorkerProgress, WorkerFinish, Report, dbVars, workerVars
    <3> QED
      BY <2>1, <3>1 DEF Settled, Committing, MessageOf
  <2>5. ASSUME NEW m \in Msgs, NEW n \in Nodes, WorkerPickUp(m, j, n) PROVE status'[j] = status[j]
    BY <2>5 DEF WorkerPickUp, Report, dbVars
  <2>6. ASSUME NEW m \in Msgs, ConsumerStep(m) PROVE Settled(j)' /\ status'[j] = status[j]
    <3>1. msg[m] \in Message /\ msg[m] # Free /\ msg[m].job # j
      BY <2>1, <2>6 DEF ConsumerStep, ReadJob, SkipEvent, ApplyEvent, Ack, Redeliver, Free, MessageOf
    <3>2. /\ UNCHANGED <<req, container>>
          /\ \A q \in Msgs \ {m} : msg'[q] = msg[q]
          /\ msg'[m] # Free => msg'[m].job = msg[m].job
      BY <2>1, <2>6, <3>1
      DEF ConsumerStep, ReadJob, SkipEvent, ApplyEvent, Ack, Redeliver, dbVars, workerVars, Message
    <3>3. status'[j] = status[j]
      BY <2>1, <2>6, <3>1
      DEF ConsumerStep, ReadJob, SkipEvent, ApplyEvent, Ack, Redeliver, dbVars
    <3> QED
      BY <2>1, <3>1, <3>2, <3>3 DEF Settled, Committing, MessageOf
  <2> QED
    BY <1>1, <2>2, <2>3, <2>4, <2>5, <2>6 DEF Next
<1> QED
  BY <1>1

\* A terminal status is final once the job's containers, messages and commits
\* are over, until a worker takes the job again.
THEOREM SettledStays == Spec => SettledIsFinal
BY SettledStep, Invariance, PTL DEF Spec, SettledIsFinal

-----------------------------------------------------------------------------
(* Lost updates.                                                           *)

\* A commit that found another status than it had read appends an event that
\* does not continue from the newest one.
LEMMA StaleCommitBreaksChain ==
  ASSUME IInv, NEW r \in Requests, Commit(r), NEW j \in Jobs, req[r].job = j,
         j \notin byWorker, req[r].seen # status[j]
  PROVE  \E i \in EventsOf(j)' : i \notin DOMAIN outbox /\ BreaksChain(i)'
<1> DEFINE e == transitionEvent(req[r])
<1> PICK n : n = Len(outbox) + 1
  OBVIOUS
<1>1. req[r] \in Request /\ req[r] # Idle
  BY DEF Commit, Idle, IInv, TypeOK
<1>2. e \in Event /\ e.job = j /\ e.prev = req[r].seen
  BY <1>1 DEF transitionEvent, getEventType, Event, EventType, Request
<1>3. outbox' = Append(outbox, e) /\ outbox \in Seq(Event)
  BY DEF Commit, IInv, TypeOK
<1> HIDE DEF e
<1>4. /\ n \in Nat \ {0}
      /\ DOMAIN outbox = 1..(n-1)
      /\ outbox'[n] = e
      /\ \A i \in DOMAIN outbox : outbox'[i] = outbox[i]
      /\ EventsOf(j)' = EventsOf(j) \cup {n}
  BY <1>2, <1>3, AppendEvent
<1>5. PICK k \in EventsOf(j) : outbox[k].new = status[j] /\ \A h \in EventsOf(j) : h <= k
  BY <1>1 DEF IInv, RowsExist, StatusMatchesNewestEvent
<1>6. EventsOf(j) \subseteq 1..(n-1)
  BY <1>4 DEF EventsOf
<1>7. /\ outbox'[n].job = j
      /\ k \in EventsOf(j)' /\ k < n
      /\ \A h \in EventsOf(j)' : h < n => h <= k
      /\ outbox'[k].new # outbox'[n].prev
  BY <1>2, <1>4, <1>5, <1>6
<1>8. BreaksChain(n)'
  BY <1>7 DEF BreaksChain, EventsOf
<1> QED
  BY <1>4, <1>8

\* Requests write a row when they commit and at no other point.
LEMMA OnlyCommitsWrite ==
  ASSUME NEW r \in Requests, RequestStep(r), ~Commit(r)
  PROVE  UNCHANGED status
BY DEF RequestStep, ReceiveUpdate, ReceiveCancel, ReceiveHardCancel, Arrive, CancelCheck,
       HardCancelLookup, ValidateTransition, PublishCancel, AbandonRequest, dbVars

\* A change of a row that only requests write follows the rules or shows in
\* the outbox.
LEMMA LostUpdateStep ==
  ASSUME IInv, [Next]_vars, NEW j \in Jobs, j \notin byWorker, j \notin byWorker',
         status'[j] # status[j]
  PROVE  \/ status[j] = "ABSENT" /\ status'[j] = "QUEUED"
         \/ validateStateTransition(status[j], status'[j])
         \/ \E i \in EventsOf(j)' : i \notin DOMAIN outbox /\ BreaksChain(i)'
<1>1. status \in [Jobs -> RowStatus] /\ msg \in [Msgs -> Message \cup {Free}]
  BY DEF IInv, TypeOK
<1>2. \/ \E i \in Jobs : CreateJob(i)
      \/ \E r \in Requests : Commit(r)
  <2>1. ASSUME NEW m \in Msgs, NEW i \in Jobs, NEW n \in Nodes, WorkerStep(m, i, n) PROVE FALSE
    BY <2>1 DEF WorkerStep, WorkerPickUp, WorkerProgress, WorkerFinish, Report, dbVars
  <2>2. ASSUME NEW m \in Msgs, ConsumerStep(m) PROVE FALSE
    BY <1>1, <2>2 DEF ConsumerStep, ReadJob, SkipEvent, ApplyEvent, Ack, Redeliver, dbVars
  <2>3. ~UNCHANGED vars
    BY DEF vars, dbVars
  <2> QED
    BY <2>1, <2>2, <2>3, OnlyCommitsWrite DEF Next
<1>3. ASSUME NEW i \in Jobs, CreateJob(i) PROVE status[j] = "ABSENT" /\ status'[j] = "QUEUED"
  BY <1>1, <1>3 DEF CreateJob
<1>4. ASSUME NEW r \in Requests, Commit(r)
      PROVE  \/ validateStateTransition(status[j], status'[j])
             \/ \E i \in EventsOf(j)' : i \notin DOMAIN outbox /\ BreaksChain(i)'
  <2>1. req[r].job = j /\ status'[j] = req[r].to
    BY <1>1, <1>4 DEF Commit
  <2>2. CASE req[r].seen = status[j]
    BY <1>4, <2>1, <2>2 DEF Commit, IInv, ChecksPassed
  <2>3. CASE req[r].seen # status[j]
    BY <1>4, <2>1, <2>3, StaleCommitBreaksChain
  <2> QED
    BY <2>2, <2>3
<1> QED
  BY <1>2, <1>3, <1>4

\* However many requests race for a row, an update that one of them loses shows
\* in the outbox: the row changes by the rules, or the new event does not
\* continue from the one before it.
THEOREM LostUpdatesAreVisible == Spec => LostUpdatesShow
<1>1. IInv /\ [Next]_vars =>
        [\A j \in Jobs :
           j \notin byWorker /\ j \notin byWorker' /\ status'[j] # status[j] =>
             \/ status[j] = "ABSENT" /\ status'[j] = "QUEUED"
             \/ validateStateTransition(status[j], status'[j])
             \/ \E i \in EventsOf(j)' : i \notin DOMAIN outbox /\ BreaksChain(i)']_vars
  BY LostUpdateStep
<1> QED
  BY <1>1, Invariance, PTL DEF Spec, LostUpdatesShow

-----------------------------------------------------------------------------
(* Which nodes a job is at.  Nothing keeps a second node from taking a job *)
(* again, so a row's node may change; but whatever is ever said of a job's *)
(* node names one that did take it: a report, however late and often       *)
(* delivered, the row, what a hard cancel read from it and the queue it    *)
(* put the CANCEL payload on.                                              *)

ReportsFromTakers == \A m \in Msgs : msg[m] # Free => <<msg[m].node, msg[m].job>> \in taken

RowsNameTakers ==
  \A j \in Jobs : assignedNodeId[j] # NoNode => <<assignedNodeId[j], j>> \in taken

RequestsNameTakers ==
  \A r \in Requests :
    req[r] # Idle /\ req[r].node # NoNode => <<req[r].node, req[r].job>> \in taken

NodeInv ==
  ReportsFromTakers /\ RowsNameTakers /\ RequestsNameTakers /\ cancelQueue \subseteq taken

\* Who took a job has taken it.
LEMMA TakenStays == [Next]_vars => taken \subseteq taken'
<1> SUFFICES ASSUME [Next]_vars PROVE taken \subseteq taken'
  OBVIOUS
<1>1. ASSUME NEW m \in Msgs, NEW j \in Jobs, NEW n \in Nodes, WorkerStep(m, j, n)
      PROVE  taken \subseteq taken'
  BY <1>1 DEF WorkerStep, WorkerPickUp, WorkerProgress, WorkerFinish, workerVars
<1>2. ASSUME NEW m \in Msgs, ConsumerStep(m) PROVE UNCHANGED taken
  BY <1>2 DEF ConsumerStep, ReadJob, SkipEvent, ApplyEvent, Ack, Redeliver, workerVars
<1>3. ASSUME NEW r \in Requests, RequestStep(r) PROVE UNCHANGED taken
  BY <1>3
  DEF RequestStep, ReceiveUpdate, ReceiveCancel, ReceiveHardCancel, Arrive, CancelCheck,
      HardCancelLookup, ValidateTransition, Commit, PublishCancel, AbandonRequest, workerVars
<1>4. ASSUME NEW j \in Jobs, CreateJob(j) PROVE UNCHANGED taken
  BY <1>4 DEF CreateJob, workerVars
<1>5. CASE UNCHANGED vars
  BY <1>5 DEF vars, workerVars
<1> QED
  BY <1>1, <1>2, <1>3, <1>4, <1>5 DEF Next

\* Only the consumer writes the node of a row, and only for a start report.
LEMMA NodeWriters ==
  ASSUME [Next]_vars
  PROVE  \/ UNCHANGED assignedNodeId
         \/ \E m \in Msgs : /\ ApplyEvent(m) /\ msg[m].kind = "start"
                            /\ assignedNodeId' = [assignedNodeId EXCEPT ![msg[m].job] = msg[m].node]
<1>1. ASSUME NEW m \in Msgs, ApplyEvent(m)
      PROVE  \/ UNCHANGED assignedNodeId
             \/ /\ msg[m].kind = "start"
                /\ assignedNodeId' = [assignedNodeId EXCEPT ![msg[m].job] = msg[m].node]
  BY <1>1 DEF ApplyEvent
<1>2. ASSUME NEW j \in Jobs, CreateJob(j) PROVE UNCHANGED assignedNodeId
  BY <1>2 DEF CreateJob
<1>3. ASSUME NEW r \in Requests, RequestStep(r) PROVE UNCHANGED assignedNodeId
  BY <1>3
  DEF RequestStep, ReceiveUpdate, ReceiveCancel, ReceiveHardCancel, Arrive, CancelCheck,
      HardCancelLookup, ValidateTransition, Commit, PublishCancel, AbandonRequest, dbVars
<1>4. ASSUME NEW m \in Msgs, NEW j \in Jobs, NEW n \in Nodes, WorkerStep(m, j, n) PROVE UNCHANGED assignedNodeId
  BY <1>4 DEF WorkerStep, WorkerPickUp, WorkerProgress, WorkerFinish, Report, dbVars
<1>5. ASSUME NEW m \in Msgs, ConsumerStep(m), ~ApplyEvent(m) PROVE UNCHANGED assignedNodeId
  BY <1>5 DEF ConsumerStep, ReadJob, SkipEvent, Ack, Redeliver, dbVars
<1>6. CASE UNCHANGED vars
  BY <1>6 DEF vars, dbVars
<1> QED
  BY <1>1, <1>2, <1>3, <1>4, <1>5, <1>6 DEF Next

\* Only a worker with a container of the job reports about it.
LEMMA ReportsFromTakersStep == IInv /\ NodeInv /\ [Next]_vars => ReportsFromTakers'
<1> SUFFICES ASSUME IInv, NodeInv, [Next]_vars, NEW m \in Msgs, msg'[m] # Free
             PROVE  <<msg'[m].node, msg'[m].job>> \in taken'
  BY DEF ReportsFromTakers
<1>1. /\ msg \in [Msgs -> Message \cup {Free}] /\ container \subseteq taken
      /\ taken \subseteq taken'
      /\ msg[m] # Free => <<msg[m].node, msg[m].job>> \in taken
  BY TakenStays DEF IInv, TypeOK, NodeInv, ReportsFromTakers
<1>2. CASE msg'[m] = msg[m]
  BY <1>1, <1>2
<1>3. ASSUME NEW q \in Msgs, NEW j \in Jobs, NEW n \in Nodes, WorkerStep(q, j, n)
      PROVE  <<msg'[m].node, msg'[m].job>> \in taken'
  <2>1. /\ \A x \in Msgs \ {q} : msg'[x] = msg[x]
        /\ msg'[q].node = n /\ msg'[q].job = j
    BY <1>1, <1>3 DEF WorkerStep, WorkerPickUp, WorkerProgress, WorkerFinish, Report
  <2>2. <<n, j>> \in taken'
    BY <1>1, <1>3 DEF WorkerStep, WorkerPickUp, WorkerProgress, WorkerFinish
  <2> QED
    BY <1>2, <2>1, <2>2
<1>4. ASSUME NEW q \in Msgs, ConsumerStep(q)
      PROVE  <<msg'[m].node, msg'[m].job>> \in taken'
  <2>1. msg[q] \in Message /\ msg[q] # Free
    BY <1>1, <1>4 DEF ConsumerStep, ReadJob, SkipEvent, ApplyEvent, Ack, Redeliver, Free
  <2>2. /\ \A x \in Msgs \ {q} : msg'[x] = msg[x]
        /\ msg'[q] # Free => msg'[q].node = msg[q].node /\ msg'[q].job = msg[q].job
    BY <1>1, <1>4, <2>1
    DEF ConsumerStep, ReadJob, SkipEvent, ApplyEvent, Ack, Redeliver, Message
  <2> QED
    BY <1>1, <1>2, <2>1, <2>2
<1>5. ASSUME NEW r \in Requests, RequestStep(r) PROVE UNCHANGED msg
  BY <1>5
  DEF RequestStep, ReceiveUpdate, ReceiveCancel, ReceiveHardCancel, Arrive, CancelCheck,
      HardCancelLookup, ValidateTransition, Commit, PublishCancel, AbandonRequest
<1>6. ASSUME NEW j \in Jobs, CreateJob(j) PROVE UNCHANGED msg
  BY <1>6 DEF CreateJob
<1>7. UNCHANGED vars => UNCHANGED msg
  BY DEF vars
<1> QED
  BY <1>2, <1>3, <1>4, <1>5, <1>6, <1>7 DEF Next

\* The row gets its node from a report.
LEMMA RowsNameTakersStep == IInv /\ NodeInv /\ [Next]_vars => RowsNameTakers'
<1> SUFFICES ASSUME IInv, NodeInv, [Next]_vars, NEW j \in Jobs, assignedNodeId'[j] # NoNode
             PROVE  <<assignedNodeId'[j], j>> \in taken'
  BY DEF RowsNameTakers
<1>1. taken \subseteq taken' /\ assignedNodeId \in [Jobs -> NodeOrNone]
  BY TakenStays DEF IInv, TypeOK
<1>2. CASE assignedNodeId'[j] = assignedNodeId[j]
  BY <1>1, <1>2 DEF NodeInv, RowsNameTakers
<1>3. CASE assignedNodeId'[j] # assignedNodeId[j]
  <2>1. PICK m \in Msgs : /\ ApplyEvent(m)
                          /\ assignedNodeId' = [assignedNodeId EXCEPT ![msg[m].job] = msg[m].node]
    BY <1>3, NodeWriters
  <2>2. msg[m] # Free
    BY <2>1 DEF ApplyEvent, Free
  <2>3. msg[m].job = j /\ assignedNodeId'[j] = msg[m].node
    BY <1>1, <1>3, <2>1
  <2> QED
    BY <1>1, <2>2, <2>3 DEF NodeInv, ReportsFromTakers
<1> QED
  BY <1>2, <1>3

\* A request has its node from the row.
LEMMA RequestsNameTakersStep == IInv /\ NodeInv /\ [Next]_vars => RequestsNameTakers'
<1> SUFFICES ASSUME IInv, NodeInv, [Next]_vars, NEW r \in Requests,
                    req'[r] # Idle, req'[r].node # NoNode
             PROVE  <<req'[r].node, req'[r].job>> \in taken'
  BY DEF RequestsNameTakers
<1>1. req \in [Requests -> Request \cup {Idle}] /\ taken \subseteq taken'
  BY TakenStays DEF IInv, TypeOK
<1>2. ASSUME req[r] # Idle, req'[r].node = req[r].node, req'[r].job = req[r].job
      PROVE  <<req'[r].node, req'[r].job>> \in taken'
  BY <1>1, <1>2 DEF NodeInv, RequestsNameTakers
<1>3. CASE RequestStep(r)
  <2>1. CASE \/ \E j \in Jobs, to \in RequestableStatus : ReceiveUpdate(r, j, to)
             \/ \E j \in Jobs : ReceiveCancel(r, j) \/ ReceiveHardCancel(r, j)
    BY <1>1, <2>1 DEF ReceiveUpdate, ReceiveCancel, ReceiveHardCancel, NewRequest, Arrive
  <2>2. CASE PublishCancel(r) \/ AbandonRequest(r)
    BY <1>1, <2>2 DEF PublishCancel, AbandonRequest
  <2>3. CASE HardCancelLookup(r)
    <3>1. req[r] \in Request
      BY <1>1, <2>3 DEF HardCancelLookup, Idle
    <3>2. req'[r].node = assignedNodeId[req[r].job] /\ req'[r].job = req[r].job
      BY <1>1, <2>3, <3>1 DEF HardCancelLookup, Request
    <3>3. req[r].job \in Jobs
      BY <3>1 DEF Request
    <3> QED
      BY <1>1, <3>2, <3>3 DEF NodeInv, RowsNameTakers
  <2>4. CASE CancelCheck(r) \/ ValidateTransition(r) \/ Commit(r)
    <3>1. req[r] \in Request /\ req[r] # Idle
      BY <1>1, <2>4 DEF CancelCheck, ValidateTransition, Commit, Idle
    <3>2. req'[r].node = req[r].node /\ req'[r].job = req[r].job
      BY <1>1, <2>4, <3>1
      DEF CancelCheck, ValidateTransition, validated, Commit, afterCommit, Request
    <3> QED
      BY <1>2, <3>1, <3>2
  <2> QED
    BY <1>3, <2>1, <2>2, <2>3, <2>4 DEF RequestStep
<1>4. CASE ~RequestStep(r)
  <2>1. req'[r] = req[r]
    <3>1. ASSUME NEW q \in Requests, q # r, RequestStep(q) PROVE req'[r] = req[r]
      BY <1>1, <3>1
      DEF RequestStep, ReceiveUpdate, ReceiveCancel, ReceiveHardCancel, Arrive, CancelCheck,
          HardCancelLookup, ValidateTransition, Commit, PublishCancel, AbandonRequest
    <3>2. ASSUME NEW m \in Msgs, NEW j \in Jobs, NEW n \in Nodes, WorkerStep(m, j, n) PROVE UNCHANGED req
      BY <3>2 DEF WorkerStep, WorkerPickUp, WorkerProgress, WorkerFinish, Report
    <3>3. ASSUME NEW m \in Msgs, ConsumerStep(m) PROVE UNCHANGED req
      BY <3>3 DEF ConsumerStep, ReadJob, SkipEvent, ApplyEvent, Ack, Redeliver
    <3>4. ASSUME NEW j \in Jobs, CreateJob(j) PROVE UNCHANGED req
      BY <3>4 DEF CreateJob
    <3>5. CASE UNCHANGED vars
      BY <3>5 DEF vars
    <3> QED
      BY <1>4, <3>1, <3>2, <3>3, <3>4, <3>5 DEF Next
  <2> QED
    BY <1>2, <2>1
<1> QED
  BY <1>3, <1>4

\* Of the handlers, the consumer and the workers only a hard cancel writes a
\* node's queue.
LEMMA QueueWriters ==
  ASSUME [Next]_vars
  PROVE  UNCHANGED cancelQueue \/ \E r \in Requests : PublishCancel(r)
<1>1. ASSUME NEW j \in Jobs, CreateJob(j) PROVE UNCHANGED cancelQueue
  BY <1>1 DEF CreateJob
<1>2. ASSUME NEW r \in Requests, RequestStep(r), ~PublishCancel(r) PROVE UNCHANGED cancelQueue
  BY <1>2
  DEF RequestStep, ReceiveUpdate, ReceiveCancel, ReceiveHardCancel, Arrive, CancelCheck,
      HardCancelLookup, ValidateTransition, Commit, AbandonRequest
<1>3. ASSUME NEW m \in Msgs, NEW j \in Jobs, NEW n \in Nodes, WorkerStep(m, j, n)
      PROVE  UNCHANGED cancelQueue
  BY <1>3 DEF WorkerStep, WorkerPickUp, WorkerProgress, WorkerFinish, Report
<1>4. ASSUME NEW m \in Msgs, ConsumerStep(m) PROVE UNCHANGED cancelQueue
  BY <1>4 DEF ConsumerStep, ReadJob, SkipEvent, ApplyEvent, Ack, Redeliver
<1>5. CASE UNCHANGED vars
  BY <1>5 DEF vars
<1> QED
  BY <1>1, <1>2, <1>3, <1>4, <1>5 DEF Next

\* A hard cancel publishes to the node it read.
LEMMA QueuedForTakersStep == IInv /\ NodeInv /\ [Next]_vars => cancelQueue' \subseteq taken'
<1> SUFFICES ASSUME IInv, NodeInv, [Next]_vars PROVE cancelQueue' \subseteq taken'
  OBVIOUS
<1>1. cancelQueue \subseteq taken'
  BY TakenStays DEF NodeInv
<1>2. ASSUME NEW r \in Requests, PublishCancel(r) PROVE cancelQueue' \subseteq taken'
  <2>1. req[r] # Idle /\ req[r].node # NoNode
    BY <1>2 DEF PublishCancel, Idle, IInv, ChecksPassed
  <2>2. <<req[r].node, req[r].job>> \in taken'
    BY <2>1, TakenStays DEF NodeInv, RequestsNameTakers
  <2> QED
    BY <1>1, <1>2, <2>2 DEF PublishCancel
<1> QED
  BY <1>1, <1>2, QueueWriters

\* Every step keeps what is said of nodes true.
LEMMA NodeInvStep == IInv /\ NodeInv /\ [Next]_vars => NodeInv'
BY ReportsFromTakersStep, RowsNameTakersStep, RequestsNameTakersStep, QueuedForTakersStep DEF NodeInv

\* Nobody has taken a job yet.
LEMMA InitNodeInv == Init => NodeInv
BY DEF Init, NodeInv, ReportsFromTakers, RowsNameTakers, RequestsNameTakers
=============================================================================

----------------------------- MODULE LogStream -----------------------------
(***************************************************************************)
(* The live log of one job.  The consumer publishes every chunk on a Redis *)
(* channel and then appends it to a bounded backlog.  Each process keeps   *)
(* the open connections of its viewers, is subscribed to the channel while *)
(* it has one, replays the backlog to a newcomer and holds back what       *)
(* arrives meanwhile.  The process that records the job's result ends its  *)
(* own connections.  SUBSCRIBE goes over the subscriber's connection to    *)
(* Redis, everything else over the publisher's.                            *)
(***************************************************************************)
EXTENDS Naturals, Sequences, FiniteSets

CONSTANTS
  Lines,         \* the chunks the worker sends, each with a text of its own
  Conns,         \* bound: requests for the log stream
  Instances,     \* processes of the service
  Host,          \* the process each request is routed to
  BacklogLimit,  \* entries ltrim keeps (1000 in the code)
  Faults,        \* kinds of failures that may happen
  MaxFaults      \* bound: how many failures may happen

ASSUME StreamAssumption ==
  /\ IsFiniteSet(Conns) /\ Instances # {}
  /\ Host \in [Conns -> Instances]
  /\ BacklogLimit \in Nat \ {0} /\ MaxFaults \in Nat
  /\ Faults \subseteq {"redis", "refuse", "redeliver", "restart"}

VARIABLES
  row,         \* jobs.status: cancelled by a request, ended by a report
  report,      \* the worker's final report and the consumer's place in it
  chunk,       \* where the consumer is with each job.log.chunk message
  published,   \* history: how often each line was published
  backlog,     \* job:<id>:logs:backlog
  subscribed,  \* what Redis holds of each process's subscription
  commands,    \* SUBSCRIBE and UNSUBSCRIBE on their way to Redis
  inbox,       \* published lines on their way to each process
  streams,     \* activeStreams: the channel's entry, {} when it has none
  orphans,     \* replaying connections whose Set left activeStreams
  conn,        \* the connections
  faults       \* failures so far

jobVars    == <<row, report>>
chunkVars  == <<chunk, published, backlog>>
redisVars  == <<subscribed, commands>>
streamVars == <<streams, orphans>>
vars == <<jobVars, chunkVars, redisVars, inbox, streamVars, conn, faults>>

NoReport == [pc |-> "none", guarded |-> FALSE, at |-> CHOOSE i \in Instances : TRUE]

Report == [pc: {"none", "queued", "read", "written", "noticed", "skipped"},
           guarded: BOOLEAN, at: Instances]

\* Lines as a bag.
Copies == [Lines -> Nat]
NoLines == [l \in Lines |-> 0]
Plus(a, b) == [l \in Lines |-> a[l] + b[l]]

\* pending: what arrived during the replay; snapshot: LRANGE's reply;
\* written: what the response took; owed (history): the lines that reached
\* the process for this connection.
NoConn == [pc |-> "away", open |-> TRUE, pending |-> NoLines,
           snapshot |-> NoLines, written |-> NoLines, owed |-> {}]

Connection == [pc: {"away", "joining", "asking", "answered", "live", "finished"},
               open: BOOLEAN, pending: Copies,
               snapshot: Copies, written: Copies, owed: SUBSET Lines]

\* Every variable has its type, and the backlog never exceeds its limit.
TypeOK ==
  /\ row \in {"active", "cancelled", "ended"}
  /\ report \in Report
  /\ chunk \in [Lines -> {"queued", "published", "handled"}]
  /\ published \in Copies
  /\ backlog \in Seq(Lines) /\ Len(backlog) <= BacklogLimit
  /\ subscribed \in [Instances -> {"yes", "no", "refused"}]
  /\ commands \in [Instances -> Seq({"subscribe", "unsubscribe"})]
  /\ inbox \in [Instances -> Seq(Lines)]
  /\ streams \in [Instances -> SUBSET Conns]
  /\ orphans \subseteq Conns
  /\ conn \in [Conns -> Connection]
  /\ faults \in 0..MaxFaults

Init ==
  /\ row = "active" /\ report = NoReport
  /\ chunk = [l \in Lines |-> "queued"] /\ published = NoLines /\ backlog = <<>>
  /\ subscribed = [i \in Instances |-> "no"]
  /\ commands = [i \in Instances |-> <<>>]
  /\ inbox = [i \in Instances |-> <<>>]
  /\ streams = [i \in Instances |-> {}] /\ orphans = {}
  /\ conn = [c \in Conns |-> NoConn]
  /\ faults = 0

Fault(kind) ==
  /\ kind \in Faults
  /\ faults < MaxFaults
  /\ faults' = faults + 1

-----------------------------------------------------------------------------
(* The consumer: chunks.                                                   *)

\* await redis.publish: every subscribed process is sent the line.
PublishChunk(l) ==
  /\ chunk[l] = "queued"
  /\ chunk' = [chunk EXCEPT ![l] = "published"]
  /\ published' = [published EXCEPT ![l] = @ + 1]
  /\ inbox' = [i \in Instances |->
                 IF subscribed[i] = "yes" THEN Append(inbox[i], l) ELSE inbox[i]]
  /\ UNCHANGED <<jobVars, backlog, redisVars, streamVars, conn, faults>>

untrimmed(s) == s

\* ltrim: the newest BacklogLimit entries stay.
newest(s) == IF Len(s) <= BacklogLimit THEN s
             ELSE SubSeq(s, Len(s) - BacklogLimit + 1, Len(s))

\* The pipeline of rpush and ltrim, and the ack.
PushBacklog(l) ==
  /\ chunk[l] = "published"
  /\ chunk' = [chunk EXCEPT ![l] = "handled"]
  /\ backlog' = newest(Append(backlog, l))
  /\ UNCHANGED <<jobVars, published, redisVars, inbox, streamVars, conn, faults>>

\* A Redis call fails: the handler logs it and the message is acknowledged.
ChunkFails(l) ==
  /\ chunk[l] # "handled"
  /\ Fault("redis")
  /\ chunk' = [chunk EXCEPT ![l] = "handled"]
  /\ UNCHANGED <<jobVars, published, backlog, redisVars, inbox, streamVars, conn>>

\* The handler dies before or after the pipeline was executed: the message
\* is handled again, from the start.
RedeliverChunk(l) ==
  /\ chunk[l] = "published"
  /\ Fault("redeliver")
  /\ chunk' = [chunk EXCEPT ![l] = "queued"]
  /\ backlog' \in {backlog, newest(Append(backlog, l))}
  /\ UNCHANGED <<jobVars, published, redisVars, inbox, streamVars, conn>>

-----------------------------------------------------------------------------
(* Redis executes the subscriber's commands in order.                      *)

RedisSubscribes(i) ==
  /\ commands[i] # <<>>
  /\ commands' = [commands EXCEPT ![i] = Tail(@)]
  /\ subscribed' = [subscribed EXCEPT ![i] =
                      IF Head(commands[i]) = "subscribe" THEN "yes" ELSE "no"]
  /\ UNCHANGED <<jobVars, chunkVars, inbox, streamVars, conn, faults>>

\* SUBSCRIBE fails: the error is logged and nothing asks again.
RedisRefuses(i) ==
  /\ commands[i] # <<>> /\ Head(commands[i]) = "subscribe"
  /\ Fault("refuse")
  /\ commands' = [commands EXCEPT ![i] = Tail(@)]
  /\ subscribed' = [subscribed EXCEPT ![i] = "refused"]
  /\ UNCHANGED <<jobVars, chunkVars, inbox, streamVars, conn>>

-----------------------------------------------------------------------------
(* Writing to viewers.                                                     *)

replaying(k) == k.pc \in {"asking", "answered"}

\* reply.raw.write: a response that has ended or lost its client takes
\* nothing and does not throw.
write(k, lines) == IF k.open THEN [k EXCEPT !.written = Plus(@, lines)] ELSE k

skipWhileReplaying(k, lines) == IF replaying(k) THEN k ELSE write(k, lines)

takeUnheld(k, lines) == IF replaying(k)
                        THEN write([k EXCEPT !.pending = Plus(@, lines)], lines)
                        ELSE write(k, lines)

\* One connection's turn in writeLiveMessage.
take(k, lines) == IF replaying(k) THEN [k EXCEPT !.pending = Plus(@, lines)]
                  ELSE write(k, lines)

writeLiveMessage(connections, lines) ==
  [d \in Conns |-> IF d \in connections THEN take(conn[d], lines) ELSE conn[d]]

one(l) == [NoLines EXCEPT ![l] = 1]

owe(k, lines) == IF k.open THEN [k EXCEPT !.owed = @ \cup lines] ELSE k

handleRedisMessage(i) ==
  /\ inbox[i] # <<>>
  /\ inbox' = [inbox EXCEPT ![i] = Tail(@)]
  /\ conn' = [c \in Conns |->
                LET k == writeLiveMessage(streams[i], one(Head(inbox[i])))[c] IN
                  IF c \in streams[i] THEN owe(k, {Head(inbox[i])}) ELSE k]
  /\ UNCHANGED <<jobVars, chunkVars, redisVars, streamVars, faults>>

-----------------------------------------------------------------------------
(* GET /api/v1/jobs/:id/logs.                                              *)

\* The row is read.  A finished job is answered from the row at once.
ReadStatus(c) ==
  /\ conn[c].pc = "away"
  /\ conn' = [conn EXCEPT ![c].pc = IF row = "active" THEN "joining" ELSE "finished",
                          ![c].open = @ /\ row = "active"]
  /\ UNCHANGED <<jobVars, chunkVars, redisVars, inbox, streamVars, faults>>

queue(i, command) == commands' = [commands EXCEPT ![i] = Append(@, command)]

ReplacesSet(c) ==
  LET i == Host[c] IN
    /\ conn[c].pc = "joining"
    /\ conn' = [conn EXCEPT ![c].pc = "asking"]
    /\ streams' = [streams EXCEPT ![i] = {c}]
    /\ queue(i, "subscribe")
    /\ UNCHANGED <<jobVars, chunkVars, subscribed, inbox, orphans, faults>>

\* Up to the first await: the first connection of the job subscribes, and
\* LRANGE is sent for every one.
subscribeToJobLogs(c) ==
  LET i == Host[c] IN
    /\ conn[c].pc = "joining"
    /\ conn' = [conn EXCEPT ![c].pc = "asking"]
    /\ streams' = [streams EXCEPT ![i] = @ \cup {c}]
    /\ IF streams[i] = {} THEN queue(i, "subscribe") ELSE UNCHANGED commands
    /\ UNCHANGED <<jobVars, chunkVars, subscribed, inbox, orphans, faults>>

inBacklog == [l \in Lines |-> Cardinality({k \in DOMAIN backlog : backlog[k] = l})]

\* Redis executes LRANGE.
ReadBacklog(c) ==
  /\ conn[c].pc = "asking"
  /\ conn' = [conn EXCEPT ![c] =
                 owe([@ EXCEPT !.pc = "answered", !.snapshot = inBacklog],
                     {l \in Lines : inBacklog[l] > 0})]
  /\ UNCHANGED <<jobVars, chunkVars, redisVars, inbox, streamVars, faults>>

\* The connections of the Set the replay holds.
siblings(c) == IF c \in orphans THEN {} ELSE streams[Host[c]]

live(k) == [k EXCEPT !.pc = "live", !.pending = NoLines, !.snapshot = NoLines]

\* finally: the connection is live, and what it held back goes to every
\* connection of its Set - itself, live ones, and those still replaying.
flush(c, k) ==
  /\ conn' = [writeLiveMessage(siblings(c), k.pending) EXCEPT ![c] =
                IF c \in siblings(c) THEN write(live(k), k.pending) ELSE live(k)]
  /\ orphans' = orphans \ {c}

\* The reply: backlog and held-back lines are written without an await.
Replay(c) ==
  /\ conn[c].pc = "answered"
  /\ flush(c, write(conn[c], conn[c].snapshot))
  /\ UNCHANGED <<jobVars, chunkVars, redisVars, inbox, streams, faults>>

\* What is still owed when the history cannot be read.
withoutHistory(k) == [k EXCEPT !.snapshot = NoLines,
                               !.owed = {l \in @ : k.pending[l] > 0}]

DiscardHeldBack(c) ==
  /\ replaying(conn[c])
  /\ Fault("redis")
  /\ conn' = [conn EXCEPT ![c] = live(withoutHistory(@))]
  /\ orphans' = orphans \ {c}
  /\ UNCHANGED <<jobVars, chunkVars, redisVars, inbox, streams>>

\* LRANGE fails: no history, but what was held back is written.
ReplayFails(c) ==
  /\ replaying(conn[c])
  /\ Fault("redis")
  /\ flush(c, withoutHistory(conn[c]))
  /\ UNCHANGED <<jobVars, chunkVars, redisVars, inbox, streams>>

\* Nothing is written to a closed response any more.
closed(k) == [k EXCEPT !.open = FALSE, !.snapshot = NoLines, !.written = NoLines,
                       !.owed = {}]

\* connection.unsubscribe for each of gone; the last one out removes the
\* Set and unsubscribes.  A connection that already left is not in the Set.
unsubscribe(i, gone) ==
  /\ streams' = [streams EXCEPT ![i] = @ \ gone]
  /\ IF streams[i] # {} /\ streams[i] \subseteq gone
     THEN /\ queue(i, "unsubscribe")
          /\ orphans' = orphans \cup {d \in Conns : Host[d] = i /\ replaying(conn[d])}
     ELSE UNCHANGED <<commands, orphans>>

\* The client disconnects and the "close" listener runs.
Leave(c) ==
  /\ conn[c].open /\ (replaying(conn[c]) \/ conn[c].pc = "live")
  /\ conn' = [conn EXCEPT ![c] = closed(@)]
  /\ unsubscribe(Host[c], {c})
  /\ UNCHANGED <<jobVars, chunkVars, subscribed, inbox, faults>>

\* It disconnects while the row is read: no listener is there yet, and the
\* handler goes on to subscribe for it.
LeaveEarly(c) ==
  /\ conn[c].open /\ conn[c].pc = "joining"
  /\ conn' = [conn EXCEPT ![c].open = FALSE]
  /\ UNCHANGED <<jobVars, chunkVars, redisVars, inbox, streamVars, faults>>

-----------------------------------------------------------------------------
(* The job ends.                                                           *)

\* A request handler cancels the job; no viewer is told.
CancelRow ==
  /\ row = "active"
  /\ row' = "cancelled"
  /\ UNCHANGED <<report, chunkVars, redisVars, inbox, streamVars, conn, faults>>

\* guarded: completed and failed, which a CANCELLED row ignores.  The other
\* kinds are cancelled and timeout.
WorkerReports(guarded) ==
  /\ report.pc = "none"
  /\ report' = [report EXCEPT !.pc = "queued", !.guarded = guarded]
  /\ UNCHANGED <<row, chunkVars, redisVars, inbox, streamVars, conn, faults>>

ReadJob(i) ==
  /\ report.pc = "queued"
  /\ report' = [report EXCEPT !.at = i,
                  !.pc = IF report.guarded /\ row = "cancelled" THEN "skipped" ELSE "read"]
  /\ UNCHANGED <<row, chunkVars, redisVars, inbox, streamVars, conn, faults>>

WriteRow ==
  /\ report.pc = "read"
  /\ row' = "ended"
  /\ report' = [report EXCEPT !.pc = "written"]
  /\ UNCHANGED <<chunkVars, redisVars, inbox, streamVars, conn, faults>>

endAll(connections) ==
  [d \in Conns |-> IF d \in connections THEN closed(conn[d]) ELSE conn[d]]

DeleteEntryOnly ==
  LET i == report.at IN
    /\ report.pc = "written"
    /\ report' = [report EXCEPT !.pc = "noticed"]
    /\ conn' = endAll(streams[i])
    /\ streams' = [streams EXCEPT ![i] = {}]
    /\ UNCHANGED <<row, chunkVars, redisVars, inbox, orphans, faults>>

NoNotice ==
  /\ report.pc = "written"
  /\ report' = [report EXCEPT !.pc = "noticed"]
  /\ UNCHANGED <<row, chunkVars, redisVars, inbox, streamVars, conn, faults>>

\* The connections of this process get the done message and are closed, those
\* in the middle of their replay too; then the report is acknowledged.
sendJobCompletion ==
  LET i == report.at IN
    /\ report.pc = "written"
    /\ report' = [report EXCEPT !.pc = "noticed"]
    /\ conn' = endAll(streams[i])
    /\ unsubscribe(i, streams[i])
    /\ UNCHANGED <<row, chunkVars, subscribed, inbox, faults>>

\* The update fails, or the channel closes before the handler has ended or its
\* acknowledgement has got through.
unacked == {"read", "written", "noticed"}

RedeliverReport ==
  /\ report.pc \in unacked
  /\ Fault("redeliver")
  /\ report' = [report EXCEPT !.pc = "queued"]
  /\ UNCHANGED <<row, chunkVars, redisVars, inbox, streamVars, conn>>

\* A process dies with its connections; the report it handled is redelivered.
Restart(i) ==
  LET here == {c \in Conns : conn[c].pc # "away" /\ Host[c] = i} IN
    /\ Fault("restart")
    /\ conn' = [c \in Conns |-> IF c \in here
                  THEN [closed(NoConn) EXCEPT !.pc = "finished"] ELSE conn[c]]
    /\ orphans' = orphans \ here
    /\ streams' = [streams EXCEPT ![i] = {}]
    /\ commands' = [commands EXCEPT ![i] = <<>>]
    /\ subscribed' = [subscribed EXCEPT ![i] = "no"]
    /\ inbox' = [inbox EXCEPT ![i] = <<>>]
    /\ report' = IF report.pc \in unacked /\ report.at = i
                 THEN [report EXCEPT !.pc = "queued"] ELSE report
    /\ UNCHANGED <<row, chunkVars>>

-----------------------------------------------------------------------------
ChunkStep(l) == PublishChunk(l) \/ PushBacklog(l)

ReportStep ==
  \/ \E i \in Instances : ReadJob(i)
  \/ WriteRow
  \/ sendJobCompletion

StreamStep(i) == RedisSubscribes(i) \/ handleRedisMessage(i)

ConnectionStep(c) == subscribeToJobLogs(c) \/ ReadBacklog(c) \/ Replay(c)

Environment ==
  \/ \E c \in Conns : ReadStatus(c)
  \/ \E c \in Conns : Leave(c) \/ LeaveEarly(c)
  \/ CancelRow
  \/ \E guarded \in BOOLEAN : WorkerReports(guarded)

Failure ==
  \/ \E l \in Lines : ChunkFails(l) \/ RedeliverChunk(l)
  \/ \E i \in Instances : RedisRefuses(i) \/ Restart(i)
  \/ \E c \in Conns : ReplayFails(c)
  \/ RedeliverReport

Next ==
  \/ \E l \in Lines : ChunkStep(l)
  \/ ReportStep
  \/ \E i \in Instances : StreamStep(i)
  \/ \E c \in Conns : ConnectionStep(c)
  \/ Environment
  \/ Failure

Spec == Init /\ [][Next]_vars

\* The consumer goes on with a report it was sent, and the event loop with an
\* answer it waits for.  Clients, workers and the other messages owe nothing.
Fairness ==
  /\ WF_vars(ReportStep)
  /\ \A c \in Conns : WF_vars(ConnectionStep(c))

FairSpec == Spec /\ Fairness

-----------------------------------------------------------------------------
(* Properties.                                                             *)

lastCommand(i) == IF commands[i] = <<>> THEN subscribed[i]
                  ELSE IF commands[i][Len(commands[i])] = "subscribe" THEN "yes" ELSE "no"

\* Whatever order viewers come, leave and are ended in, what a process last
\* asked of Redis is to listen exactly while it has a viewer.  A refused
\* SUBSCRIBE is never repeated for later viewers.
SubscriptionFollowsStreams ==
  \A i \in Instances : streams[i] # {} <=> lastCommand(i) \in {"yes", "refused"}

reached(c, l) ==
  \/ conn[c].written[l] > 0
  \/ replaying(conn[c]) /\ conn[c].pending[l] > 0
  \/ conn[c].pc = "answered" /\ conn[c].snapshot[l] > 0

\* No line that reached the process for an open connection, live or in the
\* backlog it asked for, is dropped between replay and live stream.
OwedKept == \A c \in Conns : conn[c].open => \A l \in conn[c].owed : reached(c, l)

\* Every replay of one connection writes what it held back to all the
\* others, so the copies a viewer sees double with each concurrent replay.
\* They are bounded by that.
RepeatsBounded ==
  \A c \in Conns, l \in Lines :
    conn[c].written[l] <= published[l] * 2^Cardinality(Conns)

\* An open connection past its first await is in the Set that its replay and
\* its process's messages are written to.
ViewersReachable ==
  \A c \in Conns :
    conn[c].open /\ conn[c].pc \in {"asking", "answered", "live"}
      => c \in streams[Host[c]] /\ c \notin orphans

\* Such a line is in the end written to the viewer, unless its stream ends.
OwedLinesArrive ==
  \A c \in Conns, l \in Lines :
    l \in conn[c].owed ~> conn[c].written[l] > 0 \/ l \notin conn[c].owed

\* A viewer connected when the worker reports is told of the end, unless
\* another process handles the report or a CANCELLED row makes it be ignored.
ReportEndsStreams ==
  \A c \in Conns :
    report.pc = "queued" /\ c \in streams[Host[c]]
      ~> c \notin streams[Host[c]] \/ report.pc = "skipped"
           \/ (report.pc = "noticed" /\ report.at # Host[c])

\* log.service.ts on messages that arrive during the replay: "so nothing is
\* lost or duplicated at the boundary".
NothingLostOrDuplicated ==
  \A c \in Conns, l \in Lines :
    conn[c].pc = "live" /\ conn[c].open /\ chunk[l] = "handled"
      /\ (\A i \in Instances : inbox[i] = <<>>)
        => conn[c].written[l] = 1
=============================================================================

--------------------------- MODULE LogStreamProofs --------------------------
(***************************************************************************)
(* Proofs about LogStream, for any number of viewers, processes, lines and *)
(* failures: a process is subscribed while it has viewers, a viewer stays  *)
(* reachable by what its process receives, no line that reached that       *)
(* process for a viewer gets lost between replay and live stream, and the  *)
(* copies that concurrent replays make of a line are bounded.              *)
(***************************************************************************)
EXTENDS LogStream, FunctionTheorems, FiniteSetTheorems, TLAPS

-----------------------------------------------------------------------------
(* Connections.                                                            *)

\* What a connection owes its viewer is written, held back, or in the reply.
Settled(k) ==
  k.open => \A l \in k.owed :
    \/ k.written[l] > 0
    \/ replaying(k) /\ k.pending[l] > 0
    \/ k.pc = "answered" /\ k.snapshot[l] > 0

\* A line given to a connection is written or held back, and what it had is
\* kept.
LEMMA TakeType ==
  ASSUME NEW k \in Connection, NEW lines \in Copies
  PROVE  /\ take(k, lines) \in Connection
         /\ take(k, lines).pc = k.pc /\ take(k, lines).open = k.open
         /\ Settled(k) => Settled(take(k, lines))
         /\ k.open => \A l \in Lines : lines[l] > 0 =>
              \/ take(k, lines).written[l] > 0
              \/ replaying(k) /\ take(k, lines).pending[l] > 0
<1>1. /\ Plus(k.pending, lines) \in Copies /\ Plus(k.written, lines) \in Copies
      /\ \A l \in Lines : /\ Plus(k.pending, lines)[l] = k.pending[l] + lines[l]
                          /\ Plus(k.written, lines)[l] = k.written[l] + lines[l]
  BY DEF Plus, Copies, Connection
<1>2. k.pending \in [Lines -> Nat] /\ k.written \in [Lines -> Nat] /\ lines \in [Lines -> Nat]
  BY DEF Connection, Copies
<1>3. CASE replaying(k)
  <2> DEFINE t == [k EXCEPT !.pending = Plus(@, lines)]
  <2>1. take(k, lines) = t
    BY <1>3 DEF take
  <2>2. t \in Connection /\ t.pc = k.pc /\ t.open = k.open /\ t.owed = k.owed
        /\ t.written = k.written /\ t.snapshot = k.snapshot
        /\ t.pending = Plus(k.pending, lines)
    BY <1>1 DEF Connection
  <2>3. \A l \in Lines : (k.pending[l] > 0 \/ lines[l] > 0) => t.pending[l] > 0
    BY <1>1, <1>2, <2>2
  <2>4. k.owed \subseteq Lines
    BY DEF Connection
  <2>5. replaying(t)
    BY <1>3, <2>2 DEF replaying
  <2> HIDE DEF t
  <2> QED
    BY <1>3, <2>1, <2>2, <2>3, <2>4, <2>5 DEF Settled
<1>4. CASE ~replaying(k)
  <2> DEFINE t == write(k, lines)
  <2>1. take(k, lines) = t
    BY <1>4 DEF take
  <2>2. CASE ~k.open
    <3>1. t = k
      BY <2>2 DEF write
    <3> QED
      BY <2>1, <2>2, <3>1
  <2>3. CASE k.open
    <3>1. t \in Connection /\ t.pc = k.pc /\ t.open = k.open /\ t.owed = k.owed
          /\ t.pending = k.pending /\ t.snapshot = k.snapshot
          /\ t.written = Plus(k.written, lines)
      BY <1>1, <2>3 DEF write, Connection
    <3>2. \A l \in Lines : (k.written[l] > 0 \/ lines[l] > 0) => t.written[l] > 0
      BY <1>1, <1>2, <3>1
    <3>3. k.owed \subseteq Lines
      BY DEF Connection
    <3> HIDE DEF t
    <3> QED
      BY <1>4, <2>1, <3>1, <3>2, <3>3 DEF Settled, replaying
  <2> QED
    BY <2>2, <2>3
<1> QED
  BY <1>3, <1>4

\* What a response takes, if it is open.
LEMMA WriteType ==
  ASSUME NEW k \in Connection, NEW lines \in Copies
  PROVE  /\ write(k, lines) \in Connection
         /\ write(k, lines) = [k EXCEPT !.written = write(k, lines).written]
         /\ \A l \in Lines : k.written[l] > 0 => write(k, lines).written[l] > 0
         /\ k.open => \A l \in Lines : lines[l] > 0 => write(k, lines).written[l] > 0
<1>1. /\ Plus(k.written, lines) \in Copies
      /\ \A l \in Lines : Plus(k.written, lines)[l] = k.written[l] + lines[l]
  BY DEF Plus, Copies, Connection
<1>2. k.written \in [Lines -> Nat] /\ lines \in [Lines -> Nat]
  BY DEF Connection, Copies
<1>3. CASE k.open
  <2> DEFINE t == [k EXCEPT !.written = Plus(@, lines)]
  <2>1. write(k, lines) = t
    BY <1>3 DEF write
  <2>2. t \in Connection /\ t.written = Plus(k.written, lines)
    BY <1>1 DEF Connection
  <2>3. t = [k EXCEPT !.written = t.written]
    BY DEF Connection
  <2>4. \A l \in Lines : (k.written[l] > 0 \/ lines[l] > 0) => t.written[l] > 0
    BY <1>1, <1>2, <2>2
  <2> HIDE DEF t
  <2> QED
    BY <2>1, <2>2, <2>3, <2>4
<1>4. CASE ~k.open
  BY <1>4 DEF write, Connection
<1> QED
  BY <1>3, <1>4

\* The end of a replay, for the connection itself: it is live, and what it
\* owed and had not lost with the history is written.
LEMMA LiveType ==
  ASSUME NEW k \in Connection, NEW lines \in Copies, k.open,
         \A l \in k.owed : k.written[l] > 0 \/ lines[l] > 0
  PROVE  /\ write(live(k), lines) \in Connection
         /\ write(live(k), lines).pc = "live"
         /\ Settled(write(live(k), lines))
<1> DEFINE t == live(k)
<1>1. NoLines \in Copies
  BY DEF NoLines, Copies
<1>2. t \in Connection /\ t.pc = "live" /\ t.open = k.open /\ t.written = k.written
      /\ t.owed = k.owed /\ k.owed \subseteq Lines
  BY <1>1 DEF live, Connection
<1> HIDE DEF t
<1> DEFINE u == write(t, lines)
<1>3. /\ u \in Connection /\ u = [t EXCEPT !.written = u.written]
      /\ \A l \in Lines : t.written[l] > 0 \/ lines[l] > 0 => u.written[l] > 0
  BY <1>2, WriteType
<1>4. u.pc = "live" /\ u.owed = k.owed
  BY <1>2, <1>3 DEF Connection
<1> HIDE DEF u
<1>5. Settled(u)
  BY <1>2, <1>3, <1>4 DEF Settled
<1> QED
  BY <1>3, <1>4, <1>5 DEF t, u

\* The end of a replay, and a write, keep a connection's type and leave a
\* closed one owed nothing.
LEMMA LiveClosed ==
  ASSUME NEW k \in Connection, NEW lines \in Copies
  PROVE  /\ live(k) \in Connection /\ live(k).open = k.open
         /\ write(live(k), lines) \in Connection /\ write(live(k), lines).open = k.open
         /\ ~k.open => Settled(live(k)) /\ Settled(write(live(k), lines))
<1> DEFINE t == live(k)
<1>1. NoLines \in Copies
  BY DEF NoLines, Copies
<1>2. t \in Connection /\ t.open = k.open
  BY <1>1 DEF live, Connection
<1> HIDE DEF t
<1> DEFINE u == write(t, lines)
<1>3. u \in Connection /\ u = [t EXCEPT !.written = u.written]
  BY <1>2, WriteType
<1>4. u.open = k.open
  BY <1>2, <1>3 DEF Connection
<1> HIDE DEF u
<1>5. ~k.open => Settled(t) /\ Settled(u)
  BY <1>2, <1>4 DEF Settled
<1> QED
  BY <1>2, <1>3, <1>4, <1>5 DEF t, u

-----------------------------------------------------------------------------
(* The invariant.                                                          *)

\* Only a replay that is still at work holds a Set that left activeStreams.
OrphansReplay == \A c \in orphans : replaying(conn[c])

\* A process keeps connections of its own (an invariant by itself).
StreamsLocal == \A i \in Instances : \A c \in streams[i] : Host[c] = i

IInv ==
  /\ TypeOK
  /\ OrphansReplay
  /\ SubscriptionFollowsStreams
  /\ ViewersReachable
  /\ OwedKept

\* OwedKept, said of one connection at a time.
LEMMA OwedKeptSettled == OwedKept <=> \A c \in Conns : Settled(conn[c])
  BY DEF OwedKept, Settled, reached

\* Before the first viewer and the first line.
LEMMA InitInv == Init => IInv
<1> SUFFICES ASSUME Init PROVE IInv
  OBVIOUS
<1>1. (CHOOSE i \in Instances : TRUE) \in Instances
  BY StreamAssumption
<1>2. NoLines \in Copies
  BY DEF NoLines, Copies
<1>3. NoConn \in Connection /\ NoReport \in Report
  BY <1>1, <1>2 DEF NoConn, Connection, NoReport, Report
<1>4. TypeOK
  BY <1>2, <1>3, StreamAssumption DEF Init, TypeOK
<1>5. SubscriptionFollowsStreams
  BY DEF Init, SubscriptionFollowsStreams, lastCommand
<1>6. ViewersReachable /\ OwedKept /\ OrphansReplay
  BY DEF Init, ViewersReachable, OwedKept, OrphansReplay, NoConn
<1> QED
  BY <1>4, <1>5, <1>6 DEF IInv

-----------------------------------------------------------------------------
(* Steps that leave the connections and the subscriptions alone.           *)

\* A step that leaves Redis, the streams and the connections alone.
LEMMA FrameInv ==
  ASSUME IInv, TypeOK', UNCHANGED <<redisVars, streamVars, conn>>
  PROVE  IInv'
  BY DEF IInv, redisVars, streamVars, SubscriptionFollowsStreams, lastCommand,
         ViewersReachable, OwedKept, OrphansReplay, reached, replaying

\* A failure is counted up to the bound.
LEMMA FaultType == ASSUME TypeOK, NEW kind, Fault(kind) PROVE faults' \in 0..MaxFaults
  BY StreamAssumption DEF TypeOK, Fault

\* LTRIM leaves a list that is no longer than its limit.
LEMMA NewestType ==
  ASSUME NEW s \in Seq(Lines)
  PROVE  newest(s) \in Seq(Lines) /\ Len(newest(s)) <= BacklogLimit
  BY StreamAssumption DEF newest

\* The consumer's handling of a log chunk up to its last Redis command.
LEMMA ChunkInv ==
  ASSUME IInv, NEW l \in Lines,
         ChunkStep(l) \/ ChunkFails(l) \/ RedeliverChunk(l)
  PROVE  IInv'
<1>1. TypeOK
  BY DEF IInv
<1>2. CASE PublishChunk(l)
  <2>1. TypeOK'
    BY <1>1, <1>2 DEF TypeOK, PublishChunk, Copies, jobVars, redisVars, streamVars
  <2> QED
    BY <1>2, <2>1, FrameInv DEF PublishChunk
<1>3. newest(Append(backlog, l)) \in Seq(Lines) /\ Len(newest(Append(backlog, l))) <= BacklogLimit
  <2>1. Append(backlog, l) \in Seq(Lines)
    BY <1>1 DEF TypeOK
  <2> QED
    BY <2>1, NewestType
<1>4. CASE PushBacklog(l)
  <2>1. TypeOK'
    BY <1>1, <1>3, <1>4 DEF TypeOK, PushBacklog, Copies, jobVars, redisVars, streamVars
  <2> QED
    BY <1>4, <2>1, FrameInv DEF PushBacklog
<1>5. CASE ChunkFails(l)
  <2>1. TypeOK'
    BY <1>1, <1>5, FaultType DEF TypeOK, ChunkFails, Copies, jobVars, redisVars, streamVars
  <2> QED
    BY <1>5, <2>1, FrameInv DEF ChunkFails
<1>6. CASE RedeliverChunk(l)
  <2>1. TypeOK'
    BY <1>1, <1>3, <1>6, FaultType
    DEF TypeOK, RedeliverChunk, Copies, jobVars, redisVars, streamVars
  <2> QED
    BY <1>6, <2>1, FrameInv DEF RedeliverChunk
<1> QED
  BY <1>2, <1>4, <1>5, <1>6 DEF ChunkStep

\* The worker's report, a cancellation, and the consumer's reads and writes.
LEMMA ReportInv ==
  ASSUME IInv,
         \/ CancelRow \/ WriteRow \/ RedeliverReport
         \/ \E guarded \in BOOLEAN : WorkerReports(guarded)
         \/ \E i \in Instances : ReadJob(i)
  PROVE  IInv'
<1>1. TypeOK
  BY DEF IInv
<1>2. CASE CancelRow
  <2>1. TypeOK'
    BY <1>1, <1>2 DEF TypeOK, CancelRow, chunkVars, redisVars, streamVars
  <2> QED
    BY <1>2, <2>1, FrameInv DEF CancelRow
<1>3. CASE WriteRow
  <2>1. TypeOK'
    BY <1>1, <1>3 DEF TypeOK, WriteRow, Report, chunkVars, redisVars, streamVars
  <2> QED
    BY <1>3, <2>1, FrameInv DEF WriteRow
<1>4. CASE RedeliverReport
  <2>1. TypeOK'
    BY <1>1, <1>4, FaultType DEF TypeOK, RedeliverReport, Report, chunkVars, redisVars, streamVars
  <2> QED
    BY <1>4, <2>1, FrameInv DEF RedeliverReport
<1>5. CASE \E guarded \in BOOLEAN : WorkerReports(guarded)
  <2>1. TypeOK'
    BY <1>1, <1>5 DEF TypeOK, WorkerReports, Report, chunkVars, redisVars, streamVars
  <2> QED
    BY <1>5, <2>1, FrameInv DEF WorkerReports
<1>6. CASE \E i \in Instances : ReadJob(i)
  <2>1. PICK i \in Instances : ReadJob(i)
    BY <1>6
  <2>2. report' \in Report
    BY <1>1, <2>1 DEF TypeOK, ReadJob, Report
  <2>3. TypeOK'
    BY <1>1, <2>1, <2>2 DEF TypeOK, ReadJob, chunkVars, redisVars, streamVars
  <2> QED
    BY <2>1, <2>3, FrameInv DEF ReadJob
<1> QED
  BY <1>2, <1>3, <1>4, <1>5, <1>6

-----------------------------------------------------------------------------
(* Subscriptions.                                                          *)

\* Appending a command makes it the last one.
LEMMA QueueLast ==
  ASSUME TypeOK, NEW i \in Instances, NEW command \in {"subscribe", "unsubscribe"},
         queue(i, command), subscribed' = subscribed
  PROVE  /\ commands' \in [Instances -> Seq({"subscribe", "unsubscribe"})]
         /\ lastCommand(i)' = (IF command = "subscribe" THEN "yes" ELSE "no")
         /\ \A k \in Instances \ {i} : lastCommand(k)' = lastCommand(k)
<1>1. commands[i] \in Seq({"subscribe", "unsubscribe"})
  BY DEF TypeOK
<1>2. /\ commands' \in [Instances -> Seq({"subscribe", "unsubscribe"})]
      /\ commands'[i] = Append(commands[i], command)
      /\ \A k \in Instances \ {i} : commands'[k] = commands[k]
  BY <1>1 DEF TypeOK, queue
<1>3. commands'[i] # <<>> /\ commands'[i][Len(commands'[i])] = command
  BY <1>1, <1>2
<1> QED
  BY <1>2, <1>3 DEF lastCommand

\* unsubscribeFromJobLogs gives the channel up with the last viewer only.
LEMMA UnsubscribeKeeps ==
  ASSUME TypeOK, SubscriptionFollowsStreams, NEW i \in Instances,
         NEW gone \in SUBSET Conns, unsubscribe(i, gone), subscribed' = subscribed
  PROVE  /\ streams' \in [Instances -> SUBSET Conns]
         /\ commands' \in [Instances -> Seq({"subscribe", "unsubscribe"})]
         /\ orphans' \subseteq Conns
         /\ SubscriptionFollowsStreams'
<1>1. /\ streams' \in [Instances -> SUBSET Conns]
      /\ streams'[i] = streams[i] \ gone
      /\ \A k \in Instances \ {i} : streams'[k] = streams[k]
  BY DEF TypeOK, unsubscribe
<1>2. CASE streams[i] # {} /\ streams[i] \subseteq gone
  <2>1. queue(i, "unsubscribe") /\ orphans' \subseteq Conns
    BY <1>2 DEF unsubscribe, TypeOK
  <2>2. streams'[i] = {}
    BY <1>1, <1>2
  <2> QED
    BY <1>1, <2>1, <2>2, QueueLast DEF SubscriptionFollowsStreams
<1>3. CASE ~(streams[i] # {} /\ streams[i] \subseteq gone)
  <2>1. commands' = commands /\ orphans' = orphans
    BY <1>3 DEF unsubscribe
  <2>2. streams'[i] = {} <=> streams[i] = {}
    BY <1>1, <1>3
  <2> QED
    BY <1>1, <2>1, <2>2 DEF TypeOK, SubscriptionFollowsStreams, lastCommand
<1> QED
  BY <1>2, <1>3

\* Redis takes the commands of an instance in their order, or refuses one.
LEMMA RedisInv ==
  ASSUME IInv, NEW i \in Instances, RedisSubscribes(i) \/ RedisRefuses(i)
  PROVE  IInv'
<1>1. TypeOK /\ SubscriptionFollowsStreams /\ ViewersReachable /\ OwedKept
  BY DEF IInv
<1>2. /\ commands[i] \in Seq({"subscribe", "unsubscribe"}) /\ commands[i] # <<>>
      /\ commands' = [commands EXCEPT ![i] = Tail(@)]
  BY <1>1 DEF TypeOK, RedisSubscribes, RedisRefuses
<1>3. /\ Tail(commands[i]) \in Seq({"subscribe", "unsubscribe"})
      /\ commands' \in [Instances -> Seq({"subscribe", "unsubscribe"})]
      /\ commands'[i] = Tail(commands[i])
      /\ \A k \in Instances \ {i} : commands'[k] = commands[k]
  BY <1>1, <1>2 DEF TypeOK
<1>4. /\ subscribed' \in [Instances -> {"yes", "no", "refused"}]
      /\ \A k \in Instances \ {i} : subscribed'[k] = subscribed[k]
      /\ Head(commands[i]) = "subscribe" => subscribed'[i] \in {"yes", "refused"}
      /\ Head(commands[i]) # "subscribe" => subscribed'[i] = "no"
  BY <1>1 DEF TypeOK, RedisSubscribes, RedisRefuses
<1>5. UNCHANGED <<streams, orphans, conn>>
  BY DEF RedisSubscribes, RedisRefuses, streamVars
<1>6. TypeOK'
  BY <1>1, <1>3, <1>4, <1>5, FaultType
  DEF TypeOK, RedisSubscribes, RedisRefuses, jobVars, chunkVars
<1>7. lastCommand(i)' \in {"yes", "refused"} <=> lastCommand(i) \in {"yes", "refused"}
  <2>1. CASE Tail(commands[i]) = <<>>
    <3>1. PICK t \in Seq({"subscribe", "unsubscribe"}) : t = Tail(commands[i]) /\ t = <<>>
      BY <1>3, <2>1
    <3>2. Len(<<>>) = 0
      OBVIOUS
    <3>4. Len(t) = 0
      BY <3>1, <3>2, Zenon
    <3>5. Len(t) = Len(commands[i]) - 1 /\ Len(commands[i]) \in Nat
      <4>1. Len(Tail(commands[i])) = Len(commands[i]) - 1 /\ Len(commands[i]) \in Nat
        BY <1>2
      <4> QED
        BY <3>1, <4>1, Zenon
    <3>6. Len(commands[i]) = 1
      BY <3>4, <3>5
    <3>3. commands[i][Len(commands[i])] = Head(commands[i])
      BY <1>2, <3>6
    <3> QED
      BY <1>2, <1>3, <1>4, <2>1, <3>3 DEF lastCommand
  <2>2. CASE Tail(commands[i]) # <<>>
    <3>1. Tail(commands[i])[Len(Tail(commands[i]))] = commands[i][Len(commands[i])]
      BY <1>2, <2>2
    <3> QED
      BY <1>2, <1>3, <2>2, <3>1 DEF lastCommand
  <2> QED
    BY <2>1, <2>2
<1>8. SubscriptionFollowsStreams'
  BY <1>1, <1>3, <1>4, <1>5, <1>7 DEF SubscriptionFollowsStreams, lastCommand
<1>9. ViewersReachable' /\ OwedKept' /\ OrphansReplay'
  BY <1>1, <1>5 DEF IInv, ViewersReachable, OwedKept, OrphansReplay, reached, replaying
<1> QED
  BY <1>6, <1>8, <1>9 DEF IInv

-----------------------------------------------------------------------------
(* Connections, one by one.                                                *)

\* No lines are a bag of lines.
LEMMA NoLinesType == NoLines \in Copies
  BY DEF NoLines, Copies

\* A response that is over owes nothing.
LEMMA ClosedType ==
  ASSUME NEW k \in Connection
  PROVE  closed(k) \in Connection /\ closed(k).pc = k.pc /\ ~closed(k).open
  BY NoLinesType DEF closed, Connection

\* What every connection outside the step's own keeps when a message is
\* written to a Set.
LEMMA WriteLiveType ==
  ASSUME TypeOK, OwedKept, NEW connections \in SUBSET Conns, NEW lines \in Copies,
         NEW d \in Conns
  PROVE  LET n == writeLiveMessage(connections, lines)[d] IN
           n \in Connection /\ n.pc = conn[d].pc /\ n.open = conn[d].open /\ Settled(n)
<1>1. conn[d] \in Connection /\ Settled(conn[d])
  BY OwedKeptSettled DEF TypeOK
<1>2. writeLiveMessage(connections, lines)[d] =
        IF d \in connections THEN take(conn[d], lines) ELSE conn[d]
  BY DEF writeLiveMessage
<1> QED
  BY <1>1, <1>2, TakeType

\* Where a step changes connections only, the invariant follows from each one.
LEMMA ConnInv ==
  ASSUME IInv,
         UNCHANGED <<jobVars, chunkVars, redisVars, streams>>,
         inbox' \in [Instances -> Seq(Lines)], faults' \in 0..MaxFaults,
         orphans' \subseteq Conns, \A d \in orphans' : replaying(conn[d])',
         conn' \in [Conns -> Connection],
         \A d \in Conns :
           /\ Settled(conn[d])'
           /\ conn'[d].open /\ conn'[d].pc \in {"asking", "answered", "live"}
                => d \in streams[Host[d]] /\ d \notin orphans'
  PROVE  IInv'
<1>1. TypeOK'
  BY DEF IInv, TypeOK, jobVars, chunkVars, redisVars
<1>2. SubscriptionFollowsStreams'
  BY DEF IInv, SubscriptionFollowsStreams, lastCommand, redisVars
<1>3. ViewersReachable'
  BY DEF ViewersReachable
<1>4. OwedKept'
  BY DEF OwedKept, Settled, reached
<1> QED
  BY <1>1, <1>2, <1>3, <1>4 DEF IInv, OrphansReplay

\* A message of the channel goes to every connection of the instance, which
\* writes it or holds it back.
LEMMA DeliverInv ==
  ASSUME IInv, NEW i \in Instances, handleRedisMessage(i)
  PROVE  IInv'
<1>1. TypeOK /\ ViewersReachable /\ OwedKept
  BY DEF IInv
<1>2. PICK l \in Lines : l = Head(inbox[i]) /\ inbox[i] # <<>>
  <2>1. inbox[i] \in Seq(Lines) /\ inbox[i] # <<>>
    BY <1>1 DEF TypeOK, handleRedisMessage
  <2> QED
    BY <2>1
<1>3. one(l) \in Copies /\ one(l)[l] > 0
  BY NoLinesType DEF one, Copies
<1>4. PICK lines \in Copies : lines = one(l) /\ lines[l] > 0
  BY <1>3
<1>5. inbox' \in [Instances -> Seq(Lines)]
  BY <1>1, <1>2 DEF handleRedisMessage, TypeOK
<1>6. ASSUME NEW d \in Conns
      PROVE  /\ conn'[d] \in Connection
             /\ conn'[d].pc = conn[d].pc /\ conn'[d].open = conn[d].open
             /\ Settled(conn'[d])
  <2> DEFINE n == writeLiveMessage(streams[i], lines)[d]
  <2>1. conn'[d] = IF d \in streams[i] THEN owe(n, {l}) ELSE n
    BY <1>2, <1>4 DEF handleRedisMessage
  <2>2. streams[i] \in SUBSET Conns
    BY <1>1 DEF TypeOK
  <2>3. n \in Connection /\ n.pc = conn[d].pc /\ n.open = conn[d].open /\ Settled(n)
    BY <1>1, <2>2, WriteLiveType
  <2>4. d \in streams[i] /\ n.open =>
          n.written[l] > 0 \/ (replaying(n) /\ n.pending[l] > 0)
    <3>1. conn[d] \in Connection
      BY <1>1 DEF TypeOK
    <3>2. d \in streams[i] => n = take(conn[d], lines)
      BY DEF writeLiveMessage
    <3>3. replaying(n) <=> replaying(conn[d])
      BY <2>3 DEF replaying
    <3> HIDE DEF n
    <3>4. conn[d].open => \A x \in Lines : lines[x] > 0 =>
             \/ take(conn[d], lines).written[x] > 0
             \/ replaying(conn[d]) /\ take(conn[d], lines).pending[x] > 0
      BY <3>1, TakeType
    <3> QED
      BY <1>4, <2>3, <3>2, <3>3, <3>4
  <2> HIDE DEF n
  <2>5. CASE d \in streams[i] /\ n.open
    <3> DEFINE m == [n EXCEPT !.owed = @ \cup {l}]
    <3>1. conn'[d] = m
      BY <2>1, <2>5 DEF owe
    <3>2. /\ m \in Connection /\ m.pc = n.pc /\ m.open = n.open /\ m.owed = n.owed \cup {l}
          /\ m.written = n.written /\ m.pending = n.pending /\ m.snapshot = n.snapshot
      BY <2>3 DEF Connection
    <3> HIDE DEF m
    <3> QED
      BY <2>3, <2>4, <2>5, <3>1, <3>2 DEF Settled, replaying
  <2>6. CASE ~(d \in streams[i] /\ n.open)
    <3>1. conn'[d] = n
      BY <2>1, <2>6 DEF owe
    <3> QED
      BY <2>3, <3>1
  <2> QED
    BY <2>5, <2>6
<1>7. conn' \in [Conns -> Connection]
  BY <1>6 DEF handleRedisMessage
<1>8. \A d \in Conns :
         /\ Settled(conn[d])'
         /\ conn'[d].open /\ conn'[d].pc \in {"asking", "answered", "live"}
              => d \in streams[Host[d]] /\ d \notin orphans'
  BY <1>1, <1>6 DEF ViewersReachable, handleRedisMessage, streamVars, Settled, replaying
<1>9. /\ UNCHANGED <<jobVars, chunkVars, redisVars, streams>>
      /\ orphans' = orphans /\ faults' \in 0..MaxFaults
  BY <1>1 DEF handleRedisMessage, streamVars, TypeOK
<1>10. orphans' \subseteq Conns /\ \A d \in orphans' : replaying(conn[d])'
  BY <1>1, <1>6, <1>9 DEF IInv, TypeOK, OrphansReplay, replaying
<1> QED
  BY <1>5, <1>7, <1>8, <1>9, <1>10, ConnInv

\* A request reads the job's status; its client may be gone before that.
LEMMA RequestInv ==
  ASSUME IInv, NEW c \in Conns, ReadStatus(c) \/ LeaveEarly(c)
  PROVE  IInv'
<1>1. TypeOK /\ ViewersReachable /\ \A d \in Conns : Settled(conn[d])
  BY OwedKeptSettled DEF IInv
<1>2. conn[c] \in Connection
  BY <1>1 DEF TypeOK
<1>3. /\ conn' \in [Conns -> Connection]
      /\ \A d \in Conns \ {c} : conn'[d] = conn[d]
      /\ Settled(conn'[c])
      /\ conn'[c].open => conn'[c].pc \notin {"asking", "answered", "live"}
      /\ ~replaying(conn[c])
  <2>1. CASE ReadStatus(c)
    <3> DEFINE k == [conn[c] EXCEPT !.pc = IF row = "active" THEN "joining" ELSE "finished",
                                    !.open = @ /\ row = "active"]
    <3>1. conn' = [conn EXCEPT ![c] = k]
      BY <2>1 DEF ReadStatus
    <3>2. k \in Connection /\ k.written = conn[c].written /\ k.owed = conn[c].owed
          /\ (k.open => conn[c].open) /\ k.pc \in {"joining", "finished"}
      BY <1>2 DEF Connection
    <3>4. Settled(k)
      BY <1>1, <2>1, <3>2 DEF Settled, replaying, ReadStatus
    <3> HIDE DEF k
    <3> QED
      BY <1>1, <2>1, <3>1, <3>2, <3>4 DEF TypeOK, ReadStatus, replaying
  <2>2. CASE LeaveEarly(c)
    <3> DEFINE k == [conn[c] EXCEPT !.open = FALSE]
    <3>1. conn' = [conn EXCEPT ![c] = k]
      BY <2>2 DEF LeaveEarly
    <3>2. k \in Connection /\ ~k.open
      BY <1>2 DEF Connection
    <3> HIDE DEF k
    <3> QED
      BY <1>1, <2>2, <3>1, <3>2 DEF TypeOK, Settled, LeaveEarly, replaying
  <2> QED
    BY <2>1, <2>2
<1>4. \A d \in Conns :
         /\ Settled(conn[d])'
         /\ conn'[d].open /\ conn'[d].pc \in {"asking", "answered", "live"}
              => d \in streams[Host[d]] /\ d \notin orphans'
  BY <1>1, <1>3 DEF ViewersReachable, ReadStatus, LeaveEarly, streamVars, Settled, replaying
<1>5. /\ UNCHANGED <<jobVars, chunkVars, redisVars, streams>>
      /\ orphans' = orphans /\ faults' \in 0..MaxFaults
      /\ inbox' \in [Instances -> Seq(Lines)]
  BY <1>1 DEF ReadStatus, LeaveEarly, streamVars, TypeOK
<1>6. orphans' \subseteq Conns /\ \A d \in orphans' : replaying(conn[d])'
  BY <1>1, <1>3, <1>5 DEF IInv, TypeOK, OrphansReplay, replaying
<1> QED
  BY <1>3, <1>4, <1>5, <1>6, ConnInv

\* The backlog read is of a moment after the connection was registered.
LEMMA ReadBacklogInv ==
  ASSUME IInv, NEW c \in Conns, ReadBacklog(c)
  PROVE  IInv'
<1>1. TypeOK /\ ViewersReachable /\ \A d \in Conns : Settled(conn[d])
  BY OwedKeptSettled DEF IInv
<1>2. conn[c] \in Connection /\ conn[c].pc = "asking"
  BY <1>1 DEF TypeOK, ReadBacklog
<1>3. inBacklog \in Copies
  <2>1. DOMAIN backlog = 1..Len(backlog) /\ Len(backlog) \in Nat
    BY <1>1 DEF TypeOK
  <2>2. \A l \in Lines : Cardinality({k \in DOMAIN backlog : backlog[k] = l}) \in Nat
    <3> SUFFICES ASSUME NEW l \in Lines
                 PROVE  Cardinality({k \in DOMAIN backlog : backlog[k] = l}) \in Nat
      OBVIOUS
    <3>1. IsFiniteSet(1..Len(backlog))
      BY <2>1, FS_Interval
    <3>2. IsFiniteSet({k \in DOMAIN backlog : backlog[k] = l})
      BY <2>1, <3>1, FS_Subset
    <3> QED
      BY <3>2, FS_CardinalityType
  <2> QED
    BY <2>2 DEF inBacklog, Copies
<1>4. PICK b \in Copies : b = inBacklog
  BY <1>3
<1> DEFINE k == [conn[c] EXCEPT !.pc = "answered", !.snapshot = b]
           kept == {l \in Lines : b[l] > 0}
           m == [k EXCEPT !.owed = @ \cup kept]
<1>5. conn' = [conn EXCEPT ![c] = owe(k, kept)]
  BY <1>4 DEF ReadBacklog
<1>6. k \in Connection /\ k.pc = "answered" /\ k.snapshot = b /\ k.owed = conn[c].owed
      /\ k.written = conn[c].written /\ k.pending = conn[c].pending /\ k.open = conn[c].open
  BY <1>2 DEF Connection
<1>7. Settled(k)
  BY <1>1, <1>2, <1>6 DEF Settled, replaying
<1> HIDE DEF k
<1>8. m \in Connection /\ m.pc = "answered" /\ m.snapshot = b /\ m.owed = k.owed \cup kept
      /\ m.written = k.written /\ m.pending = k.pending /\ m.open = k.open
  BY <1>6 DEF Connection
<1>9. owe(k, kept) = IF k.open THEN m ELSE k
  BY DEF owe
<1> HIDE DEF m
<1>10. Settled(m)
  BY <1>6, <1>7, <1>8 DEF Settled, replaying
<1>11. /\ conn' \in [Conns -> Connection]
       /\ \A d \in Conns \ {c} : conn'[d] = conn[d]
       /\ Settled(conn'[c]) /\ conn'[c].open = conn[c].open /\ conn'[c].pc = "answered"
  BY <1>1, <1>5, <1>6, <1>7, <1>8, <1>9, <1>10 DEF TypeOK
<1>12. \A d \in Conns :
         /\ Settled(conn[d])'
         /\ conn'[d].open /\ conn'[d].pc \in {"asking", "answered", "live"}
              => d \in streams[Host[d]] /\ d \notin orphans'
  BY <1>1, <1>2, <1>11 DEF ViewersReachable, ReadBacklog, streamVars, Settled, replaying
<1>13. /\ UNCHANGED <<jobVars, chunkVars, redisVars, streams>>
       /\ orphans' = orphans /\ faults' \in 0..MaxFaults
       /\ inbox' \in [Instances -> Seq(Lines)]
  BY <1>1 DEF ReadBacklog, streamVars, TypeOK
<1>14. orphans' \subseteq Conns /\ \A d \in orphans' : replaying(conn[d])'
  BY <1>1, <1>11, <1>13 DEF IInv, TypeOK, OrphansReplay, replaying
<1> QED
  BY <1>11, <1>12, <1>13, <1>14, ConnInv

\* The finally block: k is the replaying connection, the history written to it
\* or given up.
LEMMA FlushInv ==
  ASSUME IInv, NEW c \in Conns, NEW k \in Connection,
         replaying(conn[c]), k.open = conn[c].open, k.pending = conn[c].pending,
         k.open => \A l \in k.owed : k.written[l] > 0 \/ k.pending[l] > 0,
         flush(c, k), faults' \in 0..MaxFaults,
         UNCHANGED <<jobVars, chunkVars, redisVars, inbox, streams>>
  PROVE  IInv'
<1>1. TypeOK /\ ViewersReachable /\ OwedKept /\ \A d \in Conns : Settled(conn[d])
  BY OwedKeptSettled DEF IInv
<1>2. k.pending \in Copies
  BY DEF Connection
<1>3. siblings(c) \in SUBSET Conns
  BY <1>1, StreamAssumption DEF siblings, TypeOK
<1> DEFINE w == writeLiveMessage(siblings(c), k.pending)
           own == IF c \in siblings(c) THEN write(live(k), k.pending) ELSE live(k)
<1>4. conn' = [w EXCEPT ![c] = own] /\ DOMAIN w = Conns
  BY DEF flush, writeLiveMessage
<1>5. own \in Connection /\ own.open = k.open /\ Settled(own)
  <2>1. own \in Connection /\ own.open = k.open /\ (~k.open => Settled(own))
    BY <1>2, LiveClosed
  <2>2. k.open => Settled(own)
    <3> SUFFICES ASSUME k.open PROVE Settled(own)
      OBVIOUS
    <3>1. c \in siblings(c)
      BY <1>1 DEF ViewersReachable, replaying, siblings
    <3> QED
      BY <1>2, <3>1, LiveType
  <2> QED
    BY <2>1, <2>2
<1> HIDE DEF own
<1>6. \A d \in Conns : LET n == w[d] IN
         n \in Connection /\ n.pc = conn[d].pc /\ n.open = conn[d].open /\ Settled(n)
  BY <1>1, <1>2, <1>3, WriteLiveType
<1> HIDE DEF w
<1>7. /\ conn' \in [Conns -> Connection]
      /\ \A d \in Conns : conn'[d].open = conn[d].open
      /\ \A d \in Conns \ {c} : conn'[d].pc = conn[d].pc
      /\ \A d \in Conns : Settled(conn'[d])
  BY <1>4, <1>5, <1>6
<1>8. \A d \in Conns :
         /\ Settled(conn[d])'
         /\ conn'[d].open /\ conn'[d].pc \in {"asking", "answered", "live"}
              => d \in streams[Host[d]] /\ d \notin orphans'
  BY <1>1, <1>7 DEF ViewersReachable, flush, Settled, replaying
<1>9. /\ orphans' \subseteq Conns /\ inbox' \in [Instances -> Seq(Lines)]
      /\ \A d \in orphans' : replaying(conn[d])'
  BY <1>1, <1>7 DEF IInv, flush, TypeOK, OrphansReplay, replaying
<1> QED
  BY <1>7, <1>8, <1>9, ConnInv

\* The replay writes what was read and lets through what was held back.
LEMMA ReplayInv ==
  ASSUME IInv, NEW c \in Conns, Replay(c) \/ ReplayFails(c)
  PROVE  IInv'
<1>1. TypeOK /\ Settled(conn[c]) /\ conn[c] \in Connection /\ conn[c].snapshot \in Copies
      /\ conn[c].owed \subseteq Lines
  BY OwedKeptSettled DEF IInv, TypeOK, Connection
<1>2. CASE Replay(c)
  <2> DEFINE k == write(conn[c], conn[c].snapshot)
  <2>1. /\ k \in Connection /\ k = [conn[c] EXCEPT !.written = k.written]
        /\ \A l \in Lines : conn[c].written[l] > 0 => k.written[l] > 0
        /\ conn[c].open => \A l \in Lines : conn[c].snapshot[l] > 0 => k.written[l] > 0
    BY <1>1, WriteType
  <2>2. k.open = conn[c].open /\ k.pending = conn[c].pending /\ k.owed = conn[c].owed
    BY <1>1, <2>1 DEF Connection
  <2>3. /\ replaying(conn[c]) /\ flush(c, k) /\ faults' \in 0..MaxFaults
        /\ UNCHANGED <<jobVars, chunkVars, redisVars, inbox, streams>>
    BY <1>1, <1>2 DEF Replay, replaying, TypeOK
  <2> HIDE DEF k
  <2>4. k.open => \A l \in k.owed : k.written[l] > 0 \/ k.pending[l] > 0
    BY <1>1, <2>1, <2>2 DEF Settled
  <2> QED
    BY <2>1, <2>2, <2>3, <2>4, FlushInv
<1>3. CASE ReplayFails(c)
  <2> DEFINE k == withoutHistory(conn[c])
  <2>1. /\ k \in Connection /\ k.open = conn[c].open /\ k.pending = conn[c].pending
        /\ k.owed = {l \in conn[c].owed : conn[c].pending[l] > 0}
    BY <1>1, NoLinesType DEF withoutHistory, Connection
  <2>2. /\ replaying(conn[c]) /\ flush(c, k) /\ faults' \in 0..MaxFaults
        /\ UNCHANGED <<jobVars, chunkVars, redisVars, inbox, streams>>
    BY <1>1, <1>3, FaultType DEF ReplayFails
  <2> HIDE DEF k
  <2> QED
    BY <2>1, <2>2, FlushInv
<1> QED
  BY <1>2, <1>3

\* subscribeToJobLogs registers the connection and subscribes for the first.
LEMMA JoinInv ==
  ASSUME IInv, NEW c \in Conns, subscribeToJobLogs(c)
  PROVE  IInv'
<1> DEFINE i == Host[c]
           k == [conn[c] EXCEPT !.pc = "asking"]
<1>1. /\ TypeOK /\ SubscriptionFollowsStreams /\ ViewersReachable
      /\ \A d \in Conns : Settled(conn[d])
  BY OwedKeptSettled DEF IInv
<1>2. i \in Instances /\ conn[c] \in Connection /\ conn[c].pc = "joining"
  BY <1>1, StreamAssumption DEF TypeOK, subscribeToJobLogs
<1>3. /\ streams' \in [Instances -> SUBSET Conns] /\ c \in streams'[i]
      /\ streams'[i] = streams[i] \cup {c}
      /\ \A j \in Instances \ {i} : streams'[j] = streams[j]
  BY <1>1, <1>2 DEF TypeOK, subscribeToJobLogs
<1>4. /\ commands' \in [Instances -> Seq({"subscribe", "unsubscribe"})]
      /\ lastCommand(i)' \in {"yes", "refused"}
      /\ \A j \in Instances \ {i} : lastCommand(j)' = lastCommand(j)
  <2>1. subscribed' = subscribed
    BY DEF subscribeToJobLogs
  <2>2. CASE streams[i] = {}
    BY <1>1, <1>2, <2>1, <2>2, QueueLast DEF subscribeToJobLogs
  <2>3. CASE streams[i] # {}
    BY <1>1, <1>2, <2>1, <2>3
    DEF subscribeToJobLogs, SubscriptionFollowsStreams, lastCommand, TypeOK
  <2> QED
    BY <2>2, <2>3
<1>5. SubscriptionFollowsStreams'
  <2>1. \A j \in Instances : streams'[j] # {} <=> lastCommand(j)' \in {"yes", "refused"}
    BY <1>1, <1>3, <1>4 DEF SubscriptionFollowsStreams
  <2> QED
    BY <2>1 DEF SubscriptionFollowsStreams
<1>6. /\ k \in Connection /\ k.pc = "asking" /\ k.owed = conn[c].owed /\ k.open = conn[c].open
      /\ k.written = conn[c].written /\ k.pending = conn[c].pending
  BY <1>2 DEF Connection
<1>7. conn' = [conn EXCEPT ![c] = k]
  BY DEF subscribeToJobLogs
<1> HIDE DEF k
<1>8. Settled(k)
  BY <1>1, <1>2, <1>6 DEF Settled, replaying
<1>9. /\ conn' \in [Conns -> Connection]
      /\ \A d \in Conns \ {c} : conn'[d] = conn[d]
      /\ \A d \in Conns : Settled(conn'[d])
  BY <1>1, <1>6, <1>7, <1>8 DEF TypeOK
<1>10. c \notin orphans
  BY <1>1, <1>2 DEF IInv, OrphansReplay, replaying
<1>11. ViewersReachable'
  BY <1>1, <1>3, <1>9, <1>10, StreamAssumption
  DEF ViewersReachable, subscribeToJobLogs
<1>12. TypeOK'
  BY <1>1, <1>3, <1>4, <1>9 DEF TypeOK, subscribeToJobLogs, jobVars, chunkVars
<1>13. OwedKept'
  BY <1>9 DEF OwedKept, Settled, reached
<1>14. OrphansReplay'
  BY <1>9, <1>10 DEF IInv, OrphansReplay, replaying, subscribeToJobLogs, TypeOK
<1> QED
  BY <1>5, <1>11, <1>12, <1>13, <1>14 DEF IInv

\* Viewers leave or are ended: their responses are over, and the Set loses
\* them.
LEMMA DepartInv ==
  ASSUME IInv, NEW i \in Instances, NEW gone \in SUBSET Conns,
         \A c \in gone : Host[c] = i,
         conn' = endAll(gone), unsubscribe(i, gone),
         row' = row, report' \in Report,
         UNCHANGED <<chunkVars, subscribed, inbox, faults>>
  PROVE  IInv'
<1>1. /\ TypeOK /\ SubscriptionFollowsStreams /\ ViewersReachable /\ OrphansReplay
      /\ \A d \in Conns : Settled(conn[d])
  BY OwedKeptSettled DEF IInv
<1>2. /\ streams' \in [Instances -> SUBSET Conns]
      /\ commands' \in [Instances -> Seq({"subscribe", "unsubscribe"})]
      /\ orphans' \subseteq Conns
      /\ SubscriptionFollowsStreams'
  BY <1>1, UnsubscribeKeeps
<1>3. /\ streams'[i] = streams[i] \ gone
      /\ \A j \in Instances \ {i} : streams'[j] = streams[j]
      /\ orphans' # orphans => streams[i] \subseteq gone
      /\ \A d \in orphans' \ orphans : Host[d] = i /\ replaying(conn[d])
  BY <1>1 DEF TypeOK, unsubscribe
<1>4. \A d \in Conns :
        /\ conn'[d] \in Connection /\ conn'[d].pc = conn[d].pc
        /\ d \in gone => ~conn'[d].open
        /\ d \notin gone => conn'[d] = conn[d]
  BY <1>1, ClosedType DEF endAll, TypeOK
<1>5. conn' \in [Conns -> Connection]
  BY <1>4 DEF endAll
<1>6. TypeOK'
  BY <1>1, <1>2, <1>5 DEF TypeOK, chunkVars
<1>7. OwedKept'
  <2>1. \A d \in Conns : Settled(conn'[d])
    BY <1>1, <1>4 DEF Settled
  <2> QED
    BY <2>1 DEF OwedKept, Settled, reached
<1>8. ViewersReachable'
  <2> SUFFICES ASSUME NEW d \in Conns, conn'[d].open,
                      conn'[d].pc \in {"asking", "answered", "live"}
               PROVE  d \in streams'[Host[d]] /\ d \notin orphans'
    BY DEF ViewersReachable
  <2>1. d \notin gone /\ d \in streams[Host[d]] /\ d \notin orphans
    BY <1>1, <1>4 DEF ViewersReachable
  <2>2. Host[d] \in Instances
    BY StreamAssumption
  <2> QED
    BY <1>3, <2>1, <2>2
<1>9. OrphansReplay'
  BY <1>1, <1>2, <1>3, <1>4 DEF OrphansReplay, replaying
<1> QED
  BY <1>2, <1>6, <1>7, <1>8, <1>9 DEF IInv

\* A viewer that leaves takes its connection out of the stream.
LEMMA LeaveInv ==
  ASSUME IInv, NEW c \in Conns, Leave(c)
  PROVE  IInv'
<1>1. conn' = endAll({c})
  BY DEF IInv, TypeOK, Leave, endAll
<1>2. Host[c] \in Instances /\ report' \in Report /\ row' = row
  BY StreamAssumption DEF IInv, TypeOK, Leave, jobVars
<1> QED
  BY <1>1, <1>2, DepartInv DEF Leave

\* A connection is in the Set of its own process only.
LEMMA CompletionInv ==
  ASSUME IInv, StreamsLocal, sendJobCompletion
  PROVE  IInv'
<1>1. report.at \in Instances /\ streams[report.at] \in SUBSET Conns
      /\ report' \in Report
  BY DEF IInv, TypeOK, Report, sendJobCompletion
<1>2. \A c \in streams[report.at] : Host[c] = report.at
  BY <1>1 DEF StreamsLocal
<1> QED
  BY <1>1, <1>2, DepartInv DEF sendJobCompletion

\* A process that dies loses its streams, its subscription and its viewers.
LEMMA RestartInv ==
  ASSUME IInv, NEW i \in Instances, Restart(i)
  PROVE  IInv'
<1> DEFINE here == {c \in Conns : conn[c].pc # "away" /\ Host[c] = i}
           dead == [closed(NoConn) EXCEPT !.pc = "finished"]
<1>1. /\ TypeOK /\ SubscriptionFollowsStreams /\ ViewersReachable /\ OrphansReplay
      /\ \A d \in Conns : Settled(conn[d])
  BY OwedKeptSettled DEF IInv
<1>2. dead \in Connection /\ ~dead.open /\ dead.pc = "finished"
  <2>1. NoConn \in Connection
    BY NoLinesType DEF NoConn, Connection
  <2>2. closed(NoConn) \in Connection /\ ~closed(NoConn).open
    BY <2>1, ClosedType
  <2> QED
    BY <2>2 DEF Connection
<1>3. conn' = [c \in Conns |-> IF c \in here THEN dead ELSE conn[c]]
  BY DEF Restart
<1> HIDE DEF dead
<1>4. /\ conn' \in [Conns -> Connection]
      /\ \A d \in Conns : d \in here => ~conn'[d].open /\ conn'[d].pc = "finished"
      /\ \A d \in Conns : d \notin here => conn'[d] = conn[d]
  BY <1>1, <1>2, <1>3 DEF TypeOK
<1>5. /\ streams' = [streams EXCEPT ![i] = {}] /\ orphans' = orphans \ here
      /\ commands' = [commands EXCEPT ![i] = <<>>]
      /\ subscribed' = [subscribed EXCEPT ![i] = "no"]
      /\ inbox' = [inbox EXCEPT ![i] = <<>>]
  BY DEF Restart
<1>6. report' \in Report
  BY <1>1 DEF Restart, TypeOK, Report
<1>7. /\ commands' \in [Instances -> Seq({"subscribe", "unsubscribe"})]
      /\ inbox' \in [Instances -> Seq(Lines)]
  BY <1>1, <1>5 DEF TypeOK
<1>8. TypeOK'
  BY <1>1, <1>4, <1>5, <1>6, <1>7, FaultType DEF TypeOK, Restart, chunkVars
<1>9. SubscriptionFollowsStreams'
  BY <1>1, <1>5 DEF SubscriptionFollowsStreams, lastCommand, TypeOK
<1>10. ViewersReachable'
  <2> SUFFICES ASSUME NEW d \in Conns, conn'[d].open,
                      conn'[d].pc \in {"asking", "answered", "live"}
               PROVE  d \in streams'[Host[d]] /\ d \notin orphans'
    BY DEF ViewersReachable
  <2>1. d \notin here /\ conn'[d] = conn[d] /\ Host[d] # i
    BY <1>4
  <2>2. Host[d] \in Instances
    BY StreamAssumption
  <2> QED
    BY <1>1, <1>5, <2>1, <2>2 DEF ViewersReachable, TypeOK
<1>11. OwedKept'
  <2>1. \A d \in Conns : Settled(conn'[d])
    BY <1>1, <1>4 DEF Settled
  <2> QED
    BY <2>1 DEF OwedKept, Settled, reached
<1>12. OrphansReplay'
  BY <1>1, <1>4, <1>5 DEF OrphansReplay, replaying, TypeOK
<1> QED
  BY <1>8, <1>9, <1>10, <1>11, <1>12 DEF IInv

-----------------------------------------------------------------------------
(* The theorems.                                                           *)

\* A stream holds connections of its own process only.
LEMMA LocalInv ==
  ASSUME TypeOK, StreamsLocal, [Next]_vars
  PROVE  StreamsLocal'
<1>1. ASSUME NEW i \in Instances, NEW gone, unsubscribe(i, gone)
      PROVE  StreamsLocal'
  BY <1>1 DEF TypeOK, StreamsLocal, unsubscribe
<1>2. ASSUME NEW c \in Conns, subscribeToJobLogs(c)
      PROVE  StreamsLocal'
  BY <1>2 DEF TypeOK, StreamsLocal, subscribeToJobLogs
<1>3. ASSUME NEW c \in Conns, Leave(c)
      PROVE  StreamsLocal'
  BY <1>1, <1>3, StreamAssumption DEF Leave
<1>4. CASE sendJobCompletion
  BY <1>1, <1>4 DEF sendJobCompletion, TypeOK, Report
<1>5. ASSUME NEW i \in Instances, Restart(i)
      PROVE  StreamsLocal'
  BY <1>5 DEF TypeOK, StreamsLocal, Restart
<1>6. CASE streams' = streams
  BY <1>6 DEF StreamsLocal
<1>7. \/ streams' = streams \/ sendJobCompletion
      \/ \E c \in Conns : subscribeToJobLogs(c) \/ Leave(c)
      \/ \E i \in Instances : Restart(i)
  BY DEF Next, ChunkStep, ReportStep, StreamStep, ConnectionStep, Environment, Failure,
         PublishChunk, PushBacklog, ChunkFails, RedeliverChunk, ReadJob, WriteRow,
         RedisSubscribes, RedisRefuses, handleRedisMessage, ReadBacklog, Replay,
         ReplayFails, ReadStatus, LeaveEarly, CancelRow, WorkerReports,
         RedeliverReport, streamVars, vars
<1> QED
  BY <1>2, <1>3, <1>4, <1>5, <1>6, <1>7

\* Every step keeps the invariant.
LEMMA StepInv ==
  ASSUME IInv, StreamsLocal, [Next]_vars
  PROVE  IInv'
<1>1. CASE \E l \in Lines : ChunkStep(l)
  BY <1>1, ChunkInv
<1>2. CASE ReportStep
  BY <1>2, ReportInv, CompletionInv DEF ReportStep
<1>3. CASE \E i \in Instances : StreamStep(i)
  BY <1>3, RedisInv, DeliverInv DEF StreamStep
<1>4. CASE \E c \in Conns : ConnectionStep(c)
  BY <1>4, JoinInv, ReadBacklogInv, ReplayInv DEF ConnectionStep
<1>5. CASE Environment
  BY <1>5, RequestInv, LeaveInv, ReportInv DEF Environment
<1>6. CASE Failure
  <2>1. CASE \E l \in Lines : ChunkFails(l) \/ RedeliverChunk(l)
    BY <2>1, ChunkInv
  <2>2. CASE \E i \in Instances : RedisRefuses(i) \/ Restart(i)
    BY <2>2, RedisInv, RestartInv
  <2>3. CASE \E c \in Conns : ReplayFails(c)
    BY <2>3, ReplayInv
  <2>4. CASE RedeliverReport
    BY <2>4, ReportInv
  <2> QED
    BY <1>6, <2>1, <2>2, <2>3, <2>4 DEF Failure
<1>7. CASE UNCHANGED vars
  <2>1. TypeOK'
    BY <1>7 DEF IInv, TypeOK, vars, jobVars, chunkVars, redisVars, streamVars
  <2> QED
    BY <1>7, <2>1, FrameInv DEF vars
<1> QED
  BY <1>1, <1>2, <1>3, <1>4, <1>5, <1>6, <1>7 DEF Next

\* The inductive invariant holds in every reachable state of the log service.
LEMMA Invariance == Spec => [](IInv /\ StreamsLocal)
<1>1. Init => IInv /\ StreamsLocal
  BY InitInv DEF Init, StreamsLocal
<1>2. IInv /\ StreamsLocal /\ [Next]_vars => (IInv /\ StreamsLocal)'
  BY StepInv, LocalInv DEF IInv
<1> QED
  BY <1>1, <1>2, PTL DEF Spec

\* Types are kept and the backlog stays within its limit, whatever the
\* interleaving of consumer, Redis and viewers.
THEOREM TypesKept == Spec => []TypeOK
<1>1. IInv /\ StreamsLocal => TypeOK
  BY DEF IInv
<1> QED
  BY <1>1, Invariance, PTL

\* subscribeToJobLogs, its unsubscribe and sendJobCompletion never disagree: a
\* process asks Redis to listen exactly while activeStreams has an entry.
THEOREM ListensForViewers == Spec => []SubscriptionFollowsStreams
<1>1. IInv /\ StreamsLocal => SubscriptionFollowsStreams
  BY DEF IInv
<1> QED
  BY <1>1, Invariance, PTL

\* The Set a replay captured before its await is the one later messages are
\* written to, for every viewer that is still there.
THEOREM ViewersStayReachable == Spec => []ViewersReachable
<1>1. IInv /\ StreamsLocal => ViewersReachable
  BY DEF IInv
<1> QED
  BY <1>1, Invariance, PTL

\* Between LRANGE and the end of the replay no line that reached the process
\* for an open viewer is dropped, with any number of viewers replaying at once.
THEOREM NothingOwedIsDropped == Spec => []OwedKept
<1>1. IInv /\ StreamsLocal => OwedKept
  BY DEF IInv
<1> QED
  BY <1>1, Invariance, PTL

-----------------------------------------------------------------------------
(* How often a line is in a queue.                                         *)

Times(s, l) == Cardinality({k \in DOMAIN s : s[k] = l})

\* It is a number, and the count of a finite set of places.
LEMMA TimesType ==
  ASSUME NEW s \in Seq(Lines), NEW l
  PROVE  /\ IsFiniteSet({k \in DOMAIN s : s[k] = l})
         /\ Times(s, l) \in Nat
<1>1. DOMAIN s = 1..Len(s) /\ Len(s) \in Nat
  OBVIOUS
<1>2. IsFiniteSet(DOMAIN s)
  BY <1>1, FS_Interval
<1>3. IsFiniteSet({k \in DOMAIN s : s[k] = l})
  BY <1>2, FS_Subset
<1> QED
  BY <1>3, FS_CardinalityType DEF Times

\* A queue without its first n entries holds no line more often, and one less
\* often that was in the entries left out.
LEMMA TimesShifted ==
  ASSUME NEW s \in Seq(Lines), NEW t \in Seq(Lines), NEW n \in Nat, NEW l,
         Len(s) = Len(t) + n, \A k \in 1..Len(t) : t[k] = s[k + n]
  PROVE  /\ Times(t, l) <= Times(s, l)
         /\ n > 0 /\ s[1] = l => Times(t, l) + 1 <= Times(s, l)
<1> DEFINE S == {k \in DOMAIN s : s[k] = l}
           T == {k \in DOMAIN t : t[k] = l}
           R == {k \in S : k > n}
           f == [k \in T |-> k + n]
<1>1. /\ IsFiniteSet(S) /\ Cardinality(S) \in Nat /\ Cardinality(S) = Times(s, l)
      /\ Cardinality(T) \in Nat /\ Cardinality(T) = Times(t, l)
  BY TimesType DEF Times
<1>2. DOMAIN s = 1..Len(s) /\ DOMAIN t = 1..Len(t) /\ Len(s) \in Nat /\ Len(t) \in Nat
  OBVIOUS
<1>3. f \in Injection(T, R)
  <2>1. ASSUME NEW k \in T PROVE k + n \in R /\ k \in Nat
    BY <1>2
  <2>2. f \in [T -> R]
    BY <2>1
  <2>3. \A j, k \in T : f[j] = f[k] => j = k
    BY <2>1
  <2> QED
    BY <2>2, <2>3 DEF Injection, IsInjective
<1>4. IsFiniteSet(R) /\ Cardinality(R) \in Nat /\ Cardinality(R) <= Cardinality(S)
  BY <1>1, FS_Subset, FS_CardinalityType
<1>5. Cardinality(T) <= Cardinality(R)
  BY <1>3, <1>4, FS_Injection
<1>6. n > 0 /\ s[1] = l => Cardinality(R) + 1 <= Cardinality(S)
  <2> SUFFICES ASSUME n > 0, s[1] = l PROVE Cardinality(R) + 1 <= Cardinality(S)
    OBVIOUS
  <2>1. 1 \in S /\ 1 \notin R
    BY <1>2
  <2>2. Cardinality(R) # Cardinality(S)
    BY <1>1, <2>1, FS_Subset
  <2> QED
    BY <1>1, <1>4, <2>2
<1> HIDE DEF S, T, R, f
<1> QED
  BY <1>1, <1>4, <1>5, <1>6

\* Receiving the oldest entry.
LEMMA TimesTail ==
  ASSUME NEW s \in Seq(Lines), s # <<>>, NEW l
  PROVE  /\ Times(Tail(s), l) <= Times(s, l)
         /\ Head(s) = l => Times(Tail(s), l) + 1 <= Times(s, l)
<1>1. /\ Tail(s) \in Seq(Lines) /\ Len(s) = Len(Tail(s)) + 1
      /\ Head(s) = s[1]
  OBVIOUS
<1>2. \A k \in 1..Len(Tail(s)) : Tail(s)[k] = s[k + 1]
  OBVIOUS
<1>3. PICK t \in Seq(Lines) : /\ t = Tail(s) /\ Len(s) = Len(t) + 1
                              /\ \A k \in 1..Len(t) : t[k] = s[k + 1]
  BY <1>1, <1>2
<1>4. \E n \in Nat : /\ n > 0 /\ Len(s) = Len(t) + n
                    /\ \A k \in 1..Len(t) : t[k] = s[k + n]
  BY <1>3
<1>5. Times(t, l) <= Times(s, l) /\ (s[1] = l => Times(t, l) + 1 <= Times(s, l))
  BY <1>4, TimesShifted
<1> QED
  BY <1>1, <1>3, <1>5

\* Trimming.
LEMMA TimesNewest ==
  ASSUME NEW s \in Seq(Lines), NEW l
  PROVE  Times(newest(s), l) <= Times(s, l)
<1>1. CASE Len(s) <= BacklogLimit
  <2>1. newest(s) = s /\ Times(s, l) \in Nat
    BY <1>1, TimesType DEF newest
  <2>2. Times(s, l) <= Times(s, l)
    BY <2>1
  <2> QED
    BY <2>1, <2>2
<1>2. CASE Len(s) > BacklogLimit
  <2>1. PICK n \in Nat : n = Len(s) - BacklogLimit
    BY <1>2, StreamAssumption
  <2>2. newest(s) = SubSeq(s, n + 1, Len(s))
    BY <1>2, <2>1, StreamAssumption DEF newest
  <2>3. /\ SubSeq(s, n + 1, Len(s)) \in Seq(Lines)
        /\ Len(s) = Len(SubSeq(s, n + 1, Len(s))) + n
        /\ \A k \in 1..Len(SubSeq(s, n + 1, Len(s))) : SubSeq(s, n + 1, Len(s))[k] = s[k + n]
    BY <1>2, <2>1, StreamAssumption
  <2>4. PICK t \in Seq(Lines) : /\ t = SubSeq(s, n + 1, Len(s)) /\ Len(s) = Len(t) + n
                                /\ \A k \in 1..Len(t) : t[k] = s[k + n]
    BY <2>3
  <2>5. Times(t, l) <= Times(s, l)
    BY <2>4, TimesShifted
  <2> QED
    BY <2>2, <2>4, <2>5
<1>3. Len(s) \in Nat /\ BacklogLimit \in Nat
  BY StreamAssumption
<1> QED
  BY <1>1, <1>2, <1>3

\* Sending a line.
LEMMA TimesAppend ==
  ASSUME NEW s \in Seq(Lines), NEW x \in Lines, NEW l
  PROVE  Times(Append(s, x), l) = Times(s, l) + (IF x = l THEN 1 ELSE 0)
<1> DEFINE S == {k \in DOMAIN s : s[k] = l}
<1>1. /\ DOMAIN Append(s, x) = 1..(Len(s) + 1) /\ DOMAIN s = 1..Len(s) /\ Len(s) \in Nat
      /\ \A k \in 1..Len(s) : Append(s, x)[k] = s[k]
      /\ Append(s, x)[Len(s) + 1] = x
  OBVIOUS
<1>2. {k \in DOMAIN Append(s, x) : Append(s, x)[k] = l} = IF x = l THEN S \cup {Len(s) + 1} ELSE S
  BY <1>1
<1>3. IsFiniteSet(S) /\ Cardinality(S) \in Nat /\ Cardinality(S) = Times(s, l)
  BY TimesType DEF Times
<1>4. Len(s) + 1 \notin S
  BY <1>1
<1>5. Cardinality(S \cup {Len(s) + 1}) = Cardinality(S) + 1
  BY <1>3, <1>4, FS_AddElement
<1>6. Times(Append(s, x), l) = Cardinality(IF x = l THEN S \cup {Len(s) + 1} ELSE S)
  BY <1>2 DEF Times
<1> HIDE DEF S
<1> QED
  BY <1>3, <1>5, <1>6

\* An empty queue.
LEMMA TimesEmpty == \A l : Times(<<>>, l) = 0
<1>1. \A l : {k \in DOMAIN <<>> : <<>>[k] = l} = {}
  OBVIOUS
<1> QED
  BY <1>1, FS_EmptySet DEF Times

-----------------------------------------------------------------------------
(* How many subsets a set has.                                             *)

Subsets(S) == Cardinality(SUBSET S)

\* There is at least one, and one more element doubles them.
LEMMA SubsetsGrow ==
  ASSUME NEW S, NEW T, IsFiniteSet(T), S \subseteq T
  PROVE  /\ Subsets(S) \in Nat /\ Subsets(T) \in Nat
         /\ 1 <= Subsets(S) /\ Subsets(S) <= Subsets(T)
         /\ \A c \in T \ S : 2 * Subsets(S) <= Subsets(T)
<1>1. IsFiniteSet(S)
  BY FS_Subset
<1>2. /\ IsFiniteSet(SUBSET S) /\ IsFiniteSet(SUBSET T)
      /\ Subsets(S) \in Nat /\ Subsets(T) \in Nat
  BY <1>1, FS_SUBSET, FS_CardinalityType DEF Subsets
<1>3. 1 <= Subsets(S)
  <2>1. SUBSET S # {}
    OBVIOUS
  <2>2. Subsets(S) # 0
    BY <1>2, <2>1, FS_EmptySet DEF Subsets
  <2> QED
    BY <1>2, <2>2
<1>4. Subsets(S) <= Subsets(T)
  <2>1. SUBSET S \in SUBSET (SUBSET T)
    OBVIOUS
  <2> QED
    BY <1>2, <2>1, FS_Subset DEF Subsets
<1>5. ASSUME NEW c \in T \ S PROVE 2 * Subsets(S) <= Subsets(T)
  <2> DEFINE A == SUBSET S
             B == {U \in SUBSET T : c \in U}
             f == [U \in A |-> U \cup {c}]
  <2>1. f \in Injection(A, B)
    <3>1. f \in [A -> B]
      OBVIOUS
    <3>2. \A U, V \in A : f[U] = f[V] => U = V
      OBVIOUS
    <3> QED
      BY <3>1, <3>2 DEF Injection, IsInjective
  <2>2. A \cap B = {} /\ A \cup B \in SUBSET (SUBSET T) /\ B \in SUBSET (SUBSET T)
    OBVIOUS
  <2>3. IsFiniteSet(B) /\ Cardinality(B) \in Nat /\ IsFiniteSet(A) /\ Cardinality(A) \in Nat
    BY <1>2, <2>2, FS_Subset, FS_CardinalityType
  <2>4. Cardinality(A) <= Cardinality(B)
    BY <2>1, <2>3, FS_Injection
  <2>5. Cardinality(A \cap B) = 0
    BY <2>2, FS_EmptySet
  <2>6. Cardinality(A \cup B) = Cardinality(A) + Cardinality(B) - Cardinality(A \cap B)
    BY <2>3, FS_Union
  <2>7. Cardinality(A \cup B) <= Subsets(T) /\ Cardinality(A) = Subsets(S)
    BY <1>2, <2>2, FS_Subset DEF Subsets
  <2>8. IsFiniteSet(A \cup B) /\ Cardinality(A \cup B) \in Nat
    BY <1>2, <2>2, FS_Subset, FS_CardinalityType
  <2> HIDE DEF A, B, f
  <2> QED
    BY <1>2, <2>3, <2>4, <2>5, <2>6, <2>7, <2>8
<1> QED
  BY <1>2, <1>3, <1>4, <1>5

-----------------------------------------------------------------------------
(* Where the copies of a line are.                                         *)

\* A line was published before it is in the backlog or on its way to a
\* process.
PublishedFirst ==
  \A l \in Lines :
    /\ Times(backlog, l) + (IF chunk[l] = "published" THEN 1 ELSE 0) <= published[l]
    /\ \A i \in Instances : Times(inbox[i], l) <= published[l]

\* The connections of a Set replay or are live.
MembersAtWork ==
  \A i \in Instances : \A c \in streams[i] : conn[c].pc \in {"asking", "answered", "live"}

\* The counts of the two queues are numbers.
LEMMA QueueCounts ==
  ASSUME TypeOK, NEW l \in Lines
  PROVE  /\ Times(backlog, l) \in Nat /\ published[l] \in Nat
         /\ \A i \in Instances : Times(inbox[i], l) \in Nat
<1>1. backlog \in Seq(Lines) /\ published[l] \in Nat /\ \A i \in Instances : inbox[i] \in Seq(Lines)
  BY DEF TypeOK, Copies
<1> QED
  BY <1>1, TimesType

\* Publishing comes before the push, and a redelivered chunk is published
\* again before it is pushed again.
LEMMA PublishedFirstChunk ==
  ASSUME TypeOK, PublishedFirst, NEW l \in Lines,
         ChunkStep(l) \/ ChunkFails(l) \/ RedeliverChunk(l)
  PROVE  PublishedFirst'
<1>1. ASSUME NEW x \in Lines
      PROVE  /\ Times(backlog, x) \in Nat /\ published[x] \in Nat
             /\ \A i \in Instances : Times(inbox[i], x) \in Nat
             /\ Times(backlog, x) + (IF chunk[x] = "published" THEN 1 ELSE 0) <= published[x]
             /\ \A i \in Instances : Times(inbox[i], x) <= published[x]
  BY QueueCounts DEF PublishedFirst
<1>2. ASSUME NEW x \in Lines
      PROVE  /\ Times(newest(Append(backlog, l)), x) \in Nat
             /\ Times(newest(Append(backlog, l)), x)
                  <= Times(backlog, x) + (IF l = x THEN 1 ELSE 0)
  <2>1. backlog \in Seq(Lines) /\ Append(backlog, l) \in Seq(Lines)
    BY DEF TypeOK
  <2>2. Times(Append(backlog, l), x) = Times(backlog, x) + (IF l = x THEN 1 ELSE 0)
    BY <2>1, TimesAppend
  <2>3. newest(Append(backlog, l)) \in Seq(Lines)
    BY <2>1, NewestType
  <2>4. Times(newest(Append(backlog, l)), x) \in Nat
    BY <2>3, TimesType
  <2>5. Times(newest(Append(backlog, l)), x) <= Times(Append(backlog, l), x)
    BY <2>1, TimesNewest
  <2> QED
    BY <2>2, <2>4, <2>5
<1>3. ASSUME NEW x \in Lines, NEW i \in Instances
      PROVE  Times(Append(inbox[i], l), x) = Times(inbox[i], x) + (IF l = x THEN 1 ELSE 0)
  <2>1. inbox[i] \in Seq(Lines)
    BY DEF TypeOK
  <2> QED
    BY <2>1, TimesAppend
<1>4. CASE PublishChunk(l)
  <2>1. ASSUME NEW x \in Lines
        PROVE  /\ published'[x] = published[x] + (IF l = x THEN 1 ELSE 0)
               /\ chunk'[x] = (IF l = x THEN "published" ELSE chunk[x])
               /\ chunk[l] = "queued" /\ backlog' = backlog
    BY <1>4 DEF PublishChunk, TypeOK, Copies
  <2>2. ASSUME NEW i \in Instances
        PROVE  inbox'[i] = inbox[i] \/ inbox'[i] = Append(inbox[i], l)
    BY <1>4 DEF PublishChunk
  <2>3. ASSUME NEW x \in Lines, NEW i \in Instances
        PROVE  Times(inbox'[i], x) <= published'[x]
    <3>1. CASE inbox'[i] = inbox[i]
      BY <1>1, <2>1, <3>1
    <3>2. CASE inbox'[i] = Append(inbox[i], l)
      BY <1>1, <1>3, <2>1, <3>2
    <3> QED
      BY <2>2, <3>1, <3>2
  <2>4. ASSUME NEW x \in Lines
        PROVE  Times(backlog', x) + (IF chunk'[x] = "published" THEN 1 ELSE 0) <= published'[x]
    BY <1>1, <2>1
  <2> QED
    BY <2>3, <2>4 DEF PublishedFirst, Times
<1>5. ASSUME published' = published, inbox' = inbox,
             \A x \in Lines : chunk'[x] = IF l = x THEN chunk'[l] ELSE chunk[x],
             chunk'[l] # "published",
             backlog' = backlog \/ (chunk[l] = "published" /\ backlog' = newest(Append(backlog, l)))
      PROVE  PublishedFirst'
  <2>1. ASSUME NEW x \in Lines
        PROVE  Times(backlog', x) + (IF chunk'[x] = "published" THEN 1 ELSE 0) <= published'[x]
    <3>1. CASE backlog' = backlog
      BY <1>1, <1>5, <3>1
    <3>2. CASE chunk[l] = "published" /\ backlog' = newest(Append(backlog, l))
      BY <1>1, <1>2, <1>5, <3>2
    <3> QED
      BY <1>5, <3>1, <3>2
  <2>2. ASSUME NEW x \in Lines, NEW i \in Instances
        PROVE  Times(inbox'[i], x) <= published'[x]
    BY <1>1, <1>5
  <2> QED
    BY <2>1, <2>2 DEF PublishedFirst, Times
<1>6. CASE PushBacklog(l)
  BY <1>5, <1>6 DEF PushBacklog, TypeOK
<1>7. CASE ChunkFails(l)
  BY <1>5, <1>7 DEF ChunkFails, TypeOK
<1>8. CASE RedeliverChunk(l)
  BY <1>5, <1>8 DEF RedeliverChunk, TypeOK
<1> QED
  BY <1>4, <1>6, <1>7, <1>8 DEF ChunkStep

\* Nothing else adds to a queue.
LEMMA QueuesStep ==
  ASSUME TypeOK, [Next]_vars
  PROVE  \/ \E l \in Lines : ChunkStep(l) \/ ChunkFails(l) \/ RedeliverChunk(l)
         \/ /\ UNCHANGED chunkVars
            /\ \A k \in Instances : \A l \in Lines : Times(inbox'[k], l) <= Times(inbox[k], l)
<1>1. ASSUME NEW i \in Instances, handleRedisMessage(i)
      PROVE  UNCHANGED chunkVars /\ \A k \in Instances : \A l \in Lines :
                Times(inbox'[k], l) <= Times(inbox[k], l)
  <2>1. /\ inbox[i] \in Seq(Lines) /\ inbox[i] # <<>> /\ UNCHANGED chunkVars
        /\ \A k \in Instances : inbox'[k] = IF k = i THEN Tail(inbox[i]) ELSE inbox[k]
    BY <1>1 DEF handleRedisMessage, TypeOK
  <2>2. \A l \in Lines : Times(Tail(inbox[i]), l) <= Times(inbox[i], l)
    BY <2>1, TimesTail
  <2>3. \A k \in Instances : \A l \in Lines : Times(inbox[k], l) <= Times(inbox[k], l)
    BY QueueCounts
  <2> QED
    BY <2>1, <2>2, <2>3
<1>2. ASSUME NEW i \in Instances, Restart(i)
      PROVE  UNCHANGED chunkVars /\ \A k \in Instances : \A l \in Lines :
                Times(inbox'[k], l) <= Times(inbox[k], l)
  <2>1. /\ UNCHANGED chunkVars
        /\ \A k \in Instances : inbox'[k] = IF k = i THEN <<>> ELSE inbox[k]
    BY <1>2 DEF Restart, TypeOK
  <2>2. \A l \in Lines : \A k \in Instances : Times(inbox[k], l) \in Nat
    BY QueueCounts
  <2> QED
    BY <2>1, <2>2, TimesEmpty
<1>3. ASSUME UNCHANGED <<chunkVars, inbox>>
      PROVE  UNCHANGED chunkVars /\ \A k \in Instances : \A l \in Lines :
                Times(inbox'[k], l) <= Times(inbox[k], l)
  <2>1. \A l \in Lines : \A k \in Instances : Times(inbox[k], l) \in Nat
    BY QueueCounts
  <2> QED
    BY <1>3, <2>1
<1>4. \/ \E l \in Lines : ChunkStep(l) \/ ChunkFails(l) \/ RedeliverChunk(l)
      \/ \E i \in Instances : handleRedisMessage(i) \/ Restart(i)
      \/ UNCHANGED <<chunkVars, inbox>>
  BY DEF Next, ReportStep, StreamStep, ConnectionStep, Environment, Failure, ReadJob,
         WriteRow, RedisSubscribes, RedisRefuses, ReadBacklog, Replay, ReplayFails,
         ReadStatus, Leave, LeaveEarly, CancelRow, WorkerReports, RedeliverReport,
         subscribeToJobLogs, sendJobCompletion, chunkVars, vars
<1> QED
  BY <1>1, <1>2, <1>3, <1>4

\* So a line stays published before it is anywhere.
LEMMA PublishedFirstStep ==
  ASSUME TypeOK, TypeOK', PublishedFirst, [Next]_vars
  PROVE  PublishedFirst'
<1>1. ASSUME UNCHANGED chunkVars,
             \A k \in Instances : \A l \in Lines : Times(inbox'[k], l) <= Times(inbox[k], l)
      PROVE  PublishedFirst'
  <2>1. \A k \in Instances : \A l \in Lines : Times(inbox'[k], l) \in Nat
    <3>1. \A k \in Instances : inbox'[k] \in Seq(Lines)
      BY DEF TypeOK
    <3> QED
      BY <3>1, TimesType
  <2>2. ASSUME NEW l \in Lines, NEW k \in Instances
        PROVE  Times(inbox'[k], l) <= published[l]
    <3>1. Times(inbox[k], l) <= published[l] /\ Times(inbox[k], l) \in Nat /\ published[l] \in Nat
      BY QueueCounts DEF PublishedFirst
    <3> QED
      BY <1>1, <2>1, <3>1
  <2> QED
    BY <1>1, <2>2 DEF PublishedFirst, chunkVars, Times
<1> QED
  BY <1>1, QueuesStep, PublishedFirstChunk

\* The steps that change a connection or a Set.
LEMMA ConnectionSteps ==
  ASSUME [Next]_vars
  PROVE  \/ \E c \in Conns : \/ subscribeToJobLogs(c) \/ Leave(c) \/ Replay(c) \/ ReplayFails(c)
                             \/ ReadStatus(c) \/ LeaveEarly(c) \/ ReadBacklog(c)
         \/ \E i \in Instances : handleRedisMessage(i) \/ Restart(i)
         \/ sendJobCompletion
         \/ UNCHANGED <<streams, conn>>
BY DEF Next, ChunkStep, ReportStep, StreamStep, ConnectionStep, Environment, Failure,
       PublishChunk, PushBacklog, ChunkFails, RedeliverChunk, ReadJob, WriteRow,
       RedisSubscribes, RedisRefuses, CancelRow, WorkerReports, RedeliverReport,
       streamVars, vars

\* A request goes from place to place; only a replay makes its connection
\* live, and only the death of its process ends one that joined a Set.
LEMMA PlacesStep ==
  ASSUME TypeOK, [Next]_vars, NEW d \in Conns
  PROVE  \/ conn'[d].pc = conn[d].pc
         \/ conn[d].pc \in {"away", "joining"}
         \/ conn'[d].pc = "answered" /\ conn[d].pc = "asking"
         \/ conn'[d].pc = "live" /\ replaying(conn[d])
         \/ conn'[d].pc = "finished" /\ Restart(Host[d])
<1>1. /\ conn \in [Conns -> Connection] /\ streams \in [Instances -> SUBSET Conns]
      /\ \A c \in Conns : conn[c] \in Connection /\ Host[c] \in Instances
  BY StreamAssumption DEF TypeOK
<1>2. ASSUME NEW c \in Conns, subscribeToJobLogs(c) \/ ReadStatus(c) \/ LeaveEarly(c)
      PROVE  conn'[d] = conn[d] \/ conn[d].pc \in {"away", "joining"}
  BY <1>1, <1>2 DEF subscribeToJobLogs, ReadStatus, LeaveEarly
<1>3. ASSUME NEW c \in Conns, Leave(c)
      PROVE  conn'[d].pc = conn[d].pc
  BY <1>1, <1>3, ClosedType DEF Leave
<1>4. ASSUME sendJobCompletion
      PROVE  conn'[d].pc = conn[d].pc
  BY <1>1, <1>4, ClosedType DEF sendJobCompletion, endAll
<1>5. ASSUME NEW c \in Conns, ReadBacklog(c)
      PROVE  conn'[d] = conn[d] \/ (conn'[d].pc = "answered" /\ conn[d].pc = "asking")
  <2> DEFINE k == [conn[c] EXCEPT !.pc = "answered", !.snapshot = inBacklog]
  <2>1. k.pc = "answered" /\ k = [k EXCEPT !.pc = "answered"]
    BY <1>1 DEF Connection
  <2>2. conn' = [conn EXCEPT ![c] = owe(k, {l \in Lines : inBacklog[l] > 0})]
    BY <1>5 DEF ReadBacklog
  <2>3. conn[c].pc = "asking"
    BY <1>5 DEF ReadBacklog
  <2> HIDE DEF k
  <2>4. owe(k, {l \in Lines : inBacklog[l] > 0}).pc = "answered"
    BY <2>1 DEF owe
  <2> QED
    BY <1>1, <2>2, <2>3, <2>4
<1>6. ASSUME NEW i \in Instances, handleRedisMessage(i)
      PROVE  conn'[d].pc = conn[d].pc
  <2>1. inbox[i] \in Seq(Lines) /\ inbox[i] # <<>>
    BY <1>6 DEF handleRedisMessage, TypeOK
  <2>2. one(Head(inbox[i])) \in Copies
    BY <2>1 DEF one, NoLines, Copies
  <2> DEFINE k == writeLiveMessage(streams[i], one(Head(inbox[i])))[d]
  <2>3. k = IF d \in streams[i] THEN take(conn[d], one(Head(inbox[i]))) ELSE conn[d]
    BY DEF writeLiveMessage
  <2>4. k.pc = conn[d].pc /\ k \in Connection
    BY <1>1, <2>2, <2>3, TakeType
  <2>5. conn'[d] = IF d \in streams[i] THEN owe(k, {Head(inbox[i])}) ELSE k
    BY <1>6 DEF handleRedisMessage
  <2> HIDE DEF k
  <2> QED
    BY <2>4, <2>5 DEF owe, Connection
<1>7. ASSUME NEW c \in Conns, Replay(c) \/ ReplayFails(c)
      PROVE  conn'[d].pc = conn[d].pc \/ (conn'[d].pc = "live" /\ replaying(conn[d]))
  <2>1. PICK k \in Connection : flush(c, k)
    <3>1. conn[c] \in Connection /\ conn[c].snapshot \in Copies
      BY <1>1 DEF Connection
    <3>2. write(conn[c], conn[c].snapshot) \in Connection
      BY <3>1, WriteType
    <3>3. withoutHistory(conn[c]) \in Connection
      BY <3>1, NoLinesType DEF withoutHistory, Connection
    <3> QED
      BY <1>7, <3>2, <3>3 DEF Replay, ReplayFails
  <2>2. k.pending \in Copies
    BY DEF Connection
  <2> DEFINE n == writeLiveMessage(siblings(c), k.pending)
  <2>3. n[d] = IF d \in siblings(c) THEN take(conn[d], k.pending) ELSE conn[d]
    BY DEF writeLiveMessage
  <2>4. n[d].pc = conn[d].pc
    BY <1>1, <2>2, <2>3, TakeType
  <2>5. write(live(k), k.pending).pc = "live" /\ live(k).pc = "live"
    <3>1. live(k) \in Connection /\ live(k).pc = "live"
      BY NoLinesType DEF live, Connection
    <3> QED
      BY <2>2, <3>1, WriteType DEF Connection
  <2>6. conn' = [n EXCEPT ![c] = IF c \in siblings(c) THEN write(live(k), k.pending) ELSE live(k)]
        /\ DOMAIN n = Conns
    BY <2>1 DEF flush, writeLiveMessage
  <2>7. replaying(conn[c])
    BY <1>7 DEF Replay, ReplayFails, replaying
  <2> HIDE DEF n
  <2> QED
    BY <2>4, <2>5, <2>6, <2>7
<1>8. ASSUME NEW i \in Instances, Restart(i)
      PROVE  conn'[d] = conn[d] \/ (conn'[d].pc = "finished" /\ Host[d] = i)
  <2>1. [closed(NoConn) EXCEPT !.pc = "finished"].pc = "finished"
    <3>1. NoConn \in Connection
      BY NoLinesType DEF NoConn, Connection
    <3>2. closed(NoConn) \in Connection
      BY <3>1, ClosedType
    <3> QED
      BY <3>2 DEF Connection
  <2> QED
    BY <1>8, <2>1 DEF Restart
<1>9. \/ \E c \in Conns : \/ subscribeToJobLogs(c) \/ Leave(c) \/ Replay(c) \/ ReplayFails(c)
                          \/ ReadStatus(c) \/ LeaveEarly(c) \/ ReadBacklog(c)
      \/ \E i \in Instances : handleRedisMessage(i) \/ Restart(i)
      \/ sendJobCompletion
      \/ UNCHANGED <<streams, conn>>
  BY ConnectionSteps
<1> QED
  BY <1>2, <1>3, <1>4, <1>5, <1>6, <1>7, <1>8, <1>9

\* A connection joins a Set when it begins its replay, and a process that dies
\* loses its Sets.
LEMMA MembersAtWorkStep ==
  ASSUME TypeOK, StreamsLocal, MembersAtWork, [Next]_vars
  PROVE  MembersAtWork'
<1>1. /\ conn \in [Conns -> Connection] /\ streams \in [Instances -> SUBSET Conns]
      /\ \A c \in Conns : conn[c] \in Connection /\ Host[c] \in Instances
  BY StreamAssumption DEF TypeOK
<1>2. ASSUME NEW i \in Instances, NEW gone, unsubscribe(i, gone)
      PROVE  \A k \in Instances : streams'[k] \subseteq streams[k]
  BY <1>1, <1>2 DEF unsubscribe
<1>3. ASSUME NEW i \in Instances, NEW d \in streams'[i]
      PROVE  conn'[d].pc = "asking" \/ (d \in streams[i] /\ ~Restart(i))
  <2>1. ASSUME NEW c \in Conns, subscribeToJobLogs(c)
        PROVE  d \in streams[i] \/ (d = c /\ conn'[d].pc = "asking")
    BY <1>1, <1>3, <2>1 DEF subscribeToJobLogs, Connection
  <2>2. Restart(i) => streams'[i] = {}
    BY <1>1 DEF Restart
  <2>3. ASSUME NEW k \in Instances, Restart(k) PROVE k = i \/ streams'[i] = streams[i]
    BY <1>1, <2>3 DEF Restart
  <2>4. sendJobCompletion \/ (\E c \in Conns : Leave(c)) => d \in streams[i]
    BY <1>1, <1>2, <1>3 DEF sendJobCompletion, Leave, TypeOK, Report
  <2>5. \/ \E c \in Conns : subscribeToJobLogs(c) \/ Leave(c)
        \/ \E k \in Instances : Restart(k)
        \/ sendJobCompletion
        \/ streams' = streams
    BY ConnectionSteps DEF Replay, ReplayFails, ReadStatus, LeaveEarly, ReadBacklog,
                           handleRedisMessage, streamVars
  <2> QED
    BY <1>3, <2>1, <2>2, <2>3, <2>4, <2>5
<1>4. ASSUME NEW i \in Instances, NEW d \in streams'[i]
      PROVE  conn'[d].pc \in {"asking", "answered", "live"}
  <2>1. CASE conn'[d].pc = "asking"
    BY <2>1
  <2>2. CASE d \in streams[i] /\ ~Restart(i)
    <3>1. d \in Conns /\ Host[d] = i /\ conn[d].pc \in {"asking", "answered", "live"}
      BY <1>1, <2>2 DEF StreamsLocal, MembersAtWork
    <3> QED
      BY <2>2, <3>1, PlacesStep
  <2> QED
    BY <1>3, <1>4, <2>1, <2>2
<1> QED
  BY <1>4 DEF MembersAtWork

-----------------------------------------------------------------------------
(* How many copies of a line a connection can have.                        *)

\* The connections whose replay is over, or that never had one.
Past == {c \in Conns : conn[c].pc \in {"live", "finished"}}

Delivered(i, l) == published[l] - Times(inbox[i], l)

\* Of a line published p times and delivered d times, with w the number of
\* sets of replays that are over.
Bounded(k, l, p, d, w) ==
  /\ k.snapshot[l] <= p
  /\ k.pending[l] <= d * w
  /\ k.pc # "live" => k.written[l] = 0
  /\ k.pc = "live" => k.written[l] <= p + d * (w - 1)

CopiesWithinBounds ==
  \A c \in Conns, l \in Lines :
    Bounded(conn[c], l, published[l], Delivered(Host[c], l), Subsets(Past))

\* Products of larger numbers are larger.
LEMMA Products ==
  ASSUME NEW a \in Nat, NEW b \in Nat, NEW c \in Nat, NEW d \in Nat, a <= c, b <= d
  PROVE  a * b \in Nat /\ c * d \in Nat /\ a * b <= c * d
<1>1. PICK e \in Nat, f \in Nat : c = a + e /\ d = b + f
  <2>1. c - a \in Nat /\ d - b \in Nat /\ c = a + (c - a) /\ d = b + (d - b)
    OBVIOUS
  <2> QED
    BY <2>1
<1>2. a * b \in Nat /\ a * f \in Nat /\ e * b \in Nat /\ e * f \in Nat
  OBVIOUS
<1>3. (a + e) * (b + f) = a * b + a * f + e * b + e * f
  OBVIOUS
<1> QED
  BY <1>1, <1>2, <1>3

\* A connection stays within its bounds when it gets nothing.
LEMMA BoundedQuiet ==
  ASSUME NEW k \in Connection, NEW n \in Connection, NEW l \in Lines,
         NEW p \in Nat, NEW d \in Nat, NEW w \in Nat \ {0},
         NEW q \in Nat, NEW e \in Nat, NEW v \in Nat \ {0},
         p <= q, d <= e, w <= v,
         Bounded(k, l, p, d, w),
         n.snapshot[l] <= q, n.pending[l] \in {0, k.pending[l]},
         n.written[l] \in {0, k.written[l]},
         n.pc = "live" => k.pc = "live",
         n.pc # "live" => k.pc # "live" \/ n.written[l] = 0
  PROVE  Bounded(n, l, q, e, v)
<1>1. d * w \in Nat /\ e * v \in Nat /\ d * w <= e * v
  BY Products
<1>2. d * (w - 1) \in Nat /\ e * (v - 1) \in Nat /\ d * (w - 1) <= e * (v - 1)
  <2>1. w - 1 \in Nat /\ v - 1 \in Nat /\ w - 1 <= v - 1
    OBVIOUS
  <2> QED
    BY <2>1, Products
<1>3. k.pending[l] \in Nat /\ k.written[l] \in Nat /\ n.pending[l] \in Nat /\ n.written[l] \in Nat
  BY DEF Connection, Copies
<1>4. PICK dw \in Nat, ev \in Nat : dw = d * w /\ ev = e * v /\ dw <= ev
  BY <1>1
<1>5. PICK dx \in Nat, ex \in Nat : dx = d * (w - 1) /\ ex = e * (v - 1) /\ dx <= ex
  BY <1>2
<1>6. /\ k.pending[l] <= dw /\ (k.pc # "live" => k.written[l] = 0)
      /\ (k.pc = "live" => k.written[l] <= p + dx)
  BY <1>4, <1>5 DEF Bounded
<1>7. n.pending[l] <= ev
  BY <1>3, <1>4, <1>6
<1>8. n.pc # "live" => n.written[l] = 0
  BY <1>6
<1>9. n.pc = "live" => n.written[l] <= q + ex
  BY <1>3, <1>5, <1>6
<1> QED
  BY <1>4, <1>5, <1>7, <1>8, <1>9 DEF Bounded

\* A member of a Set stays within its bounds when it gets lines and the bounds
\* grow by as many.
LEMMA BoundedTake ==
  ASSUME NEW k \in Connection, NEW lines \in Copies, NEW l \in Lines,
         NEW p \in Nat, NEW d \in Nat, NEW w \in Nat \ {0},
         NEW e \in Nat, NEW v \in Nat \ {0},
         Bounded(k, l, p, d, w),
         k.pc \in {"asking", "answered", "live"},
         d * w + lines[l] <= e * v,
         k.pc = "live" => d * (w - 1) + lines[l] <= e * (v - 1)
  PROVE  Bounded(take(k, lines), l, p, e, v)
<1>1. PICK dw \in Nat, ev \in Nat : dw = d * w /\ ev = e * v /\ dw + lines[l] <= ev
  BY Products
<1>2. PICK dx \in Nat, ex \in Nat :
        /\ dx = d * (w - 1) /\ ex = e * (v - 1)
        /\ k.pc = "live" => dx + lines[l] <= ex
  <2>1. w - 1 \in Nat /\ v - 1 \in Nat
    OBVIOUS
  <2>2. d * (w - 1) \in Nat /\ e * (v - 1) \in Nat
    BY <2>1, Products
  <2> QED
    BY <2>2
<1>3. k.pending[l] \in Nat /\ k.written[l] \in Nat /\ lines[l] \in Nat /\ k.snapshot[l] \in Nat
  BY DEF Connection, Copies
<1>4. /\ k.snapshot[l] <= p /\ k.pending[l] <= dw
      /\ (k.pc # "live" => k.written[l] = 0)
      /\ (k.pc = "live" => k.written[l] <= p + dx)
  BY <1>1, <1>2 DEF Bounded
<1>5. /\ Plus(k.pending, lines)[l] = k.pending[l] + lines[l]
      /\ Plus(k.written, lines)[l] = k.written[l] + lines[l]
  BY DEF Plus
<1> DEFINE t == take(k, lines)
<1>6. CASE replaying(k)
  <2>1. /\ t.snapshot = k.snapshot /\ t.pending = Plus(k.pending, lines)
        /\ t.written = k.written /\ t.pc = k.pc
    BY <1>6 DEF take, Connection
  <2>2. k.pc # "live"
    BY <1>6 DEF replaying
  <2> HIDE DEF t
  <2>3. t.snapshot[l] <= p /\ t.pending[l] <= ev /\ t.written[l] = 0 /\ t.pc # "live"
    BY <1>1, <1>3, <1>4, <1>5, <2>1, <2>2
  <2>4. Bounded(t, l, p, e, v)
    BY <1>1, <2>3 DEF Bounded
  <2> QED
    BY <2>4 DEF t
<1>7. CASE ~replaying(k)
  <2>1. k.pc = "live"
    BY <1>7 DEF replaying
  <2>2. /\ t.snapshot = k.snapshot /\ t.pending = k.pending /\ t.pc = k.pc
        /\ t.written = IF k.open THEN Plus(k.written, lines) ELSE k.written
    BY <1>7 DEF take, write, Connection
  <2> HIDE DEF t
  <2>3. /\ t.snapshot[l] <= p /\ t.pending[l] <= ev /\ t.written[l] <= p + ex
    BY <1>1, <1>2, <1>3, <1>4, <1>5, <2>1, <2>2
  <2>4. Bounded(t, l, p, e, v)
    BY <1>1, <1>2, <2>1, <2>2, <2>3 DEF Bounded
  <2> QED
    BY <2>4 DEF t
<1> QED
  BY <1>6, <1>7

\* The end of a replay: what the connection wrote from the history, and what
\* it held back.
LEMMA BoundedLive ==
  ASSUME NEW k \in Connection, NEW l \in Lines,
         NEW p \in Nat, NEW d \in Nat, NEW w \in Nat \ {0}, NEW v \in Nat,
         2 * w <= v, k.written[l] <= p, k.pending[l] <= d * w
  PROVE  /\ Bounded(live(k), l, p, d, v)
         /\ Bounded(write(live(k), k.pending), l, p, d, v)
<1>1. PICK dw \in Nat : dw = d * w
  BY Products
<1>2. PICK dv \in Nat, dx \in Nat : dv = d * v /\ dx = d * (v - 1) /\ dw <= dx
  <2>1. v - 1 \in Nat /\ w <= v - 1
    OBVIOUS
  <2>2. d * v \in Nat /\ d * (v - 1) \in Nat /\ d * w <= d * (v - 1)
    BY <2>1, Products
  <2> QED
    BY <1>1, <2>2
<1>3. k.pending[l] \in Nat /\ k.written[l] \in Nat
  BY DEF Connection, Copies
<1>4. Plus(k.written, k.pending)[l] = k.written[l] + k.pending[l]
  BY DEF Plus
<1> DEFINE t == live(k)
           u == write(t, k.pending)
<1>5. /\ t \in Connection /\ t.pc = "live" /\ t.written = k.written
      /\ t.pending[l] = 0 /\ t.snapshot[l] = 0
  <2>1. NoLines \in Copies /\ NoLines[l] = 0
    BY DEF NoLines, Copies
  <2> QED
    BY <2>1 DEF live, Connection
<1> HIDE DEF t
<1>6. /\ u.pc = "live" /\ u.pending[l] = 0 /\ u.snapshot[l] = 0
      /\ u.written = k.written \/ u.written = Plus(k.written, k.pending)
  BY <1>5 DEF write, Connection
<1> HIDE DEF u
<1>7. t.written[l] <= p + dx /\ u.written[l] <= p + dx
  BY <1>1, <1>2, <1>3, <1>4, <1>5, <1>6
<1>8. Bounded(t, l, p, d, v) /\ Bounded(u, l, p, d, v)
  BY <1>2, <1>5, <1>6, <1>7 DEF Bounded
<1> QED
  BY <1>8 DEF t, u

\* The numbers the bounds are made of.
LEMMA NumbersType ==
  ASSUME TypeOK, PublishedFirst, NEW i \in Instances, NEW l \in Lines
  PROVE  /\ published[l] \in Nat
         /\ Delivered(i, l) \in Nat /\ Delivered(i, l) <= published[l]
         /\ Subsets(Past) \in Nat \ {0} /\ Past \subseteq Conns
<1>1. /\ published[l] \in Nat /\ Times(inbox[i], l) \in Nat
      /\ Times(inbox[i], l) <= published[l]
  BY QueueCounts DEF PublishedFirst
<1>2. Subsets(Past) \in Nat /\ 1 <= Subsets(Past)
  BY StreamAssumption, SubsetsGrow DEF Past
<1> QED
  BY <1>1, <1>2 DEF Delivered, Past

\* No step takes back a copy, or begins a replay again.
LEMMA NumbersGrow ==
  ASSUME TypeOK, TypeOK', PublishedFirst, PublishedFirst', [Next]_vars,
         NEW i \in Instances, NEW l \in Lines
  PROVE  /\ published'[l] \in Nat /\ published[l] <= published'[l]
         /\ Delivered(i, l)' \in Nat /\ Delivered(i, l) <= Delivered(i, l)'
         /\ Subsets(Past)' \in Nat \ {0} /\ Subsets(Past) <= Subsets(Past)'
<1>1. /\ published[l] \in Nat /\ Times(inbox[i], l) \in Nat
      /\ Delivered(i, l) = published[l] - Times(inbox[i], l)
  BY QueueCounts DEF Delivered
<1>2. /\ published'[l] \in Nat /\ Times(inbox'[i], l) \in Nat
      /\ Times(inbox'[i], l) <= published'[l]
      /\ Delivered(i, l)' = published'[l] - Times(inbox'[i], l)
  <2>1. inbox'[i] \in Seq(Lines) /\ published'[l] \in Nat
    BY DEF TypeOK, Copies
  <2> QED
    BY <2>1, TimesType DEF PublishedFirst, Delivered, Times
<1>3. \/ published'[l] = published[l] /\ Times(inbox'[i], l) <= Times(inbox[i], l)
      \/ published'[l] = published[l] + 1 /\ Times(inbox'[i], l) <= Times(inbox[i], l) + 1
  <2>1. ASSUME NEW x \in Lines, ChunkFails(x) \/ RedeliverChunk(x) \/ PushBacklog(x)
        PROVE  published' = published /\ inbox' = inbox
    BY <2>1 DEF ChunkFails, RedeliverChunk, PushBacklog
  <2>2. ASSUME NEW x \in Lines, PublishChunk(x)
        PROVE  \/ published'[l] = published[l] /\ Times(inbox'[i], l) <= Times(inbox[i], l)
               \/ published'[l] = published[l] + 1 /\ Times(inbox'[i], l) <= Times(inbox[i], l) + 1
    <3>1. published'[l] = published[l] + (IF x = l THEN 1 ELSE 0)
      BY <2>2 DEF PublishChunk, TypeOK, Copies
    <3>2. inbox'[i] = inbox[i] \/ inbox'[i] = Append(inbox[i], x)
      BY <2>2 DEF PublishChunk
    <3>3. Times(Append(inbox[i], x), l) = Times(inbox[i], l) + (IF x = l THEN 1 ELSE 0)
      <4>1. inbox[i] \in Seq(Lines)
        BY DEF TypeOK
      <4> QED
        BY <4>1, TimesAppend
    <3>4. \/ Times(inbox'[i], l) = Times(inbox[i], l)
          \/ Times(inbox'[i], l) = Times(inbox[i], l) + (IF x = l THEN 1 ELSE 0)
      BY <3>2, <3>3
    <3>5. CASE x = l
      BY <1>1, <3>1, <3>4, <3>5
    <3>6. CASE x # l
      BY <1>1, <3>1, <3>4, <3>6
    <3> QED
      BY <3>5, <3>6
  <2>3. CASE UNCHANGED chunkVars /\ Times(inbox'[i], l) <= Times(inbox[i], l)
    BY <2>3 DEF chunkVars
  <2> QED
    BY <1>1, <2>1, <2>2, <2>3, QueuesStep DEF ChunkStep
<1>4. Delivered(i, l)' \in Nat /\ Delivered(i, l) <= Delivered(i, l)'
  BY <1>1, <1>2, <1>3
<1>5. Past \subseteq Past' /\ Past' \subseteq Conns
  BY PlacesStep DEF Past, replaying
<1>6. Subsets(Past)' \in Nat \ {0} /\ Subsets(Past) <= Subsets(Past)'
  <2>1. IsFiniteSet(Past') /\ IsFiniteSet(Conns)
    BY <1>5, StreamAssumption, FS_Subset
  <2>2. /\ Subsets(Past') \in Nat /\ Subsets(Past) \in Nat
        /\ 1 <= Subsets(Past) /\ Subsets(Past) <= Subsets(Past')
    BY <1>5, <2>1, SubsetsGrow
  <2>3. Subsets(Past)' = Subsets(Past')
    BY DEF Subsets
  <2> QED
    BY <2>2, <2>3
<1> QED
  BY <1>1, <1>2, <1>3, <1>4, <1>6

\* A step that gives no connection a line, and puts no more in a snapshot than
\* was published.
LEMMA QuietWithinBounds ==
  ASSUME TypeOK, TypeOK', PublishedFirst, PublishedFirst', CopiesWithinBounds, [Next]_vars,
         \A c \in Conns, l \in Lines :
           /\ conn'[c].snapshot[l] <= published'[l]
           /\ conn'[c].pending[l] \in {0, conn[c].pending[l]}
           /\ conn'[c].written[l] \in {0, conn[c].written[l]}
           /\ conn'[c].pc = "live" => conn[c].pc = "live"
           /\ conn'[c].pc # "live" => conn[c].pc # "live" \/ conn'[c].written[l] = 0
  PROVE  CopiesWithinBounds'
<1> SUFFICES ASSUME NEW c \in Conns, NEW l \in Lines
             PROVE  Bounded(conn'[c], l, published'[l], Delivered(Host[c], l)', Subsets(Past)')
  BY DEF CopiesWithinBounds
<1>1. Host[c] \in Instances /\ conn[c] \in Connection /\ conn'[c] \in Connection
  BY StreamAssumption DEF TypeOK
<1>2. Bounded(conn[c], l, published[l], Delivered(Host[c], l), Subsets(Past))
  BY DEF CopiesWithinBounds
<1>3. PICK p \in Nat, d \in Nat, w \in Nat \ {0} :
        p = published[l] /\ d = Delivered(Host[c], l) /\ w = Subsets(Past)
  BY <1>1, NumbersType
<1>4. PICK q \in Nat, e \in Nat, v \in Nat \ {0} :
        /\ q = published'[l] /\ e = Delivered(Host[c], l)' /\ v = Subsets(Past)'
        /\ p <= q /\ d <= e /\ w <= v
  BY <1>1, <1>3, NumbersGrow
<1>5. Bounded(conn[c], l, p, d, w)
  BY <1>2, <1>3
<1>6. Bounded(conn'[c], l, q, e, v)
  BY <1>1, <1>4, <1>5, BoundedQuiet
<1> QED
  BY <1>4, <1>6

\* What a connection is owed does not count.
LEMMA BoundedOwe ==
  ASSUME NEW k \in Connection, NEW lines, NEW l, NEW p, NEW d, NEW w
  PROVE  Bounded(owe(k, lines), l, p, d, w) <=> Bounded(k, l, p, d, w)
<1> DEFINE t == owe(k, lines)
<1>1. /\ t.pc = k.pc /\ t.snapshot = k.snapshot
      /\ t.pending = k.pending /\ t.written = k.written
  BY DEF owe, Connection
<1> HIDE DEF t
<1>2. Bounded(t, l, p, d, w) <=> Bounded(k, l, p, d, w)
  BY <1>1 DEF Bounded
<1> QED
  BY <1>2 DEF t

\* A delivered line is one copy more for each replay at work and each live
\* connection, and one more line delivered.
LEMMA DeliverWithinBounds ==
  ASSUME TypeOK, TypeOK', StreamsLocal, MembersAtWork, PublishedFirst, PublishedFirst',
         CopiesWithinBounds, NEW i \in Instances, handleRedisMessage(i), [Next]_vars
  PROVE  CopiesWithinBounds'
<1> SUFFICES ASSUME NEW c \in Conns, NEW l \in Lines
             PROVE  Bounded(conn'[c], l, published'[l], Delivered(Host[c], l)', Subsets(Past)')
  BY DEF CopiesWithinBounds
<1>1. Host[c] \in Instances /\ conn[c] \in Connection /\ conn'[c] \in Connection
  BY StreamAssumption DEF TypeOK
<1>2. Bounded(conn[c], l, published[l], Delivered(Host[c], l), Subsets(Past))
  BY DEF CopiesWithinBounds
<1>3. PICK p \in Nat, d \in Nat, w \in Nat \ {0} :
        p = published[l] /\ d = Delivered(Host[c], l) /\ w = Subsets(Past)
  BY <1>1, NumbersType
<1>4. PICK e \in Nat, v \in Nat \ {0} :
        /\ e = Delivered(Host[c], l)' /\ v = Subsets(Past)'
        /\ d <= e /\ w <= v
  BY <1>1, <1>3, NumbersGrow
<1>5. Bounded(conn[c], l, p, d, w)
  BY <1>2, <1>3
<1>6. published' = published /\ inbox' = [inbox EXCEPT ![i] = Tail(@)]
  BY DEF handleRedisMessage, chunkVars
<1>7. PICK x \in Lines : x = Head(inbox[i]) /\ inbox[i] # <<>> /\ inbox[i] \in Seq(Lines)
  BY DEF handleRedisMessage, TypeOK
<1> DEFINE n == writeLiveMessage(streams[i], one(x))[c]
<1>8. /\ conn'[c] = IF c \in streams[i] THEN owe(n, {x}) ELSE n
      /\ n = IF c \in streams[i] THEN take(conn[c], one(x)) ELSE conn[c]
  BY <1>7 DEF handleRedisMessage, writeLiveMessage
<1>9. one(x) \in Copies /\ one(x)[l] = IF x = l THEN 1 ELSE 0
  BY DEF one, NoLines, Copies
<1> HIDE DEF n
<1>10. CASE c \notin streams[i]
  <2>1. conn'[c] = conn[c]
    BY <1>8, <1>10
  <2>2. Bounded(conn'[c], l, p, e, v)
    <3>1. conn[c].snapshot[l] <= p
      BY <1>5 DEF Bounded
    <3>2. (conn[c].pc # "live" => conn[c].written[l] = 0)
      BY <1>5 DEF Bounded
    <3> QED
      BY <1>1, <1>4, <1>5, <2>1, <3>1, <3>2, BoundedQuiet
  <2> QED
    BY <1>3, <1>4, <1>6, <2>2
<1>11. CASE c \in streams[i]
  <2>1. Host[c] = i /\ conn[c].pc \in {"asking", "answered", "live"}
    BY <1>11 DEF StreamsLocal, MembersAtWork
  <2>2. PICK lines \in Copies : lines = one(x) /\ lines[l] \in {0, 1} /\ (x # l => lines[l] = 0)
    BY <1>9
  <2>3. d + lines[l] <= e
    <3>1. /\ Times(Tail(inbox[i]), l) <= Times(inbox[i], l)
          /\ x = l => Times(Tail(inbox[i]), l) + 1 <= Times(inbox[i], l)
          /\ Times(Tail(inbox[i]), l) \in Nat /\ Times(inbox[i], l) \in Nat
      <4>1. Tail(inbox[i]) \in Seq(Lines)
        BY <1>7
      <4> QED
        BY <1>7, <4>1, TimesTail, TimesType
    <3>2. d = p - Times(inbox[i], l)
      BY <1>3, <2>1 DEF Delivered
    <3>3. e = p - Times(Tail(inbox[i]), l)
      <4>1. inbox'[i] = Tail(inbox[i])
        BY <1>6 DEF TypeOK
      <4>2. e = published'[l] - Times(inbox'[i], l)
        BY <1>4, <2>1 DEF Delivered, Times
      <4> QED
        BY <1>3, <1>6, <4>1, <4>2
    <3> QED
      BY <2>2, <3>1, <3>2, <3>3
  <2>4. ASSUME NEW a \in Nat, NEW b \in Nat, 1 <= a, a <= b
        PROVE  d * a + lines[l] <= e * b
    <3>1. CASE lines[l] = 0
      <4>1. d * a \in Nat /\ d * a <= e * b
        BY <1>4, <2>4, Products
      <4> QED
        BY <3>1, <4>1
    <3>2. CASE lines[l] = 1
      <4>1. (d + 1) * a \in Nat /\ (d + 1) * a <= e * b /\ e * b \in Nat
        BY <2>3, <2>4, <3>2, Products
      <4>2. (d + 1) * a = d * a + a /\ d * a \in Nat
        OBVIOUS
      <4> QED
        BY <2>4, <3>2, <4>1, <4>2
    <3> QED
      BY <2>2, <3>1, <3>2
  <2>5. d * w + lines[l] <= e * v
    BY <1>4, <2>4
  <2>6. conn[c].pc = "live" => d * (w - 1) + lines[l] <= e * (v - 1)
    <3> SUFFICES ASSUME conn[c].pc = "live" PROVE d * (w - 1) + lines[l] <= e * (v - 1)
      OBVIOUS
    <3>1. c \in Past /\ IsFiniteSet(Past)
      BY StreamAssumption, FS_Subset DEF Past
    <3>2. 1 <= Subsets({}) /\ 2 * Subsets({}) <= Subsets(Past) /\ Subsets({}) \in Nat
      BY <3>1, SubsetsGrow
    <3>3. 2 <= w
      BY <1>3, <3>2
    <3>4. w - 1 \in Nat /\ v - 1 \in Nat /\ 1 <= w - 1 /\ w - 1 <= v - 1
      BY <1>4, <3>3
    <3> QED
      BY <2>4, <3>4
  <2>7. Bounded(take(conn[c], lines), l, p, e, v)
    BY <1>1, <1>5, <2>1, <2>5, <2>6, BoundedTake
  <2>8. take(conn[c], lines) \in Connection
    BY <1>1, TakeType
  <2>9. Bounded(conn'[c], l, p, e, v)
    BY <1>8, <1>11, <2>2, <2>7, <2>8, BoundedOwe
  <2> QED
    BY <1>3, <1>4, <1>6, <2>9
<1> QED
  BY <1>10, <1>11

\* When a replay ends, what it held back is written to its Set, and one
\* connection more is past its replay.
LEMMA FlushWithinBounds ==
  ASSUME TypeOK, TypeOK', StreamsLocal, MembersAtWork, PublishedFirst, PublishedFirst',
         CopiesWithinBounds, [Next]_vars,
         NEW c \in Conns, NEW k \in Connection, replaying(conn[c]),
         k.pending = conn[c].pending, \A l \in Lines : k.written[l] <= published[l],
         flush(c, k), UNCHANGED <<published, inbox>>
  PROVE  CopiesWithinBounds'
<1> SUFFICES ASSUME NEW d \in Conns, NEW l \in Lines
             PROVE  Bounded(conn'[d], l, published'[l], Delivered(Host[d], l)', Subsets(Past)')
  BY DEF CopiesWithinBounds
<1>1. /\ Host[d] \in Instances /\ conn[d] \in Connection /\ conn'[d] \in Connection
      /\ conn[c] \in Connection /\ k.pending \in Copies
  BY StreamAssumption DEF TypeOK, Connection
<1>2. /\ Bounded(conn[d], l, published[l], Delivered(Host[d], l), Subsets(Past))
      /\ Bounded(conn[c], l, published[l], Delivered(Host[c], l), Subsets(Past))
  BY DEF CopiesWithinBounds
<1>3. PICK p \in Nat, n \in Nat, w \in Nat \ {0} :
        p = published[l] /\ n = Delivered(Host[d], l) /\ w = Subsets(Past)
  BY <1>1, NumbersType
<1>4. published'[l] = p /\ Delivered(Host[d], l)' = n
  BY <1>3 DEF Delivered, Times
<1> DEFINE m == writeLiveMessage(siblings(c), k.pending)
           own == IF c \in siblings(c) THEN write(live(k), k.pending) ELSE live(k)
<1>5. /\ conn' = [m EXCEPT ![c] = own] /\ DOMAIN m = Conns
      /\ m[d] = IF d \in siblings(c) THEN take(conn[d], k.pending) ELSE conn[d]
  BY DEF flush, writeLiveMessage
<1>6. own.pc = "live"
  <2>1. live(k) \in Connection /\ live(k).pc = "live"
    BY NoLinesType DEF live, Connection
  <2> QED
    BY <1>1, <2>1, WriteType DEF Connection
<1>7. PICK v \in Nat : v = Subsets(Past)' /\ 2 * w <= v
  <2>1. Past \subseteq Past' /\ Past' \subseteq Conns
    BY PlacesStep DEF Past, replaying
  <2>2. c \in Past' \ Past
    BY <1>5, <1>6 DEF Past, replaying
  <2>3. IsFiniteSet(Past')
    BY <2>1, StreamAssumption, FS_Subset
  <2>4. Subsets(Past') \in Nat /\ 2 * Subsets(Past) <= Subsets(Past')
    BY <2>1, <2>2, <2>3, SubsetsGrow
  <2>5. Subsets(Past)' = Subsets(Past')
    BY DEF Subsets
  <2> QED
    BY <1>3, <2>4, <2>5
<1> HIDE DEF m
<1>8. CASE d = c
  <2>1. k.written[l] <= p /\ k.pending[l] <= n * w
    BY <1>2, <1>3, <1>8 DEF Bounded
  <2>2. Bounded(live(k), l, p, n, v) /\ Bounded(write(live(k), k.pending), l, p, n, v)
    BY <1>7, <2>1, BoundedLive
  <2>3. conn'[c] = own
    BY <1>5
  <2>4. Bounded(own, l, p, n, v)
    BY <2>2
  <2> QED
    BY <1>4, <1>7, <1>8, <2>3, <2>4
<1>9. ASSUME d # c
      PROVE  conn'[d] = IF d \in siblings(c) THEN take(conn[d], k.pending) ELSE conn[d]
  BY <1>5, <1>9
<1>10. Bounded(conn[d], l, p, n, w) /\ v \in Nat \ {0} /\ w <= v
  BY <1>2, <1>3, <1>7
<1>11. CASE d # c /\ d \notin siblings(c)
  <2>1. conn'[d] = conn[d]
    BY <1>9, <1>11
  <2>2. /\ conn[d].snapshot[l] <= p
        /\ conn[d].pc # "live" => conn[d].written[l] = 0
    BY <1>10 DEF Bounded
  <2>3. p <= p /\ n <= n
    OBVIOUS
  <2>4. Bounded(conn[d], l, p, n, v)
    BY <1>1, <1>10, <2>2, <2>3, BoundedQuiet
  <2> QED
    BY <1>4, <1>7, <2>1, <2>4
<1>12. CASE d # c /\ d \in siblings(c)
  <2>1. conn'[d] = take(conn[d], k.pending)
    BY <1>9, <1>12
  <2>2. d \in streams[Host[c]] /\ Host[c] \in Instances
    BY <1>12, StreamAssumption DEF siblings
  <2>3. Host[d] = Host[c] /\ conn[d].pc \in {"asking", "answered", "live"}
    BY <2>2 DEF StreamsLocal, MembersAtWork
  <2>4. k.pending[l] <= n * w /\ k.pending[l] \in Nat
    BY <1>1, <1>2, <1>3, <2>3 DEF Bounded, Copies
  <2>5. PICK nw \in Nat, nx \in Nat : nw = n * w /\ nx = n * (w - 1) /\ nw = nx + n
    <3>1. w - 1 \in Nat /\ n * w = n * (w - 1) + n
      OBVIOUS
    <3>2. n * w \in Nat /\ n * (w - 1) \in Nat
      BY <3>1, Products
    <3> QED
      BY <3>1, <3>2
  <2>6. n * w + k.pending[l] <= n * v
    <3>1. n * (2 * w) \in Nat /\ n * v \in Nat /\ n * (2 * w) <= n * v
      BY <1>7, Products
    <3>2. n * (2 * w) = n * w + n * w
      OBVIOUS
    <3> QED
      BY <2>4, <2>5, <3>1, <3>2
  <2>7. n * (w - 1) + k.pending[l] <= n * (v - 1)
    <3>1. (w - 1) + w \in Nat /\ v - 1 \in Nat /\ (w - 1) + w <= v - 1
      BY <1>7
    <3>2. n * ((w - 1) + w) \in Nat /\ n * (v - 1) \in Nat /\ n * ((w - 1) + w) <= n * (v - 1)
      BY <3>1, Products
    <3>3. n * ((w - 1) + w) = n * (w - 1) + n * w
      OBVIOUS
    <3> QED
      BY <2>4, <2>5, <3>2, <3>3
  <2>8. Bounded(take(conn[d], k.pending), l, p, n, v)
    BY <1>1, <1>10, <2>3, <2>6, <2>7, BoundedTake
  <2> QED
    BY <1>4, <1>7, <2>1, <2>8
<1> QED
  BY <1>8, <1>11, <1>12

\* What a step does to the counts of a connection it does not write to.
Quiet(k, n, l) ==
  /\ n.snapshot[l] \in {0, k.snapshot[l]} \/ n.snapshot[l] <= published[l]
  /\ n.pending[l] \in {0, k.pending[l]}
  /\ n.written[l] \in {0, k.written[l]}
  /\ n.pc = "live" => k.pc = "live"
  /\ n.pc # "live" => k.pc # "live" \/ n.written[l] = 0

\* The steps that write nothing; LRANGE reads no more than was published.
LEMMA QuietSteps ==
  ASSUME TypeOK, PublishedFirst, NEW c \in Conns, NEW l \in Lines,
         \/ sendJobCompletion \/ \E i \in Instances : Restart(i)
         \/ \E d \in Conns : \/ subscribeToJobLogs(d) \/ Leave(d) \/ ReadStatus(d)
                             \/ LeaveEarly(d) \/ ReadBacklog(d)
         \/ UNCHANGED conn
  PROVE  Quiet(conn[c], conn'[c], l)
<1>1. conn \in [Conns -> Connection] /\ \A d \in Conns : conn[d] \in Connection
  BY DEF TypeOK
<1>2. NoLines[l] = 0
  BY DEF NoLines
<1>3. ASSUME NEW k \in Connection
      PROVE  Quiet(k, k, l) /\ Quiet(k, closed(k), l)
  BY <1>2 DEF Quiet, closed, Connection
<1>4. CASE sendJobCompletion
  BY <1>1, <1>3, <1>4 DEF sendJobCompletion, endAll
<1>5. ASSUME NEW i \in Instances, Restart(i)
      PROVE  Quiet(conn[c], conn'[c], l)
  <2> DEFINE n == [closed(NoConn) EXCEPT !.pc = "finished"]
  <2>1. /\ n.pc = "finished" /\ n.written[l] = 0 /\ n.pending[l] = 0 /\ n.snapshot[l] = 0
    BY <1>2 DEF NoConn, closed
  <2>2. conn'[c] = conn[c] \/ conn'[c] = n
    BY <1>5 DEF Restart
  <2> HIDE DEF n
  <2>3. Quiet(conn[c], n, l)
    BY <2>1 DEF Quiet
  <2> QED
    BY <1>1, <1>3, <2>2, <2>3
<1>6. ASSUME NEW d \in Conns, Leave(d)
      PROVE  Quiet(conn[c], conn'[c], l)
  BY <1>1, <1>3, <1>6 DEF Leave
<1>7. ASSUME NEW d \in Conns, subscribeToJobLogs(d) \/ ReadStatus(d) \/ LeaveEarly(d)
      PROVE  Quiet(conn[c], conn'[c], l)
  <2>1. conn'[c] = conn[c] \/ c = d
    BY <1>1, <1>7 DEF subscribeToJobLogs, ReadStatus, LeaveEarly
  <2>2. ASSUME c = d
        PROVE  /\ conn[c].pc # "live" /\ conn'[c].pc # "live"
               /\ conn'[c].snapshot = conn[c].snapshot /\ conn'[c].pending = conn[c].pending
               /\ conn'[c].written = conn[c].written
    BY <1>1, <1>7, <2>2 DEF subscribeToJobLogs, ReadStatus, LeaveEarly, Connection
  <2> QED
    BY <1>1, <1>3, <2>1, <2>2 DEF Quiet
<1>8. ASSUME NEW d \in Conns, ReadBacklog(d)
      PROVE  Quiet(conn[c], conn'[c], l)
  <2> DEFINE k == [conn[d] EXCEPT !.pc = "answered", !.snapshot = inBacklog]
             n == owe(k, {x \in Lines : inBacklog[x] > 0})
  <2>1. /\ k.pc = "answered" /\ k.snapshot = inBacklog /\ k.pending = conn[d].pending
        /\ k.written = conn[d].written /\ k = [k EXCEPT !.pc = "answered"]
    BY <1>1 DEF Connection
  <2>2. conn' = [conn EXCEPT ![d] = n] /\ conn[d].pc = "asking"
    BY <1>8 DEF ReadBacklog
  <2> HIDE DEF k
  <2>3. /\ n.pc = "answered" /\ n.snapshot = inBacklog /\ n.pending = conn[d].pending
        /\ n.written = conn[d].written
    BY <2>1 DEF owe
  <2> HIDE DEF n
  <2>4. inBacklog[l] <= published[l]
    <3>1. inBacklog[l] = Times(backlog, l)
      BY DEF inBacklog, Times
    <3>2. /\ Times(backlog, l) \in Nat /\ published[l] \in Nat
          /\ Times(backlog, l) + (IF chunk[l] = "published" THEN 1 ELSE 0) <= published[l]
      BY QueueCounts DEF PublishedFirst
    <3> QED
      BY <3>1, <3>2
  <2>5. Quiet(conn[d], n, l)
    BY <2>2, <2>3, <2>4 DEF Quiet
  <2> QED
    BY <1>1, <1>3, <2>2, <2>5
<1>9. CASE UNCHANGED conn
  BY <1>1, <1>3, <1>9
<1> QED
  BY <1>4, <1>5, <1>6, <1>7, <1>8, <1>9

\* Deliveries and the ends of replays keep the bounds, and so does the rest.
LEMMA CopiesWithinBoundsStep ==
  ASSUME TypeOK, TypeOK', StreamsLocal, MembersAtWork, PublishedFirst, PublishedFirst',
         CopiesWithinBounds, [Next]_vars
  PROVE  CopiesWithinBounds'
<1>1. ASSUME \A c \in Conns, l \in Lines : Quiet(conn[c], conn'[c], l)
      PROVE  CopiesWithinBounds'
  <2>1. ASSUME NEW c \in Conns, NEW l \in Lines
        PROVE  conn'[c].snapshot[l] <= published'[l]
    <3>1. conn[c].snapshot[l] <= published[l]
      BY DEF CopiesWithinBounds, Bounded
    <3>2. published[l] \in Nat /\ published'[l] \in Nat /\ published[l] <= published'[l]
      <4>1. Host[c] \in Instances
        BY StreamAssumption
      <4> QED
        BY <4>1, NumbersType, NumbersGrow
    <3>3. conn[c].snapshot[l] \in Nat /\ conn'[c].snapshot[l] \in Nat
      BY DEF TypeOK, Connection, Copies
    <3>4. conn'[c].snapshot[l] \in {0, conn[c].snapshot[l]} \/ conn'[c].snapshot[l] <= published[l]
      BY <1>1 DEF Quiet
    <3> QED
      BY <3>1, <3>2, <3>3, <3>4
  <2>2. \A c \in Conns, l \in Lines :
          /\ conn'[c].pending[l] \in {0, conn[c].pending[l]}
          /\ conn'[c].written[l] \in {0, conn[c].written[l]}
          /\ conn'[c].pc = "live" => conn[c].pc = "live"
          /\ conn'[c].pc # "live" => conn[c].pc # "live" \/ conn'[c].written[l] = 0
    BY <1>1 DEF Quiet
  <2> QED
    BY <2>1, <2>2, QuietWithinBounds
<1>2. ASSUME NEW c \in Conns, Replay(c) \/ ReplayFails(c)
      PROVE  CopiesWithinBounds'
  <2>1. /\ conn[c] \in Connection /\ conn[c].snapshot \in Copies /\ replaying(conn[c])
        /\ UNCHANGED <<published, inbox>>
    BY <1>2 DEF TypeOK, Connection, Replay, ReplayFails, replaying, chunkVars
  <2>2. ASSUME NEW l \in Lines
        PROVE  /\ conn[c].written[l] = 0 /\ conn[c].snapshot[l] <= published[l]
               /\ published[l] \in Nat /\ conn[c].snapshot[l] \in Nat
    BY <2>1 DEF CopiesWithinBounds, Bounded, replaying, TypeOK, Copies
  <2>3. CASE Replay(c)
    <3> DEFINE k == write(conn[c], conn[c].snapshot)
    <3>1. k \in Connection /\ k = [conn[c] EXCEPT !.written = k.written]
      BY <2>1, WriteType
    <3>2. k.pending = conn[c].pending
      BY <2>1, <3>1 DEF Connection
    <3>3. k.written = conn[c].written \/ k.written = Plus(conn[c].written, conn[c].snapshot)
      BY <2>1 DEF write, Connection
    <3> HIDE DEF k
    <3>4. \A l \in Lines : k.written[l] <= published[l]
      BY <2>2, <3>3 DEF Plus
    <3>5. flush(c, k)
      BY <2>3 DEF Replay, k
    <3> QED
      BY <2>1, <3>1, <3>2, <3>4, <3>5, FlushWithinBounds
  <2>4. CASE ReplayFails(c)
    <3> DEFINE k == withoutHistory(conn[c])
    <3>1. k \in Connection /\ k.pending = conn[c].pending /\ k.written = conn[c].written
      BY <2>1, NoLinesType DEF withoutHistory, Connection
    <3>2. flush(c, k)
      BY <2>4 DEF ReplayFails
    <3> HIDE DEF k
    <3>3. \A l \in Lines : k.written[l] <= published[l]
      BY <2>2, <3>1
    <3> QED
      BY <2>1, <3>1, <3>2, <3>3, FlushWithinBounds
  <2> QED
    BY <1>2, <2>3, <2>4
<1>3. ASSUME NEW i \in Instances, handleRedisMessage(i)
      PROVE  CopiesWithinBounds'
  BY <1>3, DeliverWithinBounds
<1> QED
  BY <1>1, <1>2, <1>3, QuietSteps, ConnectionSteps

\* The invariant with the bounds.
LEMMA BoundsInvariance ==
  Spec => [](IInv /\ StreamsLocal /\ MembersAtWork /\ PublishedFirst /\ CopiesWithinBounds)
<1> DEFINE BInv == IInv /\ StreamsLocal /\ MembersAtWork /\ PublishedFirst /\ CopiesWithinBounds
<1>1. Init => BInv
  <2> SUFFICES ASSUME Init PROVE BInv
    OBVIOUS
  <2>1. IInv /\ StreamsLocal /\ MembersAtWork
    BY InitInv DEF Init, StreamsLocal, MembersAtWork
  <2>2. PublishedFirst
    BY TimesEmpty DEF Init, PublishedFirst, NoLines
  <2>3. CopiesWithinBounds
    <3> SUFFICES ASSUME NEW c \in Conns, NEW l \in Lines
                 PROVE  Bounded(conn[c], l, published[l], Delivered(Host[c], l), Subsets(Past))
      BY DEF CopiesWithinBounds
    <3>1. Host[c] \in Instances
      BY StreamAssumption
    <3>2. PICK p \in Nat, d \in Nat, w \in Nat \ {0} :
            p = published[l] /\ d = Delivered(Host[c], l) /\ w = Subsets(Past)
      BY <2>1, <2>2, <3>1, NumbersType DEF IInv
    <3>3. conn[c].snapshot[l] = 0 /\ conn[c].pending[l] = 0 /\ conn[c].written[l] = 0
          /\ conn[c].pc = "away"
      BY DEF Init, NoConn, NoLines
    <3>4. d * w \in Nat
      BY Products
    <3>5. Bounded(conn[c], l, p, d, w)
      BY <3>3, <3>4 DEF Bounded
    <3> QED
      BY <3>2, <3>5
  <2> QED
    BY <2>1, <2>2, <2>3
<1>2. BInv /\ [Next]_vars => BInv'
  <2> SUFFICES ASSUME BInv, [Next]_vars PROVE BInv'
    OBVIOUS
  <2>1. TypeOK /\ IInv' /\ StreamsLocal'
    BY StepInv, LocalInv DEF IInv
  <2>2. TypeOK'
    BY <2>1 DEF IInv
  <2>3. MembersAtWork'
    BY <2>1, MembersAtWorkStep
  <2>4. PublishedFirst'
    BY <2>1, <2>2, PublishedFirstStep
  <2>5. CopiesWithinBounds'
    BY <2>1, <2>2, <2>4, CopiesWithinBoundsStep
  <2> QED
    BY <2>1, <2>3, <2>4, <2>5
<1> HIDE DEF BInv
<1>3. Spec => []BInv
  BY <1>1, <1>2, PTL DEF Spec
<1> QED
  BY <1>3 DEF BInv

\* Replays of one Set write what they held back to each other, so the copies
\* of a line can double with each of them, and they never do more than that.
THEOREM RepeatsStayBounded == Spec => []RepeatsBounded
<1>1. IInv /\ MembersAtWork /\ PublishedFirst /\ CopiesWithinBounds => RepeatsBounded
  <2> SUFFICES ASSUME IInv, PublishedFirst, CopiesWithinBounds, NEW c \in Conns, NEW l \in Lines
               PROVE  conn[c].written[l] <= published[l] * 2^Cardinality(Conns)
    BY DEF RepeatsBounded
  <2>1. TypeOK /\ Host[c] \in Instances /\ conn[c].written[l] \in Nat
    BY StreamAssumption DEF IInv, TypeOK, Connection, Copies
  <2>2. PICK p \in Nat, d \in Nat, w \in Nat \ {0} :
          p = published[l] /\ d = Delivered(Host[c], l) /\ w = Subsets(Past) /\ d <= p
    BY <2>1, NumbersType
  <2>3. PICK a \in Nat : a = Subsets(Conns) /\ w <= a
    BY <2>1, <2>2, StreamAssumption, SubsetsGrow DEF Past
  <2>4. a = 2^Cardinality(Conns)
    BY <2>3, StreamAssumption, FS_SUBSET DEF Subsets
  <2>5. Bounded(conn[c], l, p, d, w)
    BY <2>2 DEF CopiesWithinBounds
  <2>6. p * a \in Nat /\ d * (w - 1) \in Nat /\ p + d * (w - 1) <= p * a
    <3>1. w - 1 \in Nat /\ a - 1 \in Nat /\ w - 1 <= a - 1
      BY <2>3
    <3>2. d * (w - 1) \in Nat /\ p * (a - 1) \in Nat /\ d * (w - 1) <= p * (a - 1)
      BY <2>2, <3>1, Products
    <3>3. p * a = p + p * (a - 1) /\ p * a \in Nat
      BY Products
    <3> QED
      BY <3>2, <3>3
  <2>7. conn[c].written[l] <= p * a
    <3>1. PICK x \in Nat, y \in Nat : x = d * (w - 1) /\ y = p * a /\ p + x <= y
      BY <2>6
    <3>2. conn[c].written[l] = 0 \/ conn[c].written[l] <= p + x
      BY <2>5, <3>1 DEF Bounded
    <3> QED
      BY <2>1, <3>1, <3>2
  <2> QED
    BY <2>2, <2>4, <2>7
<1>2. IInv /\ StreamsLocal /\ MembersAtWork /\ PublishedFirst /\ CopiesWithinBounds
        => RepeatsBounded
  BY <1>1
<1> QED
  BY <1>2, BoundsInvariance, PTL
=============================================================================

------------------------------ MODULE JobState ------------------------------
(***************************************************************************)
(* The pure rules of src/services/job/job.state.ts: the statuses a job row *)
(* can hold, the transitions the HTTP path accepts and the name of the     *)
(* outbox event each transition gets.                                      *)
(***************************************************************************)

\* enum JobStatus of prisma/schema.prisma.  No code path writes SCHEDULED.
JobStatus ==
  {"QUEUED", "SCHEDULED", "RUNNING", "COMPLETED", "FAILED", "CANCELLED"}

Terminal == {"COMPLETED", "FAILED", "CANCELLED"}

\* A status without an entry (SCHEDULED) or with an empty one is a dead end:
\* the lookup gives undefined or [] and the function throws either way.
validTransitions ==
  { <<"QUEUED", "RUNNING">>,    <<"QUEUED", "CANCELLED">>,
    <<"RUNNING", "COMPLETED">>, <<"RUNNING", "FAILED">>,
    <<"RUNNING", "CANCELLED">> }

validateStateTransition(currentStatus, newStatus) ==
  <<currentStatus, newStatus>> \in validTransitions

\* The two-dimensional table eventMap, with its fallback.
getEventType(fromStatus, toStatus) ==
  CASE fromStatus = "QUEUED" /\ toStatus = "RUNNING" -> "STARTED"
    [] fromStatus = "RUNNING" /\ toStatus = "COMPLETED" -> "COMPLETED"
    [] fromStatus = "RUNNING" /\ toStatus = "FAILED" -> "FAILED"
    [] fromStatus \in {"QUEUED", "RUNNING"} /\ toStatus = "CANCELLED" -> "CANCELLED"
    [] OTHER -> "STATE_CHANGED"

EventType ==
  {"CREATED", "STARTED", "COMPLETED", "FAILED", "CANCELLED", "STATE_CHANGED"}
=============================================================================

-------------------------- MODULE IdempotentCreate --------------------------
(***************************************************************************)
(* What a client of POST /api/v1/jobs may rely on: an idempotency key is   *)
(* bound to at most one job, for good, and every successful answer to a    *)
(* request with that key names that job.  (That the key's requests create  *)
(* only that one job is more than this, and more than the code keeps.)     *)
(***************************************************************************)
CONSTANTS Keys, JobIds, NoJob

VARIABLES
  keyRow,   \* the job a key is bound to
  answers   \* <<key, job>> for every successful answer

Init ==
  /\ keyRow = [k \in Keys |-> NoJob]
  /\ answers = {}

Bind(k, j) ==
  /\ keyRow[k] = NoJob
  /\ keyRow' = [keyRow EXCEPT ![k] = j]
  /\ UNCHANGED answers

Answer(k) ==
  /\ keyRow[k] # NoJob
  /\ answers' = answers \cup {<<k, keyRow[k]>>}
  /\ UNCHANGED keyRow

Next == \E k \in Keys : Answer(k) \/ \E j \in JobIds : Bind(k, j)

Spec == Init /\ [][Next]_<<keyRow, answers>>
=============================================================================

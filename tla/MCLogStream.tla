---------------------------- MODULE MCLogStream ----------------------------
(* Instances of LogStream for TLC: where the requests are routed to.       *)
EXTENDS LogStream

CONSTANT First  \* the process that serves every viewer

MCHost == [c \in Conns |-> First]
=============================================================================

------------------------- MODULE MCOutboxPublisher -------------------------
(* Instances of OutboxPublisher for TLC.  Publishing tells two kinds of    *)
(* events apart: cancellations, which look up a node, and all others.      *)
EXTENDS OutboxPublisher

MCEvents == [job: Jobs, type: {"CREATED", "CANCELLED"}]
=============================================================================

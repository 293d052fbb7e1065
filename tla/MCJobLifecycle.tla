--------------------------- MODULE MCJobLifecycle ---------------------------
(* Instances of JobLifecycle for TLC.  The members of each set of model    *)
(* values are interchangeable.                                             *)
EXTENDS JobLifecycle, TLC

RequestMsgSymmetry == Permutations(Requests) \cup Permutations(Msgs)
=============================================================================

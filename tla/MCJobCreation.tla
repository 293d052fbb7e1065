---------------------------- MODULE MCJobCreation ----------------------------
(* Instances of JobCreation for TLC.                                       *)
EXTENDS JobCreation, TLC

JobRequestSymmetry == Permutations(JobIds) \cup Permutations(Requests)
==============================================================================

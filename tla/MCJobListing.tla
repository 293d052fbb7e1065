---------------------------- MODULE MCJobListing ----------------------------
(* Instances of JobListing for TLC: ids of jobs are interchangeable.       *)
EXTENDS JobListing, TLC

JobSymmetry == Permutations(Jobs)
=============================================================================

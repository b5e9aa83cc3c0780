---------------------------- MODULE MCRetention ----------------------------
(***************************************************************************)
(* The permutations of replicas, rows and paths, which the sweep compares  *)
(* for equality only.  Not for the run of a liveness property.             *)
(***************************************************************************)
EXTENDS RetentionProperties, TLC

Replicas == Permutations(Purgers) \cup Permutations(Rows) \cup Permutations(Paths)

=============================================================================

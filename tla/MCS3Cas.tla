------------------------------ MODULE MCS3Cas -------------------------------
(* S3Cas on small instances: the writers, and the processes, are interchangeable. *)
EXTENDS S3Cas, TLC

Symmetry == Permutations(Writers) \cup Permutations(Processes)
=============================================================================

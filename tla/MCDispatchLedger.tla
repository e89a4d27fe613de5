-------------------------- MODULE MCDispatchLedger --------------------------
(* DispatchLedger on small instances: the workers are interchangeable. *)
EXTENDS DispatchLedger, TLC

Symmetry == Permutations(Workers)
=============================================================================

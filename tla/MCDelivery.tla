----------------------------- MODULE MCDelivery -----------------------------
(* Delivery with the deployed times, in minutes, on a handful of messages. *)
EXTENDS Delivery, TLC

CONSTANTS m1, m2, m3, a1, a2

\* m1 and m2 are the same agent's (the fan-out ran twice), m3 is another's.
AgentOfMessage == m1 :> a1 @@ m2 :> a1 @@ m3 :> a2
AgentOfOne == m1 :> a1
AgentOfTwo == m1 :> a1 @@ m2 :> a1

Symmetry == Permutations(Workers)
=============================================================================

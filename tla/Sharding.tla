------------------------------ MODULE Sharding ------------------------------
(***************************************************************************)
(* The split of a roster over parallel chunker invocations: round-robin    *)
(* over the sorted agent ids (ids are numbers, in the order of the ids).   *)
(***************************************************************************)
EXTENDS Integers, FiniteSets

Position(a, roster) == Cardinality({b \in roster : b < a})

\* Fault: the index counts from one.
plan_shards_from_one(roster, shards, index) == {a \in roster : (Position(a, roster) % shards) + 1 = index}

plan_shards(roster, shards, index) == {a \in roster : Position(a, roster) % shards = index}
=============================================================================

---------------------------- MODULE MCReplicant ----------------------------
(* Three replicas, one of them with a shorter log. *)
EXTENDS Replicant, TLC

CONSTANTS r1, r2, r3
MCReplicas == {r1, r2, r3}
MCLastTerm == [r \in MCReplicas |-> 1]
MCLastIndex == [r \in MCReplicas |-> IF r = r3 THEN 1 ELSE 2]
SameLog == Permutations({r1, r2})
=============================================================================

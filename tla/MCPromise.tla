----------------------------- MODULE MCPromise -----------------------------
(* Model values for Promise. *)
EXTENDS Promise, TLC

CONSTANTS v1, v2, e1, e2

MCValues == {v1, v2}
MCErrors == {e1, e2}
Symmetry == Permutations(MCValues) \cup Permutations(MCErrors)
=============================================================================

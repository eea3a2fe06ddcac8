------------------------------ MODULE MCStream ------------------------------
(* Model values for Stream. *)
EXTENDS Stream
=============================================================================

----------------------------- MODULE MCRunloop -----------------------------
(* Model values for Runloop. *)
EXTENDS Runloop
=============================================================================

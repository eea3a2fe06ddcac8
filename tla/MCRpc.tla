------------------------------- MODULE MCRpc --------------------------------
(* Model values for Rpc. *)
EXTENDS Rpc
=============================================================================

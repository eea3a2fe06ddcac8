---------------------------- MODULE MCOutMemBuf ----------------------------
(* Model values for OutMemBuf. *)
EXTENDS OutMemBuf
=============================================================================

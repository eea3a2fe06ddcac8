--------------------------- MODULE MCOutFileBuf ---------------------------
(* Model values for OutFileBuf. *)
EXTENDS OutFileBuf
=============================================================================

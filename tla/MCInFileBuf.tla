---------------------------- MODULE MCInFileBuf ----------------------------
(* Model values for InFileBuf. *)
EXTENDS InFileBuf, TLC

CONSTANTS x, y
MCBytes == {x, y}
ByteSymmetry == Permutations(MCBytes)
=============================================================================

----------------------------- MODULE MCRaftLog -----------------------------
(* Model values for RaftLog. *)
EXTENDS RaftLog
=============================================================================

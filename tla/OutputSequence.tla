-------------------------- MODULE OutputSequence --------------------------
(***************************************************************************)
(* What an output stream buffer promises (include/nodeoze/bstream/         *)
(* obstreambuf.h): a sequence of bytes of arbitrary length with a current  *)
(* position. A write changes the bytes at the position and moves it on; a  *)
(* position behind the end leaves a hole that reads as zeros. Bytes not    *)
(* yet synchronized are lost if the buffer goes away.                      *)
(***************************************************************************)
EXTENDS ByteSeq

VARIABLES
  content,   \* the sequence, written bytes included
  synced,    \* the part of it that has reached the controlled sequence
  pos        \* the current position

seqvars == <<content, synced, pos>>

\* The bytes between the old and the new position are what was written. A
\* sequence kept in memory is synchronized by the write itself.
Write ==
  /\ pos' > pos /\ pos' <= Len(content')
  /\ content' = Overlay(content, pos, SubSeq(content', pos + 1, pos'))
  /\ synced' \in {synced, content'}

Sync ==
  /\ synced' = content
  /\ UNCHANGED <<content, pos>>

\* Seeking synchronizes, and changes no byte wherever it goes.
Seek ==
  /\ pos' \in Nat
  /\ synced' = content
  /\ UNCHANGED content

Truncate ==
  /\ content' = Resized(content, pos)
  /\ synced' = content'
  /\ UNCHANGED pos

\* The buffer is opened anew, or cleared; what was not synchronized is lost.
Open ==
  /\ content' \in {synced, <<>>}
  /\ synced' = content'
  /\ pos' \in {0, Len(content')}

Init ==
  /\ content = synced
  /\ pos = 0

Next == Write \/ Sync \/ Seek \/ Truncate \/ Open

Spec == Init /\ [][Next]_seqvars
=============================================================================

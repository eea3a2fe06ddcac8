--------------------------- MODULE InputSequence ---------------------------
(***************************************************************************)
(* What an input buffer promises its reader: the bytes of a file from a    *)
(* position on. The file may grow meanwhile. `said' is what the last call  *)
(* answered.                                                               *)
(***************************************************************************)
EXTENDS Integers, Sequences

CONSTANT Bytes

VARIABLES file, pos, said

vars == <<file, pos, said>>

Anchor(where) ==
  CASE where = "begin" -> 0 [] where = "current" -> pos [] where = "end" -> Len(file)

Init == pos = 0 /\ said = <<"open">>

\* The bytes at the position, some or all that the call still wants.
Get(n) ==
  /\ pos + n <= Len(file)
  /\ said' = <<"got", [i \in 1..n |-> file[pos + i]]>>
  /\ pos' = pos + n
  /\ UNCHANGED file

Peek ==
  /\ pos < Len(file)
  /\ said' = <<"peek", file[pos + 1]>>
  /\ UNCHANGED <<file, pos>>

\* There is nothing at the position.
EndOfFile ==
  /\ pos >= Len(file)
  /\ said' = <<"eof">>
  /\ UNCHANGED <<file, pos>>

Error == said' = <<"error">> /\ UNCHANGED <<file, pos>>

\* The reader goes where it asked to go.
Seek(where) ==
  /\ pos' >= 0
  /\ said' = <<"seek", where, pos' - Anchor(where), pos'>>
  /\ UNCHANGED file

Tell(where) ==
  /\ said' = <<"tell", where, Anchor(where)>>
  /\ UNCHANGED <<file, pos>>

Close == said' = <<"closed">> /\ UNCHANGED <<file, pos>>

Open == said' = <<"open">> /\ pos' = 0 /\ UNCHANGED file

\* Someone else appends to the file.
Grow == (\E b \in Bytes : file' = Append(file, b)) /\ UNCHANGED <<pos, said>>

Next ==
  \/ \E n \in 1..Len(file) : Get(n)
  \/ Peek \/ EndOfFile \/ Error
  \/ \E where \in {"begin", "current", "end"} : Seek(where) \/ Tell(where)
  \/ Close \/ Open \/ Grow

Spec == Init /\ [][Next]_vars
=============================================================================

----------------------------- MODULE InFileBuf -----------------------------
(***************************************************************************)
(* bstream::ibfilebuf over bstream::ibstreambuf: reading a file through a  *)
(* buffer (src/bstream/ibfilebuf.cpp, src/bstream/ibstreambuf.cpp), while  *)
(* a writer appends to the file.                                           *)
(*                                                                         *)
(* The buffer keeps the offset of its first byte; that of the descriptor   *)
(* is known to the kernel alone. get is getn of one byte; a getn is the    *)
(* series of the Get steps of its chunks, which ends when all bytes are    *)
(* there, at the end of the file or with an error. A call that fails       *)
(* without any change is left out. The client uses the buffer while it is  *)
(* open.                                                                   *)
(***************************************************************************)
EXTENDS Integers, Sequences

CONSTANTS
  FileBytes,
  BufSize,    \* m_buf.size()
  MaxPos,     \* bound: positions sought, and length of the file
  CarefulReader     \* the client keeps the discipline of CarefulTell, ...Seek, ...Get, ...Open

ASSUME InFileBufAssumption ==
  /\ BufSize \in Nat \ {0} /\ MaxPos \in Nat /\ CarefulReader \in BOOLEAN

VARIABLES
  file,            \* the bytes of the file
  fd,              \* the descriptor's offset
  m_is_open,
  m_gbase_offset,  \* position of the first byte of the buffer
  buf,             \* the bytes from gbase to gend
  gnext,           \* how many of them have been read: gnext - gbase
  failed,          \* history: the last refill failed
  said             \* what the last call answered

readervars == <<file, fd, m_is_open, m_gbase_offset, buf, gnext, failed, said>>

gpos == m_gbase_offset + gnext

(* Every variable has its type, and the reader stands in the buffer. *)
ReaderTypeOK ==
  /\ file \in Seq(FileBytes) /\ fd \in Nat /\ m_is_open \in BOOLEAN
  /\ m_gbase_offset \in Nat
  /\ buf \in Seq(FileBytes) /\ gnext \in 0..Len(buf)
  /\ failed \in BOOLEAN

ReaderInit ==
  /\ file = <<>> /\ fd = 0 /\ m_is_open = TRUE
  /\ m_gbase_offset = 0 /\ buf = <<>> /\ gnext = 0
  /\ failed = FALSE /\ said = <<"open">>

-----------------------------------------------------------------------------
(* Where the client has to be careful.                                     *)

\* tell( end ) puts the descriptor at the start of the buffer, not at its
\* end: called with bytes in the buffer they are read twice.
CarefulTell == CarefulReader => fd = m_gbase_offset

\* seek( current ) counts from the descriptor, not from the reader.
CarefulSeek == CarefulReader => fd = gpos

\* A failed refill leaves the old bytes in the buffer under a new position.
CarefulGet == CarefulReader => ~failed

\* really_open leaves m_gbase_offset alone.
CarefulOpen == CarefulReader => m_gbase_offset = 0

-----------------------------------------------------------------------------
Least(a, b) == IF a < b THEN a ELSE b

\* read( m_fd, gbase, m_buf.size() )
LoadSize == IF fd < Len(file) THEN Least(BufSize, Len(file) - fd) ELSE 0
ReadBytes(n) == [i \in 1..n |-> file[fd + i]]

\* Mutant: a refill leaves the offset of the buffer alone.
BaseAfterStays == m_gbase_offset

\* really_underflow: gbase_offset( gpos() ), once the buffer is used up.
BaseAfter == gpos

\* A chunk of get or getn out of the buffer.
GetLoaded(n) ==
  /\ m_is_open /\ CarefulGet
  /\ gnext < Len(buf)
  /\ LET k == Least(n, Len(buf) - gnext) IN
       /\ said' = <<"got", [i \in 1..k |-> buf[gnext + i]]>>
       /\ gnext' = gnext + k
  /\ UNCHANGED <<file, fd, m_is_open, m_gbase_offset, buf, failed>>

\* A chunk behind a refill, or the end of the file.
GetUnderflow(n) ==
  /\ m_is_open /\ CarefulGet
  /\ gnext = Len(buf)
  /\ m_gbase_offset' = BaseAfter
  /\ buf' = ReadBytes(LoadSize)
  /\ fd' = fd + LoadSize
  /\ gnext' = Least(n, LoadSize)
  /\ said' = IF LoadSize = 0 THEN <<"eof">> ELSE <<"got", [i \in 1..gnext' |-> file[fd + i]]>>
  /\ UNCHANGED <<file, m_is_open, failed>>

PeekLoaded ==
  /\ m_is_open /\ CarefulGet
  /\ gnext < Len(buf)
  /\ said' = <<"peek", buf[gnext + 1]>>
  /\ UNCHANGED <<file, fd, m_is_open, m_gbase_offset, buf, gnext, failed>>

PeekUnderflow ==
  /\ m_is_open /\ CarefulGet
  /\ gnext = Len(buf)
  /\ m_gbase_offset' = BaseAfter
  /\ buf' = ReadBytes(LoadSize)
  /\ fd' = fd + LoadSize
  /\ gnext' = 0
  /\ said' = IF LoadSize = 0 THEN <<"eof">> ELSE <<"peek", file[fd + 1]>>
  /\ UNCHANGED <<file, m_is_open, failed>>

\* The read of a refill fails: gbase_offset and gnext have been moved, gend
\* stays where it was.
UnderflowFails ==
  /\ m_is_open /\ CarefulGet
  /\ gnext = Len(buf)
  /\ m_gbase_offset' = BaseAfter
  /\ gnext' = 0
  /\ failed' = TRUE
  /\ said' = <<"error">>
  /\ UNCHANGED <<file, fd, m_is_open, buf>>

-----------------------------------------------------------------------------
\* lseek: the offset it gives the descriptor.
SeekTarget(where, offset) ==
  CASE where = "begin" -> offset
    [] where = "current" -> fd + offset
    [] where = "end" -> Len(file) + offset

ReallySeek(where, offset) ==
  /\ m_is_open
  /\ where = "current" => CarefulSeek
  /\ SeekTarget(where, offset) \in 0..MaxPos
  /\ fd' = SeekTarget(where, offset)
  /\ m_gbase_offset' = fd'
  /\ buf' = <<>> /\ gnext' = 0
  /\ failed' = FALSE
  /\ said' = <<"seek", where, offset, fd'>>
  /\ UNCHANGED <<file, m_is_open>>

\* really_tell; for the end the descriptor is moved there and back.
Tell(where) ==
  /\ m_is_open
  /\ where = "end" => CarefulTell
  /\ said' = <<"tell", where, CASE where = "begin" -> 0
                                [] where = "current" -> gpos
                                [] where = "end" -> Len(file)>>
  /\ fd' = IF where = "end" THEN m_gbase_offset ELSE fd
  /\ UNCHANGED <<file, m_is_open, m_gbase_offset, buf, gnext, failed>>

Close ==
  /\ m_is_open
  /\ m_is_open' = FALSE
  /\ said' = <<"closed">>
  /\ UNCHANGED <<file, fd, m_gbase_offset, buf, gnext, failed>>

\* open, which closes first if need be, on the same file.
Open ==
  /\ CarefulOpen
  /\ m_is_open' = TRUE
  /\ fd' = 0
  /\ buf' = <<>> /\ gnext' = 0
  /\ failed' = FALSE
  /\ said' = <<"open">>
  /\ UNCHANGED <<file, m_gbase_offset>>

\* A new object for the same file.
Fresh ==
  /\ m_is_open' = TRUE
  /\ fd' = 0
  /\ m_gbase_offset' = 0 /\ buf' = <<>> /\ gnext' = 0
  /\ failed' = FALSE
  /\ said' = <<"open">>
  /\ UNCHANGED file

\* A writer appends.
Grow(b) ==
  /\ Len(file) < MaxPos
  /\ file' = Append(file, b)
  /\ UNCHANGED <<fd, m_is_open, m_gbase_offset, buf, gnext, failed, said>>

Anchors == {"begin", "current", "end"}

ReaderNext ==
  \/ \E n \in 1..MaxPos : GetLoaded(n) \/ GetUnderflow(n)
  \/ PeekLoaded \/ PeekUnderflow \/ UnderflowFails
  \/ \E where \in Anchors : Tell(where) \/ \E offset \in -MaxPos..MaxPos : ReallySeek(where, offset)
  \/ Close \/ Open \/ Fresh
  \/ \E b \in FileBytes : Grow(b)

ReaderSpec == ReaderInit /\ [][ReaderNext]_readervars

-----------------------------------------------------------------------------
Reading == INSTANCE InputSequence WITH Bytes <- FileBytes, pos <- gpos

\* Every answer is true of the file and of the position the reader has come
\* to, whatever was buffered when the file grew, at whatever chunk a getn
\* crossed the buffer's end and wherever a refill failed: get yields the
\* bytes at the position, no byte twice and none left out, the end of the
\* file is reported only there, and seek and tell count from the reader.
ImplementsInputSequence == Reading!Spec
=============================================================================

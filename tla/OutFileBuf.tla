---------------------------- MODULE OutFileBuf ----------------------------
(***************************************************************************)
(* bstream::obfilebuf on top of bstream::obstreambuf                       *)
(* (src/bstream/obstreambuf.cpp, src/bstream/obfilebuf.cpp): an output     *)
(* buffer over a file descriptor whose own offset the buffer only tracks   *)
(* through last_touched.                                                   *)
(*                                                                         *)
(* A call is one step, except that putn and filln, which write in chunks   *)
(* any of whose flushes may fail, are a step for each chunk. A failed      *)
(* write leaves the buffer as it is, so a failed flush, seek, truncate or  *)
(* close is a stuttering step.                                             *)
(***************************************************************************)
EXTENDS ByteSeq

CONSTANTS
  Values,     \* bytes the client writes
  Cap,        \* buffer_size
  Modes,      \* the open_modes the client uses
  Careful,    \* the client keeps to CarefulPut and CarefulTruncate
  EmptyPuts,  \* the client calls putn and filln with n = 0 too
  MaxPut,     \* bound: number of bytes of one put, putn or filln
  MaxSize     \* bound: largest position

ASSUME OutFileBufAssumption ==
  /\ Zero \notin Values
  /\ Cap \in Nat \ {0}
  /\ Modes \subseteq {"truncate", "append", "at_end", "at_begin"}
  /\ Careful \in BOOLEAN /\ EmptyPuts \in BOOLEAN
  /\ MaxPut \in Nat /\ MaxSize \in Nat

VARIABLES
  file,          \* the file's bytes
  fd,            \* the offset of the descriptor m_fd
  append,        \* m_fd was opened with O_APPEND
  m_is_open,
  m_pbase_offset,
  buf,           \* the bytes from pbase to pnext
  m_dirty,
  m_high_watermark,
  m_last_touched,
  rest           \* the bytes still to be put by the putn in progress

vars == <<file, fd, append, m_is_open, m_pbase_offset, buf, m_dirty,
          m_high_watermark, m_last_touched, rest>>

Bytes == Values \cup {Zero}
Puts == UNION {[1..n -> Values] : n \in (IF EmptyPuts THEN 0 ELSE 1)..MaxPut}

ppos == m_pbase_offset + Len(buf)

TypeOK ==
  /\ file \in Seq(Bytes)
  /\ fd \in 0..MaxSize
  /\ append \in BOOLEAN
  /\ m_is_open \in BOOLEAN
  /\ m_pbase_offset \in 0..MaxSize
  /\ buf \in Seq(Values) /\ Len(buf) <= Cap
  /\ m_dirty \in BOOLEAN
  /\ m_high_watermark \in 0..MaxSize
  /\ m_last_touched \in 0..MaxSize
  /\ rest \in Seq(Values)

-----------------------------------------------------------------------------
(***************************************************************************)
(* flush and touch, as what they make of each variable.                    *)
(***************************************************************************)

\* really_flush: the descriptor is moved only when last_touched says that it
\* is elsewhere; with O_APPEND the bytes go to the end of the file.
WriteAt ==
  IF append THEN Len(file)
  ELSE IF m_last_touched # m_pbase_offset THEN m_pbase_offset
  ELSE fd

FlushedFile == IF m_dirty THEN Overlay(file, WriteAt, buf) ELSE file
FlushedFd == IF m_dirty THEN WriteAt + Len(buf) ELSE fd

\* Mutant: the high watermark follows the position.
SetHighWatermarkAlways == IF m_dirty THEN ppos ELSE m_high_watermark

\* set_high_watermark
SetHighWatermark == IF m_dirty THEN Larger(m_high_watermark, ppos) ELSE m_high_watermark

FlushedTouched == IF m_dirty THEN ppos ELSE m_last_touched

\* The assertion of really_flush: a dirty buffer holds bytes. The process ends
\* where it fails.
FlushAsserts == m_dirty => buf # <<>>

\* Mutant: a write starts where the descriptor happens to be.
TouchedFdStays == fd

\* touch, called before the first byte goes into a clean buffer.
TouchedFd == IF ~m_dirty /\ m_last_touched # ppos THEN ppos ELSE fd
TouchedTouched == IF m_dirty THEN m_last_touched ELSE ppos

-----------------------------------------------------------------------------
Ready == m_is_open /\ rest = <<>>

\* The bound on positions. (Appended bytes go to the end of the file.)
Room(n) ==
  /\ ppos + n <= MaxSize
  /\ append \/ ~Careful => Len(file) + Len(buf) + n <= MaxSize

\* What a careful client does with O_APPEND: it writes at the end only.
CarefulPut == append => m_dirty \/ ppos = m_high_watermark

\* ... and without: it truncates only where the descriptor stands.
CarefulTruncate == append \/ FlushedFd = ppos

Fits(n) == n <= Cap - Len(buf)

\* put, putn and filln, when the bytes fit.
PutFits(bs) ==
  /\ Ready
  /\ Careful => CarefulPut
  /\ Room(Len(bs))
  /\ Fits(Len(bs))
  /\ buf' = buf \o bs
  /\ m_dirty' = TRUE
  /\ fd' = TouchedFd
  /\ m_last_touched' = TouchedTouched
  /\ UNCHANGED <<file, append, m_is_open, m_pbase_offset, m_high_watermark, rest>>

\* ... and when they do not: a clean buffer is touched, a dirty one flushed.
PutOverflows(bs) ==
  /\ Ready
  /\ Careful => CarefulPut
  /\ Room(Len(bs))
  /\ ~Fits(Len(bs))
  /\ FlushAsserts
  /\ rest' = bs
  /\ file' = FlushedFile
  /\ fd' = IF m_dirty THEN FlushedFd ELSE TouchedFd
  /\ m_high_watermark' = SetHighWatermark
  /\ m_last_touched' = ppos
  /\ m_pbase_offset' = ppos
  /\ buf' = <<>>
  /\ m_dirty' = FALSE
  /\ UNCHANGED <<append, m_is_open>>

\* A pass of the loop: a chunk is copied into the buffer ...
PutChunk ==
  LET n == Smaller(Len(rest), Cap - Len(buf)) IN
  /\ rest # <<>>
  /\ Len(buf) < Cap
  /\ buf' = buf \o SubSeq(rest, 1, n)
  /\ rest' = SubSeq(rest, n + 1, Len(rest))
  /\ m_dirty' = TRUE
  /\ UNCHANGED <<file, fd, append, m_is_open, m_pbase_offset, m_high_watermark,
                 m_last_touched>>

\* What flush does, with the variables that seek and truncate set themselves.
FlushWith(pbase_offset, newFile, hwm, touched) ==
  /\ FlushAsserts
  /\ file' = newFile
  /\ fd' = FlushedFd
  /\ m_pbase_offset' = pbase_offset
  /\ buf' = <<>>
  /\ m_dirty' = FALSE
  /\ m_high_watermark' = hwm
  /\ m_last_touched' = touched
  /\ UNCHANGED append

\* ... and a full buffer is flushed first.
PutFlush ==
  /\ rest # <<>>
  /\ Len(buf) = Cap
  /\ FlushWith(ppos, FlushedFile, SetHighWatermark, FlushedTouched)
  /\ UNCHANGED <<m_is_open, rest>>

\* That write fails: the rest of the bytes is not put.
PutFails ==
  /\ rest # <<>>
  /\ Len(buf) = Cap
  /\ rest' = <<>>
  /\ UNCHANGED <<file, fd, append, m_is_open, m_pbase_offset, buf, m_dirty,
                 m_high_watermark, m_last_touched>>

Flush ==
  /\ Ready
  /\ m_dirty
  /\ FlushWith(ppos, FlushedFile, SetHighWatermark, FlushedTouched)
  /\ UNCHANGED <<m_is_open, rest>>

\* seek: after a flush, to a place that may be behind the end; a place before
\* the beginning is an error.
Seek(where, offset) ==
  LET result == offset + CASE where = "begin" -> 0
                           [] where = "current" -> ppos
                           [] where = "end" -> SetHighWatermark
  IN
  /\ Ready
  /\ result <= MaxSize
  /\ FlushWith(IF result < 0 THEN ppos ELSE result, FlushedFile, SetHighWatermark, FlushedTouched)
  /\ UNCHANGED <<m_is_open, rest>>

\* tell( seek_anchor::end )
TellEnd ==
  /\ Ready
  /\ m_high_watermark' = SetHighWatermark
  /\ UNCHANGED <<file, fd, append, m_is_open, m_pbase_offset, buf, m_dirty, m_last_touched,
                 rest>>

\* truncate: after a flush the file ends, or is extended, at the position. The
\* descriptor stays where it is.
Truncate ==
  /\ Ready
  /\ Careful => CarefulTruncate
  /\ FlushWith(ppos, Resized(FlushedFile, ppos), ppos, ppos)
  /\ UNCHANGED <<m_is_open, rest>>

Close ==
  /\ Ready
  /\ m_is_open' = FALSE
  /\ FlushWith(ppos, FlushedFile, SetHighWatermark, FlushedTouched)
  /\ UNCHANGED rest

\* really_open on a closed buffer.
Open(mode) ==
  LET found == IF mode = "truncate" THEN <<>> ELSE file
      end_pos == Len(found)
      start == IF mode \in {"at_end", "append"} THEN end_pos ELSE 0
  IN
  /\ ~m_is_open
  /\ m_is_open' = TRUE
  /\ append' = (mode = "append")
  /\ file' = found
  /\ fd' = start
  /\ m_high_watermark' = end_pos
  /\ m_pbase_offset' = start
  /\ m_last_touched' = start
  /\ buf' = <<>>
  /\ m_dirty' = FALSE
  /\ UNCHANGED rest

\* The buffer object is destroyed, or its process dies: nothing is flushed.
Drop ==
  /\ m_is_open
  /\ m_is_open' = FALSE
  /\ m_pbase_offset' = 0
  /\ buf' = <<>>
  /\ m_dirty' = FALSE
  /\ m_high_watermark' = 0
  /\ m_last_touched' = 0
  /\ rest' = <<>>
  /\ UNCHANGED <<file, fd, append>>

Init ==
  /\ file = <<>>
  /\ fd = 0
  /\ append = FALSE
  /\ m_is_open = FALSE
  /\ m_pbase_offset = 0
  /\ buf = <<>>
  /\ m_dirty = FALSE
  /\ m_high_watermark = 0
  /\ m_last_touched = 0
  /\ rest = <<>>

Next ==
  \/ \E bs \in Puts : PutFits(bs) \/ PutOverflows(bs)
  \/ PutChunk \/ PutFlush \/ PutFails
  \/ Flush
  \/ \E where \in {"begin", "current", "end"}, offset \in -MaxSize..MaxSize : Seek(where, offset)
  \/ TellEnd \/ Truncate \/ Close \/ Drop
  \/ \E mode \in Modes : Open(mode)

Spec == Init /\ [][Next]_vars

-----------------------------------------------------------------------------
(***************************************************************************)
(* Properties                                                              *)
(***************************************************************************)

\* The sequence the buffer stands for: the file with the bytes not yet flushed.
content == Overlay(file, m_pbase_offset, buf)

Sequence == INSTANCE OutputSequence WITH synced <- file, pos <- ppos

\* Every byte the client puts ends up at the position it was put at and
\* overwrites nothing else, across flushes, seeks behind the end and back,
\* chunks, failed writes and truncation.
ImplementsOutputSequence == Sequence!Spec

\* While the buffer is open, what tell( seek_anchor::end ) returns, and seek
\* relative to the end counts from, is the size of the output sequence.
HighWatermarkIsSize == m_is_open => SetHighWatermark = Len(content)

\* The assertion of really_flush would hold whenever flush were called. It
\* does for clients that put at least one byte (EmptyPuts = FALSE).
FlushNeverAborts == FlushAsserts
=============================================================================

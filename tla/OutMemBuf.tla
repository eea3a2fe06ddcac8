----------------------------- MODULE OutMemBuf -----------------------------
(***************************************************************************)
(* bstream::obmembuf on top of bstream::obstreambuf                        *)
(* (src/bstream/obstreambuf.cpp, src/bstream/obmembuf.cpp): an output      *)
(* sequence kept whole in a growing buffer, whose memory get_buffer lends  *)
(* out and the next write must not change (nodeoze::buffer, policy         *)
(* copy_on_write).                                                         *)
(***************************************************************************)
EXTENDS ByteSeq

CONSTANTS
  Values,    \* bytes the client writes
  Garbage,   \* a byte of memory nobody has written
  InitSize,  \* the size the buffer is created with
  MinSize,   \* the smallest size it grows to
  Careful,   \* the client does not write below the end while a slice is out
  MaxPut,    \* bound: number of bytes of one put, putn or filln
  MaxSize    \* bound: largest position

ASSUME OutMemBufAssumption ==
  /\ Zero \notin Values /\ Garbage \notin Values \cup {Zero}
  /\ InitSize \in Nat /\ MinSize \in Nat \ {0}
  /\ Careful \in BOOLEAN
  /\ MaxPut \in Nat /\ MaxSize \in Nat

VARIABLES
  mem,       \* the memory of the block m_buf refers to
  next,      \* pnext - pbase, which is the position: pbase_offset stays 0
  m_dirty,
  m_high_watermark,
  m_last_touched,
  m_dirty_start,  \* as an offset; not read, and here 0, while m_dirty is FALSE
  m_writable,
  slice,     \* what a client reads in the slice get_buffer returned it
  lent,      \* that slice shares the block
  given      \* history: what the slice held when it was returned

vars == <<mem, next, m_dirty, m_high_watermark, m_last_touched, m_dirty_start, m_writable,
          slice, lent, given>>
lending == <<slice, lent, given>>

Bytes == Values \cup {Zero, Garbage}
\* m_dirty_start points into a block that is not the buffer's any more.
Stale == -1

Puts == UNION {[1..n -> Values] : n \in 1..MaxPut}

TypeOK ==
  /\ mem \in Seq(Bytes)
  /\ next \in 0..Len(mem)
  /\ m_dirty \in BOOLEAN
  /\ m_high_watermark \in 0..Len(mem)
  /\ m_last_touched \in 0..MaxSize
  /\ m_dirty_start \in {Stale} \cup 0..MaxSize
  /\ m_writable \in BOOLEAN
  /\ lent \in BOOLEAN
  /\ slice \in Seq(Bytes)
  /\ given \in Seq(Bytes)

-----------------------------------------------------------------------------
\* set_high_watermark
SetHighWatermark == IF m_dirty THEN Larger(m_high_watermark, next) ELSE m_high_watermark

FlushedTouched == IF m_dirty THEN next ELSE m_last_touched

\* obmembuf::resize and buffer::size: half as much again, contents kept.
Grown(m, size) ==
  [i \in 1..Larger(MinSize, (size * 3) \div 2) |-> IF i <= Len(m) THEN m[i] ELSE Garbage]

\* Mutant: the slice is not known to share the block.
UniqueAlways == TRUE

\* buffer::is_unique
IsUnique == ~lent

\* make_writable, and buffer::force_unique( nbytes ) with the position for
\* nbytes: only the bytes below it are copied to the new block.
Unshared ==
  IF m_writable \/ IsUnique THEN mem
  ELSE [i \in 1..Len(mem) |-> IF i <= next THEN mem[i] ELSE Garbage]

\* The slice goes on sharing a block that is written to in place.
StillLent == lent /\ (m_writable \/ IsUnique)

\* Where the bytes not flushed begin, after a put at the position. set_ptrs
\* leaves the pointer as it is when a copy takes the place of the block.
DirtyStart(fits) ==
  IF ~(m_dirty /\ fits) THEN next
  ELSE IF m_writable \/ IsUnique THEN m_dirty_start ELSE Stale

\* Mutant: a hole is left as it is.
TouchedHole(m) == m

\* really_touch: the bytes between the high watermark and the position are set
\* to zero.
Touched(m) ==
  IF ~m_dirty /\ m_last_touched # next
    THEN [i \in 1..Len(m) |-> IF i > m_high_watermark /\ i <= next THEN Zero ELSE m[i]]
    ELSE m

\* The assertion of really_touch. (The conjunct on the position is in TypeOK.)
TouchAsserts == ~m_dirty /\ m_last_touched # next => m_high_watermark < Len(mem)

\* The assertions of flush and really_flush.
FlushAsserts == m_dirty => m_writable /\ m_dirty_start # Stale /\ next > m_dirty_start

-----------------------------------------------------------------------------
CarefulPut == lent /\ ~m_writable => next >= SetHighWatermark

Fits(n) == n <= Len(mem) - next

\* put, putn and filln: make_writable, touch, and the bytes; if they do not fit
\* the buffer is flushed and grows first.
Put(bs) ==
  LET old == Touched(Unshared)
      fits == Fits(Len(bs))
      room == IF fits THEN old ELSE Grown(old, next + Len(bs))
      new == [i \in 1..Len(room) |->
                IF i > next /\ i <= next + Len(bs) THEN bs[i - next] ELSE room[i]]
  IN
  /\ Careful => CarefulPut
  /\ next + Len(bs) <= MaxSize
  /\ mem' = new
  /\ next' = next + Len(bs)
  /\ m_dirty' = TRUE
  /\ m_writable' = TRUE
  /\ m_last_touched' = IF m_dirty /\ fits THEN m_last_touched ELSE next
  /\ m_dirty_start' = DirtyStart(fits)
  /\ m_high_watermark' =
       IF m_dirty THEN (IF fits THEN m_high_watermark ELSE SetHighWatermark)
       ELSE IF m_last_touched # next THEN Larger(m_high_watermark, next)
       ELSE m_high_watermark
  /\ slice' = IF StillLent THEN SubSeq(new, 1, Len(slice)) ELSE slice
  /\ lent' = (StillLent /\ fits)
  /\ UNCHANGED given

Flush ==
  /\ m_dirty
  /\ m_dirty' = FALSE
  /\ m_high_watermark' = SetHighWatermark
  /\ m_last_touched' = next
  /\ m_dirty_start' = 0
  /\ UNCHANGED <<mem, next, m_writable, lending>>

\* really_seek: after a flush; a place that is not below the end of the memory
\* makes it grow, away from a block that is shared.
Seek(where, offset) ==
  LET result == offset + CASE where = "begin" -> 0
                           [] where = "current" -> next
                           [] where = "end" -> SetHighWatermark
  IN
  /\ result <= MaxSize
  /\ m_dirty' = FALSE
  /\ m_high_watermark' = SetHighWatermark
  /\ m_last_touched' = FlushedTouched
  /\ m_dirty_start' = 0
  /\ next' = IF result < 0 THEN next ELSE result
  /\ IF result >= Len(mem)
       THEN mem' = Grown(mem, result) /\ lent' = FALSE
       ELSE UNCHANGED <<mem, lent>>
  /\ UNCHANGED <<m_writable, slice, given>>

\* tell( seek_anchor::end )
TellEnd ==
  /\ m_high_watermark' = SetHighWatermark
  /\ UNCHANGED <<mem, next, m_dirty, m_last_touched, m_dirty_start, m_writable, lending>>

\* get_buffer: the slice shares the block, unless there is nothing in it.
GetBuffer ==
  LET bytes == SubSeq(mem, 1, SetHighWatermark) IN
  /\ ~lent
  /\ m_writable' = FALSE
  /\ m_high_watermark' = SetHighWatermark
  /\ slice' = bytes
  /\ given' = bytes
  /\ lent' = (bytes # <<>>)
  /\ UNCHANGED <<mem, next, m_dirty, m_last_touched, m_dirty_start>>

\* The client lets go of the slice.
DropSlice ==
  /\ slice # <<>>
  /\ slice' = <<>>
  /\ given' = <<>>
  /\ lent' = FALSE
  /\ UNCHANGED <<mem, next, m_dirty, m_high_watermark, m_last_touched, m_dirty_start, m_writable>>

\* clear: the memory and its contents stay, the sequence is empty.
Clear ==
  /\ next' = 0
  /\ m_high_watermark' = 0
  /\ m_last_touched' = 0
  /\ m_dirty_start' = 0
  /\ m_dirty' = FALSE
  /\ UNCHANGED <<mem, m_writable, lending>>

Init ==
  /\ mem = [i \in 1..InitSize |-> Garbage]
  /\ next = 0
  /\ m_dirty = FALSE
  /\ m_high_watermark = 0
  /\ m_last_touched = 0
  /\ m_dirty_start = 0
  /\ m_writable = TRUE
  /\ slice = <<>>
  /\ lent = FALSE
  /\ given = <<>>

Next ==
  \/ \E bs \in Puts : Put(bs)
  \/ Flush
  \/ \E where \in {"begin", "current", "end"}, offset \in -MaxSize..MaxSize : Seek(where, offset)
  \/ TellEnd \/ GetBuffer \/ DropSlice \/ Clear

Spec == Init /\ [][Next]_vars

-----------------------------------------------------------------------------
(***************************************************************************)
(* Properties                                                              *)
(***************************************************************************)
content == SubSeq(mem, 1, SetHighWatermark)

Sequence == INSTANCE OutputSequence WITH synced <- content, pos <- next

\* Every byte put ends up at its position and nothing else changes, across
\* growth, seeks behind the end, and copies made because a slice is out.
ImplementsOutputSequence == Sequence!Spec

\* The slice a client got from get_buffer never changes under it.
SliceStable == slice = given

\* The assertion of really_touch holds whenever a byte is put: the memory is
\* not full when a put follows a seek.
TouchNeverAborts == TouchAsserts

\* The assertions of flush hold whenever it is called: a dirty buffer is
\* writable, and its first byte not synchronized is one of the block.
FlushNeverAborts == FlushAsserts
=============================================================================

------------------------------ MODULE RaftLog ------------------------------
(***************************************************************************)
(* The persistent log of the Raft module: class nodeoze::raft::log         *)
(* (include/nodeoze/raft/log.h) over the frames of raft/log_frames.h.      *)
(*                                                                         *)
(* A file is a sequence of frames and a position is the number of frames   *)
(* in front of it: the code only compares positions with frame boundaries. *)
(* A fragment of a frame (a write cut short) and a hole of zero bytes are  *)
(* the pseudo-frame Torn, which read_frame cannot read.                    *)
(*                                                                         *)
(* The process may die between any two steps and in the middle of a write; *)
(* what was handed to ::write survives it (nothing in the code calls       *)
(* fsync, so the loss of the operating system's cache is not modelled).    *)
(* A write may also fail and be reported to the caller.                    *)
(***************************************************************************)
EXTENDS Integers, Sequences

CONSTANTS
  Payloads,    \* what an entry carries (its term and its payload buffer)
  Votes,       \* values of the vote field; 0 is "no vote"
  MaxTerm,     \* bound: terms are 1..MaxTerm
  MaxIndex,    \* bound: indices are 1..MaxIndex
  MaxFrames,   \* bound: no write starts when the open file, or the descriptor's
               \* offset in it, is this long
  MaxFaults,   \* bound: number of failed writes
  MaxCrashes,  \* bound: number of crashes
  RetryPrune   \* TRUE: the caller keeps using the log after a failed prune_back

ASSUME ConstantsAssumption ==
  /\ 0 \in Votes
  /\ MaxTerm \in Nat \ {0}
  /\ MaxIndex \in Nat \ {0}
  /\ MaxFrames \in Nat
  /\ MaxFaults \in Nat
  /\ MaxCrashes \in Nat
  /\ RetryPrune \in BOOLEAN

Terms == 1..MaxTerm
Indices == 1..MaxIndex

(***************************************************************************)
(* Frames (log_frames.h): a replicant_state, a state_machine_update or a   *)
(* fragment. pos is frame::m_pos, the position stored inside the frame.    *)
(***************************************************************************)
StateFrame == [type : {"state"}, term : Terms, vote : Votes, pos : Nat]
EntryFrame == [type : {"entry"}, index : Indices, data : Payloads, pos : Nat]
Torn == [type |-> "torn"]
Frame == StateFrame \cup EntryFrame \cup {Torn}

VARIABLES
  files,     \* the contents of the two files, "main" and "tmp"
  dir,       \* the names that exist
  m_open,    \* m_os.is_open()
  m_file,    \* the name m_os writes to
  m_append,  \* m_os was opened with O_APPEND
  m_base,    \* m_os: pbase_offset, the position its buffer starts at
  m_at,      \* m_os: the offset of the file descriptor
  m_buf,     \* m_os: frames put and not yet written
  m_log,     \* the entries in memory (std::deque)
  m_term, m_vote, m_dirty,  \* *m_state
  pc,        \* where the running member function is
  rpos,      \* recover: frame_position;  prune_front: entries rewritten
  acked,     \* history: entries whose append succeeded and nobody pruned
  gone,      \* history: entries a finished prune removed
  maybe,     \* history: the <<term, vote>> a restart may come back with
  cut,       \* history: prune_back dropped a state frame not rewritten since
  hole,      \* history: prune_back cut the file in front of the descriptor
  faults, crashes

osvars == <<m_open, m_file, m_append, m_base, m_at, m_buf>>
statevars == <<m_term, m_vote, m_dirty>>
histvars == <<acked, gone, maybe, cut, hole>>
vars == <<files, dir, osvars, m_log, statevars, pc, rpos, histvars,
          faults, crashes>>

Phases == {"down", "start", "recover", "ready", "copy", "rename", "reopen",
           "abort"}

TypeOK ==
  /\ files \in [{"main", "tmp"} -> Seq(Frame)]
  /\ dir \subseteq {"main", "tmp"}
  /\ m_open \in BOOLEAN
  /\ m_file \in {"main", "tmp"}
  /\ m_append \in BOOLEAN
  /\ m_base \in Nat
  /\ m_at \in Nat
  /\ m_buf \in Seq(Frame)
  /\ m_log \in Seq(EntryFrame)
  /\ m_term \in Terms /\ m_vote \in Votes /\ m_dirty \in BOOLEAN
  /\ pc \in Phases
  /\ rpos \in Nat
  /\ acked \subseteq (Indices \X Payloads)
  /\ gone \subseteq (Indices \X Payloads)
  /\ maybe \subseteq (Terms \X Votes)
  /\ cut \in BOOLEAN
  /\ hole \in BOOLEAN
  /\ faults \in 0..MaxFaults
  /\ crashes \in 0..MaxCrashes

-----------------------------------------------------------------------------
(***************************************************************************)
(* The output file stream m_os, as the log uses it.                        *)
(***************************************************************************)

\* Mutant: the bytes still buffered are not counted.
PositionUnbuffered == m_base

\* obstreambuf::ppos
Position == m_base + Len(m_buf)

\* What ::write leaves in a file: data at its end under O_APPEND, else at the
\* descriptor's offset at, behind a hole when that is past the end. Nothing is
\* written when there is nothing to write.
Hole(n) == [k \in 1..n |-> Torn]

Written(f, at, data, app) ==
  IF data = <<>> THEN f
  ELSE IF app THEN f \o data
  ELSE IF at >= Len(f) THEN f \o (Hole(at - Len(f)) \o data)
  ELSE SubSeq(f, 1, at) \o data \o SubSeq(f, at + Len(data) + 1, Len(f))

\* The offset after a write of n frames. It plays no part under O_APPEND, and is
\* then left as open set it.
Advanced(n) == IF m_append THEN m_at ELSE m_at + n

\* obfilebuf::really_flush of the buffer followed by data. The lseek to
\* pbase_offset is skipped because last_touched equals it: in the log every
\* change of position (open, truncate, a flush) sets last_touched as well.
FlushWith(data) ==
  /\ files' = [files EXCEPT ![m_file] =
                 Written(@, m_at, m_buf \o data, m_append)]
  /\ m_base' = m_base + Len(m_buf \o data)
  /\ m_at' = Advanced(Len(m_buf \o data))
  /\ m_buf' = <<>>
  /\ UNCHANGED <<dir, m_open, m_file, m_append>>

\* A system call on m_os fails: always once the stream is closed (m_fd is then
\* a stale descriptor), else by one of the faults the bound allows.
WriteError ==
  IF m_open THEN faults < MaxFaults /\ faults' = faults + 1
            ELSE UNCHANGED faults

\* Mutant: a failed flush throws the buffered frames away.
KeepNothing(f) ==
  /\ WriteError
  /\ m_buf' = <<>>
  /\ UNCHANGED <<files, dir, m_open, m_file, m_append, m_base, m_at>>

\* A failed write keeps the frame in the buffer, whole when the closing flush
\* failed, a fragment when an overflow in the middle of the frame failed.
KeepUnwritten(f) ==
  /\ WriteError
  /\ m_buf' \in {Append(m_buf, f), Append(m_buf, Torn)}
  /\ UNCHANGED <<files, dir, m_open, m_file, m_append, m_base, m_at>>

Room == /\ Len(files[m_file]) + Len(m_buf) < MaxFrames
        /\ m_append \/ m_at + Len(m_buf) < MaxFrames

StateFrameAt(t, v, p) == [type |-> "state", term |-> t, vote |-> v, pos |-> p]
EntryFrameAt(i, d, p) == [type |-> "entry", index |-> i, data |-> d, pos |-> p]

\* What the main file will hold once the buffer is written.
Image == Written(files["main"], m_at, m_buf, m_append)

Key(e) == <<e.index, e.data>>
EntryKeys(f) == {Key(f[k]) : k \in {j \in DOMAIN f : f[j].type = "entry"}}

\* Mutant: a change of the vote alone does not mark the state dirty.
DirtiedByTermOnly(t, v) == m_dirty \/ t # m_term

\* replicant_state::update: m_dirty after term( t ) and vote( v )
Dirtied(t, v) == m_dirty \/ t # m_term \/ v # m_vote

\* obfilebuf::close
FlushClose ==
  /\ files' = [files EXCEPT ![m_file] = Written(@, m_at, m_buf, m_append)]
  /\ m_base' = Position
  /\ m_at' = Advanced(Len(m_buf))
  /\ m_buf' = <<>>
  /\ m_open' = FALSE
  /\ UNCHANGED <<dir, m_file, m_append>>

\* The object of a process that is gone: a fresh log (log.h constructor).
Drop ==
  /\ m_open' = FALSE
  /\ m_file' = "main"
  /\ m_append' = FALSE
  /\ m_base' = 0
  /\ m_at' = 0
  /\ m_buf' = <<>>
  /\ m_log' = <<>>
  /\ m_term' = 1
  /\ m_vote' = 0
  /\ m_dirty' = FALSE
  /\ pc' = "down"
  /\ rpos' = 0

-----------------------------------------------------------------------------
(***************************************************************************)
(* initialize and restart                                                  *)
(***************************************************************************)

\* initialize, up to the open of the truncated file.
Initialize(t, v) ==
  /\ pc = "down"
  /\ m_term' = t
  /\ m_vote' = v
  /\ m_dirty' = Dirtied(t, v)
  /\ m_log' = <<>>
  /\ files' = [n \in {"main", "tmp"} |-> <<>>]
  /\ dir' = {"main"}
  /\ m_open' = TRUE
  /\ m_file' = "main"
  /\ m_append' = FALSE
  /\ m_base' = 0
  /\ m_at' = 0
  /\ m_buf' = <<>>
  /\ pc' = "start"
  /\ rpos' = 0
  /\ acked' = {}
  /\ gone' = {}
  /\ maybe' = {<<1, 0>>, <<t, v>>}
  /\ cut' = FALSE
  /\ hole' = FALSE
  /\ UNCHANGED <<faults, crashes>>

\* Mutant: m_state is replaced by a default constructed one, of term 0.
RestartTermZero ==
  /\ pc = "down"
  /\ m_term' = 0
  /\ m_vote' = 0
  /\ m_dirty' = FALSE
  /\ m_log' = <<>>
  /\ dir' = dir \ {"tmp"}
  /\ files' = [files EXCEPT !["tmp"] = <<>>]
  /\ pc' = IF "main" \in dir THEN "recover" ELSE "down"
  /\ rpos' = 0
  /\ UNCHANGED <<osvars, histvars, faults, crashes>>

\* restart, up to the call of recover; without a main file it fails there.
Restart ==
  /\ pc = "down"
  /\ m_term' = 1
  /\ m_vote' = 0
  /\ m_dirty' = FALSE
  /\ m_log' = <<>>
  /\ dir' = dir \ {"tmp"}
  /\ files' = [files EXCEPT !["tmp"] = <<>>]
  /\ pc' = IF "main" \in dir THEN "recover" ELSE "down"
  /\ rpos' = 0
  /\ UNCHANGED <<osvars, histvars, faults, crashes>>

\* One turn of the loop of recover, for a frame that can be read; a failed
\* assert ends the process.
RecoverFrame ==
  LET f == files["main"][rpos + 1] IN
  /\ pc = "recover"
  /\ rpos < Len(files["main"])
  /\ f # Torn
  /\ \/ /\ f.type = "state"
        /\ f.pos = rpos /\ f.term >= m_term
        /\ m_term' = f.term
        /\ m_vote' = f.vote
        /\ m_dirty' = Dirtied(f.term, f.vote)
        /\ rpos' = rpos + 1
        /\ UNCHANGED <<m_log, pc>>
     \/ /\ f.type = "entry"
        /\ f.pos = rpos
        /\ m_log' = Append(m_log, f)
        /\ rpos' = rpos + 1
        /\ UNCHANGED <<statevars, pc>>
     \/ /\ f.pos # rpos \/ (f.type = "state" /\ f.term < m_term)
        /\ pc' = "abort"
        /\ UNCHANGED <<m_log, statevars, rpos>>
  /\ UNCHANGED <<files, dir, osvars, histvars, faults, crashes>>

\* read_frame throws on a fragment: restart returns the error.
RecoverFails ==
  /\ pc = "recover"
  /\ rpos < Len(files["main"])
  /\ files["main"][rpos + 1] = Torn
  /\ Drop
  /\ UNCHANGED <<files, dir, histvars, faults, crashes>>

\* Mutant: the loop stops in front of the last frame.
RecoverDoneEarly ==
  /\ pc = "recover"
  /\ rpos >= Len(files["main"]) - 1
  /\ m_open' = TRUE
  /\ m_file' = "main"
  /\ m_append' = TRUE
  /\ m_base' = Len(files["main"])
  /\ m_at' = Len(files["main"])
  /\ m_buf' = <<>>
  /\ pc' = "start"
  /\ rpos' = 0
  /\ UNCHANGED <<files, dir, m_log, statevars, histvars, faults, crashes>>

\* The end of recover, then m_os.open( ..., append ).
RecoverDone ==
  /\ pc = "recover"
  /\ rpos = Len(files["main"])
  /\ m_open' = TRUE
  /\ m_file' = "main"
  /\ m_append' = TRUE
  /\ m_base' = Len(files["main"])
  /\ m_at' = Len(files["main"])
  /\ m_buf' = <<>>
  /\ pc' = "start"
  /\ rpos' = 0
  /\ UNCHANGED <<files, dir, m_log, statevars, histvars, faults, crashes>>

\* The write_frame( m_state ) that ends initialize and restart.
StartWrite ==
  /\ pc = "start"
  /\ Room
  /\ FlushWith(<<StateFrameAt(m_term, m_vote, Position)>>)
  /\ pc' = "ready"
  /\ maybe' = {<<m_term, m_vote>>}
  /\ cut' = FALSE
  /\ UNCHANGED <<m_log, statevars, rpos, acked, gone, hole, faults, crashes>>

\* ... fails: the caller gets the error and gives the object up.
StartWriteFails ==
  /\ pc = "start"
  /\ faults < MaxFaults
  /\ faults' = faults + 1
  /\ Drop
  /\ UNCHANGED <<files, dir, histvars, crashes>>

-----------------------------------------------------------------------------
(***************************************************************************)
(* append and update_replicant_state                                       *)
(***************************************************************************)

\* The index a caller gives the next entry.
NextIndex == IF m_log = <<>> THEN 1 ELSE m_log[Len(m_log)].index + 1

AppendEntry(d) ==
  LET e == EntryFrameAt(NextIndex, d, Position) IN
  /\ pc = "ready"
  /\ Room
  /\ NextIndex \in Indices
  /\ m_log' = Append(m_log, e)
  /\ \/ /\ m_open
        /\ FlushWith(<<e>>)
        /\ acked' = acked \cup {Key(e)}
        /\ UNCHANGED faults
     \/ /\ KeepUnwritten(e)
        /\ UNCHANGED acked
  /\ gone' = gone \ {Key(e)}
  /\ UNCHANGED <<statevars, pc, rpos, maybe, cut, hole, crashes>>

UpdateReplicantState(t, v) ==
  LET dirty == Dirtied(t, v)
      f == StateFrameAt(t, v, Position)
  IN
  /\ pc = "ready"
  /\ t >= m_term
  /\ m_term' = t
  /\ m_vote' = v
  /\ \/ /\ ~dirty
        /\ maybe' = {<<t, v>>}
        /\ UNCHANGED <<files, dir, osvars, m_dirty, faults, cut>>
     \/ /\ dirty
        /\ Room /\ m_open
        /\ FlushWith(<<f>>)
        /\ m_dirty' = FALSE
        /\ maybe' = {<<t, v>>}
        /\ cut' = FALSE
        /\ UNCHANGED faults
     \/ /\ dirty
        /\ Room
        /\ KeepUnwritten(f)
        /\ m_dirty' = TRUE
        /\ maybe' = maybe \cup {<<t, v>>}
        /\ UNCHANGED cut
  /\ UNCHANGED <<m_log, pc, rpos, acked, gone, hole, crashes>>

-----------------------------------------------------------------------------
(***************************************************************************)
(* prune_back                                                              *)
(***************************************************************************)

\* prune_back( m_log[n].index ) pops every entry of a higher index: those
\* behind the n-th. (Were the n-th not left at the back, the code would return
\* state_not_recoverable; IntegrityCheck rules that out.)
PopsDownTo(n) ==
  /\ n \in 1 .. (Len(m_log) - 1)
  /\ \A k \in (n + 1) .. Len(m_log) : m_log[k].index > m_log[n].index

\* Mutant: truncate_at is not updated by the loop of pops.
TruncateAtBack(n) == m_log[Len(m_log)].pos

\* The position of the last entry popped, where the file is cut.
TruncateAt(n) == m_log[n + 1].pos

\* The seek of log::truncate flushes the buffer, then ftruncate cuts. The
\* descriptor stays where the flush left it: obfilebuf::truncate does not move
\* it and sets last_touched, so that no later flush does.
PruneBack(n) ==
  /\ pc = "ready" /\ m_open
  /\ PopsDownTo(n)
  /\ m_log' = SubSeq(m_log, 1, n)
  /\ files' = [files EXCEPT ![m_file] =
                 SubSeq(Written(@, m_at, m_buf, m_append), 1, TruncateAt(n))]
  /\ m_base' = TruncateAt(n)
  /\ m_at' = Advanced(Len(m_buf))
  /\ m_buf' = <<>>
  /\ acked' = acked \ {Key(m_log[k]) : k \in (n + 1) .. Len(m_log)}
  /\ gone' = gone \cup {Key(m_log[k]) : k \in (n + 1) .. Len(m_log)}
  /\ cut' = (cut \/ \E k \in (TruncateAt(n) + 1) .. Len(Image) :
                      Image[k].type = "state")
  /\ hole' = (hole \/ ~m_append)
  /\ UNCHANGED <<dir, m_open, m_file, m_append, statevars, pc, rpos,
                 maybe, faults, crashes>>

\* The flush fails: memory is pruned, the file is not, the caller is told.
PruneBackFails(n) ==
  /\ pc = "ready"
  /\ PopsDownTo(n)
  /\ m_buf # <<>> \/ ~m_open
  /\ WriteError
  /\ acked' = acked \ {Key(m_log[k]) : k \in (n + 1) .. Len(m_log)}
  /\ IF RetryPrune
       THEN /\ m_log' = SubSeq(m_log, 1, n)
            /\ UNCHANGED <<osvars, statevars, pc, rpos>>
       ELSE Drop
  /\ UNCHANGED <<files, dir, gone, maybe, cut, hole, crashes>>

\* prune_back at the last index has nothing to do and reports success.
PruneBackAtEnd ==
  /\ pc = "ready"
  /\ m_log # <<>>
  /\ gone' = gone \cup {a \in EntryKeys(Image) : a[1] > m_log[Len(m_log)].index}
  /\ UNCHANGED <<files, dir, osvars, m_log, statevars, pc, rpos,
                 acked, maybe, cut, hole, faults, crashes>>

-----------------------------------------------------------------------------
(***************************************************************************)
(* prune_front: rewrite what is left to the temporary file and rename it.  *)
(***************************************************************************)

\* prune_front( m_log[n].index ): the pops, m_os.close(), m_os.open( tmp, truncate ).
PruneFront(n) ==
  /\ pc = "ready" /\ m_open
  /\ n \in 2 .. Len(m_log)
  /\ \A k \in 1 .. (n - 1) : m_log[k].index < m_log[n].index
  /\ m_log' = SubSeq(m_log, n, Len(m_log))
  /\ files' = [files EXCEPT !["main"] = Written(@, m_at, m_buf, m_append),
                            !["tmp"] = <<>>]
  /\ dir' = dir \cup {"tmp"}
  /\ m_file' = "tmp"
  /\ m_append' = FALSE
  /\ m_base' = 0
  /\ m_at' = 0
  /\ m_buf' = <<>>
  /\ acked' = acked \ {Key(m_log[k]) : k \in 1 .. (n - 1)}
  /\ pc' = "copy"
  /\ rpos' = 0
  /\ UNCHANGED <<m_open, statevars, gone, maybe, cut, hole, faults, crashes>>

\* One turn of the loop: the entry gets its new position and is put, not
\* flushed; a full buffer is written out first.
CopyEntry ==
  LET e == [m_log[rpos + 1] EXCEPT !.pos = Position] IN
  /\ pc = "copy"
  /\ rpos < Len(m_log)
  /\ m_log' = [m_log EXCEPT ![rpos + 1] = e]
  /\ \/ /\ m_buf' = Append(m_buf, e)
        /\ UNCHANGED <<files, m_base, m_at>>
     \/ /\ files' = [files EXCEPT !["tmp"] = Written(@, m_at, m_buf, FALSE)]
        /\ m_base' = Position
        /\ m_at' = Advanced(Len(m_buf))
        /\ m_buf' = <<e>>
  /\ rpos' = rpos + 1
  /\ UNCHANGED <<dir, m_open, m_file, m_append, statevars, pc, histvars,
                 faults, crashes>>

\* Mutant: the stream is closed without writing what it buffers.
CopyStateUnflushed ==
  /\ pc = "copy"
  /\ rpos = Len(m_log)
  /\ m_base' = Position + 1
  /\ m_at' = m_at
  /\ m_buf' = <<>>
  /\ m_open' = FALSE
  /\ pc' = "rename"
  /\ rpos' = 0
  /\ UNCHANGED <<files, dir, m_file, m_append, m_log, statevars, histvars,
                 faults, crashes>>

\* write_frame( m_state ), flushed, then m_os.close().
CopyState ==
  /\ pc = "copy"
  /\ rpos = Len(m_log)
  /\ files' = [files EXCEPT !["tmp"] =
       Written(@, m_at,
               Append(m_buf, StateFrameAt(m_term, m_vote, Position)), FALSE)]
  /\ m_base' = Position + 1
  /\ m_at' = Advanced(Len(m_buf) + 1)
  /\ m_buf' = <<>>
  /\ m_open' = FALSE
  /\ pc' = "rename"
  /\ rpos' = 0
  /\ UNCHANGED <<dir, m_file, m_append, m_log, statevars, histvars,
                 faults, crashes>>

\* filesystem::rename( tmp, main )
Rename ==
  /\ pc = "rename"
  /\ files' = [files EXCEPT !["main"] = files["tmp"], !["tmp"] = <<>>]
  /\ dir' = {"main"}
  /\ gone' = gone \cup (EntryKeys(files["main"]) \ EntryKeys(files["tmp"]))
  /\ maybe' = {<<m_term, m_vote>>}
  /\ cut' = FALSE
  /\ hole' = FALSE
  /\ pc' = "reopen"
  /\ UNCHANGED <<osvars, m_log, statevars, rpos, acked, faults, crashes>>

\* m_os.open( main, append )
Reopen ==
  /\ pc = "reopen"
  /\ m_open' = TRUE
  /\ m_file' = "main"
  /\ m_append' = TRUE
  /\ m_base' = Len(files["main"])
  /\ m_at' = Len(files["main"])
  /\ pc' = "ready"
  /\ UNCHANGED <<files, dir, m_buf, m_log, statevars, rpos, histvars,
                 faults, crashes>>

\* Any step of prune_front throws: the stream is closed, the error returned
\* and the object given up.
PruneFrontFails ==
  /\ \/ pc \in {"copy", "rename", "reopen"}
     \/ pc = "ready" /\ Len(m_log) > 1 /\ (m_buf # <<>> \/ ~m_open)
  /\ \/ pc \in {"rename", "reopen"} /\ faults < MaxFaults /\ faults' = faults + 1
     \/ pc \in {"copy", "ready"} /\ WriteError
  /\ Drop
  /\ UNCHANGED <<files, dir, histvars, crashes>>

\* An index outside the log: the error set for the caller also makes the
\* function close m_os on its way out; memory is left as it was.
PruneFrontInvalid(i) ==
  /\ pc = "ready" /\ m_open
  /\ m_log # <<>>
  /\ i \notin m_log[1].index .. m_log[Len(m_log)].index
  /\ FlushClose
  /\ UNCHANGED <<m_log, statevars, pc, rpos, histvars, faults, crashes>>

-----------------------------------------------------------------------------
\* close: write_frame( m_state ), m_os.close().
Close ==
  /\ pc = "ready" /\ m_open
  /\ Room
  /\ files' = [files EXCEPT !["main"] =
       Written(@, m_at,
               Append(m_buf, StateFrameAt(m_term, m_vote, Position)), m_append)]
  /\ Drop
  /\ maybe' = {<<m_term, m_vote>>}
  /\ cut' = FALSE
  /\ UNCHANGED <<dir, acked, gone, hole, faults, crashes>>

\* ... fails: the frame was not written; the caller gives the object up.
CloseFails ==
  /\ pc = "ready"
  /\ WriteError
  /\ Drop
  /\ UNCHANGED <<files, dir, histvars, crashes>>

\* The process dies between two steps, or inside one before it wrote.
Crash ==
  /\ pc \notin {"down", "abort"}
  /\ crashes < MaxCrashes
  /\ crashes' = crashes + 1
  /\ Drop
  /\ UNCHANGED <<files, dir, histvars, faults>>

\* The process dies inside ::write: some whole frames and a fragment are in
\* the file.
CrashInWrite(k) ==
  /\ pc \in {"start", "ready"} /\ m_open
  /\ Room
  /\ crashes < MaxCrashes
  /\ crashes' = crashes + 1
  /\ files' = [files EXCEPT ![m_file] =
       Written(@, m_at, Append(SubSeq(m_buf, 1, k), Torn), m_append)]
  /\ Drop
  /\ UNCHANGED <<dir, histvars, faults>>

Init ==
  /\ files = [n \in {"main", "tmp"} |-> <<>>]
  /\ dir = {}
  /\ m_open = FALSE
  /\ m_file = "main"
  /\ m_append = FALSE
  /\ m_base = 0
  /\ m_at = 0
  /\ m_buf = <<>>
  /\ m_log = <<>>
  /\ m_term = 1 /\ m_vote = 0 /\ m_dirty = FALSE
  /\ pc = "down"
  /\ rpos = 0
  /\ acked = {} /\ gone = {}
  /\ maybe = {<<1, 0>>}
  /\ cut = FALSE
  /\ hole = FALSE
  /\ faults = 0 /\ crashes = 0

Next ==
  \/ \E t \in Terms, v \in Votes : Initialize(t, v)
  \/ Restart
  \/ RecoverFrame
  \/ RecoverFails
  \/ RecoverDone
  \/ StartWrite
  \/ StartWriteFails
  \/ \E d \in Payloads : AppendEntry(d)
  \/ \E t \in Terms, v \in Votes : UpdateReplicantState(t, v)
  \/ \E n \in DOMAIN m_log : PruneBack(n)
  \/ \E n \in DOMAIN m_log : PruneBackFails(n)
  \/ PruneBackAtEnd
  \/ \E n \in DOMAIN m_log : PruneFront(n)
  \/ CopyEntry
  \/ CopyState
  \/ Rename
  \/ Reopen
  \/ PruneFrontFails
  \/ \E i \in Indices : PruneFrontInvalid(i)
  \/ Close
  \/ CloseFails
  \/ Crash
  \/ \E k \in 0..Len(m_buf) : CrashInWrite(k)

Spec == Init /\ [][Next]_vars

-----------------------------------------------------------------------------
(***************************************************************************)
(* Properties                                                              *)
(***************************************************************************)

\* No sequence of crashes, failed writes and prunes leaves a file on which the
\* assertions of log::recover (stored position equals real position, terms
\* never decrease) fail.
NoAbort == pc # "abort"

\* An entry whose append reported success and that nobody pruned is in the
\* main file at every moment, in the middle of prune_front's rewrite too,
\* unless prune_back left the descriptor behind the end of the file.
AckedOnDisk == ~hole => acked \subseteq EntryKeys(files["main"])

\* A file that no crash and no failed write has touched can be read from end
\* to end by the next restart. It holds as long as prune_back is not followed
\* by another write of the same stream (Hole).
RestartReads ==
  pc = "recover" /\ rpos < Len(files["main"]) /\ crashes = 0 /\ faults = 0
    => files["main"][rpos + 1] # Torn

\* Once restart has succeeded, and as long as the log is used, every
\* acknowledged entry is in memory: recover loses none silently.
AckedInMemory == pc = "ready" => acked \subseteq EntryKeys(m_log)

\* The deque and the file (with what is still buffered) hold the same entries
\* in the same order, each at the position it stores, after failed writes too,
\* unless a failed write left a fragment.
LogMatchesFile ==
  /\ pc = "ready" /\ m_open
  /\ \A k \in DOMAIN Image : Image[k] # Torn
  => /\ \A k \in DOMAIN m_log :
          m_log[k].pos + 1 \in DOMAIN Image /\ Image[m_log[k].pos + 1] = m_log[k]
     /\ \A j, k \in DOMAIN m_log : j < k => m_log[j].pos < m_log[k].pos
     /\ \A j \in DOMAIN Image :
          Image[j].type = "entry" => \E k \in DOMAIN m_log : m_log[k] = Image[j]

\* log::integrity_check, which nothing in the code calls: the indices in
\* memory are consecutive, while recover is reading as well.
IntegrityCheck ==
  \A k \in DOMAIN m_log : m_log[k].index = m_log[1].index + k - 1

\* An entry that a finished prune_back or prune_front removed is not in the
\* file, so no restart brings it back.
NoResurrection == gone \cap EntryKeys(files["main"]) = {}

\* The term and vote that recover reads are the last acknowledged ones, or
\* those of a later update that reported failure.
RecoveredStateAcknowledged ==
  pc = "start" /\ m_append => <<m_term, m_vote>> \in maybe

\* The same as long as prune_back has not cut a state frame out of the file.
RecoveredStateUnlessCut == ~cut => RecoveredStateAcknowledged

-----------------------------------------------------------------------------
(***************************************************************************)
(* The inductive strengthening of NoAbort (proved in RaftLogProofs).       *)
(***************************************************************************)

\* f has a fragment or a hole.
HasTorn(f) == \E k \in DOMAIN f : f[k] = Torn

\* Where the stream stands in each phase of the member functions. The position
\* the stream believes in is the end of the file, unless the file has a hole;
\* the descriptor is never in front of the end.
StreamInPhase ==
  /\ m_open => /\ m_base <= Len(files[m_file])
               /\ m_base = Len(files[m_file]) \/ HasTorn(files[m_file])
               /\ m_append \/ Len(files[m_file]) <= m_at
  /\ pc \in {"down", "recover", "rename", "reopen"} => ~m_open /\ m_buf = <<>>
  /\ pc \in {"start", "ready"} => m_file = "main"
  /\ pc = "start" => m_open
  /\ pc = "copy" => /\ m_open /\ m_file = "tmp" /\ ~m_append /\ rpos <= Len(m_log)
                    /\ m_base = Len(files["tmp"]) /\ m_at = Len(files["tmp"])
  /\ pc = "recover" => /\ rpos <= Len(files["main"])
                       /\ \A k \in 1..rpos : files["main"][k] # Torn

\* Every frame of f in front of the first fragment stores its own position, f
\* starting at off.
PositionsFrom(f, off) ==
  \A k \in DOMAIN f :
    (\A j \in 1..k : f[j] # Torn) => f[k].pos = off + k - 1

Positions ==
  /\ PositionsFrom(files["main"], 0)
  /\ PositionsFrom(m_buf, m_base)
  /\ pc \in {"copy", "rename"} => PositionsFrom(files["tmp"], 0)

\* The terms of the state frames of f do not decrease.
Ascending(f) ==
  \A j, k \in DOMAIN f :
    j < k /\ f[j].type = "state" /\ f[k].type = "state" => f[j].term <= f[k].term

AtMost(f, t) == \A k \in DOMAIN f : f[k].type = "state" => f[k].term <= t

NoState(f) == \A k \in DOMAIN f : f[k].type # "state"

TermOrder ==
  /\ Ascending(files["main"])
  /\ pc \in {"start", "ready"} =>
       /\ Ascending(m_buf)
       /\ AtMost(files["main"], m_term)
       /\ AtMost(m_buf, m_term)
       /\ \A j \in DOMAIN files["main"], k \in DOMAIN m_buf :
            files["main"][j].type = "state" /\ m_buf[k].type = "state"
              => files["main"][j].term <= m_buf[k].term
  /\ pc = "recover" =>
       /\ \A k \in DOMAIN files["main"] :
            files["main"][k].type = "state" =>
              IF k <= rpos THEN files["main"][k].term <= m_term
                           ELSE m_term <= files["main"][k].term
  /\ pc = "copy" => NoState(files["tmp"]) /\ NoState(m_buf)
  /\ pc = "rename" => Ascending(files["tmp"]) /\ AtMost(files["tmp"], m_term)
  /\ pc = "reopen" => AtMost(files["main"], m_term)

\* Every entry in memory lies in front of the place the phase has come to.
LogBelow ==
  /\ pc = "recover" => \A k \in DOMAIN m_log : m_log[k].pos < rpos
  /\ pc \in {"start", "ready"} => \A k \in DOMAIN m_log : m_log[k].pos < Position
  /\ pc = "copy" => \A k \in 1..rpos : m_log[k].pos < Position
  /\ pc = "rename" =>
       \A k \in DOMAIN m_log : m_log[k].pos < Len(files["tmp"])
  /\ pc = "reopen" =>
       \A k \in DOMAIN m_log : m_log[k].pos < Len(files["main"])

\* The entries in memory that have their final position lie in file order;
\* while prune_front copies, those are the ones already rewritten.
LogOrder ==
  LET placed == IF pc = "copy" THEN rpos ELSE Len(m_log) IN
  \A j, k \in 1..placed : j < k => m_log[j].pos < m_log[k].pos

NoAbortInv ==
  /\ TypeOK /\ StreamInPhase /\ Positions /\ TermOrder /\ LogBelow /\ LogOrder
  /\ NoAbort
=============================================================================

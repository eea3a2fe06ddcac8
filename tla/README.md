# nodeoze: a TLA+ verification project

nodeoze is a C++ library for event-driven programs: a run loop over libuv,
promises, sockets and streams, RPC, a binary stream layer (`bstream`) and the
beginnings of a Raft implementation on top of it. This directory holds TLA+
models of its own core logic, the TLC configurations that check them, and
proofs checked by TLAPS. Paths below are relative to the repository root.

Contents: [inventory](#inventory) · [plan](#plan) · [modules](#modules) ·
[runs](#runs) · [what the code does otherwise](#what-the-code-does-otherwise) · [proofs](#proofs) ·
[what is not modelled](#what-is-not-modelled)

## Inventory

| component | state it keeps | operations | hard behaviour | what makes it correct |
|---|---|---|---|---|
| raft log (`include/nodeoze/raft/log.h`, `log_frames.h`) | one main file of frames, a temporary file while it is rewritten, an output stream, the entries in memory, term and vote | initialize, restart/recover, append, update_replicant_state, prune_back, prune_front, close | crashes between and inside writes, failed writes, a rewrite in several steps | what was acknowledged is on disk and comes back; recover's assertions hold on every file the log leaves; pruned entries stay gone |
| raft replicant (`raft/replicant.h`, `messages.h`) | term, vote, state, votes received, next indices | initialize, restart, election timeout, request-vote and append-entries handlers | message order, restart between vote and reply | one leader per term, one vote per term |
| bstream output buffers (`src/bstream/obstreambuf.cpp`, `obfilebuf.cpp`, `obmembuf.cpp`) | a window of bytes, positions, watermark, dirty flag; for files a descriptor with an offset of its own; for memory a block that may be shared | put, putn, filln, flush, seek, tell, truncate, open, close, get_buffer, clear | the descriptor's offset is only tracked; chunked writes that fail halfway; holes; memory lent to readers | each byte lands at the position it was put at; the watermark is the size; lent memory does not change |
| bstream input buffers (`src/bstream/ibstreambuf.cpp`, `ibfilebuf.cpp`) | loaded window, offsets, watermark | get, getn, seek, tell, underflow, open, close | the descriptor stands at the end of the window | reading yields the file from the position on |
| bstream serialization (`bstream/ibstream.h`, `obstream.h`, ...) | none | read and write values | none | round trip |
| run loop (`src/runloop.cpp`, `concurrent.h`) | dispatch queue, handles and their active flags | create, schedule, suspend, cancel, dispatch, run, stop | dispatch from other threads with a coalescing wakeup; handle life cycle | every dispatched closure runs, in order; no handle closed twice; one-shot timers fire once |
| promise (`include/nodeoze/promise.h`) | outcome, value, three callbacks, timer | resolve, reject, then, catcher, finally, timeout, all, any, race | settled before, during or after the handlers are hung on; re-entrant calls; timer against answer | settled once; handlers called once with the outcome; combinators give what their inputs ask for; a timeout finishes |
| state machine (`include/nodeoze/state_machine.h`) | state, event queue, in-transition flag, observers | post, post_if, on_transition, observe | posts from actions and observers | an action leaves the state alone; queued events are handled; observers and promises end up with the state the machine is in |
| event emitter (`include/nodeoze/event.h`) | listeners by event | add, once, remove, emit | listeners changed during emit | once means once |
| streams (`src/stream.cpp`) and sockets (`src/net.cpp`) | write queue, pipe connections | write, end, pipe, unpipe, read, pause | back pressure, nested emissions, writes that fail at once | writes in order and none lost, a bounded queue, paused sources resume, finish after the writes |
| rpc manager (`include/nodeoze/rpc.h`, `src/rpc.cpp`) | handlers, pending requests, next id | bind, unbind, send_request, dispatch, terminate_requests | late and repeated replies, ids at the end of their width, handlers that send while requests are terminated | every request is settled once, with its own answer, in the end |
| socks/https proxies (`src/proxy.cpp`), tls (`src/tls.cpp`) | handshake state, buffers | send, recv | partial input | the handshake is followed |
| process supervisor (`src/process.cpp`) | pid | create, exit, restart | restart timer against destruction | one child, killed with its owner |
| http, websocket | most of it is compiled out (`#if 0`: all of `src/http.cpp`, `src/ws.cpp` from line 424) | | | |
| database, values, codecs (`src/database.cpp`, `any.cpp`, `buffer.h`, `json.cpp`, `msgpack.cpp`, ...) | values | conversions | none, except sharing in `buffer` | round trip |

How they interact: the run loop calls everything else back on one thread, other
threads reach it only through `dispatch`. A promise has callbacks called by
whoever settles it and a timer on the run loop. The Raft log writes through an
`ofbstream`, that is an `obfilebuf`; the replicant drives the log. RPC and
sockets hand out promises.

Vendored code (SQLite, libuv, `strtk.hpp`, `miniz.c` and the like) is no part
of the project.

## Plan

Done, each with proofs: 1 `RaftLog`; 2 `Promise`; 3 `OutputSequence`,
`OutFileBuf`, `OutMemBuf`; 4 `StateMachine`; 5 `TaskQueue`, `Runloop`;
6 `InputSequence`, `InFileBuf`; 7 `Replicant`; 8 `Stream` (streams, sockets and
the emitter together); 9 `Rpc`.

Next, in this order:

10. The SOCKS and https handshakes of `src/proxy.cpp`, with input in pieces.
11. `always_running_process` and its scoped operation over `Runloop`.
12. Removal of listeners during an emission.
13. Replication of entries, once `replicant.h` defines it, composed with
    `RaftLog`: the replica's disk is then the log's file.

Every safety property of the modules is proved (see Proofs), so theorems worth
proving next come with these.

## Modules

**RaftLog** models class `raft::log`. A file is a sequence of frames, and a
position is the number of frames in front of it, since the code compares
positions only with frame boundaries. A fragment of a frame (a write cut
short) and a hole of zero bytes are the pseudo-frame `Torn`, which
`read_frame` cannot read. The output stream is `m_base`, `m_at` (the
descriptor's offset), `m_buf` and `m_append`. Functions with several points of
failure are several steps: `pc` is `recover` while `recover` reads, `start`
before the frame that ends `initialize` and `restart`, `copy`, `rename` and
`reopen` inside `prune_front`. `acked`, `gone`, `maybe`, `cut` and `hole` are
history. Assumed of the caller, as in the tests: a fresh object for every start;
the object is dropped after a failed start, close or `prune_front`, and after a
failed `prune_back` unless `RetryPrune`. `ftruncate` succeeds. Nothing in
the code calls `fsync`; the loss of the operating system's cache is out of scope.

**Promise** models `promise<T>`. A program builds `kind(inputs).then(f)` where
`f` returns a further promise, and hangs handlers, `finally` and timeouts on the
result, in any order relative to the settling of inputs. Everything happens
synchronously inside one call, so the model has a call stack `todo`, and only
when it is empty does the program or the run loop do something new. Promises
are numbered: `1..N` the inputs, then the combinator's result, `inner` and
`next`. `isVoid` selects the `promise<void>` overloads, which differ: only
their `then` on a finished promise runs `finally`. A value moved out of a promise is `Default`. The
model does not hang a second handler on an input (it would replace the
combinator's), nor does a handler call `then` on its own promise.

**OutputSequence** is what the comment at the head of `obstreambuf.h` promises:
a sequence with a position, writes over the bytes at the position, holes that
read as zeros, and a synchronized part that survives. **ByteSeq** has the
operators on sequences it shares with the detailed modules.

**OutFileBuf** models `obfilebuf`. Calls are single steps, except that
`putn`/`filln` are a step per chunk because each chunk's flush may fail. A
failed flush, seek, truncate or close changes nothing but the error code, and
so is a stuttering step. `Careful` restricts the client: with `O_APPEND` it
writes at the end only, without it truncates only where the descriptor stands.
Both restrictions are needed: the first because the kernel appends wherever
the buffer has sought, while position and watermark follow the seek (set
`Careful = FALSE`, `Modes = {"append"}`: `HighWatermarkIsSize` fails after seek,
put and flush); the second because `truncate` leaves the descriptor behind
(item 3 below). A short write and a failing `lseek` are left out: the code asserts
that the first does not happen.

**OutMemBuf** models `obmembuf` with the `copy_on_write` policy. `mem` is the
memory, with `Garbage` where nobody has written; `slice` is what a client sees in
the slice it got from `get_buffer`; `m_dirty_start` is an offset, or `Stale` when
it points into a block the buffer has left. Assertions are compiled out in release
builds, so a failing one does not stop the model; `TouchNeverAborts` and
`FlushNeverAborts` state them separately. `release_buffer` ends the buffer's life and is left out.

**InputSequence** is what a reader is promised: the bytes of a file, which may
grow, from a position on, and truthful answers. **InFileBuf** models
`ibfilebuf` over `ibstreambuf`: the loaded window (`m_gbase_offset`, `buf`,
`gnext`) and the descriptor's offset `fd`, which the code never asks for. A
`getn` is a step per chunk, because the file may grow and a refill may fail in
between. `CarefulReader` restricts the client, in four places named
`CarefulTell`, `CarefulSeek`, `CarefulGet` and `CarefulOpen` (items 7 to 10
below say what happens otherwise).

**TaskQueue** is what `dispatch` promises: closures run once, in order, and,
while the loop runs, in the end. **Runloop** models `runloop` and the
`concurrent::queue` under it. Other threads dispatch in two steps, the queue
and then the signal; the loop's thread is at `pc`, and `in` is the client code
it is inside of. An iteration of `uv_run` (timers, polling, closing handles,
for `once` the timers again) is external and modelled as far as the code relies
on it, with time left out: any running timer may be due, and one of interval 0
stops when it fires, because libuv does not repeat it. A callback is handed its
event, that of a one-shot timer too, and may schedule, suspend or cancel it. `Careful`
restricts the client in one respect: it cancels no event a second time, nor a
one-shot timer from its own callback, behind which `on_timer` cancels it (item 17
below). A cancelled event that was not active is left as it is, as in the code.

**StateMachine** models `state_machine<>`. Client code runs outside, in actions
and in observers, so calls of `really_post` nest; `stack` holds them.
`m_event_queue` is drained by closures in the run loop, of which only the number
`drains` matters. Data and error codes that travel with a state are left out.

**Replicant** models `raft::replicant`: one step per handler, each with the
`update_term` it begins with, messages as a set that only grows (so they are
lost, repeated and reordered), `disk` for what the log gives back at a restart.
`handle_request_vote_message` is called with index and term exchanged, and
the model does the same (`LogOk`). A write of the state that fails is left out: `on_election_timeout`
calls an `update_replicant_state` without an error code, which the log does not
declare, so what it does with a failure is open. `votes`, `forgotten` and `leaders` are history.

**Stream** models `stream::writable`, the `readable`s piped into it, the tcp
socket's `really_write`, `on_send` and `on_recv`, and `emit` and `once` of the
emitter. It is single-threaded, but calls nest through emissions: `stack`
holds the calls under way. `accepted`, `settled`, `called`, `endedAt`,
`endedIn` and `finished` are history. `"end"` is what a file's readable emits.

**Rpc** models two `rpc::manager`s joined by connections that keep order and
lose what is on its way when they close. `Key`, `ToUint32` and `ToUint64` are
the conversions an id goes through. `terminate_requests` is a step per turn of
its loop, with the handler of the rejected promise, which may send, in between.
The callee's handler may answer whenever it likes and more than once. The closing
of a connection is external: `rpc::connection::close`, the caller of
`terminate_requests`, is compiled out. A reject handler that calls
`terminate_requests` itself is excluded (item 18 below).

How the modules fit together: `OutFileBuf` and `OutMemBuf` implement
`OutputSequence`, `InFileBuf` implements `InputSequence`, `Runloop` implements
`TaskQueue`. `RaftLog` keeps the part of `OutFileBuf`'s state that its frames
depend on (base, descriptor, buffered frames); `Replicant` uses the promise of
`RaftLog` that an acknowledged term and vote come back; `StateMachine` uses
that of `TaskQueue`. `Stream` composes three components.

The MC modules only define sets and symmetry for TLC.

## Runs

| run | checks | shows |
|---|---|---|
| `log` | `AckedOnDisk`, `AckedInMemory`, `LogMatchesFile`, `IntegrityCheck`, `NoResurrection`, `TypeOK`, `NoAbort`, `RecoveredStateUnlessCut` | entries survive crashes and failed writes, in order and in place; recover's assertions hold; term and vote come back unless `prune_back` cut their frame |
| `promise_combine` | `CombineOutcome` | all, any and race give what their inputs ask for |
| `promise_chain` | `ChainOutcome`, `HandlerOutcome`, `FinallyRuns`, `TimeoutFinishes`, `HandlerNotLost` | a chain with handlers, finally and timers: outcomes, calls made once, and none lost |
| `outfile` | `HighWatermarkIsSize`, `ImplementsOutputSequence` | `obfilebuf` implements the output sequence for a careful client |
| `outmem` | `SliceStable`, `ImplementsOutputSequence` | `obmembuf` implements it too, and lent memory does not change |
| `outmem_full` | `TouchNeverAborts`, violated | the assertion of `really_touch` fails where the memory is exactly full (item 6 below) |
| `infile` | `ImplementsInputSequence` | `ibfilebuf` implements the input sequence for a careful client, while the file grows and refills fail |
| `runloop` | `NoLostWakeup`, `ClosedOnce`, `DeletedIsUnused`, `ImplementsTaskQueue`, `OneshotFiresOnce` | closures run in order and in the end; handles are closed once, and deleted when nobody uses them; one-shot timers fire once |
| `state_machine` | `ActionKeepsState`, `ObserversUpToDate`, `NoMissedVerdict`, `LoneEventHandled` | actions, observers and promises in any nesting |
| `election` | `ElectionSafety`, `CandidacyIsDurable` | two leaders of a term only through a vote forgotten at a restart |
| `stream` | `SinkInOrder`, `QueueBound`, `CallbackOnce`, `FinishMeansWritten`, `PausedResumes`, `EndFinishes` | order, back pressure and end of a piped stream with nested emissions |
| `rpc` | `SettledOnce`, `AnswerIsOwn`, `TerminateComplete`, `RequestsSettle` | every request settled once, with its own answer, in the end |

Bounds. `RaftLog`: three indices, five frames, two crashes and one failed write
are enough for a crash inside the recovery from another crash, for a
`prune_front` that rewrites two entries and dies at any of its steps, and for
a write that follows a failed one. Two terms and two votes make states that
differ in either; the term also tells an entry from one appended again at its
index, so one payload is enough. `Promise`: three inputs distinguish first, middle and last
arrival; two handlers give one that comes after another took the value.
`OutFileBuf`: a buffer of two bytes and puts of up to four make a put of two
chunks behind a partly filled buffer; five positions leave room for holes and
overwriting. `OutMemBuf`: memory of two bytes that grows to three and more, so
that it is met empty, exactly full and grown. `InFileBuf`: a buffer of two
bytes and a file of up to five, so that a `getn` crosses two refills and the
last one is short. `Runloop`: one more thread, two closures (one dispatched
while the other runs), two events (one that cancels the other), one stop.
`outmem_full` needs one value only.
`StateMachine`: four posts at a depth of three, enough for an observer whose
post is observed by one that posts. `Replicant`: three replicas with two
different logs, three elections in terms 2 and 3, one restart: enough for two
leaders of a term. `Stream`: two sources, a high water mark of one (5 in the code),
four delivered buffers and two written by the application. `Rpc`: eight ids
(`IdHalf` = 4; 2^31 in the code), so that three requests reach the last positive
id and the first negative one; two connections; two answers to a request.

Deadlock is not checked for `RaftLog`, `Runloop`, `StateMachine` and `Stream`:
a log that reached its bounds or cannot start, a loop that blocks with nothing
to do, a machine nobody posts to any more and streams that are done stop
for good.

Fairness. `Promise`: `WF(Run)`, a call in progress returns, as its steps are
ordinary function calls; `SF(TimerFires(p))`, libuv looks at timers in every
turn of the loop, whatever callbacks run in between, so an armed timer fires
although other calls keep happening; a program that arms the same timer anew
before each expiry, for ever, is excluded by it. `Runloop`: weak fairness of
the loop's own steps and of the second half of a thread's `dispatch`;
client code returns, and the program calls `run` again when it has returned
(a program that stops doing so leaves closures in the queue, by design).
`StateMachine`: `WF(Internal)`, client code returns and the run loop keeps
running. `Stream`: `WF(Continue)`, listeners return; `WF(OnSend)`, libuv
reports every write it has taken. Sources need not deliver. `Rpc`: loops go
on, connections deliver and every request handler answers at least once;
`SF(DispatchReply)`, because closing another connection keeps the caller from
dispatching only for a moment. Nothing makes the application send, or a
connection close or come back.

Each property of a run has a mutant, an operator marked "Mutant" beside
the definition it replaces, which makes the property fail: dropped guards,
values stored by order of arrival, a missing lseek, an iterator moved twice, a
wakeup not sent.

The run `outmem_full` expects a violation; the other defects of the next section
are excluded from the runs by a constant, a precondition or an exemption that
is named there, and can be shown by the change of a cfg given in brackets.

`TypeOK` (`ReaderTypeOK`, `ReplicantTypeOK`) is proved for every detailed module.
Apart from that of `RaftLog` it is not part of a run, and can be added to a cfg.

## What the code does otherwise

Behaviour that a reader of the code, its comments or its tests would not
expect. The modules contain it; the properties above are stated so that they
say what does hold. In brackets, what to set in a cfg to see it.

1. `prune_back` cuts the file at the first pruned entry and drops the
   replicant_state frames written behind it; after a crash an older term and
   vote come back. The comment at `raft/log.h:305` speaks of entries only.
   [`MCRaftLog.cfg`, `INVARIANT RecoveredStateAcknowledged`]
2. A failed `prune_back` has already emptied memory; the retry reports
   success although the entries are still in the file.
   [`MCRaftLog.cfg`, `RetryPrune = TRUE`, `NoResurrection`]
3. `obfilebuf::truncate` sets `last_touched` without moving the descriptor; in a
   log that was initialized (not reopened) the next flush leaves a hole, and
   restart cannot read the file. No crash or failure is needed.
   [`MCRaftLog.cfg`, no faults and crashes, `INVARIANT RestartReads`]
4. `putn` and `filln` of no bytes mark a clean buffer dirty; the next flush fails
   its assertion. [`MCOutFileBufCareful.cfg`, `EmptyPuts = TRUE`, `INVARIANT FlushNeverAborts`]
5. `obmembuf` clones a shared block only up to the current position: after
   get_buffer, seek back and put, the bytes behind are lost.
   [`MCOutMemBufCareful.cfg`, `Careful = FALSE`, `ImplementsOutputSequence`]
6. `obmembuf::really_touch` asserts that the memory is not exactly full, which
   a put that fills it, a seek back and a second put violate. The run
   `outmem_full` shows it; the bytes are right nevertheless (`outmem`).
7. `ibfilebuf::really_tell` for the end puts the descriptor at the start of the
   loaded window instead of its end: bytes in the window are read twice. The
   `size` of a numstream calls it. [7 to 10: `MCInFileBuf.cfg` with
   `CarefulTell`, `CarefulSeek`, `CarefulGet` or `CarefulOpen` made TRUE]
8. `really_seek` relative to the current position counts from the descriptor,
   which stands at the end of the window.
9. A refill that fails has moved `m_gbase_offset` and `gnext` already; the next
   get returns the old bytes as if they stood at the new position.
10. `really_open` of an object that was used leaves `m_gbase_offset` as it is.
11. Two or more events queued in a state machine stay there: the closure pops
    the first and posts it anew, which puts it behind the others, and no further
    closure is dispatched (hence "lone" in `LoneEventHandled`). `next` is passed
    to observers by reference, so a state left again by an observer's post is
    never shown to those behind it.
12. `receive_request_vote_message` passes index and term in the wrong order, and
    neither granted votes nor learnt terms are written to the log, so a restart
    between two requests can give a term two leaders (the exception in
    `ElectionSafety`).
13. `end` called by a listener of "drain" that has just written makes the outer
    emission say "finish" before that write (`endedIn`). The callback of a
    write that is queued is dropped. A failed write emits "error" twice.
14. From the 2^31st request on ids are negative: `to_uint64` of a negative id is
    zero and no reply finds its handler. A request sent by a reject handler on
    the connection being terminated may stay pending (`closing`). The code of
    an error reply made by `make_error` is nested one level too deep.
15. `finally` is not run by a `catcher` called at once, by `then` on a finished
    promise that is not `promise<void>`, nor by settling without a handler for
    the outcome; `then( f, g )` with an `f` that returns a promise ignores `g`;
    the base class's `really_touch` passes the arguments of `filln` in the
    wrong order (no derived class uses it).
16. `get_buffer` makes a dirty `obmembuf` not writable, which `flush`, and so a
    seek, asserts it is; and the copy that the next put makes instead of the
    lent block leaves `dirty_start` in the old one, against the comment at
    `bstream/obstreambuf.h:75` and the assertion of `really_flush`. Release
    builds read neither. [`MCOutMemBufAsserts.cfg`, `INVARIANT FlushNeverAborts`]
17. `runloop::cancel` does not clear `m_active`: a second call closes the handle
    again, and so does `on_timer` behind a callback that cancels its own one-shot
    timer. It does nothing for an event that is not active, so one that was
    never scheduled, or was suspended first, is never deleted; the same holds of a
    one-shot timer that its callback suspends.
    [`MCRunloop.cfg`, `Careful = FALSE`, `ClosedOnce`]
18. `terminate_requests` calls reject handlers with an iterator in hand. One
    that calls `terminate_requests` again, to close another connection, may
    erase the element the iterator stands at.

## Proofs

`RaftLogProofs` proves, for every value of the constants allowed by
`ConstantsAssumption` and so for logs, terms, faults and crashes of any number:

- `RecoverNeverAborts`: `Spec => []NoAbort`, the assertions of `log::recover`
  hold on every file that any sequence of crashes, failed writes, prunes and
  rewrites leaves behind;
- `TypeCorrect`: `Spec => []TypeOK`;
- `AcknowledgedIsOnDisk`, `AcknowledgedIsInMemory`, `IndicesAreConsecutive`,
  `PrunedStaysAway`, `MemoryMatchesFile`: `AckedOnDisk`, `AckedInMemory`,
  `IntegrityCheck`, `NoResurrection` and `LogMatchesFile`, under the hypothesis
  `~RetryPrune`: the log is given up after a `prune_back` that failed. Without
  it `NoResurrection` is false (item 2 above);
- `RecoveredStateIsAcknowledged`: `RecoveredStateUnlessCut`, whatever the caller
  does after a failed `prune_back`.

`NoAbort` is not inductive: that the frames in a file store their own positions
depends on where the stream believes it is when they are written. The
inductive invariant `NoAbortInv` adds: `StreamInPhase` (in every phase the
stream's position is the end of its file, unless the file has a hole or a
fragment, behind which recover never reads, and the descriptor is never in
front of the end); `Positions` (every frame in front of the first fragment, in
both files and in the buffer, stores its position); `TermOrder` (terms of state
frames ascend through file and buffer up to the term in memory); and
`LogBelow`, `LogOrder` for the entries that prune_front rewrites and the
positions prune_back cuts at. Lemmas state what concatenation, prefixes and
`Written` do to these properties of a sequence of frames. `TypeStep`,
`OrderStep` and `RestStep` show that a step keeps the parts of the invariant,
with one proof step per action; `Invariance` combines them.

The entries need a second invariant on top of the first, `EntryInv`. That an
acknowledged entry is in the file says nothing of whether recover will find it,
nor where prune_back will cut: `InPlace` says for each phase how file, buffer
and memory lie beside each other. While the stream writes to the main file this
is `InUse`: every entry of file and buffer is one of memory, each entry of memory is at the
position it stores as far as recover can read, readable neighbours have
consecutive indices, and the stream's position is the end of the file or behind
a fragment. In the middle of prune_front it is `CopyOf`, the part of memory
that has been rewritten, and then `Rewritten`; when the process is gone, `Sound`, what
the file alone must satisfy for recover to build the rest again. `Kept` places
the acknowledged entries: in the file unless it has both a hole and a fragment,
which no restart can read to the end, and in memory in front of the buffer,
because a crash drops the buffer. `Removed` says where the pruned ones are not:
memory counts as well as the file, since prune_front writes memory back.

The term and the vote have an invariant of their own, `StateInv`. Its core is
`LastIn(f, P)`: the last state frame of `f`, or the state of a fresh log if
there is none, has its term and vote in `P`. The main file satisfies it for
`maybe`, the buffer may only add members of `maybe`, and while the state in
memory is not dirty the file ends with exactly that state and the buffer has none: this is
what lets `update_replicant_state` report success without writing. `LastIs` is
the value recover has come to after a part of the file.

`ClusterProofs` is about what goes between processes. Of `Replicant` it proves
`OneLeaderPerTerm` (`ReplicantSpec => []ElectionSafety`), `CandidacyDurable` and
`ReplicantTypeCorrect` for any finite set of replicas, any logs
and any number of elections and restarts. The invariant: replies that grant
stand for votes cast (`Sent`), candidates count only such votes of their own
term (`Counted`), a quorum stands behind every leader (`Elected`), and a
replica remembers the vote of every term it has not lost (`Remembers`, which
needs `Logged` and `Stood` about the disk), so it votes twice in a term only
after forgetting it (`OneVote`). Two quorums share a member, by the library's
cardinality theorems.

`RunloopProofs` proves `NoWakeupLost`, `HandlesClosedOnce`, `NoDeletedIsUsed`, `OneshotOnce`,
`QueueSafety` (the safety part of the refinement of `TaskQueue`) and
`TypeCorrect` for any number of threads, closures, events and stops. The
invariant adds `Signalled` (a closure in the queue is announced by the signal,
or by a thread about to send it, or `on_wakeup` is draining), `DueRunning`
(libuv calls back only handles it watches) and `Life` (an event nobody created
is untouched, what is watched is neither closed nor deleted, nothing is deleted
in a phase in which callbacks run, and a one-shot timer that has fired is not
watched once its callback has returned). They hold for any client; only
`HandlesClosedOnce` has the hypothesis `Careful`, and adds `Once`: no handle is
closed that the client, or `on_timer` behind a callback, can still close.

`StateMachineProofs` proves `ActionsKeepState`, the assertion of a DEBUG build,
for any machine, observers and depth. `ActionOnTop` says why: an action that
runs is that of the innermost call, and while it runs `m_in_transition` is set,
so every post is queued. It also proves `ObserversAreUpToDate` and
`NoVerdictIsMissed`, with `ToldInv`: an observer that does not know the state, or
a promise that state decides, is on the list of some call that is still to tell
it (`WatchersTold`, `VerdictDue`). A nested post that changes the state tells
everyone itself, so a list that is out of date does no harm. The promises need
`UnmadeUnknown` and `PendingRegistered`: `post` registers an observer when it
makes the promise, and only a verdict removes it.

`OutFileBufProofs` proves `Implementation`, `EndIsSize`, `FlushIsSafe` and
`TypeCorrect` for every buffer size, value and position, of a client that is
careful and puts no empty ranges (`Careful` and `~EmptyPuts` are hypotheses;
without them they are false, see items 3 and 4). The invariant: a dirty buffer
holds bytes and a clean one none (`Holds`); the descriptor stands at
`m_last_touched`, or the buffer belongs at the end of a file opened with
`O_APPEND` (`Placed`), which is why a flush that skips its lseek writes at the
right place; the watermark is the file's size, or already counts bytes of the
buffer (`Watermark`). One lemma per action shows at once that the action keeps
the invariant and is a step of `OutputSequence` or changes nothing there.

`StreamProofs` proves `SinkIsInOrder`, `QueueIsBounded`, `CallbacksAreCalledOnce`,
`FinishFollowsWrites` and `TypeCorrect` for any finite set of sources, any high
water mark, any number of writes and any depth of nested emissions. The
difficulty is the stack of calls: what is about to happen is in frames that lie
under others. `Completing` says that a stream is writing exactly while libuv has
a buffer or one frame of the stack is the completion that starts the next one;
with it `Ordered` (settled, in flight and queued buffers are numbered one after
the other) is inductive. `Tokens` says that the right to call a callback lies
in one place only: in a frame, among the listeners of "drain", or used up.
`Bounded` says that every buffer queued above the high water mark belongs to a
source that waits for "drain", and that none waits while an emission still has
listeners to call. `Ends` follows the test for the end of the stream through
the stack. Lemmas on the stack (what it holds after a push, a pop and the
frames of one call) come first, then what a step does to each part of the
invariant, then one lemma per action.

Of `Rpc`, `ClusterProofs` proves `RequestsSettleOnce`, `AnswersAreOwn`,
`TerminationIsComplete` and `TypeCorrect` for ids of any width, any connections, requests and repeated
answers. The invariant: a handler is filed under the key of the id of the request
it waits for (`Keyed`); ids are given out one after the other and, read as
unsigned, never twice (`Numbered`, from the assumption that the requests fit
into the ids); every message carries the id of the request it is about, signed
or as `to_uint32` leaves it (`Messages`); `terminate_requests` has left behind
only requests of other connections or ones sent after it began (`Passed`). That
a wrapped id finds no handler instead of another's is the arithmetic of `Key`,
`ToUint32` and `ToUint64`.

`BufferProofs` is about the other two buffers. Of `OutMemBuf` it proves
`SliceIsStable`, for any client, and `MemImplementation`, that it implements
`OutputSequence` for a careful one (`Careful` is a hypothesis, see item 5), for
every size the memory begins with and grows to. `MemInv` is the invariant: the
place touched last is not behind the end, so a put there has no hole to fill; a
block that is lent is not taken for writable, so a put leaves it to the slice
and goes on with a copy; the slice is what was given. The refinement holds
although the memory has `Garbage` behind the end: only bytes in front of it
count, and a seek beyond it fills the hole with zeros when the next byte is put.
Of `InFileBuf` it proves `ReaderImplementation`, that it implements
`InputSequence` for a careful client (`CarefulReader`), for every file and
buffer size, and `ReaderTypeCorrect`. `Window` is the invariant: the loaded
bytes are the file's at the window's offset and the descriptor stands behind
them, except after a failed refill.

`PromiseProofs` proves all safety properties of `Promise`, for any number of
inputs (none included) and handlers, any values and errors:
`CombinatorOutcome`, `ChainEnd`, `HandlersOutcome`, `FinallyOnce` and
`TypeCorrect`. Three of them speak of the moments between two calls, so the
invariant has to say what holds inside one. Each promise but the last goes
through three stages: lambdas are hung on it, it is settled, its lambda fires;
the first two in either order. `Hung` and `Fired` are read off the call stack
and not kept as history. `Base` is types, `Stack` (behind the head lies only
what is left of calls under way, no call of `then` twice) and `Owned` (what each
promise holds at its stage: its own lambdas and no others; its value until they
are hung; only an outcome the program gave it, if it is an input or `inner`).
`Combined` relates `count` and `result`, shared by the lambdas of a combinator,
to the inputs that have fired: while the result is open, `all` has seen only
values, each stored at its place, `any` only errors, `race` nothing; once it is
settled, it is with an outcome the inputs justify. `Linked` says that the end of
the chain has, or is about to get, what was carried to it. `Handled` says that
handlers are called at most once and not before the last promise is finished,
that its slots hold only such handlers, and that its value is there until one is
called.
`Finalised` says that whoever calls a handler of a `promise<void>` leaves on the
stack what runs `finally`; a late `catcher` alone does not. Once the stack is
empty the properties follow. Lemmas on the stack come first, then what a step
does to the stages, then for each part of the invariant one lemma per action.

Every invariant and action property of the passing runs is proved, as are the safety
parts of the refinements; hypotheses on the client are named above.
Only model-checked is liveness under fairness (`TimeoutFinishes`, `HandlerNotLost`, the liveness in
`ImplementsTaskQueue`, `LoneEventHandled`, `PausedResumes`,
`EndFinishes`, `RequestsSettle`): it is out of the prover's reach.

## What is not modelled

- The SOCKS and https proxies and the process supervisor: planned.
- Replication of log entries by the replicant: not written in the code.
- Removal of listeners, `unpipe` (its body does not compile when it is used),
  duplex streams, connecting, listening and udp.
- `bind`, `unbind`, validation and notifications of RPC, which keep no state
  besides a table.
- TLS, whose state is Botan's; the database wrapper; value types and codecs,
  which are sequential data conversions; http and websocket, which are compiled
  out.
- Memory management of promises (`refs`), `promise::reset` and
  `then( promise&& )`, which nothing calls; `buffer` except for the sharing
  `obmembuf` relies on; out-of-memory.
- `ibstreambuf` over memory, which never refills; `state_machine::inflate` and
  copies of a machine.

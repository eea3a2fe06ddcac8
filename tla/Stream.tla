------------------------------- MODULE Stream -------------------------------
(***************************************************************************)
(* stream::writable with the stream::readable objects piped into it        *)
(* (src/stream.cpp, include/nodeoze/stream.h), over the tcp socket that    *)
(* carries both (src/net.cpp) and the event emitter they notify through    *)
(* (include/nodeoze/event.h).                                              *)
(*                                                                         *)
(* Everything runs on one thread, yet calls nest: a write that completes   *)
(* at once emits "drain" from inside write(), a listener of "drain" or     *)
(* "error" may write or end again, and the emissions of those calls run    *)
(* inside the one that is still going over its listeners.  The calls under *)
(* way are the frames of `stack', innermost first:                         *)
(*   emit     an emission with the listeners of its snapshot still to call *)
(*   user     a listener of the application, free to call write and end    *)
(*   finally  the completion of a write, still to choose what comes next   *)
(*   ended    the test for the end of the stream behind "drain"            *)
(*   once     a write whose callback is still to be registered             *)
(***************************************************************************)
EXTENDS Integers, FiniteSets, SequencesExt

CONSTANTS
  Sources,     \* the readables
  HighWater,   \* queued buffers a write still answers true for (5 in write)
  MaxChunks,   \* bound: buffers the readables deliver
  MaxWrites    \* bound: writes of the application

ASSUME StreamAssumption ==
  /\ IsFiniteSet(Sources)
  /\ HighWater \in Nat /\ MaxChunks \in Nat /\ MaxWrites \in Nat

VARIABLES
  phase,      \* of a source: "new", or, once piped, "reading" (uv_read_start),
              \* "paused" (uv_read_stop) or "over" (it has emitted "end")
  writing,    \* m_writing
  queue,      \* m_queue: buffers numbered in the order of their write calls
  ended,      \* m_ended
  inflight,   \* the buffers handed to uv_write and not yet reported
  drainers,   \* m_listeners["drain"]
  stack,      \* the calls under way, innermost first
  accepted,   \* history: the writer of every buffer, in the order of the calls
  settled,    \* history: buffers whose write has completed, in that order
  called,     \* history: the callbacks called, in order
  endedAt,    \* history: buffers accepted when end() was first called, or -1
  endedIn,    \* history: that call came from inside an emission of "drain"
  finished    \* history: buffers settled when "finish" was first emitted, or -1

sinkVars == <<writing, queue, ended, inflight, drainers>>
histVars == <<accepted, settled, called, endedAt, endedIn, finished>>
vars == <<phase, sinkVars, stack, histVars>>

Writers == {"pipe", "app"}
Chunks == 1 .. (MaxChunks + MaxWrites)

\* Listeners of "drain": the callback of a write, or the resumption of a
\* source.  All of them are registered with once().
Listeners == [kind : {"cb"}, of : Chunks] \cup [kind : {"resume"}, of : Sources]

Emission(ls) == [op |-> "emit", ls |-> ls]
User == [op |-> "user"]
Finally == [op |-> "finally"]
Ended == [op |-> "ended"]
Once(c) == [op |-> "once", of |-> c]

Frames == [op : {"emit"}, ls : Seq(Listeners)] \cup {User, Finally, Ended}
            \cup [op : {"once"}, of : Chunks]

At(op) == stack # <<>> /\ stack[1].op = op
Rest == Tail(stack)
Idle == stack = <<>>

\* An emission of "drain" is going over its listeners.
Draining == \E i \in DOMAIN stack : stack[i].op = "emit"

Init ==
  /\ phase = [s \in Sources |-> "new"]
  /\ writing = FALSE /\ queue = <<>> /\ ended = FALSE /\ inflight = {}
  /\ drainers = <<>> /\ stack = <<>>
  /\ accepted = <<>> /\ settled = <<>> /\ called = <<>>
  /\ endedAt = -1 /\ endedIn = FALSE /\ finished = -1

-----------------------------------------------------------------------------
(* The emitter.                                                            *)

\* add_listener with once = true.
AddOnce(l) == Append(drainers, l)

\* Mutant: the listeners are erased by no one.
AfterEmitKeeps == drainers

\* emit copies the listeners it will call and, before it calls the first,
\* erases those registered with once.  Every listener of "drain" is.
AfterEmit == <<>>

-----------------------------------------------------------------------------
(* The writable.                                                           *)

\* Mutant: m_writing is not set.
StartUnmarked(c, rest) ==
  /\ UNCHANGED writing
  /\ \/ inflight' = inflight \cup {c} /\ stack' = rest /\ UNCHANGED settled
     \/ settled' = Append(settled, c) /\ stack' = <<Finally>> \o rest /\ UNCHANGED inflight

\* start_write: m_writing is set and the buffer is given to uv_write, which
\* reports later; or it is empty and its promise is resolved at once; or
\* uv_write fails at once, on_send emits "error", and so, next, does the
\* handler of the rejected promise (one frame stands for the listeners of
\* both).  Either way the finally() of a finished promise runs before
\* start_write returns to `rest'.
StartWrite(c, rest) ==
  /\ writing' = TRUE
  /\ \/ inflight' = inflight \cup {c} /\ stack' = rest /\ UNCHANGED settled
     \/ /\ settled' = Append(settled, c)
        /\ \/ stack' = <<Finally>> \o rest
           \/ stack' = <<User, Finally>> \o rest
        /\ UNCHANGED inflight

NextChunk == Len(accepted) + 1

\* write() of an idle stream by `w': the write is started, and only when
\* start_write has returned is the callback registered for "drain".
WriteNow(w, cb, rest) ==
  /\ ~writing
  /\ accepted' = Append(accepted, w)
  /\ StartWrite(NextChunk, IF cb THEN <<Once(NextChunk)>> \o rest ELSE rest)
  /\ UNCHANGED queue

\* write() of a busy stream: the buffer is queued and the callback dropped.
WriteLater(w) ==
  /\ writing
  /\ accepted' = Append(accepted, w)
  /\ queue' = Append(queue, NextChunk)
  /\ UNCHANGED <<writing, inflight, settled>>

\* Mutant: the writer is told to stop only by a queue that is full twice over.
FullLate == Len(queue) + 1 > 2 * (HighWater + 1)

\* The answer of that write(): m_queue.size() > 5 is false.
Full == Len(queue) + 1 > HighWater

\* Mutant: a stream that has been ended goes to "finish" without "drain".
FinallySkipsDrain ==
  /\ At("finally")
  /\ \/ /\ queue # <<>>
        /\ queue' = Tail(queue)
        /\ StartWrite(Head(queue), Rest)
        /\ UNCHANGED drainers
     \/ /\ queue = <<>>
        /\ writing' = FALSE
        /\ stack' = (IF ended THEN <<Ended>> ELSE <<Emission(drainers), Ended>>) \o Rest
        /\ drainers' = IF ended THEN drainers ELSE AfterEmit
        /\ UNCHANGED <<queue, inflight, settled>>
  /\ UNCHANGED <<phase, ended, accepted, called, endedAt, endedIn, finished>>

\* The finally handler of a write: the next of the queue, or "drain" and then
\* the test for the end of the stream.
RunFinally ==
  /\ At("finally")
  /\ \/ /\ queue # <<>>
        /\ queue' = Tail(queue)
        /\ StartWrite(Head(queue), Rest)
        /\ UNCHANGED drainers
     \/ /\ queue = <<>>
        /\ writing' = FALSE
        /\ stack' = <<Emission(drainers), Ended>> \o Rest
        /\ drainers' = AfterEmit
        /\ UNCHANGED <<queue, inflight, settled>>
  /\ UNCHANGED <<phase, ended, accepted, called, endedAt, endedIn, finished>>

\* The stream says "finish"; its listeners see what has been settled.
EmitFinish == finished' = IF finished = -1 THEN Len(settled) ELSE finished

\* if ( m_ended ) emit( "finish" ), behind the emission of "drain".
TestEnded ==
  /\ At("ended")
  /\ stack' = IF ended THEN <<User>> \o Rest ELSE Rest
  /\ IF ended THEN EmitFinish ELSE UNCHANGED finished
  /\ UNCHANGED <<phase, sinkVars, accepted, settled, called, endedAt, endedIn>>

\* Mutant: "finish" follows at once, whatever is under way.
EndAtOnce(rest) ==
  /\ ended' = TRUE
  /\ endedAt' = IF endedAt = -1 THEN Len(accepted) ELSE endedAt
  /\ endedIn' = IF endedAt = -1 THEN Draining ELSE endedIn
  /\ stack' = <<User>> \o rest /\ EmitFinish

\* Mutant: "finish" is left to the completion of a write.
EndLater(rest) ==
  /\ ended' = TRUE
  /\ endedAt' = IF endedAt = -1 THEN Len(accepted) ELSE endedAt
  /\ endedIn' = IF endedAt = -1 THEN Draining ELSE endedIn
  /\ stack' = rest /\ UNCHANGED finished

\* end(): "finish" follows at once when no write is under way.
End(rest) ==
  /\ ended' = TRUE
  /\ endedAt' = IF endedAt = -1 THEN Len(accepted) ELSE endedAt
  /\ endedIn' = IF endedAt = -1 THEN Draining ELSE endedIn
  /\ IF writing THEN stack' = rest /\ UNCHANGED finished
                ELSE stack' = <<User>> \o rest /\ EmitFinish

\* libuv reports a write (on_send).  The rejection of a failed one runs the
\* promise's handlers first, then on_send emits "error" itself.
OnSend ==
  /\ Idle
  /\ \E c \in inflight :
       /\ inflight' = inflight \ {c}
       /\ settled' = Append(settled, c)
  /\ \/ stack' = <<Finally>>
     \/ stack' = <<User, Finally, User>>
  /\ UNCHANGED <<phase, writing, queue, ended, drainers, accepted, called, endedAt, endedIn, finished>>

-----------------------------------------------------------------------------
(* The readables.                                                          *)

\* pipe(): the first listener of "data" makes the newListener hook read.
Pipe(s) ==
  /\ Idle /\ phase[s] = "new"
  /\ phase' = [phase EXCEPT ![s] = "reading"]
  /\ UNCHANGED <<sinkVars, stack, histVars>>

\* on_recv, push and the listener of "data" that pipe() has installed: a
\* write that answers false pauses the source until the next "drain".
OnRecv(s) ==
  /\ Idle /\ phase[s] = "reading"
  /\ Cardinality({i \in DOMAIN accepted : accepted[i] = "pipe"}) < MaxChunks
  /\ \/ WriteNow("pipe", FALSE, <<>>) /\ UNCHANGED <<phase, drainers>>
     \/ /\ WriteLater("pipe")
        /\ IF Full
             THEN /\ phase' = [phase EXCEPT ![s] = "paused"]
                  /\ drainers' = AddOnce([kind |-> "resume", of |-> s])
             ELSE UNCHANGED <<phase, drainers>>
        /\ UNCHANGED stack
  /\ UNCHANGED <<ended, called, endedAt, endedIn, finished>>

\* The listener of "end" that pipe() has installed.
OnEnd(s) ==
  /\ Idle /\ phase[s] = "reading"
  /\ phase' = [phase EXCEPT ![s] = "over"]
  /\ End(<<>>)
  /\ UNCHANGED <<writing, queue, inflight, drainers, accepted, settled, called>>

-----------------------------------------------------------------------------
(* The application and the emission of "drain".                            *)

Running == Idle \/ At("user")

AppWrite(cb) ==
  /\ Running
  /\ Cardinality({i \in DOMAIN accepted : accepted[i] = "app"}) < MaxWrites
  /\ \/ WriteNow("app", cb, stack)
     \/ WriteLater("app") /\ UNCHANGED stack
  /\ UNCHANGED <<phase, ended, drainers, called, endedAt, endedIn, finished>>

\* once( "drain", cb ), after start_write has returned.
RegisterCallback ==
  /\ At("once")
  /\ drainers' = AddOnce([kind |-> "cb", of |-> stack[1].of])
  /\ stack' = Rest
  /\ UNCHANGED <<phase, writing, queue, ended, inflight, histVars>>

AppEnd ==
  /\ Running /\ ~ended
  /\ End(stack)
  /\ UNCHANGED <<phase, writing, queue, inflight, drainers, accepted, settled, called>>

UserReturns ==
  /\ At("user")
  /\ stack' = Rest
  /\ UNCHANGED <<phase, sinkVars, histVars>>

\* emit calls the next listener of its snapshot: a callback of the
\* application, or the one of pipe() that reads the source again.
CallListener ==
  /\ At("emit") /\ stack[1].ls # <<>>
  /\ LET l == Head(stack[1].ls)
         left == <<Emission(Tail(stack[1].ls))>> \o Rest
     IN \/ /\ l.kind = "cb"
           /\ called' = Append(called, l.of)
           /\ stack' = <<User>> \o left
           /\ UNCHANGED phase
        \/ /\ l.kind = "resume"
           /\ phase' = [phase EXCEPT ![l.of] = "reading"]
           /\ stack' = left
           /\ UNCHANGED called
  /\ UNCHANGED <<sinkVars, accepted, settled, endedAt, endedIn, finished>>

EmitReturns ==
  /\ At("emit") /\ stack[1].ls = <<>>
  /\ stack' = Rest
  /\ UNCHANGED <<phase, sinkVars, histVars>>

-----------------------------------------------------------------------------

\* The rest of a turn of the loop, once it has begun.
Continue == \/ RunFinally \/ TestEnded \/ RegisterCallback
            \/ UserReturns \/ CallListener \/ EmitReturns

Next == \/ \E s \in Sources : Pipe(s) \/ OnRecv(s) \/ OnEnd(s)
        \/ OnSend \/ AppEnd \/ Continue
        \/ \E cb \in BOOLEAN : AppWrite(cb)

\* Listeners return, and libuv reports every write it has taken.
Spec == Init /\ [][Next]_vars /\ WF_vars(Continue) /\ WF_vars(OnSend)

-----------------------------------------------------------------------------

Phases == {"new", "reading", "paused", "over"}
Marks == -1 .. (MaxChunks + MaxWrites)

\* The state of the streams and the calls under way have their types.
TypeOK ==
  /\ phase \in [Sources -> Phases]
  /\ writing \in BOOLEAN /\ ended \in BOOLEAN /\ endedIn \in BOOLEAN
  /\ queue \in Seq(Chunks) /\ inflight \in SUBSET Chunks
  /\ drainers \in Seq(Listeners) /\ stack \in Seq(Frames)
  /\ accepted \in Seq(Writers) /\ settled \in Seq(Chunks) /\ called \in Seq(Chunks)
  /\ endedAt \in Marks /\ finished \in Marks

\* The sink is given one buffer at a time, in the order of the calls to
\* write, and none is lost or repeated, however writes nest in listeners and
\* whichever of them fail: those settled, the one under way and those queued
\* are all that were ever accepted, and none is queued behind nothing.
SinkInOrder ==
  /\ Cardinality(inflight) <= 1
  /\ queue # <<>> => writing
  /\ settled \o SetToSeq(inflight) \o queue = [i \in DOMAIN accepted |-> i]

\* Piped sources respect the answer of write(): of their buffers the queue
\* never holds more than the high water mark and one for each source, even
\* when listeners of "drain" have filled the queue before a source resumes.
QueueBound ==
  Cardinality({i \in DOMAIN queue : accepted[queue[i]] = "pipe"})
    <= HighWater + Cardinality(Sources)

\* The callback of a write is called at most once, and after its buffer was
\* settled, although emissions of "drain" nest.
CallbackOnce ==
  /\ IsInjective(called)
  /\ ToSet(called) \subseteq ToSet(settled)

\* "finish" follows the writes made before end(), unless end() was called by
\* a listener of "drain": the emission that called it goes on to the test of
\* m_ended, whatever that listener has written.
FinishMeansWritten ==
  finished # -1 /\ ~endedIn => 1 .. endedAt \subseteq ToSet(SubSeq(settled, 1, finished))

\* A source paused by a full queue is read again: its resumption is never
\* lost between the emissions of "drain".
PausedResumes == \A s \in Sources : phase[s] = "paused" ~> phase[s] = "reading"

\* A stream that is ended says "finish".
EndFinishes == ended ~> finished # -1
=============================================================================

------------------------------ MODULE Runloop ------------------------------
(***************************************************************************)
(* The event loop: class nodeoze::runloop (src/runloop.cpp) over libuv,    *)
(* and the queue between threads it uses (concurrent.h).                   *)
(*                                                                         *)
(* One thread calls run; any thread may call dispatch. Everything else is  *)
(* called on the loop's thread, from a closure, from an event's callback   *)
(* or between two calls of run. A callback is handed its event, that of a  *)
(* one-shot timer too, and may schedule, suspend or cancel it. What only a *)
(* careful client does not do is cancel an event a second time.            *)
(*                                                                         *)
(* libuv is external: an iteration runs the timers that are due, polls     *)
(* (descriptors that are ready, and the wakeup if it was signalled), then  *)
(* frees the handles that were closed. Time is not counted: any running    *)
(* timer may be due.                                                       *)
(***************************************************************************)
EXTENDS Integers, Sequences

CONSTANTS
  Threads,   \* the threads other than the loop's that call dispatch
  Events,    \* events the client can create; each is used once
  Careful,   \* nobody cancels an event that is cancelled already, or will be
             \* by on_timer when the callback of a one-shot timer returns
  MaxTasks,  \* bound: number of closures dispatched
  MaxStops   \* bound: number of calls of stop

ASSUME RunloopAssumption ==
  /\ MaxTasks \in Nat /\ MaxStops \in Nat /\ Careful \in BOOLEAN
  /\ {"none", "task", "wakeup"} \cap Events = {}

Kinds == {"timer", "oneshot", "poll"}

VARIABLES
  m_queue,   \* closures dispatched and not started
  started,   \* history: the closures started
  posting,   \* threads between the two halves of dispatch
  wakeup,    \* the async handle has been signalled (signals coalesce)
  pc,        \* where the loop's thread is
  mode,      \* the argument of run
  stopped,   \* libuv's stop flag
  stops,     \* calls of stop so far
  due,       \* events, and "wakeup", libuv will still call back in this phase
  in,        \* what client code the loop's thread is in: "task", an event, or "none"
  kind,      \* the kind each event was created with, "none" before
  held,      \* events the client may still use
  m_active,  \* uv_event::m_active
  running,   \* events whose handle libuv is watching
  zero,      \* those of them that are timers of interval 0, which libuv does not repeat
  closing,   \* events between uv_close and its callback
  freed,     \* events deleted
  closes,    \* history: calls of uv_close for each event
  fired      \* history: events called back since they were scheduled

queueVars == <<m_queue, started, posting, wakeup>>
loopVars == <<pc, mode, stopped, stops, due, in>>
eventVars == <<kind, held, m_active, running, zero, closing, freed, closes, fired>>
vars == <<queueVars, loopVars, eventVars>>

(* Every variable has its type. *)
TypeOK ==
  /\ m_queue \in Seq(1..MaxTasks) /\ started \in Seq(1..MaxTasks)
  /\ posting \subseteq Threads /\ wakeup \in BOOLEAN
  /\ pc \in {"out", "predrain", "timers", "poll", "polled", "wakeup", "close", "late", "again"}
  /\ mode \in {"normal", "once", "nowait"} /\ stopped \in BOOLEAN /\ stops \in Nat
  /\ in \in {"none", "task"} \cup Events
  /\ kind \in [Events -> Kinds \cup {"none"}]
  /\ due \subseteq Events \cup {"wakeup"}
  /\ {held, m_active, running, zero, closing, freed, fired} \subseteq SUBSET Events
  /\ closes \in [Events -> Nat]

Init ==
  /\ m_queue = <<>> /\ started = <<>> /\ posting = {} /\ wakeup = FALSE
  /\ pc = "out" /\ mode = "normal" /\ stopped = FALSE /\ stops = 0 /\ due = {} /\ in = "none"
  /\ kind = [e \in Events |-> "none"]
  /\ held = {} /\ m_active = {} /\ running = {} /\ zero = {}
  /\ closing = {} /\ freed = {} /\ fired = {}
  /\ closes = [e \in Events |-> 0]
-----------------------------------------------------------------------------
(* dispatch: the closure enters the queue under its lock, then the loop is *)
(* signalled.                                                              *)
Dispatched == Len(m_queue) + Len(started)
Emplace == Dispatched < MaxTasks /\ m_queue' = Append(m_queue, Dispatched + 1)

DispatchEmplace(t) ==
  /\ t \notin posting
  /\ Emplace
  /\ posting' = posting \cup {t}
  /\ UNCHANGED <<started, wakeup, loopVars, eventVars>>

DispatchSignal(t) ==
  /\ t \in posting
  /\ wakeup' = TRUE
  /\ posting' = posting \ {t}
  /\ UNCHANGED <<m_queue, started, loopVars, eventVars>>

(* Client code on the loop's thread. *)
InClient == pc = "out" \/ in # "none"

(* Mutant: dispatch on the loop's own thread does not signal. *)
DispatchSilently ==
  /\ InClient
  /\ Emplace
  /\ UNCHANGED <<started, posting, wakeup, loopVars, eventVars>>

DispatchOnLoop ==
  /\ InClient
  /\ Emplace
  /\ wakeup' = TRUE
  /\ UNCHANGED <<started, posting, loopVars, eventVars>>

Stop ==
  /\ InClient
  /\ stops < MaxStops
  /\ stopped' = TRUE /\ stops' = stops + 1
  /\ UNCHANGED <<queueVars, pc, mode, due, in, eventVars>>

(* create: a handle that is not watched yet. *)
Create(e, k) ==
  /\ InClient
  /\ kind[e] = "none"
  /\ kind' = [kind EXCEPT ![e] = k]
  /\ held' = held \cup {e}
  /\ UNCHANGED <<queueVars, loopVars, m_active, running, zero, closing, freed, closes, fired>>

(* The handle is watched from now on. *)
Start(e, isZero) ==
  /\ running' = running \cup {e}
  /\ m_active' = m_active \cup {e}
  /\ zero' = IF isZero THEN zero \cup {e} ELSE zero \ {e}
  /\ fired' = fired \ {e}

Schedule(e, isZero) ==
  /\ InClient
  /\ e \in held /\ e \notin closing
  /\ isZero => kind[e] # "poll"
  /\ Start(e, isZero)
  /\ UNCHANGED <<queueVars, loopVars, kind, held, closing, freed, closes>>

(* schedule_oneshot_timer creates and schedules an event of its own. *)
ScheduleOneshotTimer(e, isZero) ==
  /\ InClient
  /\ kind[e] = "none"
  /\ kind' = [kind EXCEPT ![e] = "oneshot"]
  /\ Start(e, isZero)
  /\ UNCHANGED <<queueVars, loopVars, held, closing, freed, closes>>

Suspend(e) ==
  /\ InClient
  /\ e \in held
  /\ running' = running \ {e}
  /\ zero' = zero \ {e}
  /\ m_active' = m_active \ {e}
  /\ due' = due \ {e}
  /\ UNCHANGED <<stops, queueVars, pc, mode, stopped, in, kind, held, closing, freed, closes, fired>>

(* Mutant: the event is deleted without waiting for libuv. *)
DeleteAtOnce(e) == freed' = freed \cup {e} /\ UNCHANGED closing

(* uv_close: the event is deleted by a callback in a later phase. *)
Close(e) == closing' = closing \cup {e} /\ UNCHANGED freed

(* cancel: stops and closes the handle of an active event, and leaves an   *)
(* event that is not active as it is. m_active stays set.                  *)
DoCancel(e) ==
  IF e \in m_active
    THEN /\ running' = running \ {e}
         /\ zero' = zero \ {e}
         /\ due' = due \ {e}
         /\ Close(e)
         /\ closes' = [closes EXCEPT ![e] = @ + 1]
    ELSE UNCHANGED <<running, zero, due, closing, freed, closes>>

(* A careful client has done with an event that is cancelled. *)
Released(e) == IF Careful THEN held \ {e} ELSE held

Cancel(e) ==
  /\ InClient
  /\ e \in held
  /\ Careful => ~(kind[e] = "oneshot" /\ in = e)
  /\ held' = Released(e)
  /\ DoCancel(e)
  /\ UNCHANGED <<stops, queueVars, pc, mode, stopped, in, kind, m_active, fired>>
-----------------------------------------------------------------------------
(* run drains the queue and then enters uv_run. *)
Run(how) ==
  /\ pc = "out"
  /\ pc' = "predrain" /\ mode' = how
  /\ UNCHANGED <<stops, queueVars, stopped, due, in, eventVars>>

(* drain_dispatch_queue: one closure after the other until none is left,   *)
(* from run and from on_wakeup.                                            *)
(* Mutant: the closure dispatched last runs first. *)
TryPopLast ==
  /\ m_queue # <<>>
  /\ started' = Append(started, m_queue[Len(m_queue)])
  /\ m_queue' = SubSeq(m_queue, 1, Len(m_queue) - 1)

TryPop ==
  /\ m_queue # <<>>
  /\ started' = Append(started, Head(m_queue))
  /\ m_queue' = Tail(m_queue)

DrainTask ==
  /\ pc \in {"predrain", "wakeup"} /\ in = "none"
  /\ TryPop
  /\ in' = "task"
  /\ UNCHANGED <<stops, posting, wakeup, pc, mode, stopped, due, eventVars>>

TaskReturns ==
  /\ in = "task"
  /\ in' = "none"
  /\ UNCHANGED <<stops, queueVars, pc, mode, stopped, due, eventVars>>

(* The queue is empty: into the loop, or back to polling. *)
DrainEnds ==
  /\ pc \in {"predrain", "wakeup"} /\ in = "none"
  /\ m_queue = <<>>
  /\ pc' = IF pc = "predrain" THEN "again" ELSE "polled"
  /\ UNCHANGED <<stops, queueVars, mode, stopped, due, in, eventVars>>

Timers == {e \in running : kind[e] \in {"timer", "oneshot"}}
Polls == {e \in running : kind[e] = "poll"}

(* uv_run: another iteration, unless stop was called. *)
Iterate ==
  /\ pc = "again"
  /\ IF stopped
       THEN pc' = "out" /\ stopped' = FALSE /\ due' = {}
       ELSE pc' = "timers" /\ due' \in SUBSET Timers /\ UNCHANGED stopped
  /\ UNCHANGED <<stops, queueVars, mode, in, eventVars>>

(* on_timer, on_poll and on_path up to the client's callback. *)
Fire(e) ==
  /\ pc \in {"timers", "late", "polled"} /\ in = "none"
  /\ e \in due
  /\ due' = due \ {e}
  /\ in' = e
  /\ held' = held \cup {e}
  /\ running' = running \ (zero \cap {e})
  /\ zero' = zero \ {e}
  /\ fired' = fired \cup {e}
  /\ UNCHANGED <<stops, queueVars, pc, mode, stopped, kind, m_active, closing, freed, closes>>

(* Mutant: on_timer cancels every timer, not only the one-shot ones. *)
CancelsEvery(e) == kind[e] # "poll"
(* Mutant: on_timer leaves a one-shot timer running. *)
CancelsNone(e) == FALSE

(* on_timer cancels, behind the callback, a timer that does not repeat. *)
Cancels(e) == kind[e] = "oneshot"

CallbackReturns(e) ==
  /\ in = e
  /\ in' = "none"
  /\ IF Cancels(e)
       THEN DoCancel(e) /\ held' = (IF e \in m_active THEN Released(e) ELSE held)
       ELSE UNCHANGED <<running, zero, due, closing, freed, closes, held>>
  /\ UNCHANGED <<stops, queueVars, pc, mode, stopped, kind, m_active, fired>>

(* The timers of this iteration are done: poll. *)
TimersEnd ==
  /\ pc = "timers" /\ in = "none" /\ due = {}
  /\ pc' = "poll"
  /\ UNCHANGED <<stops, queueVars, mode, stopped, due, in, eventVars>>

(* Polling blocks until something is ready, a timer is due or there is a   *)
(* handle to free; nowait and a loop that is stopping do not block. What   *)
(* is ready comes back as one batch.                                       *)
Blocks == mode # "nowait" /\ ~stopped /\ Timers = {} /\ closing = {}
Signal == IF wakeup THEN {"wakeup"} ELSE {}

PollReturns ==
  /\ pc = "poll"
  /\ wakeup \/ ~Blocks
  /\ pc' = "polled"
  /\ \E ready \in SUBSET Polls : due' = ready \cup Signal
  /\ UNCHANGED <<stops, queueVars, mode, stopped, in, eventVars>>

(* While the loop blocks a descriptor becomes ready. *)
PollReady ==
  /\ pc = "poll"
  /\ Blocks /\ ~wakeup
  /\ pc' = "polled"
  /\ \E ready \in SUBSET Polls : ready # {} /\ due' = ready
  /\ UNCHANGED <<stops, queueVars, mode, stopped, in, eventVars>>

(* on_wakeup: the signal is taken before the queue is drained. *)
OnWakeup ==
  /\ pc = "polled" /\ in = "none"
  /\ "wakeup" \in due
  /\ wakeup' = FALSE
  /\ due' = due \ {"wakeup"}
  /\ pc' = "wakeup"
  /\ UNCHANGED <<stops, m_queue, started, posting, mode, stopped, in, eventVars>>

PollEnds ==
  /\ pc = "polled" /\ in = "none" /\ due = {}
  /\ pc' = "close"
  /\ UNCHANGED <<stops, queueVars, mode, stopped, due, in, eventVars>>

(* The callbacks of uv_close delete the events. *)
CloseHandles ==
  /\ pc = "close"
  /\ closing' = {}
  /\ freed' = freed \cup closing
  /\ held' = held \ closing
  /\ IF mode = "once"
       THEN pc' = "late" /\ due' \in SUBSET Timers
       ELSE pc' = (IF mode = "nowait" THEN "out" ELSE "again") /\ UNCHANGED due
  /\ stopped' = (IF mode = "nowait" THEN FALSE ELSE stopped)
  /\ UNCHANGED <<stops, queueVars, mode, in, kind, m_active, running, zero, closes, fired>>

(* run( once ) looks at the timers again before it returns. *)
LateEnds ==
  /\ pc = "late" /\ in = "none" /\ due = {}
  /\ pc' = "out" /\ stopped' = FALSE
  /\ UNCHANGED <<stops, queueVars, mode, due, in, eventVars>>

Client ==
  \/ DispatchOnLoop
  \/ Stop
  \/ \E e \in Events :
       \/ \E k \in {"timer", "poll"} : Create(e, k)
       \/ \E isZero \in BOOLEAN : Schedule(e, isZero) \/ ScheduleOneshotTimer(e, isZero)
       \/ Suspend(e)
       \/ Cancel(e)

Loop ==
  \/ \E how \in {"normal", "once", "nowait"} : Run(how)
  \/ DrainTask \/ TaskReturns \/ DrainEnds \/ Iterate
  \/ \E e \in Events : Fire(e) \/ CallbackReturns(e)
  \/ TimersEnd \/ PollReturns \/ OnWakeup \/ PollEnds \/ CloseHandles \/ LateEnds

Next ==
  \/ \E t \in Threads : DispatchEmplace(t) \/ DispatchSignal(t)
  \/ Client
  \/ Loop
  \/ PollReady

(* The loop's thread is scheduled, client code returns, the program calls  *)
(* run again, and a thread inside dispatch gets to its second half.        *)
Fairness == WF_vars(Loop) /\ \A t \in Threads : WF_vars(DispatchSignal(t))

Spec == Init /\ [][Next]_vars /\ Fairness
-----------------------------------------------------------------------------
(* Closures dispatched from any thread run once each, in order, and none   *)
(* is left behind by the coalescing wakeup (dispatch, on_wakeup,           *)
(* drain_dispatch_queue).                                                  *)
Queue == INSTANCE TaskQueue WITH waiting <- m_queue
ImplementsTaskQueue == Queue!Spec

(* While the loop is about to block or blocked in poll with closures in    *)
(* the queue, a signal is pending or a thread is about to send it.         *)
NoLostWakeup ==
  pc \in {"timers", "poll", "polled", "close", "again"} /\ in = "none" /\ m_queue # <<>>
    => wakeup \/ posting # {}

(* A careful client's handles are closed once: neither does on_timer close *)
(* one that its callback has cancelled, suspended or scheduled anew, nor   *)
(* the client one that on_timer has.                                       *)
ClosedOnce == \A e \in Events : closes[e] <= 1

(* The callback of a one-shot timer is called at most once for a call of   *)
(* schedule, although the libuv timer behind it repeats and the callback   *)
(* may have suspended it or scheduled it anew.                             *)
OneshotFiresOnce ==
  [][\A e \in Events : kind[e] = "oneshot" /\ e \in fired => ~(in # e /\ in' = e)]_vars

(* An event that is deleted is used by nobody any more: libuv does not     *)
(* watch it, nor is about to call it back, nor is its callback running,    *)
(* behind which on_timer reads m_repeat although the callback may have     *)
(* cancelled the event, as that of a promise's timeout does.               *)
DeletedIsUnused == freed \cap (running \cup due \cup {in}) = {}
=============================================================================

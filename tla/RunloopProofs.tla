--------------------------- MODULE RunloopProofs ---------------------------
(***************************************************************************)
(* The run loop for any number of threads, events, closures and stops: no  *)
(* wakeup is lost, no handle is closed twice, a one-shot timer fires once, *)
(* no deleted event is used, and the queue is the one TaskQueue promises   *)
(* (its safety part).                                                      *)
(***************************************************************************)
EXTENDS Runloop, SequenceTheorems, TLAPS

(* A closure in the queue is announced, except while on_wakeup drains the  *)
(* queue: it has taken the signal already.                                 *)
Signalled == m_queue # <<>> /\ pc # "wakeup" => wakeup \/ posting # {}

(* libuv calls back only what it is watching. *)
DueRunning == due \ {"wakeup"} \subseteq running

(* An event nobody has created is untouched; what is watched is active and *)
(* not closed, and a one-shot timer that has fired is watched no longer    *)
(* than its callback runs. A callback runs in a phase in which nothing is  *)
(* deleted, and nobody holds what is.                                      *)
Life ==
  /\ running \subseteq m_active
  /\ running \cap (closing \cup freed) = {}
  /\ held \cap freed = {}
  /\ in \in Events => in \notin freed /\ pc \in {"timers", "late", "polled"}
  /\ \A e \in Events :
       /\ kind[e] = "none" =>
            closes[e] = 0 /\ in # e /\ e \notin held \cup running \cup fired \cup closing \cup freed
       /\ kind[e] = "oneshot" /\ e \in fired => in = e \/ e \notin running

(* No handle is closed that a careful client can still close, or on_timer  *)
(* will behind the callback of a one-shot timer.                           *)
Once ==
  \A e \in Events :
    /\ e \in held \cup running => closes[e] = 0
    /\ kind[e] = "oneshot" /\ in = e => closes[e] = 0
    /\ closes[e] <= 1

Inv == TypeOK /\ Signalled /\ DueRunning /\ Life

-----------------------------------------------------------------------------
(* What cancel does to an event that is active, and to one that is not. *)
LEMMA CancelActive ==
  ASSUME NEW e, e \in m_active, DoCancel(e)
  PROVE  /\ running' = running \ {e} /\ zero' = zero \ {e} /\ due' = due \ {e}
         /\ closing' = closing \cup {e} /\ freed' = freed
         /\ closes' = [closes EXCEPT ![e] = @ + 1]
BY DEF DoCancel, Close

LEMMA CancelInactive ==
  ASSUME NEW e, e \notin m_active, DoCancel(e)
  PROVE  UNCHANGED <<running, zero, due, closing, freed, closes>>
BY DEF DoCancel

LEMMA InitInv == Init => Inv /\ Once
<1> SUFFICES ASSUME Init PROVE Inv /\ Once
  OBVIOUS
<1> USE RunloopAssumption DEF Init
<1>1. TypeOK
  <2>1. m_queue \in Seq(1..MaxTasks) /\ started \in Seq(1..MaxTasks)
    BY EmptySeq
  <2>2. kind \in [Events -> Kinds \cup {"none"}] /\ closes \in [Events -> Nat]
    OBVIOUS
  <2>3. QED
    BY <2>1, <2>2 DEF TypeOK
<1>2. Signalled /\ DueRunning
  BY DEF Signalled, DueRunning
<1>3. Life /\ Once
  BY DEF Life, Once
<1>4. QED
  BY <1>1, <1>2, <1>3 DEF Inv

(* Every step keeps the types. *)
LEMMA TypeStep ==
  ASSUME TypeOK, [Next]_vars
  PROVE  TypeOK'
<1> USE RunloopAssumption DEF TypeOK, Kinds, queueVars, loopVars, eventVars
<1>1. ASSUME NEW t \in Threads, DispatchEmplace(t)
      PROVE  TypeOK'
  BY <1>1 DEF DispatchEmplace, Emplace, Dispatched
<1>2. ASSUME NEW t \in Threads, DispatchSignal(t)
      PROVE  TypeOK'
  BY <1>2 DEF DispatchSignal
<1>3. CASE DispatchOnLoop
  BY <1>3 DEF DispatchOnLoop, Emplace, Dispatched
<1>4. CASE Stop
  BY <1>4 DEF Stop
<1>5. ASSUME NEW e \in Events, NEW k \in {"timer", "poll"}, Create(e, k)
      PROVE  TypeOK'
  BY <1>5 DEF Create
<1>6. ASSUME NEW e \in Events, NEW isZero \in BOOLEAN, Schedule(e, isZero)
      PROVE  TypeOK'
  BY <1>6 DEF Schedule, Start
<1>7. ASSUME NEW e \in Events, NEW isZero \in BOOLEAN, ScheduleOneshotTimer(e, isZero)
      PROVE  TypeOK'
  BY <1>7 DEF ScheduleOneshotTimer, Start
<1>8. ASSUME NEW e \in Events, Suspend(e)
      PROVE  TypeOK'
  BY <1>8 DEF Suspend
<1>9. ASSUME NEW e \in Events, Cancel(e)
      PROVE  TypeOK'
  <2>1. CASE e \in m_active
    BY <1>9, <2>1, CancelActive DEF Cancel, Released
  <2>2. CASE e \notin m_active
    BY <1>9, <2>2, CancelInactive DEF Cancel, Released
  <2>3. QED
    BY <2>1, <2>2
<1>10. ASSUME NEW how \in {"normal", "once", "nowait"}, Run(how)
      PROVE  TypeOK'
  BY <1>10 DEF Run
<1>11. CASE DrainTask
  BY <1>11 DEF DrainTask, TryPop
<1>12. CASE TaskReturns
  BY <1>12 DEF TaskReturns
<1>13. CASE DrainEnds
  BY <1>13 DEF DrainEnds
<1>14. CASE Iterate
  BY <1>14 DEF Iterate, Timers
<1>15. ASSUME NEW e \in Events, Fire(e)
      PROVE  TypeOK'
  BY <1>15 DEF Fire
<1>16. ASSUME NEW e \in Events, CallbackReturns(e)
      PROVE  TypeOK'
  <2>1. CASE kind[e] = "oneshot" /\ e \in m_active
    <3>1. /\ DoCancel(e) /\ in = e /\ in' = "none" /\ held' = Released(e)
          /\ UNCHANGED <<stops, queueVars, pc, mode, stopped, kind, m_active, fired>>
      BY <1>16, <2>1 DEF CallbackReturns, Cancels
    <3>2. /\ running' = running \ {e} /\ zero' = zero \ {e} /\ due' = due \ {e}
          /\ closing' = closing \cup {e} /\ freed' = freed
          /\ closes' = [closes EXCEPT ![e] = @ + 1]
      BY <2>1, <3>1, CancelActive
    <3>3. held' \subseteq held
      BY <3>1 DEF Released
    <3>4. QED
      BY <2>1, <3>1, <3>2, <3>3
  <2>2. CASE kind[e] = "oneshot" /\ e \notin m_active
    BY <1>16, <2>2, CancelInactive DEF CallbackReturns, Cancels
  <2>3. CASE kind[e] # "oneshot"
    BY <1>16, <2>3 DEF CallbackReturns, Cancels
  <2>4. QED
    BY <2>1, <2>2, <2>3
<1>17. CASE TimersEnd
  BY <1>17 DEF TimersEnd
<1>18. CASE PollReturns
  BY <1>18 DEF PollReturns, Polls, Signal
<1>19. CASE OnWakeup
  BY <1>19 DEF OnWakeup
<1>20. CASE PollEnds
  BY <1>20 DEF PollEnds
<1>21. CASE CloseHandles
  BY <1>21 DEF CloseHandles, Timers
<1>22. CASE LateEnds
  BY <1>22 DEF LateEnds
<1>23. CASE PollReady
  BY <1>23 DEF PollReady, Polls
<1>24. CASE UNCHANGED vars
  BY <1>24 DEF vars
<1>25. QED
  BY <1>1, <1>2, <1>3, <1>4, <1>5, <1>6, <1>7, <1>8, <1>9, <1>10, <1>11, <1>12, <1>13,
     <1>14, <1>15, <1>16, <1>17, <1>18, <1>19, <1>20, <1>21, <1>22, <1>23, <1>24 DEF Next, Client, Loop

(* Every step keeps closures announced. *)
LEMMA SignalledStep ==
  ASSUME TypeOK, Signalled, [Next]_vars
  PROVE  Signalled'
<1> USE RunloopAssumption DEF TypeOK, Signalled, queueVars, loopVars, eventVars
<1>1. ASSUME NEW t \in Threads, DispatchEmplace(t)
      PROVE  Signalled'
  BY <1>1 DEF DispatchEmplace, Emplace, Dispatched
<1>2. ASSUME NEW t \in Threads, DispatchSignal(t)
      PROVE  Signalled'
  BY <1>2 DEF DispatchSignal
<1>3. CASE DispatchOnLoop
  BY <1>3 DEF DispatchOnLoop, Emplace, Dispatched
<1>4. CASE Stop
  BY <1>4 DEF Stop
<1>5. ASSUME NEW e \in Events, NEW k \in {"timer", "poll"}, Create(e, k)
      PROVE  Signalled'
  BY <1>5 DEF Create
<1>6. ASSUME NEW e \in Events, NEW isZero \in BOOLEAN, Schedule(e, isZero)
      PROVE  Signalled'
  BY <1>6 DEF Schedule, Start
<1>7. ASSUME NEW e \in Events, NEW isZero \in BOOLEAN, ScheduleOneshotTimer(e, isZero)
      PROVE  Signalled'
  BY <1>7 DEF ScheduleOneshotTimer, Start
<1>8. ASSUME NEW e \in Events, Suspend(e)
      PROVE  Signalled'
  BY <1>8 DEF Suspend
<1>9. ASSUME NEW e \in Events, Cancel(e)
      PROVE  Signalled'
  <2>1. CASE e \in m_active
    BY <1>9, <2>1, CancelActive DEF Cancel, Released
  <2>2. CASE e \notin m_active
    BY <1>9, <2>2, CancelInactive DEF Cancel, Released
  <2>3. QED
    BY <2>1, <2>2
<1>10. ASSUME NEW how \in {"normal", "once", "nowait"}, Run(how)
      PROVE  Signalled'
  BY <1>10 DEF Run
<1>11. CASE DrainTask
  BY <1>11 DEF DrainTask, TryPop
<1>12. CASE TaskReturns
  BY <1>12 DEF TaskReturns
<1>13. CASE DrainEnds
  BY <1>13 DEF DrainEnds
<1>14. CASE Iterate
  BY <1>14 DEF Iterate, Timers
<1>15. ASSUME NEW e \in Events, Fire(e)
      PROVE  Signalled'
  BY <1>15 DEF Fire
<1>16. ASSUME NEW e \in Events, CallbackReturns(e)
      PROVE  Signalled'
  <2>1. CASE kind[e] = "oneshot" /\ e \in m_active
    BY <1>16, <2>1, CancelActive DEF CallbackReturns, Cancels, Released
  <2>2. CASE kind[e] = "oneshot" /\ e \notin m_active
    BY <1>16, <2>2, CancelInactive DEF CallbackReturns, Cancels
  <2>3. CASE kind[e] # "oneshot"
    BY <1>16, <2>3 DEF CallbackReturns, Cancels
  <2>4. QED
    BY <2>1, <2>2, <2>3
<1>17. CASE TimersEnd
  BY <1>17 DEF TimersEnd
<1>18. CASE PollReturns
  BY <1>18 DEF PollReturns, Polls, Signal
<1>19. CASE OnWakeup
  BY <1>19 DEF OnWakeup
<1>20. CASE PollEnds
  BY <1>20 DEF PollEnds
<1>21. CASE CloseHandles
  BY <1>21 DEF CloseHandles, Timers
<1>22. CASE LateEnds
  BY <1>22 DEF LateEnds
<1>23. CASE PollReady
  BY <1>23 DEF PollReady, Polls
<1>24. CASE UNCHANGED vars
  BY <1>24 DEF vars
<1>25. QED
  BY <1>1, <1>2, <1>3, <1>4, <1>5, <1>6, <1>7, <1>8, <1>9, <1>10, <1>11, <1>12, <1>13,
     <1>14, <1>15, <1>16, <1>17, <1>18, <1>19, <1>20, <1>21, <1>22, <1>23, <1>24 DEF Next, Client, Loop

(* Every step keeps callbacks to handles that are watched. *)
LEMMA DueStep ==
  ASSUME TypeOK, DueRunning, [Next]_vars
  PROVE  DueRunning'
<1> USE RunloopAssumption DEF TypeOK, DueRunning, queueVars, loopVars, eventVars
<1>1. ASSUME NEW t \in Threads, DispatchEmplace(t)
      PROVE  DueRunning'
  BY <1>1 DEF DispatchEmplace, Emplace, Dispatched
<1>2. ASSUME NEW t \in Threads, DispatchSignal(t)
      PROVE  DueRunning'
  BY <1>2 DEF DispatchSignal
<1>3. CASE DispatchOnLoop
  BY <1>3 DEF DispatchOnLoop, Emplace, Dispatched
<1>4. CASE Stop
  BY <1>4 DEF Stop
<1>5. ASSUME NEW e \in Events, NEW k \in {"timer", "poll"}, Create(e, k)
      PROVE  DueRunning'
  BY <1>5 DEF Create
<1>6. ASSUME NEW e \in Events, NEW isZero \in BOOLEAN, Schedule(e, isZero)
      PROVE  DueRunning'
  BY <1>6 DEF Schedule, Start
<1>7. ASSUME NEW e \in Events, NEW isZero \in BOOLEAN, ScheduleOneshotTimer(e, isZero)
      PROVE  DueRunning'
  BY <1>7 DEF ScheduleOneshotTimer, Start
<1>8. ASSUME NEW e \in Events, Suspend(e)
      PROVE  DueRunning'
  BY <1>8 DEF Suspend
<1>9. ASSUME NEW e \in Events, Cancel(e)
      PROVE  DueRunning'
  <2>1. CASE e \in m_active
    BY <1>9, <2>1, CancelActive DEF Cancel, Released
  <2>2. CASE e \notin m_active
    BY <1>9, <2>2, CancelInactive DEF Cancel, Released
  <2>3. QED
    BY <2>1, <2>2
<1>10. ASSUME NEW how \in {"normal", "once", "nowait"}, Run(how)
      PROVE  DueRunning'
  BY <1>10 DEF Run
<1>11. CASE DrainTask
  BY <1>11 DEF DrainTask, TryPop
<1>12. CASE TaskReturns
  BY <1>12 DEF TaskReturns
<1>13. CASE DrainEnds
  BY <1>13 DEF DrainEnds
<1>14. CASE Iterate
  BY <1>14 DEF Iterate, Timers
<1>15. ASSUME NEW e \in Events, Fire(e)
      PROVE  DueRunning'
  BY <1>15 DEF Fire
<1>16. ASSUME NEW e \in Events, CallbackReturns(e)
      PROVE  DueRunning'
  <2>1. CASE kind[e] = "oneshot" /\ e \in m_active
    BY <1>16, <2>1, CancelActive DEF CallbackReturns, Cancels, Released
  <2>2. CASE kind[e] = "oneshot" /\ e \notin m_active
    BY <1>16, <2>2, CancelInactive DEF CallbackReturns, Cancels
  <2>3. CASE kind[e] # "oneshot"
    BY <1>16, <2>3 DEF CallbackReturns, Cancels
  <2>4. QED
    BY <2>1, <2>2, <2>3
<1>17. CASE TimersEnd
  BY <1>17 DEF TimersEnd
<1>18. CASE PollReturns
  BY <1>18 DEF PollReturns, Polls, Signal
<1>19. CASE OnWakeup
  BY <1>19 DEF OnWakeup
<1>20. CASE PollEnds
  BY <1>20 DEF PollEnds
<1>21. CASE CloseHandles
  BY <1>21 DEF CloseHandles, Timers
<1>22. CASE LateEnds
  BY <1>22 DEF LateEnds
<1>23. CASE PollReady
  BY <1>23 DEF PollReady, Polls
<1>24. CASE UNCHANGED vars
  BY <1>24 DEF vars
<1>25. QED
  BY <1>1, <1>2, <1>3, <1>4, <1>5, <1>6, <1>7, <1>8, <1>9, <1>10, <1>11, <1>12, <1>13,
     <1>14, <1>15, <1>16, <1>17, <1>18, <1>19, <1>20, <1>21, <1>22, <1>23, <1>24 DEF Next, Client, Loop

(* Every step keeps the life of an event in order. *)
LEMMA LifeStep ==
  ASSUME TypeOK, DueRunning, Life, [Next]_vars
  PROVE  Life'
<1> USE RunloopAssumption DEF TypeOK, DueRunning, Life, Kinds, queueVars, loopVars, eventVars
<1>1. ASSUME NEW t \in Threads, DispatchEmplace(t)
      PROVE  Life'
  BY <1>1 DEF DispatchEmplace, Emplace, Dispatched
<1>2. ASSUME NEW t \in Threads, DispatchSignal(t)
      PROVE  Life'
  BY <1>2 DEF DispatchSignal
<1>3. CASE DispatchOnLoop
  BY <1>3 DEF DispatchOnLoop, Emplace, Dispatched
<1>4. CASE Stop
  BY <1>4 DEF Stop
<1>5. ASSUME NEW e \in Events, NEW k \in {"timer", "poll"}, Create(e, k)
      PROVE  Life'
  BY <1>5 DEF Create
<1>6. ASSUME NEW e \in Events, NEW isZero \in BOOLEAN, Schedule(e, isZero)
      PROVE  Life'
  BY <1>6 DEF Schedule, Start
<1>7. ASSUME NEW e \in Events, NEW isZero \in BOOLEAN, ScheduleOneshotTimer(e, isZero)
      PROVE  Life'
  BY <1>7 DEF ScheduleOneshotTimer, Start
<1>8. ASSUME NEW e \in Events, Suspend(e)
      PROVE  Life'
  BY <1>8 DEF Suspend
<1>9. ASSUME NEW e \in Events, Cancel(e)
      PROVE  Life'
  <2>1. CASE e \in m_active
    BY <1>9, <2>1, CancelActive DEF Cancel, Released
  <2>2. CASE e \notin m_active
    BY <1>9, <2>2, CancelInactive DEF Cancel, Released
  <2>3. QED
    BY <2>1, <2>2
<1>10. ASSUME NEW how \in {"normal", "once", "nowait"}, Run(how)
      PROVE  Life'
  BY <1>10 DEF Run
<1>11. CASE DrainTask
  BY <1>11 DEF DrainTask, TryPop
<1>12. CASE TaskReturns
  BY <1>12 DEF TaskReturns
<1>13. CASE DrainEnds
  BY <1>13 DEF DrainEnds
<1>14. CASE Iterate
  BY <1>14 DEF Iterate, Timers
<1>15. ASSUME NEW e \in Events, Fire(e)
      PROVE  Life'
  BY <1>15 DEF Fire
<1>16. ASSUME NEW e \in Events, CallbackReturns(e)
      PROVE  Life'
  <2>1. CASE kind[e] = "oneshot" /\ e \in m_active
    <3>1. /\ DoCancel(e) /\ in = e /\ in' = "none" /\ held' = Released(e)
          /\ UNCHANGED <<stops, queueVars, pc, mode, stopped, kind, m_active, fired>>
      BY <1>16, <2>1 DEF CallbackReturns, Cancels
    <3>2. /\ running' = running \ {e} /\ zero' = zero \ {e} /\ due' = due \ {e}
          /\ closing' = closing \cup {e} /\ freed' = freed
          /\ closes' = [closes EXCEPT ![e] = @ + 1]
      BY <2>1, <3>1, CancelActive
    <3>3. held' \subseteq held
      BY <3>1 DEF Released
    <3>4. QED
      BY <2>1, <3>1, <3>2, <3>3
  <2>2. CASE kind[e] = "oneshot" /\ e \notin m_active
    BY <1>16, <2>2, CancelInactive DEF CallbackReturns, Cancels
  <2>3. CASE kind[e] # "oneshot"
    BY <1>16, <2>3 DEF CallbackReturns, Cancels
  <2>4. QED
    BY <2>1, <2>2, <2>3
<1>17. CASE TimersEnd
  BY <1>17 DEF TimersEnd
<1>18. CASE PollReturns
  BY <1>18 DEF PollReturns, Polls, Signal
<1>19. CASE OnWakeup
  BY <1>19 DEF OnWakeup
<1>20. CASE PollEnds
  BY <1>20 DEF PollEnds
<1>21. CASE CloseHandles
  BY <1>21 DEF CloseHandles, Timers
<1>22. CASE LateEnds
  BY <1>22 DEF LateEnds
<1>23. CASE PollReady
  BY <1>23 DEF PollReady, Polls
<1>24. CASE UNCHANGED vars
  BY <1>24 DEF vars
<1>25. QED
  BY <1>1, <1>2, <1>3, <1>4, <1>5, <1>6, <1>7, <1>8, <1>9, <1>10, <1>11, <1>12, <1>13,
     <1>14, <1>15, <1>16, <1>17, <1>18, <1>19, <1>20, <1>21, <1>22, <1>23, <1>24 DEF Next, Client, Loop

(* Every step of a careful client keeps handles from being closed twice. *)
LEMMA OnceStep ==
  ASSUME Careful, TypeOK, DueRunning, Life, Once, [Next]_vars
  PROVE  Once'
<1> USE RunloopAssumption DEF TypeOK, DueRunning, Life, Once, Kinds, queueVars, loopVars, eventVars
<1>1. ASSUME NEW t \in Threads, DispatchEmplace(t)
      PROVE  Once'
  BY <1>1 DEF DispatchEmplace, Emplace, Dispatched
<1>2. ASSUME NEW t \in Threads, DispatchSignal(t)
      PROVE  Once'
  BY <1>2 DEF DispatchSignal
<1>3. CASE DispatchOnLoop
  BY <1>3 DEF DispatchOnLoop, Emplace, Dispatched
<1>4. CASE Stop
  BY <1>4 DEF Stop
<1>5. ASSUME NEW e \in Events, NEW k \in {"timer", "poll"}, Create(e, k)
      PROVE  Once'
  BY <1>5 DEF Create
<1>6. ASSUME NEW e \in Events, NEW isZero \in BOOLEAN, Schedule(e, isZero)
      PROVE  Once'
  BY <1>6 DEF Schedule, Start
<1>7. ASSUME NEW e \in Events, NEW isZero \in BOOLEAN, ScheduleOneshotTimer(e, isZero)
      PROVE  Once'
  BY <1>7 DEF ScheduleOneshotTimer, Start
<1>8. ASSUME NEW e \in Events, Suspend(e)
      PROVE  Once'
  BY <1>8 DEF Suspend
<1>9. ASSUME NEW e \in Events, Cancel(e)
      PROVE  Once'
  <2>1. CASE e \in m_active
    BY <1>9, <2>1, CancelActive DEF Cancel, Released
  <2>2. CASE e \notin m_active
    BY <1>9, <2>2, CancelInactive DEF Cancel, Released
  <2>3. QED
    BY <2>1, <2>2
<1>10. ASSUME NEW how \in {"normal", "once", "nowait"}, Run(how)
      PROVE  Once'
  BY <1>10 DEF Run
<1>11. CASE DrainTask
  BY <1>11 DEF DrainTask, TryPop
<1>12. CASE TaskReturns
  BY <1>12 DEF TaskReturns
<1>13. CASE DrainEnds
  BY <1>13 DEF DrainEnds
<1>14. CASE Iterate
  BY <1>14 DEF Iterate, Timers
<1>15. ASSUME NEW e \in Events, Fire(e)
      PROVE  Once'
  BY <1>15 DEF Fire
<1>16. ASSUME NEW e \in Events, CallbackReturns(e)
      PROVE  Once'
  <2>1. CASE kind[e] = "oneshot" /\ e \in m_active
    BY <1>16, <2>1, CancelActive DEF CallbackReturns, Cancels, Released
  <2>2. CASE kind[e] = "oneshot" /\ e \notin m_active
    BY <1>16, <2>2, CancelInactive DEF CallbackReturns, Cancels
  <2>3. CASE kind[e] # "oneshot"
    BY <1>16, <2>3 DEF CallbackReturns, Cancels
  <2>4. QED
    BY <2>1, <2>2, <2>3
<1>17. CASE TimersEnd
  BY <1>17 DEF TimersEnd
<1>18. CASE PollReturns
  BY <1>18 DEF PollReturns, Polls, Signal
<1>19. CASE OnWakeup
  BY <1>19 DEF OnWakeup
<1>20. CASE PollEnds
  BY <1>20 DEF PollEnds
<1>21. CASE CloseHandles
  BY <1>21 DEF CloseHandles, Timers
<1>22. CASE LateEnds
  BY <1>22 DEF LateEnds
<1>23. CASE PollReady
  BY <1>23 DEF PollReady, Polls
<1>24. CASE UNCHANGED vars
  BY <1>24 DEF vars
<1>25. QED
  BY <1>1, <1>2, <1>3, <1>4, <1>5, <1>6, <1>7, <1>8, <1>9, <1>10, <1>11, <1>12, <1>13,
     <1>14, <1>15, <1>16, <1>17, <1>18, <1>19, <1>20, <1>21, <1>22, <1>23, <1>24 DEF Next, Client, Loop

(* The invariant behind the theorems. *)
THEOREM Invariance == Spec => []Inv
<1>1. Inv /\ [Next]_vars => Inv'
  BY TypeStep, SignalledStep, DueStep, LifeStep DEF Inv
<1>2. QED
  BY InitInv, <1>1, PTL DEF Spec

(* Every variable of the loop has its type. *)
THEOREM TypeCorrect == Spec => []TypeOK
<1>1. Inv => TypeOK
  BY DEF Inv
<1>2. QED
  BY Invariance, <1>1, PTL

(* However many threads dispatch, the loop never blocks on a queue with    *)
(* closures in it without a signal that is pending or about to be sent.    *)
THEOREM NoWakeupLost == Spec => []NoLostWakeup
<1>1. Inv => NoLostWakeup
  BY DEF Inv, Signalled, NoLostWakeup
<1>2. QED
  BY Invariance, <1>1, PTL

(* uv_close is called at most once for every handle of a careful client. *)
THEOREM HandlesClosedOnce ==
  ASSUME Careful
  PROVE  Spec => []ClosedOnce
<1>1. Inv /\ Once /\ [Next]_vars => Once'
  BY OnceStep DEF Inv
<1>2. Once => ClosedOnce
  BY DEF Once, ClosedOnce
<1>3. QED
  BY Invariance, InitInv, <1>1, <1>2, PTL DEF Spec

(* Whatever a client cancels, from an event's own callback too, nothing    *)
(* that is deleted is watched, called back or in its callback.             *)
THEOREM NoDeletedIsUsed == Spec => []DeletedIsUnused
<1>1. Inv => DeletedIsUnused
  <2> SUFFICES ASSUME Inv, NEW e \in freed PROVE e \notin running \cup due \cup {in}
    BY DEF DeletedIsUnused
  <2>1. e \in Events /\ e # "wakeup"
    BY RunloopAssumption DEF Inv, TypeOK
  <2>2. QED
    BY <2>1 DEF Inv, Life, DueRunning
<1>2. QED
  BY Invariance, <1>1, PTL

(* A one-shot timer calls back at most once after it was scheduled. *)
THEOREM OneshotOnce == Spec => OneshotFiresOnce
<1> DEFINE NoSecond == \A e \in Events : kind[e] = "oneshot" /\ e \in fired => ~(in # e /\ in' = e)
<1>1. Inv /\ [Next]_vars => [NoSecond]_vars
  <2> SUFFICES ASSUME Inv, [Next]_vars, NEW f \in Events, kind[f] = "oneshot", f \in fired, in # f, in' = f
               PROVE  FALSE
    OBVIOUS
  <2> USE RunloopAssumption DEF queueVars, loopVars, eventVars
  <2>1. ASSUME NEW e \in Events, Fire(e)
        PROVE  FALSE
    <3>1. e = f /\ f \in due
      BY <2>1 DEF Fire
    <3>2. f \in running
      BY <3>1 DEF Inv, DueRunning
    <3>3. QED
      BY <3>2 DEF Inv, Life
  <2>2. CASE DrainTask \/ TaskReturns \/ \E e \in Events : CallbackReturns(e)
    BY <2>2 DEF DrainTask, TaskReturns, CallbackReturns
  <2>3. CASE UNCHANGED in
    BY <2>3
  <2>4. QED
    BY <2>1, <2>2, <2>3 DEF Next, Client, Loop, vars, DispatchEmplace, DispatchSignal, DispatchOnLoop,
      Stop, Create, Schedule, ScheduleOneshotTimer, Suspend, Cancel, Run, DrainEnds, Iterate, TimersEnd,
      PollReturns, OnWakeup, PollEnds, CloseHandles, LateEnds, PollReady
<1>2. QED
  BY Invariance, <1>1, PTL DEF Spec, OneshotFiresOnce

(* The queue of the loop is a task queue: what is dispatched is started in *)
(* order and once, and no other step touches it. (That it is started in    *)
(* the end is checked by TLC only.)                                        *)
THEOREM QueueSafety == Spec => Queue!Init /\ [][Queue!Next]_(Queue!vars)
<1>1. Init => Queue!Init
  BY DEF Init, Queue!Init
<1>2. TypeOK /\ [Next]_vars => [Queue!Next]_(Queue!vars)
  <2> SUFFICES ASSUME TypeOK, [Next]_vars
               PROVE  Queue!Next \/ UNCHANGED <<m_queue, started>>
    BY DEF Queue!vars
  <2> USE DEF queueVars, loopVars, eventVars
  <2>1. CASE Emplace /\ UNCHANGED started
    BY <2>1 DEF Emplace, Dispatched, Queue!Next, Queue!Submit, TypeOK
  <2>2. CASE TryPop
    BY <2>2 DEF TryPop, Queue!Next, Queue!Start
  <2>3. QED
    BY <2>1, <2>2 DEF Next, Client, Loop, vars, DispatchEmplace, DispatchSignal, DispatchOnLoop,
      Stop, Create, Schedule, ScheduleOneshotTimer, Suspend, Cancel, Run, DrainTask, TaskReturns, DrainEnds,
      Iterate, Fire, CallbackReturns, TimersEnd, PollReturns, OnWakeup, PollEnds, CloseHandles, LateEnds, PollReady
<1>3. QED
  BY TypeCorrect, <1>1, <1>2, PTL DEF Spec
=============================================================================

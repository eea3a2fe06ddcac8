------------------------ MODULE StateMachineProofs ------------------------
(***************************************************************************)
(* For any table of transitions, any number of posts and calls of          *)
(* really_post nested to any depth: the action of a transition cannot      *)
(* change the state, because while it runs m_in_transition is set, posts   *)
(* are queued, and so its call stays the innermost one; and when all calls *)
(* have returned nobody has been left with an old state, because whoever   *)
(* has is still in the snapshot of some call that has not returned.        *)
(***************************************************************************)
EXTENDS StateMachine, SequenceTheorems, TLAPS

\* An action that is running is that of the innermost call, and the machine
\* is marked as in transition and in the state the transition entered.
ActionOnTop ==
  \A i \in 1..Len(stack) : stack[i].at = "action" =>
    i = Len(stack) /\ m_in_transition /\ m_state = stack[i].to

Inv == TypeOK /\ ActionOnTop

\* The table leads to a state of the machine.
LEMMA TargetType ==
  ASSUME NEW s, NEW e, Defined(s, e)
  PROVE  Target(s, e) \in States
<1> DEFINE P(t) == t \in Machine /\ t[1] = s /\ t[2] = e
<1>1. \E t : P(t)
  BY DEF Defined
<1>2. P(CHOOSE t : P(t))
  BY <1>1, Zenon
<1>3. (CHOOSE t : P(t)) = (CHOOSE t \in Machine : t[1] = s /\ t[2] = e)
  OBVIOUS
<1>4. \A t \in Machine : t[3] \in States
  BY StateMachineAssumption
<1>5. QED
  BY <1>2, <1>3, <1>4 DEF Target

LEMMA InitInv == Init => Inv
<1> SUFFICES ASSUME Init PROVE Inv
  OBVIOUS
<1>1. m_event_queue \in Seq(Events) /\ stack \in Seq(Frame) /\ Len(stack) = 0
  BY EmptySeq DEF Init
<1>2. ActionOnTop
  BY <1>1 DEF ActionOnTop
<1>3. m_in_transition \in BOOLEAN
  BY Zenon DEF Init
<1>4. /\ outcome \in [Promises -> {"none", "pending", "resolved", "rejected"}]
      /\ told \in [Observers -> States \cup {None}]
  BY DEF Init
<1>5. m_state \in States /\ m_observers \subseteq Observers /\ drains \in Nat /\ posts \in 0..MaxPosts
  BY StateMachineAssumption DEF Init
<1>6. QED
  BY <1>1, <1>2, <1>3, <1>4, <1>5, StateMachineAssumption DEF Inv, TypeOK

\* really_post keeps the invariant's parts on the variables it changes.
LEMMA ReallyPostInv ==
  ASSUME Inv, NEW e \in Events, NEW queue \in Seq(Events), NEW observers \in SUBSET Observers,
         ReallyPost(e, queue, observers)
  PROVE  /\ m_state' \in States /\ m_event_queue' \in Seq(Events) /\ m_in_transition' \in BOOLEAN
         /\ stack' \in Seq(Frame) /\ Len(stack') <= MaxDepth
         /\ ActionOnTop'
<1> USE DEF Inv
<1>1. CASE m_in_transition \/ queue # <<>>
  <2>1. m_event_queue' = Append(queue, e) /\ UNCHANGED <<m_state, m_in_transition, stack>>
    BY <1>1 DEF ReallyPost
  <2>2. QED
    BY <2>1 DEF TypeOK, ActionOnTop
<1>2. CASE ~m_in_transition /\ queue = <<>> /\ ~Defined(m_state, e)
  <2>1. m_event_queue' = queue /\ UNCHANGED <<m_state, m_in_transition, stack>>
    BY <1>2 DEF ReallyPost
  <2>2. QED
    BY <2>1 DEF TypeOK, ActionOnTop
<1>3. CASE ~m_in_transition /\ queue = <<>> /\ Defined(m_state, e)
  <2> DEFINE next == Target(m_state, e)
             frame(at) == [at |-> at, to |-> next, todo |-> observers, cur |-> None]
  <2>1. next \in States
    BY <1>3, TargetType
  <2>2. m_event_queue' = queue /\ Len(stack) < MaxDepth
    BY <1>3 DEF ReallyPost
  <2>3. \A at \in {"action", "observers"} : frame(at) \in Frame
    BY <2>1 DEF Frame
  <2>4. \A i \in 1..Len(stack) : stack[i].at # "action"
    BY <1>3 DEF ActionOnTop
  <2>5. CASE m_state # next
    <3>1. m_state' = next /\ m_in_transition' = TRUE /\ stack' = Append(stack, frame("action"))
      BY <1>3, <2>5 DEF ReallyPost, BeginTransition
    <3> DEFINE f == frame("action")
    <3>2. f \in Frame /\ f.at = "action" /\ f.to = next
      BY <2>3
    <3> HIDE DEF f, next
    <3>3. /\ stack' \in Seq(Frame) /\ Len(stack') = Len(stack) + 1 /\ stack'[Len(stack) + 1] = f
          /\ \A i \in 1..Len(stack) : stack'[i] = stack[i]
      BY <3>1, <3>2 DEF TypeOK, f
    <3>4. ActionOnTop'
      BY <2>4, <3>1, <3>2, <3>3 DEF ActionOnTop, TypeOK
    <3>5. QED
      BY <2>1, <2>2, <3>1, <3>3, <3>4, StateMachineAssumption DEF TypeOK
  <2>6. CASE m_state = next
    <3>1. UNCHANGED <<m_state, m_in_transition>> /\ stack' = Append(stack, frame("observers"))
      BY <1>3, <2>6 DEF ReallyPost
    <3> DEFINE f == frame("observers")
    <3>2. f \in Frame /\ f.at = "observers"
      BY <2>3
    <3> HIDE DEF f, next
    <3>3. /\ stack' \in Seq(Frame) /\ Len(stack') = Len(stack) + 1 /\ stack'[Len(stack) + 1] = f
          /\ \A i \in 1..Len(stack) : stack'[i] = stack[i]
      BY <3>1, <3>2 DEF TypeOK, f
    <3>4. ActionOnTop'
      BY <2>4, <3>1, <3>2, <3>3 DEF ActionOnTop, TypeOK
    <3>5. QED
      BY <2>1, <2>2, <3>1, <3>3, <3>4, StateMachineAssumption DEF TypeOK
  <2>7. QED
    BY <2>5, <2>6
<1>4. QED
  BY <1>1, <1>2, <1>3

\* A change of the innermost call that leaves no action running in it.
LEMMA SetTopInv ==
  ASSUME Inv, stack # <<>>, NEW f \in Frame, stack' = SetTop(f), f.at = "observers"
  PROVE  stack' \in Seq(Frame) /\ Len(stack') = Len(stack) /\ \A i \in 1..Len(stack') : stack'[i].at # "action"
<1> USE DEF Inv
<1>1. Len(stack) \in 1..Len(stack) /\ Len(stack) \in Nat
  BY EmptySeq DEF TypeOK
<1>2. /\ stack' \in Seq(Frame) /\ Len(stack') = Len(stack)
      /\ \A i \in 1..Len(stack) : stack'[i] = IF i = Len(stack) THEN f ELSE stack[i]
  BY <1>1 DEF SetTop, TypeOK
<1>3. QED
  BY <1>1, <1>2 DEF ActionOnTop

\* Every step keeps the invariant.
LEMMA StepInv ==
  ASSUME Inv, [Next]_vars
  PROVE  Inv'
<1> USE DEF Inv
<1>1. ASSUME NEW e \in Events, Post(e) PROVE Inv'
  <2>1. m_observers \in SUBSET Observers /\ m_event_queue \in Seq(Events)
    BY DEF TypeOK
  <2>2. QED
    BY <1>1, <2>1, ReallyPostInv, StateMachineAssumption DEF Post, TypeOK
<1>2. ASSUME NEW e \in Events, NEW p \in Promises, PostNotify(e, p) PROVE Inv'
  <2>1. m_observers \cup {p} \in SUBSET Observers /\ m_event_queue \in Seq(Events)
    BY DEF TypeOK, Observers
  <2>2. QED
    BY <1>2, <2>1, ReallyPostInv, StateMachineAssumption DEF PostNotify, TypeOK
<1>3. ASSUME NEW s \in States, NEW p \in Promises, PostIfElsewhere(s, p) PROVE Inv'
  BY <1>3 DEF PostIfElsewhere, TypeOK, ActionOnTop
<1>4. ASSUME NEW w \in Watchers, Observe(w) PROVE Inv'
  BY <1>4 DEF Observe, TypeOK, ActionOnTop, Observers
<1>5. CASE ActionReturns
  <2> DEFINE f == [Top EXCEPT !.at = "observers", !.todo = m_observers]
  <2>1. Top \in Frame
    BY <1>5, EmptySeq DEF ActionReturns, Top, TypeOK
  <2>2. f \in Frame /\ f.at = "observers"
    BY <2>1 DEF Frame, TypeOK
  <2>3. stack' = SetTop(f) /\ stack # <<>>
    BY <1>5 DEF ActionReturns
  <2> HIDE DEF f
  <2>4. stack' \in Seq(Frame) /\ Len(stack') = Len(stack) /\ ActionOnTop'
    BY <2>2, <2>3, SetTopInv DEF ActionOnTop
  <2>5. QED
    BY <1>5, <2>4 DEF ActionReturns, TypeOK
<1>6. ASSUME NEW o \in Observers, SkipObserver(o) PROVE Inv'
  <2> DEFINE f == [Top EXCEPT !.todo = @ \ {o}]
  <2>1. Top \in Frame
    BY <1>6, EmptySeq DEF SkipObserver, Top, TypeOK
  <2>2. f \in Frame /\ f.at = "observers"
    BY <1>6, <2>1 DEF Frame, SkipObserver
  <2>3. stack' = SetTop(f) /\ stack # <<>>
    BY <1>6 DEF SkipObserver
  <2> HIDE DEF f
  <2>4. stack' \in Seq(Frame) /\ Len(stack') = Len(stack) /\ ActionOnTop'
    BY <2>2, <2>3, SetTopInv DEF ActionOnTop
  <2>5. QED
    BY <1>6, <2>4 DEF SkipObserver, TypeOK
<1>7. ASSUME NEW o \in Observers, CallObserver(o) PROVE Inv'
  <2> DEFINE f == [Top EXCEPT !.todo = @ \ {o}, !.cur = o]
  <2>1. Top \in Frame
    BY <1>7, EmptySeq DEF CallObserver, Top, TypeOK
  <2>2. f \in Frame /\ f.at = "observers"
    BY <1>7, <2>1 DEF Frame, CallObserver
  <2>3. stack' = SetTop(f) /\ stack # <<>>
    BY <1>7 DEF CallObserver
  <2> HIDE DEF f
  <2>4. stack' \in Seq(Frame) /\ Len(stack') = Len(stack) /\ ActionOnTop'
    BY <2>2, <2>3, SetTopInv DEF ActionOnTop
  <2>5. told' \in [Observers -> States \cup {None}]
    BY <1>7 DEF CallObserver, NextState, TypeOK
  <2>6. outcome' \in [Promises -> {"none", "pending", "resolved", "rejected"}]
    BY <1>7 DEF CallObserver, Verdict, TypeOK
  <2>7. QED
    BY <1>7, <2>4, <2>5, <2>6 DEF CallObserver, TypeOK
<1>8. CASE ObserverReturns
  <2> DEFINE f == [Top EXCEPT !.cur = None]
  <2>1. Top \in Frame
    BY <1>8, EmptySeq DEF ObserverReturns, Top, TypeOK
  <2>2. f \in Frame /\ f.at = "observers"
    BY <1>8, <2>1 DEF Frame, ObserverReturns
  <2>3. stack' = SetTop(f) /\ stack # <<>>
    BY <1>8 DEF ObserverReturns
  <2> HIDE DEF f
  <2>4. stack' \in Seq(Frame) /\ Len(stack') = Len(stack) /\ ActionOnTop'
    BY <2>2, <2>3, SetTopInv DEF ActionOnTop
  <2>5. m_observers' \subseteq Observers
    BY <1>8 DEF ObserverReturns, TypeOK
  <2>6. QED
    BY <1>8, <2>4, <2>5 DEF ObserverReturns, TypeOK
<1>9. CASE PostReturns
  <2>1. Len(stack) \in Nat \ {0} /\ stack' = SubSeq(stack, 1, Len(stack) - 1) /\ Top.at = "observers"
    BY <1>9, EmptySeq DEF PostReturns, Pop, TypeOK
  <2>2. /\ stack' \in Seq(Frame) /\ Len(stack') = Len(stack) - 1
        /\ \A i \in 1..Len(stack') : stack'[i] = stack[i]
    <3> DEFINE n == Len(stack) - 1
    <3>1. n \in Nat /\ \A i \in 1..n : stack[i] \in Frame
      BY <2>1, LenProperties DEF TypeOK
    <3>2. stack' = SubSeq(stack, 1, n)
      BY <2>1
    <3> HIDE DEF n
    <3>3. /\ SubSeq(stack, 1, n) \in Seq(Frame)
          /\ Len(SubSeq(stack, 1, n)) = IF 1 <= n THEN n - 1 + 1 ELSE 0
          /\ \A i \in 1..n - 1 + 1 : SubSeq(stack, 1, n)[i] = stack[1 + i - 1]
      BY <3>1, SubSeqProperties
    <3>4. stack' \in Seq(Frame) /\ Len(stack') = n /\ \A i \in 1..n : stack'[i] = stack[i]
      BY <3>1, <3>2, <3>3
    <3>5. QED
      BY <3>4 DEF n
  <2>3. \A i \in 1..Len(stack') : stack'[i].at # "action"
    BY <2>1, <2>2 DEF ActionOnTop
  <2>4. drains' \in Nat
    BY <1>9 DEF PostReturns, DispatchDrain, TypeOK
  <2>5. QED
    BY <1>9, <2>1, <2>2, <2>3, <2>4, StateMachineAssumption DEF PostReturns, TypeOK, ActionOnTop
<1>10. CASE Drain
  <2>1. CASE m_event_queue # <<>>
    <3>1. /\ Head(m_event_queue) \in Events /\ Tail(m_event_queue) \in Seq(Events)
          /\ m_observers \in SUBSET Observers
      BY <2>1 DEF TypeOK
    <3>2. ReallyPost(Head(m_event_queue), Tail(m_event_queue), m_observers)
      BY <1>10, <2>1 DEF Drain
    <3>3. /\ m_state' \in States /\ m_event_queue' \in Seq(Events) /\ m_in_transition' \in BOOLEAN
          /\ stack' \in Seq(Frame) /\ Len(stack') <= MaxDepth /\ ActionOnTop'
      BY <3>1, <3>2, ReallyPostInv
    <3>4. drains' \in Nat
      BY <1>10 DEF Drain, TypeOK
    <3>5. QED
      BY <1>10, <3>3, <3>4 DEF Drain, TypeOK
  <2>2. CASE m_event_queue = <<>>
    BY <1>10, <2>2 DEF Drain, TypeOK, ActionOnTop
  <2>3. QED
    BY <2>1, <2>2
<1>11. CASE UNCHANGED vars
  BY <1>11 DEF vars, TypeOK, ActionOnTop
<1>12. QED
  BY <1>1, <1>2, <1>3, <1>4, <1>5, <1>6, <1>7, <1>8, <1>9, <1>10, <1>11 DEF Next, Client, Internal

\* The invariant behind the theorems.
THEOREM Invariance == Spec => []Inv
<1>1. Inv /\ [Next]_vars => Inv'
  BY StepInv
<1>2. QED
  BY InitInv, <1>1, PTL DEF Spec

\* Every variable has its type, and calls nest no deeper than the bound.
THEOREM TypeCorrect == Spec => []TypeOK
<1>1. Inv => TypeOK
  BY DEF Inv
<1>2. QED
  BY Invariance, <1>1, PTL

\* The assertion m_state == saved of really_post holds whatever an action
\* does: events it posts, however deep, wait for it to return.
THEOREM ActionsKeepState == Spec => []ActionKeepsState
<1>1. Inv => ActionKeepsState
  BY LenProperties DEF Inv, TypeOK, ActionOnTop, ActionKeepsState
<1>2. QED
  BY Invariance, <1>1, PTL

-----------------------------------------------------------------------------
\* A call of really_post that has not returned will still tell the observer:
\* it is in what is left of the snapshot, or the snapshot is yet to be taken.
WillTell(o) ==
  \E i \in 1..Len(stack) : stack[i].at = "action" \/ o \in stack[i].todo

\* An observer registered with observe knows the state, or will be told.
WatchersTold ==
  \A w \in m_observers \cap Watchers : Wants(w, m_state) => told[w] = m_state \/ WillTell(w)

\* A promise that is not made has no observer anywhere.
UnmadeUnknown ==
  \A p \in Promises : outcome[p] = "none" =>
    /\ told[p] = None /\ p \notin m_observers
    /\ \A i \in 1..Len(stack) : p \notin stack[i].todo

\* The observer of a pending promise stays registered.
PendingRegistered ==
  \A p \in Promises : outcome[p] = "pending" => p \in m_observers

\* A pending promise that has heard of a transition is in a state that
\* decides it only while it will be told.
VerdictDue ==
  \A p \in Promises : outcome[p] = "pending" /\ told[p] # None /\ m_state \in Good[p] \cup Bad[p] =>
    WillTell(p)

ToldInv == WatchersTold /\ UnmadeUnknown /\ PendingRegistered /\ VerdictDue

\* What really_post does to the calls: nothing, or it adds one that holds
\* the observers, and that is in its action when the state has changed.
LEMMA ReallyPostStack ==
  ASSUME Inv, NEW e \in Events, NEW queue \in Seq(Events), NEW observers \in SUBSET Observers,
         ReallyPost(e, queue, observers)
  PROVE  \/ UNCHANGED <<m_state, stack>>
         \/ /\ Len(stack') = Len(stack) + 1 /\ Len(stack) \in Nat
            /\ \A i \in 1..Len(stack) : stack'[i] = stack[i]
            /\ stack'[Len(stack) + 1].todo = observers
            /\ stack'[Len(stack) + 1].at = "action" \/ m_state' = m_state
<1>1. CASE ~m_in_transition /\ queue = <<>> /\ Defined(m_state, e)
  <2> DEFINE next == Target(m_state, e)
             frame(at) == [at |-> at, to |-> next, todo |-> observers, cur |-> None]
  <2>1. \A at : frame(at).at = at /\ frame(at).todo = observers
    OBVIOUS
  <2>2. PICK at : /\ stack' = Append(stack, frame(at))
                  /\ at = "action" \/ m_state' = m_state
    BY <1>1 DEF ReallyPost
  <2> DEFINE f == frame(at)
  <2>3. stack' = Append(stack, f) /\ f.at = at /\ f.todo = observers
    BY <2>1, <2>2
  <2> HIDE DEF f
  <2>4. stack \in Seq(Frame)
    BY DEF Inv, TypeOK
  <2>5. /\ Len(stack') = Len(stack) + 1 /\ Len(stack) \in Nat
        /\ \A i \in 1..Len(stack) : stack'[i] = stack[i]
        /\ stack'[Len(stack) + 1] = f
    BY <2>3, <2>4
  <2>6. QED
    BY <2>2, <2>3, <2>5
<1>2. CASE ~(~m_in_transition /\ queue = <<>> /\ Defined(m_state, e))
  BY <1>2 DEF ReallyPost
<1>3. QED
  BY <1>1, <1>2

\* A post keeps it, with the registrations and promises as they are after it.
LEMMA ReallyPostTold ==
  ASSUME Inv, ToldInv, NEW e \in Events, NEW queue \in Seq(Events),
         ReallyPost(e, queue, m_observers'), UNCHANGED told,
         m_observers' \in SUBSET Observers,
         m_observers' \cap Watchers = m_observers \cap Watchers,
         m_observers \subseteq m_observers',
         \A p \in Promises :
           \/ outcome'[p] = outcome[p] /\ (p \in m_observers' <=> p \in m_observers)
           \/ outcome[p] = "none" /\ outcome'[p] = "pending" /\ p \in m_observers'
  PROVE  ToldInv'
<1>1. ASSUME NEW o, WillTell(o) PROVE WillTell(o)'
  BY <1>1, ReallyPostStack DEF WillTell
<1>2. m_state' = m_state \/ \A o : WillTell(o)'
  BY ReallyPostStack DEF WillTell
<1>3. \A p \in Promises : p \notin m_observers' /\ (\A i \in 1..Len(stack) : p \notin stack[i].todo) =>
        \A i \in 1..Len(stack') : p \notin stack'[i].todo
  BY ReallyPostStack
<1>4. WatchersTold'
  BY <1>1, <1>2 DEF ToldInv, WatchersTold, Wants
<1>5. UnmadeUnknown'
  BY <1>3 DEF ToldInv, UnmadeUnknown
<1>6. PendingRegistered'
  BY DEF ToldInv, PendingRegistered
<1>7. VerdictDue'
  BY <1>1, <1>2 DEF ToldInv, VerdictDue, UnmadeUnknown
<1>8. QED
  BY <1>4, <1>5, <1>6, <1>7 DEF ToldInv

\* The innermost call, and what a change of it leaves as it is.
LEMMA TopChanged ==
  ASSUME Inv, stack # <<>>, NEW f, stack' = SetTop(f)
  PROVE  /\ Len(stack) \in 1..Len(stack) /\ Top = stack[Len(stack)]
         /\ Len(stack') = Len(stack)
         /\ \A i \in 1..Len(stack) : stack'[i] = IF i = Len(stack) THEN f ELSE stack[i]
<1>1. Len(stack) \in 1..Len(stack) /\ stack \in Seq(Frame)
  BY EmptySeq DEF Inv, TypeOK
<1>2. QED
  BY <1>1 DEF SetTop, Top

\* Every step keeps what observers know or will be told.
LEMMA StepTold ==
  ASSUME Inv, ToldInv, [Next]_vars
  PROVE  ToldInv'
<1> USE DEF ToldInv
<1>1. ASSUME NEW e \in Events, Post(e) PROVE ToldInv'
  <2>1. m_observers' = m_observers /\ m_observers \in SUBSET Observers /\ m_event_queue \in Seq(Events)
    BY <1>1 DEF Inv, TypeOK, Post
  <2>2. ReallyPost(e, m_event_queue, m_observers') /\ UNCHANGED <<told, outcome>>
    BY <1>1, <2>1 DEF Post
  <2>3. QED
    BY <2>1, <2>2, ReallyPostTold
<1>2. ASSUME NEW e \in Events, NEW p \in Promises, PostNotify(e, p) PROVE ToldInv'
  <2>1. /\ m_observers' = m_observers \cup {p} /\ m_observers' \in SUBSET Observers
        /\ m_event_queue \in Seq(Events)
    BY <1>2 DEF Inv, TypeOK, PostNotify, Observers
  <2>2. ReallyPost(e, m_event_queue, m_observers') /\ UNCHANGED told
    BY <1>2, <2>1 DEF PostNotify
  <2>3. \A q \in Promises : outcome'[q] = IF q = p THEN "pending" ELSE outcome[q]
    BY <1>2 DEF PostNotify, Inv, TypeOK
  <2>4. outcome[p] = "none" /\ p \notin Watchers
    BY <1>2, StateMachineAssumption DEF PostNotify
  <2>5. QED
    BY <2>1, <2>2, <2>3, <2>4, ReallyPostTold
<1>3. ASSUME NEW s \in States, NEW p \in Promises, PostIfElsewhere(s, p) PROVE ToldInv'
  <2>1. \A q \in Promises : outcome'[q] = IF q = p THEN "rejected" ELSE outcome[q]
    BY <1>3 DEF PostIfElsewhere, Inv, TypeOK
  <2>2. UNCHANGED <<m_state, m_observers, stack, told>>
    BY <1>3 DEF PostIfElsewhere
  <2>3. QED
    BY <2>1, <2>2 DEF WatchersTold, UnmadeUnknown, PendingRegistered, VerdictDue, WillTell
<1>4. ASSUME NEW w \in Watchers, Observe(w) PROVE ToldInv'
  <2>1. w \in Observers /\ \A p \in Promises : p # w
    BY StateMachineAssumption DEF Observers
  <2>2. \A o \in Observers : told'[o] = IF o = w THEN m_state ELSE told[o]
    BY <1>4 DEF Observe, Inv, TypeOK
  <2>3. m_observers' = m_observers \cup {w} /\ UNCHANGED <<m_state, stack, outcome>>
    BY <1>4 DEF Observe
  <2>4. WatchersTold'
    BY <2>1, <2>2, <2>3 DEF WatchersTold, WillTell, Observers
  <2>5. (UnmadeUnknown /\ PendingRegistered /\ VerdictDue)'
    BY <2>1, <2>2, <2>3 DEF UnmadeUnknown, PendingRegistered, VerdictDue, WillTell, Observers
  <2>6. QED
    BY <2>4, <2>5
<1>5. CASE ActionReturns
  <2> DEFINE f == [Top EXCEPT !.at = "observers", !.todo = m_observers]
  <2>1. stack # <<>> /\ stack' = SetTop(f) /\ UNCHANGED <<m_state, m_observers, outcome, told>>
    BY <1>5 DEF ActionReturns
  <2>2. Top \in Frame
    BY <2>1, EmptySeq DEF Top, Inv, TypeOK
  <2>3. f.todo = m_observers
    BY <2>2 DEF Frame
  <2> HIDE DEF f
  <2>4. \A o \in m_observers : WillTell(o)'
    BY <2>1, <2>3, TopChanged DEF WillTell
  <2>5. \A p \in Promises : p \notin m_observers /\ (\A i \in 1..Len(stack) : p \notin stack[i].todo) =>
          \A i \in 1..Len(stack') : p \notin stack'[i].todo
    BY <2>1, <2>3, TopChanged
  <2>6. QED
    BY <2>1, <2>4, <2>5 DEF WatchersTold, UnmadeUnknown, PendingRegistered, VerdictDue
<1>6. ASSUME NEW o \in Observers, SkipObserver(o) PROVE ToldInv'
  <2> DEFINE f == [Top EXCEPT !.todo = @ \ {o}]
  <2>1. stack # <<>> /\ stack' = SetTop(f) /\ UNCHANGED <<m_state, m_observers, outcome, told>>
    BY <1>6 DEF SkipObserver
  <2>2. Top \in Frame /\ Top.at = "observers"
    BY <1>6, <2>1, EmptySeq DEF SkipObserver, Top, Inv, TypeOK
  <2>3. f.todo = Top.todo \ {o}
    BY <2>2 DEF Frame
  <2> HIDE DEF f
  <2>4. \A q : q # o /\ WillTell(q) => WillTell(q)'
    BY <2>1, <2>2, <2>3, TopChanged DEF WillTell
  <2>5. o \in Watchers /\ ~Wants(o, m_state)
    BY <1>6 DEF SkipObserver, Matches, NextState, Wants
  <2>6. \A p \in Promises : p # o
    BY <2>5, StateMachineAssumption
  <2>7. \A p \in Promises : (\A i \in 1..Len(stack) : p \notin stack[i].todo) =>
          \A i \in 1..Len(stack') : p \notin stack'[i].todo
    BY <2>1, <2>3, TopChanged
  <2>8. WatchersTold'
    BY <2>1, <2>4, <2>5 DEF WatchersTold, Wants
  <2>9. QED
    BY <2>1, <2>4, <2>6, <2>7, <2>8 DEF UnmadeUnknown, PendingRegistered, VerdictDue
<1>7. ASSUME NEW o \in Observers, CallObserver(o) PROVE ToldInv'
  <2> DEFINE f == [Top EXCEPT !.todo = @ \ {o}, !.cur = o]
  <2>1. stack # <<>> /\ stack' = SetTop(f) /\ UNCHANGED <<m_state, m_observers>>
    BY <1>7 DEF CallObserver
  <2>2. Top \in Frame /\ Top.at = "observers" /\ o \in Top.todo
    BY <1>7, <2>1, EmptySeq DEF CallObserver, Top, Inv, TypeOK
  <2>3. f.todo = Top.todo \ {o}
    BY <2>2 DEF Frame
  <2> HIDE DEF f
  <2>4. \A q : q # o /\ WillTell(q) => WillTell(q)'
    BY <2>1, <2>2, <2>3, TopChanged DEF WillTell
  <2>5. \A q \in Observers : told'[q] = IF q = o THEN m_state ELSE told[q]
    BY <1>7 DEF CallObserver, NextState, Inv, TypeOK
  <2>6. \A p \in Promises :
          outcome'[p] = IF p = o /\ outcome[p] = "pending" THEN Verdict(p, m_state) ELSE outcome[p]
    BY <1>7 DEF CallObserver, NextState, Inv, TypeOK
  <2>7. \A p \in Promises : (\A i \in 1..Len(stack) : p \notin stack[i].todo) =>
          p # o /\ \A i \in 1..Len(stack') : p \notin stack'[i].todo
    BY <2>1, <2>2, <2>3, TopChanged
  <2>8. \A p \in Promises : Verdict(p, m_state) = "pending" => m_state \notin Good[p] \cup Bad[p]
    BY DEF Verdict
  <2>9. \A p \in Promises : Verdict(p, m_state) # "none"
    BY DEF Verdict
  <2>10. WatchersTold'
    BY <2>1, <2>4, <2>5 DEF WatchersTold, Wants, Observers
  <2>11. UnmadeUnknown'
    BY <2>1, <2>5, <2>6, <2>7, <2>9 DEF UnmadeUnknown, Observers
  <2>12. PendingRegistered'
    BY <2>1, <2>6 DEF PendingRegistered
  <2>13. VerdictDue'
    BY <2>1, <2>4, <2>5, <2>6, <2>8 DEF VerdictDue, Observers
  <2>14. QED
    BY <2>10, <2>11, <2>12, <2>13
<1>8. CASE ObserverReturns
  <2> DEFINE f == [Top EXCEPT !.cur = None]
  <2>1. stack # <<>> /\ stack' = SetTop(f) /\ UNCHANGED <<m_state, outcome, told>>
    BY <1>8 DEF ObserverReturns
  <2>2. Top \in Frame
    BY <2>1, EmptySeq DEF Top, Inv, TypeOK
  <2>3. f.todo = Top.todo /\ f.at = Top.at
    BY <2>2 DEF Frame
  <2> HIDE DEF f
  <2>4. \A q : WillTell(q) => WillTell(q)'
    BY <2>1, <2>3, TopChanged DEF WillTell
  <2>5. m_observers' \subseteq m_observers
    BY <1>8 DEF ObserverReturns
  <2>6. \A p \in Promises : outcome[p] = "pending" /\ p \in m_observers => p \in m_observers'
    BY <1>8 DEF ObserverReturns
  <2>7. \A p \in Promises : (\A i \in 1..Len(stack) : p \notin stack[i].todo) =>
          \A i \in 1..Len(stack') : p \notin stack'[i].todo
    BY <2>1, <2>3, TopChanged
  <2>8. WatchersTold'
    BY <2>1, <2>4, <2>5 DEF WatchersTold, Wants
  <2>9. QED
    BY <2>1, <2>4, <2>5, <2>6, <2>7, <2>8 DEF UnmadeUnknown, PendingRegistered, VerdictDue
<1>9. CASE PostReturns
  <2>1. /\ Len(stack) \in Nat \ {0} /\ stack' = SubSeq(stack, 1, Len(stack) - 1)
        /\ Top.at = "observers" /\ Top.todo = {}
        /\ UNCHANGED <<m_state, m_observers, outcome, told>>
    BY <1>9, EmptySeq DEF PostReturns, Pop, Inv, TypeOK
  <2> DEFINE n == Len(stack) - 1
  <2>2. n \in Nat /\ \A i \in 1..n : stack[i] \in Frame
    BY <2>1, LenProperties DEF Inv, TypeOK
  <2>3. stack' = SubSeq(stack, 1, n) /\ Len(stack) = n + 1
    BY <2>1
  <2> HIDE DEF n
  <2>4. /\ Len(SubSeq(stack, 1, n)) = IF 1 <= n THEN n - 1 + 1 ELSE 0
        /\ \A i \in 1..n - 1 + 1 : SubSeq(stack, 1, n)[i] = stack[1 + i - 1]
    BY <2>2, SubSeqProperties
  <2>5. Len(stack') = n /\ \A i \in 1..n : stack'[i] = stack[i]
    BY <2>2, <2>3, <2>4
  <2>6. stack[n + 1].at = "observers" /\ stack[n + 1].todo = {}
    BY <2>1, <2>3 DEF Top
  <2>7. \A q : WillTell(q) => WillTell(q)'
    BY <2>2, <2>3, <2>5, <2>6 DEF WillTell
  <2>8. \A p \in Promises : (\A i \in 1..Len(stack) : p \notin stack[i].todo) =>
          \A i \in 1..Len(stack') : p \notin stack'[i].todo
    BY <2>2, <2>3, <2>5
  <2>9. WatchersTold'
    BY <2>1, <2>7 DEF WatchersTold, Wants
  <2>10. QED
    BY <2>1, <2>7, <2>8, <2>9 DEF UnmadeUnknown, PendingRegistered, VerdictDue
<1>10. CASE Drain
  <2>1. /\ m_observers' = m_observers /\ m_observers \in SUBSET Observers
        /\ UNCHANGED <<told, outcome>>
    BY <1>10 DEF Drain, Inv, TypeOK
  <2>2. CASE m_event_queue # <<>>
    <3>1. Head(m_event_queue) \in Events /\ Tail(m_event_queue) \in Seq(Events)
      BY <2>2 DEF Inv, TypeOK
    <3>2. ReallyPost(Head(m_event_queue), Tail(m_event_queue), m_observers')
      BY <1>10, <2>1, <2>2 DEF Drain
    <3>3. QED
      BY <2>1, <3>1, <3>2, ReallyPostTold
  <2>3. CASE m_event_queue = <<>>
    BY <1>10, <2>3 DEF Drain, WatchersTold, Wants, UnmadeUnknown, PendingRegistered, VerdictDue, WillTell
  <2>4. QED
    BY <2>2, <2>3
<1>11. CASE UNCHANGED vars
  BY <1>11 DEF vars, WatchersTold, Wants, UnmadeUnknown, PendingRegistered, VerdictDue, WillTell
<1>12. QED
  BY <1>1, <1>2, <1>3, <1>4, <1>5, <1>6, <1>7, <1>8, <1>9, <1>10, <1>11 DEF Next, Client, Internal

\* What every observer knows or will be told, in every behaviour.
LEMMA ToldInvariance == Spec => []ToldInv
<1>1. Init => ToldInv
  <2> SUFFICES ASSUME Init PROVE ToldInv
    OBVIOUS
  <2>1. Len(stack) = 0 /\ m_observers = {}
    BY EmptySeq DEF Init
  <2>2. \A p \in Promises : p \in Observers /\ outcome[p] = "none" /\ told[p] = None
    BY DEF Init, Observers
  <2>3. QED
    BY <2>1, <2>2 DEF ToldInv, WatchersTold, UnmadeUnknown, PendingRegistered, VerdictDue
<1>2. Inv /\ ToldInv /\ [Next]_vars => ToldInv'
  BY StepTold
<1>3. QED
  BY Invariance, <1>1, <1>2, PTL DEF Spec

\* Once every call of really_post has returned, every observer that wants
\* the state the machine is in was last told that state: dispatch_observers
\* reads the state anew for every observer, so the calls that are overtaken
\* by a transition of one of their observers tell no stale state.
THEOREM ObserversAreUpToDate == Spec => []ObserversUpToDate
<1>1. ToldInv => ObserversUpToDate
  <2>1. stack = <<>> => \A o : ~WillTell(o)
    BY EmptySeq DEF WillTell
  <2>2. QED
    BY <2>1 DEF ToldInv, WatchersTold, ObserversUpToDate
<1>2. QED
  BY ToldInvariance, <1>1, PTL

\* Once every call has returned, no promise of post that has heard of a
\* transition is left pending in a state that decides it.
THEOREM NoVerdictIsMissed == Spec => []NoMissedVerdict
<1>1. ToldInv => NoMissedVerdict
  <2>1. stack = <<>> => \A o : ~WillTell(o)
    BY EmptySeq DEF WillTell
  <2>2. QED
    BY <2>1 DEF ToldInv, VerdictDue, NoMissedVerdict
<1>2. QED
  BY ToldInvariance, <1>1, PTL
=============================================================================

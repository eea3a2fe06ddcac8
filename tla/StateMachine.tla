---------------------------- MODULE StateMachine ----------------------------
(***************************************************************************)
(* The table-driven state machine nodeoze::state_machine                   *)
(* (include/nodeoze/state_machine.h), used from the thread of the run      *)
(* loop. Its closures wait in the run loop, of which only the number of    *)
(* them is kept: module Runloop shows that each is run once and none is    *)
(* left behind.                                                            *)
(*                                                                         *)
(* Client code runs outside the machine, inside the action of a            *)
(* transition and inside an observer (or a handler of a promise settled by *)
(* one). Wherever it runs it may post events and register observers, so    *)
(* calls of really_post nest: stack holds those that have not returned.    *)
(* The data and the error code that travel with a state are left out. An   *)
(* event without a transition is dropped, as in a build without DEBUG.     *)
(***************************************************************************)
EXTENDS Integers, Sequences

CONSTANTS
  States, Start,   \* state_type, state_type::start
  Events,          \* event_type
  Machine,         \* m_machine: the set of <<state, event, next state>>
  Watchers,        \* observers a client registers with observe
  Promises,        \* promises of post( e, good, bad )
  Filter,          \* Watchers -> SUBSET States; empty means every state
  Good, Bad,       \* Promises -> SUBSET States
  MaxPosts,        \* bound: number of posts by clients
  MaxDepth         \* bound: calls of really_post inside one another

ASSUME StateMachineAssumption ==
  /\ Start \in States
  /\ Machine \subseteq States \X Events \X States
  /\ \A s, t \in Machine : s[1] = t[1] /\ s[2] = t[2] => s = t
  /\ Watchers \cap Promises = {}    \* a registration is one or the other
  /\ Filter \in [Watchers -> SUBSET States]
  /\ Good \in [Promises -> SUBSET States] /\ Bad \in [Promises -> SUBSET States]
  /\ MaxPosts \in Nat /\ MaxDepth \in Nat

Observers == Watchers \cup Promises
None == "none"

(* A call of really_post: in the action, or telling observers, todo being  *)
(* the rest of the snapshot and cur the observer that is being called. to  *)
(* is the state the transition entered ("saved" in a DEBUG build).         *)
Frame == [at : {"action", "observers"}, to : States, todo : SUBSET Observers,
          cur : Observers \cup {None}]

VARIABLES
  m_state, m_event_queue, m_in_transition,
  m_observers,  \* the observers registered
  stack,        \* the calls of really_post, the innermost last
  drains,       \* closures of really_post waiting in the run loop
  outcome,      \* of each promise: "none" (not made), "pending", "resolved", "rejected"
  told,         \* history: the state each observer was last told, or registered in
  posts         \* posts so far

vars == <<m_state, m_event_queue, m_in_transition, m_observers, stack, drains,
          outcome, told, posts>>

(* Every variable has its type. *)
TypeOK ==
  /\ m_state \in States
  /\ m_event_queue \in Seq(Events)
  /\ m_in_transition \in BOOLEAN
  /\ m_observers \subseteq Observers
  /\ stack \in Seq(Frame) /\ Len(stack) <= MaxDepth
  /\ drains \in Nat
  /\ outcome \in [Promises -> {"none", "pending", "resolved", "rejected"}]
  /\ told \in [Observers -> States \cup {None}]
  /\ posts \in 0..MaxPosts

Init ==
  /\ m_state = Start /\ m_event_queue = <<>> /\ m_in_transition = FALSE
  /\ m_observers = {} /\ stack = <<>> /\ drains = 0
  /\ outcome = [p \in Promises |-> "none"]
  /\ told = [o \in Observers |-> None]
  /\ posts = 0

Top == stack[Len(stack)]
SetTop(f) == [stack EXCEPT ![Len(stack)] = f]
Pop == SubSeq(stack, 1, Len(stack) - 1)

(* Client code is running: nothing of the machine is, or an action, or an  *)
(* observer.                                                               *)
InClient == stack # <<>> => Top.at = "action" \/ Top.cur # None

Defined(s, e) == \E t \in Machine : t[1] = s /\ t[2] = e
Target(s, e) == (CHOOSE t \in Machine : t[1] = s /\ t[2] = e)[3]

(* Mutant: the transition does not mark itself as in progress. *)
BeginUnmarked(next) ==
  /\ m_state' = next
  /\ UNCHANGED m_in_transition

BeginTransition(next) ==
  /\ m_state' = next
  /\ m_in_transition' = TRUE

(* really_post with the queue and the observers as given: a transition     *)
(* begins, or the observers of a transition to the same state are told,    *)
(* or the event is dropped; in a transition, or behind other events, it    *)
(* is queued.                                                              *)
ReallyPost(e, queue, observers) ==
  IF ~m_in_transition /\ queue = <<>>
    THEN /\ m_event_queue' = queue
         /\ IF ~Defined(m_state, e)
              THEN UNCHANGED <<m_state, m_in_transition, stack>>
              ELSE LET next == Target(m_state, e)
                       frame(at) == [at |-> at, to |-> next, todo |-> observers, cur |-> None]
                   IN  /\ Len(stack) < MaxDepth
                       /\ IF m_state # next
                            THEN /\ BeginTransition(next)
                                 /\ stack' = Append(stack, frame("action"))
                            ELSE /\ stack' = Append(stack, frame("observers"))
                                 /\ UNCHANGED <<m_state, m_in_transition>>
    ELSE /\ m_event_queue' = Append(queue, e)
         /\ UNCHANGED <<m_state, m_in_transition, stack>>

Post(e) ==
  /\ InClient
  /\ posts < MaxPosts /\ posts' = posts + 1
  /\ ReallyPost(e, m_event_queue, m_observers)
  /\ UNCHANGED <<m_observers, drains, outcome, told>>

(* post( e, good, bad ): notify_on_transition registers, then the event is posted. *)
PostNotify(e, p) ==
  /\ InClient
  /\ posts < MaxPosts /\ posts' = posts + 1
  /\ outcome[p] = "none"
  /\ outcome' = [outcome EXCEPT ![p] = "pending"]
  /\ m_observers' = m_observers \cup {p}
  /\ ReallyPost(e, m_event_queue, m_observers \cup {p})
  /\ UNCHANGED <<drains, told>>

(* post_if( s, e, good, bad ) in another state than s; in s it is post. *)
PostIfElsewhere(s, p) ==
  /\ InClient
  /\ m_state # s
  /\ outcome[p] = "none"
  /\ outcome' = [outcome EXCEPT ![p] = "rejected"]
  /\ UNCHANGED <<m_state, m_event_queue, m_in_transition, m_observers, stack, drains, told, posts>>

Observe(w) ==
  /\ InClient
  /\ told[w] = None
  /\ m_observers' = m_observers \cup {w}
  /\ told' = [told EXCEPT ![w] = m_state]
  /\ UNCHANGED <<m_state, m_event_queue, m_in_transition, stack, drains, outcome, posts>>
-----------------------------------------------------------------------------
(* The action returns; the observers registered now are the snapshot. *)
ActionReturns ==
  /\ stack # <<>> /\ Top.at = "action"
  /\ m_in_transition' = FALSE
  /\ stack' = SetTop([Top EXCEPT !.at = "observers", !.todo = m_observers])
  /\ UNCHANGED <<m_state, m_event_queue, m_observers, drains, outcome, told, posts>>

(* Mutant: observers get the state the transition entered. *)
NextEntered == Top.to
(* dispatch_observers takes next by reference: it is m_state as it is now. *)
NextState == m_state

(* Mutant: the second branch of the observer is not taken. *)
VerdictGoodOnly(p, s) == IF s \in Good[p] THEN "resolved" ELSE "pending"
(* The observer of notify_on_transition: what becomes of a pending promise. *)
Verdict(p, s) ==
  IF s \in Good[p] THEN "resolved" ELSE IF s \in Bad[p] THEN "rejected" ELSE "pending"

Wants(o, s) == o \in Watchers => (Filter[o] # {} => s \in Filter[o])
Matches(o) == Wants(o, NextState)

(* The observer o of the snapshot is passed over. *)
SkipObserver(o) ==
  /\ stack # <<>> /\ Top.at = "observers" /\ Top.cur = None
  /\ o \in Top.todo
  /\ ~Matches(o)
  /\ stack' = SetTop([Top EXCEPT !.todo = @ \ {o}])
  /\ UNCHANGED <<m_state, m_event_queue, m_in_transition, m_observers, drains, outcome, told, posts>>

(* The observer o of the snapshot is called, though it may have been       *)
(* erased since. That of a promise settles it, which runs its handlers.    *)
CallObserver(o) ==
  /\ stack # <<>> /\ Top.at = "observers" /\ Top.cur = None
  /\ o \in Top.todo
  /\ Matches(o)
  /\ stack' = SetTop([Top EXCEPT !.todo = @ \ {o}, !.cur = o])
  /\ told' = [told EXCEPT ![o] = NextState]
  /\ outcome' = IF o \in Promises /\ outcome[o] = "pending"
                  THEN [outcome EXCEPT ![o] = Verdict(o, NextState)] ELSE outcome
  /\ UNCHANGED <<m_state, m_event_queue, m_in_transition, m_observers, drains, posts>>

(* The observer returns; false erases it. That of a promise returns        *)
(* whether it is still pending.                                            *)
ObserverReturns ==
  /\ stack # <<>> /\ Top.at = "observers" /\ Top.cur # None
  /\ \E keep \in BOOLEAN :
       /\ Top.cur \in Promises => keep = (outcome[Top.cur] = "pending")
       /\ m_observers' = IF keep THEN m_observers ELSE m_observers \ {Top.cur}
  /\ stack' = SetTop([Top EXCEPT !.cur = None])
  /\ UNCHANGED <<m_state, m_event_queue, m_in_transition, drains, outcome, told, posts>>

(* Mutant: events left in the queue are not looked after. *)
DispatchNothing == UNCHANGED drains
(* One closure for the events that were queued meanwhile. *)
DispatchDrain == drains' = IF m_event_queue # <<>> THEN drains + 1 ELSE drains

(* Every observer was told: really_post returns. *)
PostReturns ==
  /\ stack # <<>> /\ Top.at = "observers" /\ Top.cur = None /\ Top.todo = {}
  /\ DispatchDrain
  /\ stack' = Pop
  /\ UNCHANGED <<m_state, m_event_queue, m_in_transition, m_observers, outcome, told, posts>>

(* The run loop calls a closure: the first event is popped and posted anew. *)
Drain ==
  /\ stack = <<>>
  /\ drains > 0 /\ drains' = drains - 1
  /\ IF m_event_queue # <<>>
       THEN ReallyPost(Head(m_event_queue), Tail(m_event_queue), m_observers)
       ELSE UNCHANGED <<m_state, m_event_queue, m_in_transition, stack>>
  /\ UNCHANGED <<m_observers, outcome, told, posts>>

Client ==
  \/ \E e \in Events : Post(e) \/ \E p \in Promises : PostNotify(e, p)
  \/ \E s \in States, p \in Promises : PostIfElsewhere(s, p)
  \/ \E w \in Watchers : Observe(w)

Internal ==
  \/ ActionReturns
  \/ \E o \in Observers : SkipObserver(o) \/ CallObserver(o)
  \/ ObserverReturns \/ PostReturns \/ Drain

Next == Client \/ Internal

(* Client code returns and the run loop keeps running. *)
Spec == Init /\ [][Next]_vars /\ WF_vars(Internal)
-----------------------------------------------------------------------------
(* The action of a transition cannot change the state: the assertion       *)
(* m_state == saved of a DEBUG build, whatever the action posts.           *)
ActionKeepsState ==
  \A i \in DOMAIN stack : stack[i].at = "action" => m_state = stack[i].to

(* When every call has returned, each observer that wants the state the    *)
(* machine is in was last told that state, although observers post and so  *)
(* make transitions inside dispatch_observers of another.                  *)
ObserversUpToDate ==
  stack = <<>> =>
    \A w \in m_observers \cap Watchers :
      Wants(w, m_state) => told[w] = m_state

(* When every call has returned, a promise of post that has heard of a     *)
(* transition is not left pending in a state that decides it.              *)
NoMissedVerdict ==
  stack = <<>> =>
    \A p \in Promises : outcome[p] = "pending" /\ told[p] # None =>
      m_state \notin Good[p] \cup Bad[p]

(* An event that waits alone in the queue is handled, unless another one   *)
(* is queued behind it before its closure runs.                            *)
LoneEventHandled == (Len(m_event_queue) = 1) ~> (Len(m_event_queue) # 1)
=============================================================================

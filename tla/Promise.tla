------------------------------ MODULE Promise ------------------------------
(***************************************************************************)
(* nodeoze::promise (include/nodeoze/promise.h): settling, then, catcher,  *)
(* finally, timeout, chaining, and the combinators all, any and race.      *)
(*                                                                         *)
(* A program builds                                                        *)
(*     next = kind( inputs ).then( f )     f returns the promise inner     *)
(* and hangs handlers on next, in any order relative to the moments the    *)
(* inputs and inner are settled. Everything a call does happens            *)
(* synchronously, callbacks included: todo is the call stack, as the list  *)
(* of what is still to be done, and nothing else runs until it is empty.   *)
(***************************************************************************)
EXTENDS Integers, Sequences

CONSTANTS
  N,          \* number of input promises
  Kinds,      \* combinators: a subset of {"all", "any", "race"}
  Voids,      \* may inner and next be promise< void >: a subset of BOOLEAN
  Values,     \* what inputs and inner are resolved with
  Default,    \* a default constructed or moved-from value
  Errors,     \* error codes the program rejects with
  TimedOut,   \* std::errc::timed_out
  Invalid,    \* std::errc::invalid_argument
  MaxThens    \* bound: number of calls of next.then

ASSUME PromiseAssumption ==
  /\ N \in Nat
  /\ Kinds \subseteq {"all", "any", "race"}
  /\ Voids \subseteq BOOLEAN
  /\ TRUE \in Voids => \A v, w \in Values : v = w
  /\ Default \notin Values
  /\ MaxThens \in Nat

Inputs == 1..N
Ret == N + 1     \* what the combinator returns
Inner == N + 2   \* what f returns
Chained == N + 3 \* what Ret.then( f ) returns
Promises == 1..(N + 3)
Handlers == 1..MaxThens

Data == Seq(Values \cup {Default})
AnyError == Errors \cup {TimedOut, Invalid}

Pending == [st |-> "pending"]
Resolved(d) == [st |-> "resolved", val |-> d]
Rejected(e) == [st |-> "rejected", err |-> e]
Outcomes == [st : {"resolved"}, val : Data] \cup [st : {"rejected"}, err : AnyError]

\* Callbacks: none, the lambdas of the combinator, of Ret.then( f ) and of
\* inner.then, and the k-th handler the program hangs on next.
None == [kind |-> "none", id |-> 0]
Lambda(k) == [kind |-> k, id |-> 0]
User(k) == [kind |-> "user", id |-> k]
Callbacks == {None} \cup {Lambda(k) : k \in {"input", "chain", "forward"}}
               \cup {User(k) : k \in Handlers}

VARIABLES
  kind,      \* the combinator the program uses
  isVoid,    \* inner and next are promise< void >; the one value stands for none
  outcome,   \* resolved, rejected and err, with the value settled with
  val,       \* m_shared->val
  resolve,   \* m_shared->resolve
  reject,    \* m_shared->reject
  finally,   \* m_shared->finally is set
  timer,     \* m_shared->timer is armed
  count, result,  \* shared by the lambdas of a combinator
  built,     \* what the program has built: {}, {"ret"} or {"ret", "next"}
  thens,     \* number of calls of next.then
  todo,      \* what is left to do of the calls in progress
  got,       \* history: the outcomes each user handler was called with
  late,      \* history: the handlers that catcher called at once
  finals     \* history: <<registrations, runs>> of finally handlers of next

slots == <<resolve, reject, finally>>
shared == <<count, result>>
history == <<got, late, finals>>
program == <<kind, isVoid>>
vars == <<program, outcome, val, slots, timer, shared, built, thens, todo, history>>

Finished(p) == outcome[p] # Pending
Void(p) == isVoid /\ p \in {Inner, Chained}

\* Items of todo.
Settle(p, o) == [op |-> "settle", p |-> p, out |-> o]
Call(p, cb, o) == [op |-> "call", p |-> p, cb |-> cb, out |-> o]
End(p, o) == [op |-> "end", p |-> p, out |-> o]
Final(p) == [op |-> "final", p |-> p]
Then(p, res, rej) == [op |-> "then", p |-> p, res |-> res, rej |-> rej]

TypeOK ==
  /\ kind \in Kinds /\ isVoid \in Voids
  /\ outcome \in [Promises -> Outcomes \cup {Pending}]
  /\ val \in [Promises -> Data]
  /\ resolve \in [Promises -> Callbacks]
  /\ reject \in [Promises -> Callbacks]
  /\ finally \in [Promises -> BOOLEAN]
  /\ timer \in [Promises -> BOOLEAN]
  /\ count \in 0..N
  /\ result \in [Inputs -> Values \cup {Default}]
  /\ built \in SUBSET {"ret", "next"}
  /\ thens \in 0..MaxThens
  /\ todo \in Seq([op : {"final"}, p : Promises]
                    \cup [op : {"settle", "end"}, p : Promises, out : Outcomes]
                    \cup [op : {"call"}, p : Promises, cb : Callbacks, out : Outcomes]
                    \cup [op : {"then"}, p : Promises, res : Callbacks, rej : Callbacks])
  /\ got \in [Handlers -> Seq(Outcomes)]
  /\ late \subseteq Handlers
  /\ finals \in Nat \X Nat

-----------------------------------------------------------------------------
(***************************************************************************)
(* The steps of a call in progress.                                        *)
(***************************************************************************)
Doing(op) == todo # <<>> /\ Head(todo).op = op

\* Mutant: a finished promise can be settled again.
MaySettleAlways(p) == TRUE

\* The guard of resolve and reject.
MaySettle(p) == ~Finished(p)

\* The callback an outcome selects.
Slot(p, o) == IF o.st = "resolved" THEN resolve[p] ELSE reject[p]

\* promise::resolve and promise::reject: without a callback the value is kept
\* for a later then; with one it is moved out of the promise and called.
DoSettle ==
  LET p == Head(todo).p
      o == Head(todo).out
      cb == Slot(p, o)
  IN
  /\ Doing("settle")
  /\ IF ~MaySettle(p)
       THEN /\ todo' = Tail(todo)
            /\ UNCHANGED <<program, outcome, val, resolve, reject>>
       ELSE /\ outcome' = [outcome EXCEPT ![p] = o]
            /\ val' = IF o.st = "resolved" /\ cb = None
                        THEN [val EXCEPT ![p] = o.val] ELSE val
            /\ IF o.st = "resolved"
                 THEN resolve' = [resolve EXCEPT ![p] = None] /\ UNCHANGED reject
                 ELSE reject' = [reject EXCEPT ![p] = None] /\ UNCHANGED resolve
            /\ todo' = IF cb = None THEN Tail(todo)
                       ELSE <<Call(p, cb, o), End(p, o)>> \o Tail(todo)
  /\ UNCHANGED <<program, finally, timer, shared, built, thens, history>>

\* ... what follows the callback: the other one is dropped, finally runs.
DoEnd ==
  LET p == Head(todo).p IN
  /\ Doing("end")
  /\ IF Head(todo).out.st = "resolved"
       THEN reject' = [reject EXCEPT ![p] = None] /\ UNCHANGED resolve
       ELSE resolve' = [resolve EXCEPT ![p] = None] /\ UNCHANGED reject
  /\ todo' = <<Final(p)>> \o Tail(todo)
  /\ UNCHANGED <<program, outcome, val, finally, timer, shared, built, thens, history>>

\* The finally handler, if there is one, is moved out and runs.
DoFinal ==
  LET p == Head(todo).p IN
  /\ Doing("final")
  /\ finally' = [finally EXCEPT ![p] = FALSE]
  /\ finals' = IF finally[p] THEN <<finals[1], finals[2] + 1>> ELSE finals
  /\ todo' = Tail(todo)
  /\ UNCHANGED <<program, outcome, val, resolve, reject, timer, shared, built, thens, got, late>>

\* Mutant: the second overload of maybe_direct_resolve_reject is taken for all
\* types, so that a finally handler waiting for then never runs.
AfterDirectNever(p) == <<>>

\* What maybe_direct_resolve_reject does behind the callback: only the
\* overload for promise< void > runs finally.
AfterDirect(p) == IF Void(p) THEN <<Final(p)>> ELSE <<>>

\* Mutant: then on a finished promise keeps the callbacks and calls none.
DoThenStores ==
  /\ Doing("then")
  /\ resolve' = [resolve EXCEPT ![Head(todo).p] = Head(todo).res]
  /\ reject' = [reject EXCEPT ![Head(todo).p] = Head(todo).rej]
  /\ todo' = Tail(todo)
  /\ UNCHANGED <<program, outcome, val, finally, timer, shared, built, thens, history>>

\* really_then: both callbacks are replaced, and called at once when the
\* promise is finished; the value is moved out, the callbacks stay.
DoThen ==
  LET p == Head(todo).p
      cb == IF outcome[p].st = "resolved" THEN Head(todo).res ELSE Head(todo).rej
      o == IF outcome[p].st = "resolved" /\ ~Void(p) THEN Resolved(val[p]) ELSE outcome[p]
  IN
  /\ Doing("then")
  /\ resolve' = [resolve EXCEPT ![p] = Head(todo).res]
  /\ reject' = [reject EXCEPT ![p] = Head(todo).rej]
  /\ todo' = (IF ~Finished(p) THEN <<>>
              ELSE (IF cb = None THEN <<>> ELSE <<Call(p, cb, o)>>) \o AfterDirect(p))
                \o Tail(todo)
  /\ val' = IF outcome[p].st = "resolved" /\ cb # None /\ ~Void(p)
              THEN [val EXCEPT ![p] = <<Default>>] ELSE val
  /\ UNCHANGED <<program, outcome, finally, timer, shared, built, thens, history>>

\* When the lambda of an input settles Ret: c inputs have finished, this one
\* with o. (Each lambda also tests that Ret is not finished.)
SettlesRet(c, o) ==
  CASE kind = "all"  -> o.st = "rejected" \/ c = N
    [] kind = "any"  -> o.st = "resolved" \/ c = N
    [] kind = "race" -> TRUE

\* Mutant: all stores the value at the place of its arrival.
StoresAtCount(p) == count + 1

\* The place of the result that an input's value goes to.
StoresAt(p) == p

Counted(c) == c + 1

\* The lambdas that all, any and race hang on an input.
CallInput ==
  LET p == Head(todo).p
      o == Head(todo).out
      stored == IF kind = "all" /\ o.st = "resolved" /\ ~Finished(Ret)
                  THEN [result EXCEPT ![StoresAt(p)] = o.val[1]] ELSE result
      final == IF kind = "all" /\ o.st = "resolved" THEN Resolved(stored) ELSE o
  IN
  /\ Doing("call") /\ Head(todo).cb.kind = "input"
  /\ count' = IF kind = "race" THEN count ELSE Counted(count)
  /\ result' = stored
  /\ todo' = (IF ~Finished(Ret) /\ SettlesRet(Counted(count), o)
                THEN <<Settle(Ret, final)>> ELSE <<>>) \o Tail(todo)
  /\ UNCHANGED <<program, outcome, val, slots, timer, built, thens, history>>

\* Mutant: an error does not travel down the chain.
ChainRejectDrops(o) == <<>>

\* really_then for a function that returns a promise: an error is passed on.
ChainReject(o) == <<Settle(Chained, o)>>

\* The lambda of Ret.then( f ). f returns inner, perhaps settled by then.
CallChain ==
  LET o == Head(todo).out
      forward == Then(Inner, Lambda("forward"), Lambda("forward"))
  IN
  /\ Doing("call") /\ Head(todo).cb.kind = "chain"
  /\ \/ /\ o.st = "rejected"
        /\ todo' = ChainReject(o) \o Tail(todo)
     \/ /\ o.st = "resolved"
        /\ todo' = <<forward>> \o Tail(todo)
     \/ /\ o.st = "resolved"
        /\ \E i \in {Resolved(<<v>>) : v \in Values} \cup {Rejected(e) : e \in Errors} :
             todo' = <<Settle(Inner, i), forward>> \o Tail(todo)
  /\ UNCHANGED <<program, outcome, val, slots, timer, shared, built, thens, history>>

\* The lambdas hung on inner settle next.
CallForward ==
  /\ Doing("call") /\ Head(todo).cb.kind = "forward"
  /\ todo' = <<Settle(Chained, Head(todo).out)>> \o Tail(todo)
  /\ UNCHANGED <<program, outcome, val, slots, timer, shared, built, thens, history>>

\* A handler of the program.
CallUser ==
  LET k == Head(todo).cb.id IN
  /\ Doing("call") /\ Head(todo).cb.kind = "user"
  /\ got' = [got EXCEPT ![k] = Append(@, Head(todo).out)]
  /\ todo' = Tail(todo)
  /\ UNCHANGED <<program, outcome, val, slots, timer, shared, built, thens, late, finals>>

Run == \/ DoSettle \/ DoEnd \/ DoFinal \/ DoThen
       \/ CallInput \/ CallChain \/ CallForward \/ CallUser

-----------------------------------------------------------------------------
(***************************************************************************)
(* What the program does when no call is in progress.                      *)
(***************************************************************************)
Idle == todo = <<>>

\* The owner of an input or of inner settles it, perhaps twice.
ProgramSettles(p, o) ==
  /\ Idle
  /\ p \in Inputs \cup {Inner}
  /\ todo' = <<Settle(p, o)>>
  /\ UNCHANGED <<program, outcome, val, slots, timer, shared, built, thens, history>>

\* promise::all, any and race: then on every input in turn; without inputs the
\* result is settled at once.
Combine ==
  /\ Idle
  /\ built = {}
  /\ built' = {"ret"}
  /\ todo' = IF N = 0
               THEN <<Settle(Ret, IF kind = "all" THEN Resolved(<<>>) ELSE Rejected(Invalid))>>
               ELSE [i \in Inputs |-> Then(i, Lambda("input"), Lambda("input"))]
  /\ UNCHANGED <<program, outcome, val, slots, timer, shared, thens, history>>

\* next = ret.then( f )
ChainThen ==
  /\ Idle
  /\ built = {"ret"}
  /\ built' = {"ret", "next"}
  /\ todo' = <<Then(Ret, Lambda("chain"), Lambda("chain"))>>
  /\ UNCHANGED <<program, outcome, val, slots, timer, shared, thens, history>>

\* next.then( handler ), with or without a handler for errors.
UserThen(withReject) ==
  /\ Idle
  /\ "next" \in built
  /\ thens < MaxThens
  /\ thens' = thens + 1
  /\ todo' = <<Then(Chained, User(thens + 1), IF withReject THEN User(thens + 1) ELSE None)>>
  /\ UNCHANGED <<program, outcome, val, slots, timer, shared, built, history>>

\* promise::catcher: called at once on a rejected promise, else stored.
Catcher ==
  /\ Idle
  /\ "next" \in built
  /\ thens < MaxThens
  /\ thens' = thens + 1
  /\ IF Finished(Chained)
       THEN /\ todo' = IF outcome[Chained].st = "rejected"
                         THEN <<Call(Chained, User(thens + 1), outcome[Chained])>> ELSE <<>>
            /\ late' = late \cup {thens + 1}
            /\ UNCHANGED reject
       ELSE /\ reject' = [reject EXCEPT ![Chained] = User(thens + 1)]
            /\ UNCHANGED <<todo, late>>
  /\ UNCHANGED <<program, outcome, val, resolve, finally, timer, shared, built, got, finals>>

\* promise::finally, once: called at once on a finished promise, else stored.
Finally ==
  /\ Idle
  /\ "next" \in built
  /\ finals[1] = 0
  /\ IF Finished(Chained)
       THEN finals' = <<1, 1>> /\ UNCHANGED finally
       ELSE finals' = <<1, 0>> /\ finally' = [finally EXCEPT ![Chained] = TRUE]
  /\ UNCHANGED <<program, outcome, val, resolve, reject, timer, shared, built, thens, todo, got, late>>

\* promise::timeout, on the combinator's result or on the end of the chain; an
\* armed timer is replaced.
Timeout(p) ==
  /\ Idle
  /\ (p = Ret /\ "ret" \in built) \/ (p = Chained /\ "next" \in built)
  /\ timer' = [timer EXCEPT ![p] = TRUE]
  /\ UNCHANGED <<program, outcome, val, slots, shared, built, thens, todo, history>>

\* Mutant: the timer is cancelled and the promise left as it is.
TimerFiresIdle(p) ==
  /\ Idle
  /\ timer[p]
  /\ timer' = [timer EXCEPT ![p] = FALSE]
  /\ UNCHANGED <<program, outcome, val, slots, shared, built, thens, todo, history>>

\* The timer fires: it is cancelled, and rejects a promise not yet finished.
TimerFires(p) ==
  /\ Idle
  /\ timer[p]
  /\ timer' = [timer EXCEPT ![p] = FALSE]
  /\ todo' = IF Finished(p) THEN <<>> ELSE <<Settle(p, Rejected(TimedOut))>>
  /\ UNCHANGED <<program, outcome, val, slots, shared, built, thens, history>>

Init ==
  /\ kind \in Kinds
  /\ isVoid \in Voids
  /\ outcome = [p \in Promises |-> Pending]
  /\ val = [p \in Promises |-> <<Default>>]
  /\ resolve = [p \in Promises |-> None]
  /\ reject = [p \in Promises |-> None]
  /\ finally = [p \in Promises |-> FALSE]
  /\ timer = [p \in Promises |-> FALSE]
  /\ count = 0
  /\ result = [i \in Inputs |-> Default]
  /\ built = {}
  /\ thens = 0
  /\ todo = <<>>
  /\ got = [k \in Handlers |-> <<>>]
  /\ late = {}
  /\ finals = <<0, 0>>

Next ==
  \/ Run
  \/ \E p \in Promises :
       \/ \E v \in Values : ProgramSettles(p, Resolved(<<v>>))
       \/ \E e \in Errors : ProgramSettles(p, Rejected(e))
       \/ Timeout(p)
       \/ TimerFires(p)
  \/ Combine
  \/ ChainThen
  \/ \E r \in BOOLEAN : UserThen(r)
  \/ Catcher
  \/ Finally

\* A call returns. The run loop looks at its timers in every turn, whatever
\* other callbacks it runs in between, so an armed timer fires; a program that
\* arms the same timer anew before each expiry, for ever, is left out.
Fairness == WF_vars(Run) /\ \A p \in {Ret, Chained} : SF_vars(TimerFires(p))

Spec == Init /\ [][Next]_vars /\ Fairness

-----------------------------------------------------------------------------
(***************************************************************************)
(* Properties                                                              *)
(***************************************************************************)

\* The error of some input.
ErrorOfInput(e) == \E i \in Inputs : outcome[i] = Rejected(e)

\* Between calls, the result of the combinator is what the outcomes of the
\* inputs, settled before or after it was built and in any order, ask for.
\* all: every value in its place, or an error; any: a value, or an error once
\* all failed; race: what some input finished with. Only a timeout may come
\* first.
CombineOutcome ==
  Idle /\ "ret" \in built /\ outcome[Ret] # Rejected(TimedOut) =>
    LET good == {i \in Inputs : outcome[i].st = "resolved"}
        bad == {i \in Inputs : outcome[i].st = "rejected"}
        o == outcome[Ret]
    IN
    CASE kind = "all" ->
           /\ Finished(Ret) <=> (good = Inputs \/ bad # {})
           /\ o.st = "resolved" => good = Inputs /\ \A i \in Inputs : outcome[i].val = <<o.val[i]>>
           /\ o.st = "rejected" => ErrorOfInput(o.err)
      [] kind = "any" ->
           /\ Finished(Ret) <=> (good # {} \/ bad = Inputs)
           /\ o.st = "resolved" => \E i \in good : outcome[i] = o
           /\ o.st = "rejected" => bad = Inputs /\ (N = 0 \/ ErrorOfInput(o.err))
      [] kind = "race" ->
           /\ Finished(Ret) <=> (good \cup bad # {} \/ N = 0)
           /\ Finished(Ret) /\ N > 0 => \E i \in Inputs : outcome[i] = o

\* Between calls, the end of the chain has the error of the combinator or the
\* outcome of the promise f returned, as soon as that is known.
ChainOutcome ==
  Idle /\ "next" \in built /\ outcome[Chained] # Rejected(TimedOut) =>
    CASE ~Finished(Ret)                 -> ~Finished(Chained)
      [] outcome[Ret].st = "rejected"   -> outcome[Chained] = outcome[Ret]
      [] outcome[Ret].st = "resolved"   -> outcome[Chained] = outcome[Inner]

\* A handler of the program is called at most once, and with the outcome of
\* the promise; only a handler that comes after another one took the value
\* finds it moved from (never where there is no value to move).
HandlerOutcome ==
  \A k \in Handlers :
    /\ Len(got[k]) <= 1
    /\ Len(got[k]) = 1 =>
         \/ got[k][1] = outcome[Chained]
         \/ /\ ~isVoid
            /\ got[k][1] = Resolved(<<Default>>) /\ outcome[Chained].st = "resolved"
            /\ \E j \in 1..(k - 1) : got[j] # <<>>

\* Between calls, a finally handler has run exactly once when the promise is
\* finished and a handler for its outcome has been called, unless catcher
\* called it at once (catcher does not look at finally). It is so for
\* promise< void > only: then on a finished promise of another type leaves
\* finally alone.
FinallyRuns ==
  isVoid /\ Idle /\ finals[1] = 1 /\ Finished(Chained) /\ (\E k \in Handlers \ late : got[k] # <<>>)
    => finals[2] = 1

\* A promise with an armed timer finishes, whatever its inputs do.
TimeoutFinishes == \A p \in {Ret, Chained} : timer[p] ~> Finished(p)

\* A handler for both outcomes of a promise that has finished, or that has a
\* timer, is called in the end: whichever of the answer, the timer and the
\* call of then comes first, and on whichever path it is called, it is not
\* lost. Only a handler hung after it may have taken its place.
HandlerNotLost ==
  \A k \in Handlers :
    (/\ resolve[Chained] = User(k) /\ reject[Chained] = User(k)
     /\ Finished(Chained) \/ timer[Chained]) ~> (got[k] # <<>> \/ thens > k)
=============================================================================

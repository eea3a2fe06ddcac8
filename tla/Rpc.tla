--------------------------------- MODULE Rpc ---------------------------------
(***************************************************************************)
(* rpc::manager (include/nodeoze/rpc.h, src/rpc.cpp): the caller's side,   *)
(* which numbers requests and keeps a reply handler for each until it is   *)
(* answered or its connection is closed, and the callee's side, which      *)
(* dispatches requests to bound methods whose handlers answer whenever     *)
(* they like, more than once if they like.  The two sides are managers of  *)
(* two processes joined by connections; a connection is the `owner' of the *)
(* requests sent on it and keeps messages in order (external: it stands    *)
(* for the functions passed to send_request and dispatch).                 *)
(*                                                                         *)
(* Everything is single-threaded on each side, yet terminate_requests      *)
(* rejects promises while it iterates over the reply handlers, and the     *)
(* handler of such a promise may send again: `loop' holds the iteration.   *)
(* A handler that calls terminate_requests itself is excluded: it may      *)
(* erase the element the outer iterator stands at, which is undefined.     *)
(***************************************************************************)
EXTENDS Integers, FiniteSets, SequencesExt

CONSTANTS
  Owners,       \* the connections
  IdHalf,       \* one past the largest value of m_id, an int32_t: 2^31 in the code
  MaxEarlier,   \* bound: requests settled before the behaviour begins
  MaxRequests,  \* bound: requests ever sent
  MaxReplies    \* bound: answers of a request handler to one request

ASSUME RpcAssumption ==
  /\ IdHalf \in Nat \ {0, 1} /\ MaxRequests \in Nat /\ MaxReplies \in Nat \ {0}
  /\ MaxEarlier \in Nat /\ MaxEarlier < IdHalf         \* they have not reached the wrap
  /\ MaxEarlier + MaxRequests < 2 * IdHalf              \* no id is given out twice

VARIABLES
  lastId,     \* m_id
  handlers,   \* m_reply_handlers: from key to the number of the request
  loop,       \* the terminate_requests under way, or NoLoop
  open,       \* the connections that are open
  toServer,   \* requests on their way, by connection
  toClient,   \* replies on their way, by connection
  calls,      \* callee: requests whose handler holds a reply function
  sent,       \* history: every request, in the order of sending
  outcome     \* history: for each, the requests whose answers its promise was
              \* settled with, Interrupted for a termination

clientVars == <<lastId, handlers, loop, sent, outcome>>
vars == <<clientVars, calls, open, toServer, toClient>>

NoLoop == [owner |-> "none"]
Interrupted == 0

(* Widths, given by the number of values.  The key type has twice as many  *)
(* bits as the id.                                                         *)
Ids == -IdHalf .. (IdHalf - 1)
Unsigned == 2 * IdHalf
End == Unsigned * Unsigned

\* ++m_id. The overflow of a signed integer is undefined; what compilers make
\* of it here is an increment that wraps around.
IdAfter(i) == IF i = IdHalf - 1 THEN -IdHalf ELSE i + 1

\* The conversion of an id to the key type of m_reply_handlers: the sign is extended.
Key(i) == IF i < 0 THEN i + End ELSE i

\* Mutant: the callee reads the id as a much narrower integer.
ToNarrow(i) == i % (IdHalf \div 2)

\* any::to_uint32 on the callee's side.
ToUint32(i) == IF i < 0 THEN i + Unsigned ELSE i

\* any::to_uint64 on the caller's side: a negative integer is zero.
ToUint64(i) == IF i < 0 THEN 0 ELSE i

\* m_id counts from 0; the requests of some earlier ids are over.
Init ==
  /\ lastId \in 0 .. MaxEarlier /\ handlers = <<>> /\ loop = NoLoop
  /\ open = Owners
  /\ toServer = [o \in Owners |-> <<>>] /\ toClient = [o \in Owners |-> <<>>]
  /\ calls = {}
  /\ sent = <<>> /\ outcome = <<>>

Idle == loop = NoLoop
Pending == DOMAIN handlers
Settle(n, what) == outcome' = [outcome EXCEPT ![n] = Append(@, what)]

-----------------------------------------------------------------------------
(* The caller.                                                             *)

\* send_request, by the application or from inside the handler of a request
\* that terminate_requests has just rejected.
SendRequest(o) ==
  /\ ~Idle => loop.user
  /\ o \in open /\ Len(sent) < MaxRequests
  /\ LET id == IdAfter(lastId)
         n == Len(sent) + 1
     IN /\ lastId' = id
        /\ handlers' = [k \in Pending \cup {Key(id)} |-> IF k = Key(id) THEN n ELSE handlers[k]]
        /\ sent' = Append(sent, [owner |-> o, id |-> id, closing |-> ~Idle /\ loop.owner = o])
        /\ outcome' = Append(outcome, <<>>)
        /\ toServer' = [toServer EXCEPT ![o] = Append(@, [id |-> id, of |-> n])]
  /\ UNCHANGED <<loop, open, toClient, calls>>

\* Mutant: the handler of an answered request stays.
ForgetNothing(k) == handlers

\* m_reply_handlers.erase.
Forget(k) == [j \in Pending \ {k} |-> handlers[j]]

\* dispatch of a reply: the handler is erased, then its promise is settled.
\* A reply nobody waits for is ignored.
DispatchReply(o) ==
  /\ Idle /\ o \in open /\ toClient[o] # <<>>
  /\ LET m == Head(toClient[o])
         k == ToUint64(m.id)
     IN IF k \in Pending
          THEN handlers' = Forget(k) /\ Settle(handlers[k], m.of)
          ELSE UNCHANGED <<handlers, outcome>>
  /\ toClient' = [toClient EXCEPT ![o] = Tail(@)]
  /\ UNCHANGED <<lastId, loop, sent, open, toServer, calls>>

-----------------------------------------------------------------------------
(* terminate_requests: the iterator stands at a key, or at End, past all.  *)

\* The first key after `k'.
Successor(k) == Min({j \in Pending : j > k} \cup {End})

\* A connection is closed: its requests are terminated, then it is closed.
Terminate(o) ==
  /\ Idle /\ o \in open
  /\ loop' = [owner |-> o, it |-> Successor(-1), user |-> FALSE, mark |-> Len(sent)]
  /\ UNCHANGED <<lastId, handlers, sent, outcome, open, toServer, toClient, calls>>

\* Mutant: the iterator is moved on once more behind the request it erases.
StepSkips ==
  /\ ~Idle /\ ~loop.user /\ loop.it # End
  /\ IF sent[handlers[loop.it]].owner = loop.owner
       THEN /\ handlers' = Forget(loop.it)
            /\ Settle(handlers[loop.it], Interrupted)
            /\ loop' = [loop EXCEPT !.it = Successor(Successor(loop.it)), !.user = TRUE]
       ELSE /\ loop' = [loop EXCEPT !.it = Successor(loop.it)]
            /\ UNCHANGED <<handlers, outcome>>
  /\ UNCHANGED <<lastId, sent, open, toServer, toClient, calls>>

\* One turn of the loop: a request of the owner is erased, the iterator moved
\* on, and then its promise is rejected, whose handler is application code.
TerminateStep ==
  /\ ~Idle /\ ~loop.user /\ loop.it # End
  /\ IF sent[handlers[loop.it]].owner = loop.owner
       THEN /\ handlers' = Forget(loop.it)
            /\ Settle(handlers[loop.it], Interrupted)
            /\ loop' = [loop EXCEPT !.it = Successor(loop.it), !.user = TRUE]
       ELSE /\ loop' = [loop EXCEPT !.it = Successor(loop.it)]
            /\ UNCHANGED <<handlers, outcome>>
  /\ UNCHANGED <<lastId, sent, open, toServer, toClient, calls>>

HandlerReturns ==
  /\ ~Idle /\ loop.user
  /\ loop' = [loop EXCEPT !.user = FALSE]
  /\ UNCHANGED <<lastId, handlers, sent, outcome, open, toServer, toClient, calls>>

\* The loop has ended; the connection goes, with what was on its way and
\* the reply functions that would have used it. (The connection is external:
\* rpc::connection::close, which calls terminate_requests, is compiled out.)
TerminateReturns ==
  /\ ~Idle /\ ~loop.user /\ loop.it = End
  /\ open' = open \ {loop.owner}
  /\ toServer' = [toServer EXCEPT ![loop.owner] = <<>>]
  /\ toClient' = [toClient EXCEPT ![loop.owner] = <<>>]
  /\ calls' = {c \in calls : c.owner # loop.owner}
  /\ loop' = NoLoop
  /\ UNCHANGED <<lastId, handlers, sent, outcome>>

\* A new connection may have the address, and so the oid, of an old one.
Connect(o) ==
  /\ Idle /\ o \notin open
  /\ open' = open \cup {o}
  /\ UNCHANGED <<clientVars, calls, toServer, toClient>>

-----------------------------------------------------------------------------
(* The callee.                                                             *)

\* make_error copies the id of the request.
MakeError(m) == [id |-> m.id, of |-> m.of]

\* Mutant: a request that cannot be dispatched is dropped.
DispatchDrops(o) ==
  /\ o \in open /\ toServer[o] # <<>>
  /\ LET m == Head(toServer[o]) IN
       \/ UNCHANGED calls
       \/ calls' = calls \cup {[owner |-> o, id |-> ToUint32(m.id), of |-> m.of, left |-> MaxReplies]}
  /\ toServer' = [toServer EXCEPT ![o] = Tail(@)]
  /\ UNCHANGED <<clientVars, open, toClient>>

\* dispatch of a request: answered with an error, or given to a method with a
\* function that replies to the id, read as unsigned.  Which of the two is
\* decided by the preflight handler, the methods bound at the time and the
\* number of parameters, on which nothing else depends.
DispatchRequest(o) ==
  /\ o \in open /\ toServer[o] # <<>>
  /\ LET m == Head(toServer[o]) IN
       \/ /\ toClient' = [toClient EXCEPT ![o] = Append(@, MakeError(m))]
          /\ UNCHANGED calls
       \/ /\ calls' = calls \cup {[owner |-> o, id |-> ToUint32(m.id), of |-> m.of, left |-> MaxReplies]}
          /\ UNCHANGED toClient
  /\ toServer' = [toServer EXCEPT ![o] = Tail(@)]
  /\ UNCHANGED <<clientVars, open>>

\* The handler of a request calls its reply function, with a result or an
\* error; the function remains valid.
Reply(c) ==
  /\ c \in calls
  /\ toClient' = [toClient EXCEPT ![c.owner] = Append(@, [id |-> c.id, of |-> c.of])]
  /\ calls' = (calls \ {c}) \cup (IF c.left = 1 THEN {} ELSE {[c EXCEPT !.left = @ - 1]})
  /\ UNCHANGED <<clientVars, open, toServer>>

-----------------------------------------------------------------------------

Next ==
  \/ \E o \in Owners : \/ SendRequest(o)
                       \/ DispatchReply(o) \/ Terminate(o) \/ Connect(o) \/ DispatchRequest(o)
  \/ TerminateStep \/ HandlerReturns \/ TerminateReturns
  \/ \E c \in calls : Reply(c)

\* A request handler answers in the end.
Replies(n) == \E c \in calls : c.of = n /\ Reply(c)

\* Connections deliver, loops go on, and every request handler answers.  A
\* reply that has arrived is not passed over for ever by a run loop that is
\* busy closing other connections: it is dispatched in its next iteration.
Spec ==
  /\ Init /\ [][Next]_vars
  /\ WF_vars(TerminateStep \/ HandlerReturns \/ TerminateReturns)
  /\ \A o \in Owners : SF_vars(DispatchReply(o)) /\ WF_vars(DispatchRequest(o))
  /\ \A n \in 1 .. MaxRequests : WF_vars(Replies(n))

-----------------------------------------------------------------------------

Numbers == 1 .. MaxRequests
Sent == [owner : Owners, id : Ids, closing : BOOLEAN]
Loops == [owner : Owners, it : 0 .. End, user : BOOLEAN, mark : 0 .. MaxRequests]
Requests == [id : Ids, of : Numbers]
Answers == [id : Ids \cup 0 .. (Unsigned - 1), of : Numbers]
Calls == [owner : Owners, id : 0 .. (Unsigned - 1), of : Numbers, left : 1 .. MaxReplies]

\* The two managers and the connections have their types.
TypeOK ==
  /\ lastId \in Ids
  /\ Pending \subseteq 0 .. (End - 1) /\ \A k \in Pending : handlers[k] \in DOMAIN sent
  /\ loop \in {NoLoop} \cup Loops
  /\ open \subseteq Owners
  /\ toServer \in [Owners -> Seq(Requests)] /\ toClient \in [Owners -> Seq(Answers)]
  /\ calls \subseteq Calls
  /\ sent \in Seq(Sent) /\ Len(sent) <= MaxRequests
  /\ outcome \in Seq(Seq(Numbers \cup {Interrupted})) /\ Len(outcome) = Len(sent)

\* A request is settled at most once, and waits for a reply exactly as long
\* as it is not: a second answer of the callee, an answer that comes after
\* the request was interrupted and an answer on a new connection with the
\* address of the old one find no handler.
SettledOnce ==
  \A n \in DOMAIN sent :
    Len(outcome[n]) = IF \E k \in Pending : handlers[k] = n THEN 0 ELSE 1

\* What a request is answered with was said about that request, as long as
\* its id is positive: ids are shared by all connections, and one whose
\* replies are late must not answer another's request.
AnswerIsOwn ==
  \A n \in DOMAIN sent : sent[n].id > 0 =>
    \A i \in DOMAIN outcome[n] : outcome[n][i] \in {Interrupted, n}

\* The iterator of terminate_requests stands at a request that is pending
\* until it has come to the end of the map, and then none of the requests
\* sent on the connection before the call is pending, although handlers of
\* the rejected ones have added requests to the map it iterates over.
TerminateComplete ==
  ~Idle =>
    /\ loop.it \in Pending \cup {End}
    /\ loop.it = End =>
         \A k \in Pending : sent[handlers[k]].owner = loop.owner => handlers[k] > loop.mark

\* A request is settled in the end, by an answer or by the end of its
\* connection, unless it was sent on a connection while that was being
\* terminated, or its id has become negative.
RequestsSettle ==
  \A n \in Numbers :
    (n \in DOMAIN sent /\ ~sent[n].closing /\ sent[n].id > 0) ~> (n \in DOMAIN sent /\ outcome[n] # <<>>)
=============================================================================

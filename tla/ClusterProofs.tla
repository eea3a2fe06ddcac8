---------------------------- MODULE ClusterProofs ----------------------------
(***************************************************************************)
(* The two parts that talk to other processes. Rpc: every request of the   *)
(* rpc manager is settled once, with an answer of its own. Replicant: the  *)
(* election of the Raft module, for any number of replicas, any logs and   *)
(* messages lost, duplicated and reordered.                                *)
(***************************************************************************)
EXTENDS Rpc, Replicant, FiniteSetTheorems, SequenceTheorems, WellFoundedInduction, TLAPS

-----------------------------------------------------------------------------
(* Rpc                                                                     *)

-----------------------------------------------------------------------------
(* The integers involved.                                                  *)

LEMMA LeastNatural ==
  ASSUME NEW S \in SUBSET Nat, S # {}
  PROVE  \E x \in S : \A y \in S : x =< y
<1>1. \E x \in S : \A y \in S : ~(<<y, x>> \in OpToRel(<, Nat))
  BY WFMin, NatLessThanWellFounded, Zenon
<1>2. \A x, y \in Nat : ~(<<y, x>> \in OpToRel(<, Nat)) => x =< y
  BY DEF OpToRel
<1>3. QED
  BY <1>1, <1>2

LEMMA Widths ==
  /\ IdHalf \in Nat /\ IdHalf >= 2 /\ Unsigned = 2 * IdHalf /\ Unsigned \in Nat
  /\ End \in Nat /\ End >= 4 * Unsigned
<1>1. IdHalf \in Nat /\ IdHalf >= 2 /\ Unsigned = 2 * IdHalf
  BY RpcAssumption DEF Unsigned
<1>2. Unsigned \in Nat /\ Unsigned >= 4
  BY <1>1
<1>3. \A u \in Nat : u >= 4 => u * u \in Nat /\ u * u >= 4 * u
  OBVIOUS
<1>4. QED
  BY <1>1, <1>2, <1>3 DEF End

\* Ids keep their order as unsigned numbers, and the next id is one more
\* until they are used up.
LEMMA IdFacts ==
  /\ \A i \in Ids : /\ ToUint32(i) \in 0 .. (Unsigned - 1) /\ IdAfter(i) \in Ids
                    /\ i >= 0 => ToUint32(i) = i
                    /\ i < 0 => ToUint32(i) >= IdHalf
                    /\ ToUint32(i) < Unsigned - 1 => ToUint32(IdAfter(i)) = ToUint32(i) + 1
  /\ \A i, j \in Ids : ToUint32(i) = ToUint32(j) => i = j
BY Widths DEF Ids, ToUint32, IdAfter

\* An id and its key determine each other.
LEMMA KeyFacts ==
  /\ \A i \in Ids : Key(i) \in 0 .. (End - 1) /\ (i >= 0 => Key(i) = i) /\ (i < 0 => Key(i) > Unsigned)
  /\ \A i, j \in Ids : Key(i) = Key(j) => i = j
BY Widths DEF Ids, Key

-----------------------------------------------------------------------------
(* The inductive invariant.                                                *)

\* A handler is kept under the key of the request it waits for.
Keyed == \A k \in Pending : handlers[k] \in 1 .. Len(sent) /\ k = Key(sent[handlers[k]].id)

\* Requests are numbered one after the other, from where the earlier ones
\* ended, and as unsigned numbers the ids never pass their width.
Numbered ==
  /\ ToUint32(lastId) - Len(sent) \in 0 .. MaxEarlier
  /\ \A n \in 1 .. Len(sent) : ToUint32(sent[n].id) = ToUint32(lastId) - Len(sent) + n

\* The iterator of terminate_requests is valid, and has left behind only
\* requests of other connections and ones sent after the call began.
Passed ==
  ~Idle =>
    /\ loop.mark <= Len(sent) /\ loop.it \in Pending \cup {End}
    /\ \A k \in Pending : k < loop.it /\ sent[handlers[k]].owner = loop.owner => handlers[k] > loop.mark

\* What is on its way carries the id of the request it is about, or that id
\* read as unsigned.
Asked(m, requests) == m.of \in 1 .. Len(requests) /\ m.id = requests[m.of].id
Called(m, requests) == m.of \in 1 .. Len(requests) /\ m.id = ToUint32(requests[m.of].id)
Answered(m, requests) == Asked(m, requests) \/ Called(m, requests)
Messages ==
  /\ \A o \in Owners : \A i \in 1 .. Len(toServer[o]) : Asked(toServer[o][i], sent)
  /\ \A o \in Owners : \A i \in 1 .. Len(toClient[o]) : Answered(toClient[o][i], sent)
  /\ \A c \in calls : Called(c, sent)

\* The request waits no longer; what its promise was settled with.
Settled(n) == ~\E k \in Pending : handlers[k] = n

Outcomes ==
  \A n \in 1 .. Len(sent) :
    /\ Len(outcome[n]) = IF Settled(n) THEN 1 ELSE 0
    /\ sent[n].id > 0 => \A i \in 1 .. Len(outcome[n]) : outcome[n][i] \in {Interrupted, n}

Inv == TypeOK /\ Keyed /\ Numbered /\ Passed /\ Messages /\ Outcomes

\* What the types say of the sequences.
LEMMA Types ==
  ASSUME TypeOK
  PROVE  /\ Len(sent) \in Nat /\ Len(outcome) = Len(sent) /\ Len(sent) <= MaxRequests
         /\ \A n \in 1 .. Len(sent) : sent[n] \in Sent /\ sent[n].id \in Ids /\ sent[n].owner \in Owners
         /\ \A n \in 1 .. Len(sent) : outcome[n] \in Seq(Numbers \cup {Interrupted})
         /\ DOMAIN sent = 1 .. Len(sent) /\ DOMAIN outcome = 1 .. Len(sent)
         /\ lastId \in Ids
         /\ ~Idle => loop \in Loops
<1>1. sent \in Seq(Sent) /\ outcome \in Seq(Seq(Numbers \cup {Interrupted})) /\ Len(outcome) = Len(sent)
  BY DEF TypeOK
<1>2. \A r \in Sent : r.id \in Ids /\ r.owner \in Owners
  BY DEF Sent
<1>3. Len(sent) \in Nat /\ DOMAIN sent = 1 .. Len(sent) /\ \A n \in 1 .. Len(sent) : sent[n] \in Sent
  BY <1>1
<1>4. DOMAIN outcome = 1 .. Len(outcome) /\ \A n \in 1 .. Len(outcome) : outcome[n] \in Seq(Numbers \cup {Interrupted})
  BY <1>1
<1>5. lastId \in Ids /\ Len(sent) <= MaxRequests /\ (~Idle => loop \in Loops)
  BY DEF TypeOK, Idle
<1>6. QED
  BY <1>1, <1>2, <1>3, <1>4, <1>5

\* No two requests have the same id, and none has the id 0.
LEMMA DistinctIds ==
  ASSUME TypeOK, Numbered
  PROVE  /\ \A n \in 1 .. Len(sent) : sent[n].id \in Ids /\ sent[n].id # 0
         /\ \A m, n \in 1 .. Len(sent) : sent[m].id = sent[n].id => m = n
<1>1. Len(sent) \in Nat /\ \A n \in 1 .. Len(sent) : sent[n].id \in Ids
  BY Types
<1>2. lastId \in Ids /\ ToUint32(lastId) \in Nat
  BY IdFacts, Widths DEF TypeOK
<1>3. \A n \in 1 .. Len(sent) : ToUint32(sent[n].id) >= 1
  BY <1>1, <1>2, RpcAssumption DEF Numbered
<1>4. ToUint32(0) = 0
  BY DEF ToUint32
<1>5. \A m, n \in 1 .. Len(sent) : ToUint32(sent[m].id) = ToUint32(sent[n].id) => m = n
  BY <1>1, <1>2 DEF Numbered
<1>6. QED
  BY <1>1, <1>3, <1>4, <1>5

\* A request has one handler at most.
LEMMA OneHandler ==
  ASSUME Keyed
  PROVE  \A j, k \in Pending : handlers[j] = handlers[k] => j = k
BY DEF Keyed

LEMMA InitInv == Init => Inv
<1> SUFFICES ASSUME Init PROVE Inv
  OBVIOUS
<1>1. /\ Pending = {} /\ Len(sent) = 0 /\ Len(outcome) = 0
      /\ sent \in Seq(Sent)
      /\ outcome \in Seq(Seq(Numbers \cup {Interrupted}))
  BY EmptySeq DEF Init, Pending
<1>2. lastId \in Ids /\ lastId \in 0 .. MaxEarlier /\ ToUint32(lastId) = lastId
  BY RpcAssumption DEF Init, Ids, ToUint32
<1>3. /\ toServer \in [Owners -> Seq(Requests)] /\ toClient \in [Owners -> Seq(Answers)]
      /\ \A o \in Owners : Len(toServer[o]) = 0 /\ Len(toClient[o]) = 0
  BY EmptySeq DEF Init
<1>4. TypeOK
  BY <1>1, <1>2, <1>3, RpcAssumption DEF Init, TypeOK
<1>5. Keyed /\ Numbered /\ Passed /\ Messages /\ Outcomes
  BY <1>1, <1>2, <1>3, RpcAssumption DEF Keyed, Numbered, Passed, Messages, Outcomes, Init, Idle
<1>6. QED
  BY <1>4, <1>5 DEF Inv

-----------------------------------------------------------------------------
(* send_request.                                                           *)

LEMMA SendInv ==
  ASSUME Inv, NEW o \in Owners, SendRequest(o)
  PROVE  Inv'
<1> USE DEF Inv
<1>1. PICK id, n, r, a :
        /\ id = IdAfter(lastId) /\ n = Len(sent) + 1
        /\ r = [owner |-> o, id |-> id, closing |-> ~Idle /\ loop.owner = o]
        /\ a = [id |-> id, of |-> n]
  OBVIOUS
<1>2. /\ lastId' = id /\ sent' = Append(sent, r) /\ outcome' = Append(outcome, <<>>)
      /\ handlers' = [k \in Pending \cup {Key(id)} |-> IF k = Key(id) THEN n ELSE handlers[k]]
      /\ toServer' = [toServer EXCEPT ![o] = Append(@, a)]
      /\ UNCHANGED <<loop, open, toClient, calls>> /\ Len(sent) < MaxRequests
  BY <1>1 DEF SendRequest
<1>3. lastId \in Ids /\ id \in Ids /\ Len(sent) \in Nat /\ n \in Numbers /\ n <= MaxRequests
  BY <1>1, <1>2, IdFacts, Types, RpcAssumption DEF Numbers
<1>4. r \in Sent /\ r.id = id /\ r.owner = o
  BY <1>1, <1>3 DEF Sent
<1>5. ToUint32(id) = ToUint32(lastId) + 1 /\ ToUint32(lastId) \in Nat
  BY <1>1, <1>2, <1>3, IdFacts, Widths, RpcAssumption DEF Numbered
<1>6. /\ sent' \in Seq(Sent) /\ Len(sent') = n
      /\ sent'[n] = r /\ \A m \in 1 .. Len(sent) : sent'[m] = sent[m]
  <2>1. sent \in Seq(Sent)
    BY DEF TypeOK
  <2>2. QED
    BY <1>1, <1>2, <1>4, <2>1
<1>7. /\ outcome' \in Seq(Seq(Numbers \cup {Interrupted})) /\ Len(outcome') = n
      /\ Len(outcome'[n]) = 0 /\ \A m \in 1 .. Len(sent) : outcome'[m] = outcome[m]
  <2>1. <<>> \in Seq(Numbers \cup {Interrupted}) /\ Len(<<>>) = 0
    BY EmptySeq
  <2>2. outcome \in Seq(Seq(Numbers \cup {Interrupted})) /\ Len(outcome) = Len(sent)
    BY DEF TypeOK
  <2>3. QED
    BY <1>1, <1>2, <2>1, <2>2
<1>8. Pending' = Pending \cup {Key(id)}
  BY <1>2 DEF Pending
<1>9. \A m \in 1 .. Len(sent) : sent[m].id \in Ids /\ sent[m].id # id
  <2>1. \A m \in 1 .. Len(sent) : sent[m].id \in Ids /\ ToUint32(sent[m].id) <= ToUint32(lastId)
    BY <1>3, <1>5, Types DEF Numbered
  <2>2. QED
    BY <1>5, <2>1
<1>10. Key(id) \notin Pending
  BY <1>3, <1>9, KeyFacts DEF Keyed
<1>11. \A k \in Pending : handlers'[k] = handlers[k] /\ handlers[k] \in 1 .. Len(sent)
  BY <1>2, <1>8, <1>10 DEF Keyed
<1>12. handlers'[Key(id)] = n
  BY <1>2
<1>13. Keyed'
  BY <1>1, <1>3, <1>4, <1>6, <1>8, <1>11, <1>12 DEF Keyed
<1>14. Numbered'
  <2>1. ToUint32(lastId') - Len(sent') = ToUint32(lastId) - Len(sent)
    BY <1>1, <1>2, <1>3, <1>5, <1>6
  <2>2. ASSUME NEW m \in 1 .. Len(sent') PROVE ToUint32(sent'[m].id) = ToUint32(lastId) - Len(sent) + m
    <3>1. CASE m = n
      BY <1>1, <1>3, <1>4, <1>5, <1>6, <3>1
    <3>2. CASE m \in 1 .. Len(sent)
      BY <1>6, <3>2 DEF Numbered
    <3>3. QED
      BY <1>1, <1>3, <1>6, <3>1, <3>2
  <2>3. QED
    BY <2>1, <2>2 DEF Numbered, ToUint32
<1>15. Passed'
  <2> SUFFICES ASSUME ~Idle PROVE Passed'
    BY <1>2 DEF Passed, Idle
  <2>1. loop \in Loops /\ loop.mark \in Nat /\ loop' = loop
    BY <1>2, Types DEF Loops
  <2>2. loop.mark <= Len(sent) /\ loop.it \in Pending \cup {End}
    BY DEF Passed
  <2>3. n > loop.mark /\ loop.mark <= Len(sent')
    BY <1>1, <1>3, <1>6, <2>1, <2>2
  <2>4. ASSUME NEW k \in Pending', k < loop.it, sent'[handlers'[k]].owner = loop.owner
        PROVE  handlers'[k] > loop.mark
    <3>1. CASE k = Key(id)
      BY <1>12, <2>3, <3>1
    <3>2. CASE k \in Pending
      BY <1>6, <1>11, <2>4, <3>2 DEF Passed
    <3>3. QED
      BY <1>8, <3>1, <3>2
  <2>5. QED
    BY <1>8, <2>1, <2>2, <2>3, <2>4 DEF Passed
<1>16. /\ toServer' \in [Owners -> Seq(Requests)]
       /\ \A p \in Owners : toServer'[p] = IF p = o THEN Append(toServer[p], a) ELSE toServer[p]
  <2>1. toServer \in [Owners -> Seq(Requests)] /\ a \in Requests
    BY <1>1, <1>3 DEF TypeOK, Requests
  <2>2. QED
    BY <1>2, <2>1
<1>17. Messages'
  <2>1. \A m : Asked(m, sent) => Asked(m, sent')
    BY <1>1, <1>3, <1>6 DEF Asked
  <2>2. \A m : Called(m, sent) => Called(m, sent')
    BY <1>1, <1>3, <1>6 DEF Called
  <2>3. Asked(a, sent')
    BY <1>1, <1>3, <1>4, <1>6 DEF Asked
  <2>4. ASSUME NEW p \in Owners, NEW i \in 1 .. Len(toServer'[p])
        PROVE  Asked(toServer'[p][i], sent')
    <3>1. CASE p = o
      <4>1. toServer[p] \in Seq(Requests) /\ toServer'[p] = Append(toServer[p], a)
        BY <1>16, <3>1 DEF TypeOK
      <4>2. toServer'[p][i] = a \/ (i \in 1 .. Len(toServer[p]) /\ toServer'[p][i] = toServer[p][i])
        BY <4>1
      <4>3. QED
        BY <2>1, <2>3, <4>2 DEF Messages
    <3>2. CASE p # o
      BY <1>16, <2>1, <3>2 DEF Messages
    <3>3. QED
      BY <3>1, <3>2
  <2>5. QED
    BY <1>2, <2>1, <2>2, <2>4 DEF Messages, Answered
<1>18. Outcomes'
  <2>1. \A m \in 1 .. Len(sent) : Settled(m)' <=> Settled(m)
    BY <1>1, <1>3, <1>8, <1>11, <1>12 DEF Settled
  <2>2. \E k \in Pending' : handlers'[k] = n
    BY <1>8, <1>12
  <2>3. \A m \in 1 .. Len(sent') : m = n \/ m \in 1 .. Len(sent)
    BY <1>1, <1>3, <1>6
  <2>4. ASSUME NEW m \in 1 .. Len(sent') PROVE Len(outcome'[m]) = IF Settled(m)' THEN 1 ELSE 0
    <3>1. CASE m = n
      BY <1>7, <2>2, <3>1 DEF Settled
    <3>2. CASE m \in 1 .. Len(sent)
      BY <1>7, <2>1, <3>2 DEF Outcomes
    <3>3. QED
      BY <2>3, <3>1, <3>2
  <2>5. ASSUME NEW m \in 1 .. Len(sent'), sent'[m].id > 0, NEW i \in 1 .. Len(outcome'[m])
        PROVE  outcome'[m][i] \in {Interrupted, m}
    <3>1. CASE m = n
      BY <1>7, <2>5, <3>1
    <3>2. CASE m \in 1 .. Len(sent)
      BY <1>6, <1>7, <2>5, <3>2 DEF Outcomes
    <3>3. QED
      BY <2>3, <3>1, <3>2
  <2>6. QED
    BY <2>4, <2>5 DEF Outcomes
<1>19. TypeOK'
  <2>1. \A k \in Pending' : k \in 0 .. (End - 1) /\ handlers'[k] \in DOMAIN sent'
    <3>1. DOMAIN sent' = 1 .. n
      BY <1>6
    <3>2. \A k \in Pending : k \in 0 .. (End - 1)
      BY DEF TypeOK
    <3>3. QED
      BY <1>1, <1>3, <1>8, <1>11, <1>12, <3>1, <3>2, KeyFacts
  <2>2. QED
    BY <1>2, <1>3, <1>6, <1>7, <1>16, <2>1 DEF TypeOK
<1>20. QED
  BY <1>13, <1>14, <1>15, <1>17, <1>18, <1>19

-----------------------------------------------------------------------------
(* A handler is erased and the promise of its request settled.             *)

\* What DispatchReply and TerminateStep have in common: the request under
\* the key k is settled with `what', about itself unless its id is not positive.
LEMMA SettleInv ==
  ASSUME Inv, NEW k \in Pending, NEW what \in Numbers \cup {Interrupted},
         handlers' = Forget(k), Settle(handlers[k], what), UNCHANGED <<sent, lastId>>,
         sent[handlers[k]].id > 0 => what \in {Interrupted, handlers[k]}
  PROVE  /\ Pending' = Pending \ {k} /\ \A j \in Pending' : handlers'[j] = handlers[j]
         /\ Keyed' /\ Numbered' /\ Outcomes'
         /\ outcome' \in Seq(Seq(Numbers \cup {Interrupted})) /\ Len(outcome') = Len(sent')
<1> USE DEF Inv
<1>1. Pending' = Pending \ {k} /\ \A j \in Pending' : handlers'[j] = handlers[j]
  BY DEF Pending, Forget
<1>2. Keyed'
  BY <1>1 DEF Keyed
<1>3. Numbered'
  BY DEF Numbered, ToUint32
<1>4. PICK n : n = handlers[k]
  OBVIOUS
<1>5. n \in 1 .. Len(sent) /\ outcome[n] \in Seq(Numbers \cup {Interrupted}) /\ Len(outcome[n]) = 0
  BY <1>4, Types DEF Keyed, Outcomes, Settled
<1>6. /\ outcome' = [outcome EXCEPT ![n] = Append(@, what)]
      /\ outcome \in Seq(Seq(Numbers \cup {Interrupted})) /\ Len(outcome) = Len(sent)
  BY <1>4 DEF Settle, TypeOK
<1>7. Append(outcome[n], what) \in Seq(Numbers \cup {Interrupted})
  BY <1>5
<1>8. /\ outcome' \in Seq(Seq(Numbers \cup {Interrupted})) /\ Len(outcome') = Len(sent)
      /\ \A m \in 1 .. Len(sent) : outcome'[m] = IF m = n THEN Append(outcome[n], what) ELSE outcome[m]
  BY <1>5, <1>6, <1>7
<1>9. Len(outcome'[n]) = 1 /\ outcome'[n][1] = what
  <2>1. /\ Len(Append(outcome[n], what)) = Len(outcome[n]) + 1
        /\ Append(outcome[n], what)[Len(outcome[n]) + 1] = what
    BY <1>5, AppendProperties
  <2>2. outcome'[n] = Append(outcome[n], what)
    BY <1>5, <1>8
  <2>3. Len(outcome[n]) + 1 = 1
    BY <1>5
  <2>4. QED
    BY <2>1, <2>2, <2>3
<1>10. \A m \in 1 .. Len(sent) : Settled(m)' <=> (m = n \/ Settled(m))
  BY <1>1, <1>4, OneHandler DEF Settled
<1>11. ASSUME NEW m \in 1 .. Len(sent)
       PROVE  /\ Len(outcome'[m]) = IF Settled(m)' THEN 1 ELSE 0
              /\ sent[m].id > 0 => \A i \in 1 .. Len(outcome'[m]) : outcome'[m][i] \in {Interrupted, m}
  <2>1. CASE m = n
    <3>1. Settled(m)' /\ Len(outcome'[m]) = 1
      BY <1>9, <1>10, <2>1
    <3>2. \A i \in 1 .. Len(outcome'[m]) : outcome'[m][i] = what
      BY <1>9, <2>1
    <3>3. sent[m].id > 0 => what \in {Interrupted, m}
      BY <1>4, <2>1
    <3>4. QED
      BY <3>1, <3>2, <3>3
  <2>2. CASE m # n
    BY <1>8, <1>10, <2>2 DEF Outcomes
  <2>3. QED
    BY <2>1, <2>2
<1>12. Outcomes'
  BY <1>11 DEF Outcomes
<1>13. QED
  BY <1>1, <1>2, <1>3, <1>8, <1>12

\* Messages and types after a step that leaves the requests alone.
LEMMA PendingTypes ==
  ASSUME TypeOK, UNCHANGED sent, Pending' \subseteq Pending, \A j \in Pending' : handlers'[j] = handlers[j]
  PROVE  Pending' \subseteq 0 .. (End - 1) /\ \A j \in Pending' : handlers'[j] \in DOMAIN sent'
BY DEF TypeOK

\* The first message of a connection is taken.
LEMMA HeadTail ==
  ASSUME NEW S, NEW q \in Seq(S), q # <<>>
  PROVE  /\ Len(q) \in Nat \ {0} /\ Head(q) = q[1] /\ Head(q) \in S /\ Tail(q) \in Seq(S)
         /\ Len(Tail(q)) = Len(q) - 1 /\ \A i \in 1 .. Len(Tail(q)) : Tail(q)[i] = q[i + 1]
BY EmptySeq

LEMMA DispatchReplyInv ==
  ASSUME Inv, NEW o \in Owners, DispatchReply(o)
  PROVE  Inv'
<1> USE DEF Inv
<1>1. PICK m, k : m = Head(toClient[o]) /\ k = ToUint64(m.id)
  OBVIOUS
<1>2. /\ Idle /\ toClient[o] # <<>>
      /\ IF k \in Pending THEN handlers' = Forget(k) /\ Settle(handlers[k], m.of)
                          ELSE UNCHANGED <<handlers, outcome>>
      /\ toClient' = [toClient EXCEPT ![o] = Tail(@)]
      /\ UNCHANGED <<lastId, loop, sent, open, toServer, calls>>
  BY <1>1 DEF DispatchReply
<1>3. toClient \in [Owners -> Seq(Answers)] /\ toClient[o] \in Seq(Answers)
  BY DEF TypeOK
<1>4. m \in Answers /\ m = toClient[o][1] /\ 1 \in 1 .. Len(toClient[o])
  BY <1>1, <1>2, <1>3, HeadTail
<1>5. Answered(m, sent) /\ m.of \in Numbers
  BY <1>4 DEF Messages, Answers
<1>6. \A p \in Owners : toClient'[p] = IF p = o THEN Tail(toClient[p]) ELSE toClient[p]
  BY <1>2, <1>3
<1>7. toClient' \in [Owners -> Seq(Answers)]
  BY <1>2, <1>3, HeadTail
<1>8. Messages'
  <2>1. \A i \in 1 .. Len(toClient'[o]) : Answered(toClient'[o][i], sent)
    BY <1>2, <1>3, <1>6, HeadTail DEF Messages
  <2>2. QED
    BY <1>2, <1>6, <2>1 DEF Messages
<1>9. Passed'
  BY <1>2 DEF Passed, Idle
<1>10. CASE k \in Pending
  <2>1. PICK n : n = handlers[k]
    OBVIOUS
  <2>2. n \in 1 .. Len(sent) /\ k = Key(sent[n].id) /\ sent[n].id \in Ids
    BY <1>10, <2>1, Types DEF Keyed
  <2>3. ASSUME sent[n].id > 0 PROVE m.of = n
    <3>1. PICK i : i = sent[m.of].id
      OBVIOUS
    <3>2. m.of \in 1 .. Len(sent) /\ i \in Ids /\ m.id \in {i, ToUint32(i)}
      BY <1>5, <3>1, Types DEF Answered, Asked, Called
    <3>3. k = sent[n].id /\ k > 0 /\ k < IdHalf
      BY <2>2, <2>3, KeyFacts, Widths DEF Ids
    <3>4. k = m.id
      BY <1>1, <3>2, <3>3, IdFacts DEF ToUint64, Ids
    <3>5. i = k
      BY <3>2, <3>3, <3>4, IdFacts, Widths DEF Ids
    <3>6. QED
      BY <2>2, <3>1, <3>2, <3>3, <3>5, DistinctIds
  <2>4. handlers' = Forget(k) /\ Settle(handlers[k], m.of) /\ UNCHANGED <<sent, lastId>>
    BY <1>2, <1>10
  <2>5. /\ Pending' = Pending \ {k} /\ \A j \in Pending' : handlers'[j] = handlers[j]
        /\ Keyed' /\ Numbered' /\ Outcomes'
        /\ outcome' \in Seq(Seq(Numbers \cup {Interrupted})) /\ Len(outcome') = Len(sent')
    BY <1>5, <1>10, <2>1, <2>3, <2>4, SettleInv
  <2>6. TypeOK'
    BY <1>2, <1>7, <2>5, PendingTypes DEF TypeOK
  <2>7. QED
    BY <1>8, <1>9, <2>5, <2>6
<1>11. CASE k \notin Pending
  <2>1. UNCHANGED <<handlers, outcome, sent, lastId>> /\ Pending' = Pending
    BY <1>2, <1>11 DEF Pending
  <2>2. Keyed' /\ Numbered' /\ Outcomes'
    BY <2>1 DEF Keyed, Numbered, ToUint32, Outcomes, Settled
  <2>3. TypeOK'
    BY <1>2, <1>7, <2>1, PendingTypes DEF TypeOK
  <2>4. QED
    BY <1>8, <1>9, <2>2, <2>3
<1>12. QED
  BY <1>10, <1>11

-----------------------------------------------------------------------------
(* terminate_requests.                                                     *)

\* The successor is a pending key, or the end; nothing pending lies between.
LEMMA SuccessorFacts ==
  ASSUME TypeOK, NEW k \in Int
  PROVE  /\ Successor(k) \in Pending \cup {End} /\ Successor(k) \in 0 .. End
         /\ \A j \in Pending : j > k => j >= Successor(k)
         /\ Successor(k) # End => Successor(k) > k
<1> DEFINE S == {j \in Pending : j > k} \cup {End}
<1>1. \A j \in Pending : j \in 0 .. (End - 1)
  BY DEF TypeOK
<1>2. S \in SUBSET Nat /\ S # {}
  BY <1>1, Widths
<1> HIDE DEF S
<1>3. PICK x \in S : \A y \in S : x =< y
  BY <1>2, LeastNatural
<1>4. Min(S) \in S /\ \A y \in S : Min(S) =< y
  BY <1>3 DEF Min
<1>5. Successor(k) = Min(S)
  BY DEF Successor, S
<1>6. QED
  BY <1>1, <1>4, <1>5, Widths DEF S

LEMMA TerminateInv ==
  ASSUME Inv, NEW o \in Owners, Terminate(o)
  PROVE  Inv'
<1> USE DEF Inv
<1>1. /\ loop' = [owner |-> o, it |-> Successor(-1), user |-> FALSE, mark |-> Len(sent)]
      /\ UNCHANGED <<lastId, handlers, sent, outcome, open, toServer, toClient, calls>>
  BY DEF Terminate
<1>2. -1 \in Int /\ Len(sent) \in 0 .. MaxRequests
  BY Types, RpcAssumption
<1>3. /\ Successor(-1) \in Pending \cup {End} /\ Successor(-1) \in 0 .. End
      /\ \A j \in Pending : j > -1 => j >= Successor(-1)
  BY <1>2, SuccessorFacts
<1>4. loop' \in Loops
  BY <1>1, <1>2, <1>3 DEF Loops
<1>5. loop'.mark = Len(sent) /\ loop'.it = Successor(-1)
  BY <1>1
<1>6. Pending' = Pending
  BY <1>1 DEF Pending
<1>7. \A j \in Pending : j \in 0 .. (End - 1) /\ ~(j < Successor(-1))
  BY <1>3, Widths DEF TypeOK
<1>8. Passed'
  BY <1>1, <1>2, <1>3, <1>5, <1>6, <1>7 DEF Passed
<1>9. TypeOK'
  BY <1>1, <1>4, <1>6, PendingTypes DEF TypeOK
<1>10. Keyed' /\ Numbered' /\ Outcomes' /\ Messages'
  BY <1>1, <1>6 DEF Keyed, Numbered, ToUint32, Outcomes, Settled, Messages
<1>11. QED
  BY <1>8, <1>9, <1>10

LEMMA TerminateStepInv ==
  ASSUME Inv, TerminateStep
  PROVE  Inv'
<1> USE DEF Inv
<1>1. /\ ~Idle /\ loop.it # End
      /\ UNCHANGED <<lastId, sent, open, toServer, toClient, calls>>
  BY DEF TerminateStep
<1>2. loop \in Loops /\ loop.it \in Pending /\ loop.mark <= Len(sent)
  BY <1>1, Types DEF Passed
<1>3. PICK k, n, next : k = loop.it /\ n = handlers[k] /\ next = Successor(k)
  OBVIOUS
<1>4. k \in Pending /\ k \in Int /\ n \in 1 .. Len(sent)
  <2>1. \A j \in Pending : j \in 0 .. (End - 1)
    BY DEF TypeOK
  <2>2. QED
    BY <1>2, <1>3, <2>1, Widths DEF Keyed
<1>5. /\ next \in Pending \cup {End} /\ next \in 0 .. End
      /\ \A j \in Pending : j > k => j >= next
      /\ next # End => next > k
  BY <1>3, <1>4, SuccessorFacts
<1>6. \A j \in Pending : j \in Nat
  BY DEF TypeOK
<1>7. Messages'
  BY <1>1 DEF Messages
<1>8. CASE sent[n].owner = loop.owner
  <2>1. /\ handlers' = Forget(k) /\ Settle(handlers[k], Interrupted)
        /\ loop' = [loop EXCEPT !.it = next, !.user = TRUE]
    BY <1>3, <1>8 DEF TerminateStep
  <2>2. /\ Pending' = Pending \ {k} /\ \A j \in Pending' : handlers'[j] = handlers[j]
        /\ Keyed' /\ Numbered' /\ Outcomes'
        /\ outcome' \in Seq(Seq(Numbers \cup {Interrupted})) /\ Len(outcome') = Len(sent')
    BY <1>1, <1>4, <2>1, SettleInv
  <2>3. loop' \in Loops /\ loop'.it = next /\ loop'.owner = loop.owner /\ loop'.mark = loop.mark
    BY <1>2, <1>5, <2>1 DEF Loops
  <2>4. next \in Pending' \cup {End}
    BY <1>4, <1>5, <2>2
  <2>5. ASSUME NEW j \in Pending', j < next, sent[handlers'[j]].owner = loop.owner
        PROVE  handlers'[j] > loop.mark
    <3>1. j \in Pending /\ j # k /\ handlers'[j] = handlers[j] /\ j < k
      BY <1>4, <1>5, <1>6, <2>2, <2>5
    <3>2. QED
      BY <1>1, <1>3, <2>5, <3>1 DEF Passed
  <2>6. Passed'
    BY <1>1, <1>2, <2>3, <2>4, <2>5 DEF Passed
  <2>7. TypeOK'
    BY <1>1, <2>2, <2>3, PendingTypes DEF TypeOK
  <2>8. QED
    BY <1>7, <2>2, <2>6, <2>7
<1>9. CASE sent[n].owner # loop.owner
  <2>1. UNCHANGED <<handlers, outcome>> /\ loop' = [loop EXCEPT !.it = next] /\ Pending' = Pending
    BY <1>3, <1>9 DEF TerminateStep, Pending
  <2>2. loop' \in Loops /\ loop'.it = next /\ loop'.owner = loop.owner /\ loop'.mark = loop.mark
    BY <1>2, <1>5, <2>1 DEF Loops
  <2>3. ASSUME NEW j \in Pending, j < next, sent[handlers[j]].owner = loop.owner
        PROVE  handlers[j] > loop.mark
    <3>1. j # k /\ j < k
      BY <1>3, <1>4, <1>5, <1>6, <1>9, <2>3
    <3>2. QED
      BY <1>1, <1>3, <2>3, <3>1 DEF Passed
  <2>4. Passed'
    BY <1>1, <1>2, <1>5, <2>1, <2>2, <2>3 DEF Passed
  <2>5. TypeOK'
    BY <1>1, <2>1, <2>2, PendingTypes DEF TypeOK
  <2>6. Keyed' /\ Numbered' /\ Outcomes'
    BY <1>1, <2>1 DEF Keyed, Numbered, ToUint32, Outcomes, Settled
  <2>7. QED
    BY <1>7, <2>4, <2>5, <2>6
<1>10. QED
  BY <1>8, <1>9

LEMMA HandlerReturnsInv ==
  ASSUME Inv, HandlerReturns
  PROVE  Inv'
<1> USE DEF Inv
<1>1. /\ ~Idle /\ loop' = [loop EXCEPT !.user = FALSE]
      /\ UNCHANGED <<lastId, handlers, sent, outcome, open, toServer, toClient, calls>>
  BY DEF HandlerReturns
<1>2. loop \in Loops
  BY <1>1, Types
<1>3. loop' \in Loops /\ loop'.it = loop.it /\ loop'.owner = loop.owner /\ loop'.mark = loop.mark
  BY <1>1, <1>2 DEF Loops
<1>4. Pending' = Pending
  BY <1>1 DEF Pending
<1>5. Passed'
  BY <1>1, <1>3, <1>4 DEF Passed
<1>6. TypeOK'
  BY <1>1, <1>3, <1>4, PendingTypes DEF TypeOK
<1>7. Keyed' /\ Numbered' /\ Outcomes' /\ Messages'
  BY <1>1, <1>4 DEF Keyed, Numbered, ToUint32, Outcomes, Settled, Messages
<1>8. QED
  BY <1>5, <1>6, <1>7

LEMMA TerminateReturnsInv ==
  ASSUME Inv, TerminateReturns
  PROVE  Inv'
<1> USE DEF Inv
<1>1. /\ ~Idle /\ loop' = NoLoop /\ open' = open \ {loop.owner}
      /\ toServer' = [toServer EXCEPT ![loop.owner] = <<>>]
      /\ toClient' = [toClient EXCEPT ![loop.owner] = <<>>]
      /\ calls' = {c \in calls : c.owner # loop.owner}
      /\ UNCHANGED <<lastId, handlers, sent, outcome>>
  BY DEF TerminateReturns
<1>2. loop \in Loops /\ loop.owner \in Owners
  BY <1>1, Types DEF Loops
<1>3. /\ toServer \in [Owners -> Seq(Requests)] /\ toClient \in [Owners -> Seq(Answers)]
      /\ <<>> \in Seq(Requests) /\ <<>> \in Seq(Answers) /\ Len(<<>>) = 0
  BY EmptySeq DEF TypeOK
<1>4. /\ toServer' \in [Owners -> Seq(Requests)] /\ toClient' \in [Owners -> Seq(Answers)]
      /\ \A o \in Owners : toServer'[o] = IF o = loop.owner THEN <<>> ELSE toServer[o]
      /\ \A o \in Owners : toClient'[o] = IF o = loop.owner THEN <<>> ELSE toClient[o]
  BY <1>1, <1>2, <1>3
<1>5. Pending' = Pending
  BY <1>1 DEF Pending
<1>6. Messages'
  BY <1>1, <1>3, <1>4 DEF Messages
<1>7. TypeOK'
  BY <1>1, <1>4, <1>5, PendingTypes DEF TypeOK
<1>8. Passed' /\ Keyed' /\ Numbered' /\ Outcomes'
  BY <1>1, <1>5 DEF Passed, Idle, Keyed, Numbered, ToUint32, Outcomes, Settled
<1>9. QED
  BY <1>6, <1>7, <1>8

-----------------------------------------------------------------------------
(* The callee.                                                             *)

\* A reply to a request is put on its connection.
LEMMA AnswerInv ==
  ASSUME Inv, NEW o \in Owners, NEW a \in Answers, Answered(a, sent),
         toClient' = [toClient EXCEPT ![o] = Append(@, a)]
  PROVE  /\ toClient' \in [Owners -> Seq(Answers)]
         /\ \A p \in Owners : \A i \in 1 .. Len(toClient'[p]) : Answered(toClient'[p][i], sent)
<1>1. toClient \in [Owners -> Seq(Answers)]
  BY DEF Inv, TypeOK
<1>2. /\ toClient' \in [Owners -> Seq(Answers)]
      /\ \A p \in Owners : toClient'[p] = IF p = o THEN Append(toClient[p], a) ELSE toClient[p]
  BY <1>1
<1>3. ASSUME NEW p \in Owners, NEW i \in 1 .. Len(toClient'[p]) PROVE Answered(toClient'[p][i], sent)
  <2>1. CASE p = o
    <3>1. toClient'[p][i] = a \/ (i \in 1 .. Len(toClient[p]) /\ toClient'[p][i] = toClient[p][i])
      BY <1>1, <1>2, <2>1
    <3>2. QED
      BY <3>1 DEF Inv, Messages
  <2>2. CASE p # o
    BY <1>2, <2>2 DEF Inv, Messages
  <2>3. QED
    BY <2>1, <2>2
<1>4. QED
  BY <1>2, <1>3

LEMMA DispatchRequestInv ==
  ASSUME Inv, NEW o \in Owners, DispatchRequest(o)
  PROVE  Inv'
<1> USE DEF Inv
<1>1. PICK m, c : /\ m = Head(toServer[o])
                  /\ c = [owner |-> o, id |-> ToUint32(m.id), of |-> m.of, left |-> MaxReplies]
  OBVIOUS
<1>2. /\ toServer[o] # <<>>
      /\ \/ toClient' = [toClient EXCEPT ![o] = Append(@, MakeError(m))] /\ UNCHANGED calls
         \/ calls' = calls \cup {c} /\ UNCHANGED toClient
      /\ toServer' = [toServer EXCEPT ![o] = Tail(@)]
      /\ UNCHANGED <<lastId, handlers, loop, sent, outcome, open>>
  BY <1>1 DEF DispatchRequest, clientVars
<1>3. toServer \in [Owners -> Seq(Requests)] /\ toServer[o] \in Seq(Requests)
  BY DEF TypeOK
<1>4. m \in Requests /\ m = toServer[o][1] /\ 1 \in 1 .. Len(toServer[o])
  BY <1>1, <1>2, <1>3, HeadTail
<1>5. Asked(m, sent) /\ m.id \in Ids /\ m.of \in Numbers
  BY <1>4 DEF Messages, Requests
<1>6. c \in Calls /\ Called(c, sent)
  BY <1>1, <1>5, IdFacts, RpcAssumption DEF Calls, Called, Asked
<1>7. MakeError(m) \in Answers /\ Answered(MakeError(m), sent)
  BY <1>5 DEF MakeError, Answers, Answered, Asked
<1>8. /\ toServer' \in [Owners -> Seq(Requests)]
      /\ \A p \in Owners : toServer'[p] = IF p = o THEN Tail(toServer[p]) ELSE toServer[p]
  BY <1>2, <1>3, HeadTail
<1>9. \A p \in Owners : \A i \in 1 .. Len(toServer'[p]) : Asked(toServer'[p][i], sent)
  <2>1. \A i \in 1 .. Len(toServer'[o]) : Asked(toServer'[o][i], sent)
    BY <1>2, <1>3, <1>8, HeadTail DEF Messages
  <2>2. QED
    BY <1>8, <2>1 DEF Messages
<1>10. /\ toClient' \in [Owners -> Seq(Answers)]
       /\ \A p \in Owners : \A i \in 1 .. Len(toClient'[p]) : Answered(toClient'[p][i], sent)
  <2>1. CASE toClient' = [toClient EXCEPT ![o] = Append(@, MakeError(m))]
    BY <1>7, <2>1, AnswerInv
  <2>2. CASE UNCHANGED toClient
    BY <2>2 DEF Messages, TypeOK
  <2>3. QED
    BY <1>2, <2>1, <2>2
<1>11. calls' \subseteq Calls /\ \A d \in calls' : Called(d, sent)
  BY <1>2, <1>6 DEF Messages, TypeOK
<1>12. Pending' = Pending
  BY <1>2 DEF Pending
<1>13. Messages'
  BY <1>2, <1>9, <1>10, <1>11 DEF Messages
<1>14. TypeOK'
  BY <1>2, <1>8, <1>10, <1>11, <1>12, PendingTypes DEF TypeOK
<1>15. Passed' /\ Keyed' /\ Numbered' /\ Outcomes'
  BY <1>2, <1>12 DEF Passed, Idle, Keyed, Numbered, ToUint32, Outcomes, Settled
<1>16. QED
  BY <1>13, <1>14, <1>15

LEMMA ReplyInv ==
  ASSUME Inv, NEW c \in calls, Reply(c)
  PROVE  Inv'
<1> USE DEF Inv
<1>1. PICK a, d : a = [id |-> c.id, of |-> c.of] /\ d = [c EXCEPT !.left = @ - 1]
  OBVIOUS
<1>2. /\ toClient' = [toClient EXCEPT ![c.owner] = Append(@, a)]
      /\ calls' = (calls \ {c}) \cup (IF c.left = 1 THEN {} ELSE {d})
      /\ UNCHANGED <<lastId, handlers, loop, sent, outcome, open, toServer>>
  BY <1>1 DEF Reply, clientVars
<1>3. c \in Calls /\ Called(c, sent)
  BY DEF TypeOK, Messages
<1>4. c.owner \in Owners /\ a \in Answers /\ Answered(a, sent)
  BY <1>1, <1>3 DEF Calls, Answers, Answered, Called
<1>5. c.left # 1 => d \in Calls /\ Called(d, sent)
  BY <1>1, <1>3, RpcAssumption DEF Calls, Called
<1>6. calls' \subseteq Calls /\ \A e \in calls' : Called(e, sent)
  BY <1>2, <1>5 DEF Messages, TypeOK
<1>7. /\ toClient' \in [Owners -> Seq(Answers)]
      /\ \A p \in Owners : \A i \in 1 .. Len(toClient'[p]) : Answered(toClient'[p][i], sent)
  BY <1>2, <1>4, AnswerInv
<1>8. Pending' = Pending
  BY <1>2 DEF Pending
<1>9. Messages'
  BY <1>2, <1>6, <1>7 DEF Messages
<1>10. TypeOK'
  BY <1>2, <1>6, <1>7, <1>8, PendingTypes DEF TypeOK
<1>11. Passed' /\ Keyed' /\ Numbered' /\ Outcomes'
  BY <1>2, <1>8 DEF Passed, Idle, Keyed, Numbered, ToUint32, Outcomes, Settled
<1>12. QED
  BY <1>9, <1>10, <1>11

-----------------------------------------------------------------------------

\* Every step keeps the invariant.
LEMMA StepInv ==
  ASSUME Inv, [Next]_vars
  PROVE  Inv'
<1>1. ASSUME NEW o \in Owners, SendRequest(o) PROVE Inv'
  BY <1>1, SendInv
<1>2. ASSUME NEW o \in Owners, DispatchReply(o) PROVE Inv'
  BY <1>2, DispatchReplyInv
<1>3. ASSUME NEW o \in Owners, Terminate(o) PROVE Inv'
  BY <1>3, TerminateInv
<1>4. ASSUME NEW o \in Owners, Connect(o) PROVE Inv'
  <2>1. UNCHANGED <<lastId, handlers, loop, sent, outcome, calls, toServer, toClient>> /\ open' = open \cup {o}
    BY <1>4 DEF Connect, clientVars
  <2>2. Pending' = Pending
    BY <2>1 DEF Pending
  <2>3. TypeOK'
    BY <2>1, <2>2, PendingTypes DEF TypeOK, Inv
  <2>4. QED
    BY <2>1, <2>2, <2>3 DEF Inv, Passed, Idle, Keyed, Numbered, ToUint32, Outcomes, Settled, Messages
<1>5. ASSUME NEW o \in Owners, DispatchRequest(o) PROVE Inv'
  BY <1>5, DispatchRequestInv
<1>6. CASE TerminateStep
  BY <1>6, TerminateStepInv
<1>7. CASE HandlerReturns
  BY <1>7, HandlerReturnsInv
<1>8. CASE TerminateReturns
  BY <1>8, TerminateReturnsInv
<1>9. ASSUME NEW c \in calls, Reply(c) PROVE Inv'
  BY <1>9, ReplyInv
<1>10. CASE UNCHANGED vars
  <2>1. UNCHANGED <<lastId, handlers, loop, sent, outcome, calls, open, toServer, toClient>>
    BY <1>10 DEF vars, clientVars
  <2>2. Pending' = Pending
    BY <2>1 DEF Pending
  <2>3. TypeOK'
    BY <2>1, <2>2, PendingTypes DEF TypeOK, Inv
  <2>4. QED
    BY <2>1, <2>2, <2>3 DEF Inv, Passed, Idle, Keyed, Numbered, ToUint32, Outcomes, Settled, Messages
<1>11. QED
  BY <1>1, <1>2, <1>3, <1>4, <1>5, <1>6, <1>7, <1>8, <1>9, <1>10 DEF Next

\* The invariant behind the theorems.
THEOREM Invariance == Spec => []Inv
<1>1. Inv /\ [Next]_vars => Inv'
  BY StepInv
<1>2. QED
  BY InitInv, <1>1, PTL DEF Spec

\* The managers and the connections have their types, the map's iterator included.
THEOREM TypeCorrect == Spec => []TypeOK
<1>1. Inv => TypeOK
  BY DEF Inv
<1>2. QED
  BY Invariance, <1>1, PTL

\* The promise of a request is settled at most once, and its handler is kept
\* exactly until then, whatever answers come twice or late.
THEOREM RequestsSettleOnce == Spec => []SettledOnce
<1>1. Inv => SettledOnce
  <2> SUFFICES ASSUME Inv PROVE SettledOnce
    OBVIOUS
  <2>1. DOMAIN sent = 1 .. Len(sent)
    BY Types DEF Inv
  <2>2. QED
    BY <2>1 DEF Inv, Outcomes, Settled, SettledOnce
<1>2. QED
  BY Invariance, <1>1, PTL

\* The answer a request with a positive id is given is about that request.
THEOREM AnswersAreOwn == Spec => []AnswerIsOwn
<1>1. Inv => AnswerIsOwn
  <2> SUFFICES ASSUME Inv PROVE AnswerIsOwn
    OBVIOUS
  <2>1. DOMAIN sent = 1 .. Len(sent) /\ \A n \in 1 .. Len(sent) : DOMAIN outcome[n] = 1 .. Len(outcome[n])
    BY Types DEF Inv
  <2>2. QED
    BY <2>1 DEF Inv, Outcomes, AnswerIsOwn
<1>2. QED
  BY Invariance, <1>1, PTL

\* The iterator of terminate_requests is valid throughout, and the loop ends
\* with no request pending that was sent on the connection before it began.
THEOREM TerminationIsComplete == Spec => []TerminateComplete
<1>1. Inv => TerminateComplete
  <2> SUFFICES ASSUME Inv PROVE TerminateComplete
    OBVIOUS
  <2>1. \A k \in Pending : k < End
    BY Widths DEF Inv, TypeOK
  <2>2. QED
    BY <2>1 DEF Inv, Passed, TerminateComplete
<1>2. QED
  BY Invariance, <1>1, PTL

-----------------------------------------------------------------------------
(* Replicant                                                                *)

(* A granting reply stands for a vote that was cast; requests are of terms *)
(* that somebody stood for, so above the first, and go to others.          *)
Requested ==
  \A m \in msgs :
    /\ m.type = "request_vote" => m.term >= 2 /\ m.src # m.dst
    /\ m.type = "request_vote_reply" /\ m.granted => <<m.src, m.term, m.dst>> \in votes

(* What a candidate counts are votes cast for it in its term, not the first. *)
Counted ==
  \A r \in Replicas : m_role[r] = "candidate" =>
    /\ m_current_term[r] >= 2
    /\ \A v \in m_votes_granted[r] : <<v, m_current_term[r], r>> \in votes

(* Behind every leader stands a quorum of votes. *)
Elected ==
  \A p \in leaders : \E Q \in SUBSET Replicas :
    Quorum(Q) /\ \A v \in Q : <<v, p[1], p[2]>> \in votes

(* A replica remembers its vote of every term it has not lost: it is past  *)
(* the term, or in it with that vote.                                      *)
Remembers ==
  \A v \in votes : <<v[1], v[2]>> \notin forgotten =>
    /\ v[2] <= m_current_term[v[1]]
    /\ v[2] = m_current_term[v[1]] => m_voted_for[v[1]] = v[3]
    /\ v[2] = disk[v[1]].term => disk[v[1]].vote = v[3]

(* The log holds the last candidacy of the replica, and memory agrees with *)
(* the log as long as it is in the same term.                              *)
Logged ==
  \A r \in Replicas :
    /\ disk[r].term >= 1 /\ disk[r].term <= m_current_term[r]
    /\ m_current_term[r] = disk[r].term => m_voted_for[r] = disk[r].vote
    /\ disk[r].vote \in {0, r}
    /\ disk[r].vote = 0 => disk[r].term = 1

(* Candidacies are in the log. *)
Stood == \A v \in votes : v[1] = v[3] => v[2] <= disk[v[1]].term

(* Only a forgetful replica votes twice in a term. *)
OneVote ==
  \A v, w \in votes :
    v[1] = w[1] /\ v[2] = w[2] /\ v[3] # w[3] => <<v[1], v[2]>> \in forgotten

IInv == ReplicantTypeOK /\ Requested /\ Counted /\ Elected /\ Remembers /\ Logged /\ Stood /\ OneVote

-----------------------------------------------------------------------------
(* A message of a kind has the fields of the kind. *)
LEMMA MessageType ==
  ASSUME ReplicantTypeOK, NEW m \in msgs
  PROVE  /\ m.src \in Replicas /\ m.dst \in Replicas /\ m.term \in Nat
         /\ m.type = "request_vote_reply" => m.granted \in BOOLEAN
         /\ m.type = "request_vote" => m.index \in Nat /\ m.logterm \in Nat
BY DEF ReplicantTypeOK, RequestVote, RequestVoteReply, AppendEntries

(* Two quorums share a replica. *)
LEMMA QuorumsMeet ==
  ASSUME NEW P \in SUBSET Replicas, NEW Q \in SUBSET Replicas, Quorum(P), Quorum(Q)
  PROVE  P \cap Q # {}
<1>1. IsFiniteSet(Replicas)
  BY ReplicantAssumption
<1>2. IsFiniteSet(P) /\ IsFiniteSet(Q)
  BY <1>1, FS_Subset
<1>3. Cardinality(P) \in Nat /\ Cardinality(Q) \in Nat /\ Cardinality(Replicas) \in Nat
  BY <1>1, <1>2, FS_CardinalityType
<1>4. Cardinality(P) + Cardinality(Q) > Cardinality(Replicas)
  BY <1>3 DEF Quorum
<1>5. QED
  BY <1>1, <1>4, FS_MajoritiesIntersect

LEMMA ReplicantInitIInv == ReplicantInit => IInv
BY ReplicantAssumption DEF ReplicantInit, IInv, ReplicantTypeOK, Requested, Counted, Elected, Remembers, Logged, Stood, OneVote

(* A restart falls back to the logged term and marks the terms above it. *)
LEMMA RestartIInv ==
  ASSUME IInv, NEW r \in Replicas, Restart(r)
  PROVE  IInv'
<1> USE DEF IInv, ReplicantTypeOK
<1>1. ReplicantTypeOK'
  BY DEF Restart
<1>2. Requested' /\ Elected'
  BY DEF Restart, Requested, Elected
<1>3. Counted'
  BY DEF Restart, Counted
<1>4. Remembers'
  <2> SUFFICES ASSUME NEW v \in votes, <<v[1], v[2]>> \notin forgotten'
               PROVE  /\ v[2] <= m_current_term'[v[1]]
                      /\ v[2] = m_current_term'[v[1]] => m_voted_for'[v[1]] = v[3]
                      /\ v[2] = disk[v[1]].term => disk[v[1]].vote = v[3]
    BY DEF Restart, Remembers
  <2>1. v[1] \in Replicas /\ v[2] \in Nat /\ <<v[1], v[2]>> \notin forgotten
    BY DEF Restart
  <2>2. CASE v[1] = r
    <3>1. v[2] \notin disk[r].term + 1 .. m_current_term[r]
      BY <2>2 DEF Restart
    <3>2. v[2] <= m_current_term[r]
      BY <2>1, <2>2 DEF Remembers
    <3>3. v[2] <= disk[r].term
      BY <2>1, <3>1, <3>2
    <3>4. QED
      BY <2>1, <2>2, <3>3 DEF Restart, Remembers
  <2>3. CASE v[1] # r
    BY <2>1, <2>3 DEF Restart, Remembers
  <2>4. QED
    BY <2>2, <2>3
<1>5. Logged'
  BY DEF Restart, Logged
<1>6. Stood' /\ OneVote'
  BY DEF Restart, Stood, OneVote
<1>7. QED
  BY <1>1, <1>2, <1>3, <1>4, <1>5, <1>6

(* A candidate's own vote is the first it casts in a term it has not lost. *)
LEMMA TimeoutIInv ==
  ASSUME IInv, NEW r \in Replicas, OnElectionTimeout(r)
  PROVE  IInv'
<1> USE DEF IInv, ReplicantTypeOK
<1> DEFINE term == m_current_term[r] + 1
<1>0. /\ votes' = votes \cup {<<r, term, r>>}
      /\ m_current_term' = [m_current_term EXCEPT ![r] = term]
      /\ m_voted_for' = [m_voted_for EXCEPT ![r] = r]
      /\ disk' = [disk EXCEPT ![r] = [term |-> term, vote |-> r]]
      /\ m_role' = [m_role EXCEPT ![r] = "candidate"]
      /\ m_votes_granted' = [m_votes_granted EXCEPT ![r] = {r}]
      /\ UNCHANGED <<msgs, forgotten, leaders>>
  BY DEF OnElectionTimeout, UpdateReplicantState
<1>1. ReplicantTypeOK'
  BY <1>0 DEF OnElectionTimeout
<1>2. Requested' /\ Elected'
  BY <1>0 DEF Requested, Elected
<1>3. Counted'
  BY <1>0 DEF Counted, Logged
<1>4. Remembers'
  <2> SUFFICES ASSUME NEW v \in votes', <<v[1], v[2]>> \notin forgotten
               PROVE  /\ v[2] <= m_current_term'[v[1]]
                      /\ v[2] = m_current_term'[v[1]] => m_voted_for'[v[1]] = v[3]
                      /\ v[2] = disk'[v[1]].term => disk'[v[1]].vote = v[3]
    BY <1>0 DEF Remembers
  <2>1. CASE v \in votes
    <3>1. v[1] \in Replicas /\ v[2] \in Nat /\ v[2] <= m_current_term[v[1]]
      BY <2>1 DEF Remembers
    <3>2. QED
      BY <1>0, <2>1, <3>1 DEF Remembers
  <2>2. CASE v = <<r, term, r>>
    BY <1>0, <2>2
  <2>3. QED
    BY <1>0, <2>1, <2>2
<1>5. Logged'
  BY <1>0, ReplicantAssumption DEF Logged
<1>6. Stood'
  <2> SUFFICES ASSUME NEW v \in votes', v[1] = v[3]
               PROVE  v[2] <= disk'[v[1]].term
    BY DEF Stood
  <2>1. CASE v \in votes
    <3>1. v[1] \in Replicas /\ v[2] \in Nat /\ v[2] <= disk[v[1]].term
      BY <2>1 DEF Stood
    <3>2. disk[v[1]].term <= m_current_term[v[1]]
      BY <3>1 DEF Logged
    <3>3. QED
      BY <1>0, <3>1, <3>2
  <2>2. CASE v = <<r, term, r>>
    BY <1>0, <2>2
  <2>3. QED
    BY <1>0, <2>1, <2>2
<1>7. OneVote'
  <2>1. \A v \in votes : v[1] = r /\ v[2] = term => <<v[1], v[2]>> \in forgotten
    BY DEF Remembers
  <2>2. QED
    BY <1>0, <2>1 DEF OneVote
<1>8. QED
  BY <1>1, <1>2, <1>3, <1>4, <1>5, <1>6, <1>7

(* Requests and heartbeats. *)
LEMMA SendIInv ==
  ASSUME IInv, NEW r \in Replicas, SendRequestVoteMessages(r) \/ SendAppendEntries(r)
  PROVE  IInv'
<1> USE DEF IInv, ReplicantTypeOK
<1>1. ReplicantTypeOK'
  BY ReplicantAssumption
     DEF SendRequestVoteMessages, SendAppendEntries, RequestVote, AppendEntries, member
<1>2. Requested'
  <2>1. CASE SendRequestVoteMessages(r)
    <3>1. m_current_term[r] >= 2
      BY <2>1 DEF SendRequestVoteMessages, ElectionInProgress, Counted
    <3>2. ASSUME NEW m \in msgs' PROVE m \in msgs \/
            (m.type = "request_vote" /\ m.term = m_current_term[r] /\ m.src # m.dst)
      BY <2>1 DEF SendRequestVoteMessages
    <3>3. votes' = votes
      BY <2>1 DEF SendRequestVoteMessages
    <3>4. QED
      BY <3>1, <3>2, <3>3 DEF Requested
  <2>2. CASE SendAppendEntries(r)
    <3>1. ASSUME NEW m \in msgs' PROVE m \in msgs \/ m.type = "append_entries"
      BY <2>2 DEF SendAppendEntries
    <3>2. votes' = votes
      BY <2>2 DEF SendAppendEntries
    <3>3. QED
      BY <3>1, <3>2 DEF Requested
  <2>3. QED
    BY <2>1, <2>2
<1>3. Counted' /\ Elected' /\ Remembers' /\ Logged' /\ Stood' /\ OneVote'
  BY DEF SendRequestVoteMessages, SendAppendEntries, member, Counted, Elected, Remembers,
         Logged, Stood, OneVote
<1>4. QED
  BY <1>1, <1>2, <1>3

(* A granted vote is the first of its term, or repeats it. *)
LEMMA RequestVoteIInv ==
  ASSUME IInv, NEW m \in msgs, ReceiveRequestVote(m)
  PROVE  IInv'
<1> USE DEF IInv
<1> DEFINE r == m.dst
           term == TermAfter(r, m.term)
           grant == Grant(r, m)
           vote == IF grant THEN m.src ELSE VoteAfter(r, m.term)
           reply == [type |-> "request_vote_reply", src |-> r, dst |-> m.src,
                     term |-> term, granted |-> grant]
<1>0. /\ m.type = "request_vote"
      /\ r \in Replicas /\ m.src \in Replicas /\ m.term \in Nat /\ m.term >= 2
      /\ m_current_term' = [m_current_term EXCEPT ![r] = term]
      /\ m_role' = [m_role EXCEPT ![r] = IF m.term > m_current_term[r] THEN "follower" ELSE @]
      /\ m_voted_for' = [m_voted_for EXCEPT ![r] = vote]
      /\ votes' = IF grant THEN votes \cup {<<r, m.term, m.src>>} ELSE votes
      /\ msgs' = msgs \cup {reply}
      /\ UNCHANGED <<m_votes_responded, m_votes_granted, disk, restarts, forgotten, leaders>>
  BY MessageType DEF ReceiveRequestVote, UpdateTerm, Requested
<1>a. /\ term \in Nat /\ term >= m_current_term[r]
      /\ m_current_term[r] \in Nat /\ m_voted_for[r] \in Replicas \cup {0}
      /\ vote \in Replicas \cup {0}
  BY <1>0 DEF ReplicantTypeOK, TermAfter, VoteAfter
<1>b. grant \in BOOLEAN
  BY DEF Grant
<1>c. grant => /\ m.term = term /\ vote = m.src
               /\ m.term > m_current_term[r] \/ m_voted_for[r] \in {0, m.src}
  BY DEF Grant, VoteAfter
<1>d. ~grant => vote = VoteAfter(r, m.term)
  OBVIOUS
<1> HIDE DEF grant, vote, term
<1>1. ReplicantTypeOK'
  <2>1. reply \in RequestVoteReply
    BY <1>0, <1>a, <1>b DEF RequestVoteReply
  <2> HIDE DEF reply
  <2>2. msgs' \subseteq (RequestVote \cup RequestVoteReply \cup AppendEntries)
    BY <1>0, <2>1 DEF ReplicantTypeOK
  <2>3. votes' \subseteq (Replicas \X Nat \X Replicas)
    BY <1>0 DEF ReplicantTypeOK
  <2> HIDE DEF r
  <2>4. QED
    BY <1>0, <1>a, <2>2, <2>3 DEF ReplicantTypeOK
<1>2. Requested'
  <2>1. grant => <<r, term, m.src>> \in votes'
    BY <1>0, <1>c
  <2>2. votes \subseteq votes'
    BY <1>0
  <2>3. /\ reply.type = "request_vote_reply" /\ reply.granted = grant
        /\ reply.src = r /\ reply.dst = m.src /\ reply.term = term
    OBVIOUS
  <2> HIDE DEF reply, r
  <2>4. QED
    BY <1>0, <2>1, <2>2, <2>3 DEF Requested
<1>3. Counted'
  BY <1>0, <1>a DEF Counted, ReplicantTypeOK, term, TermAfter
<1>4. Elected'
  BY <1>0 DEF Elected
<1>5. Remembers' /\ OneVote'
  <2>1. \A v \in votes : v[1] = r /\ <<v[1], v[2]>> \notin forgotten =>
          v[2] <= term /\ (v[2] = term => v[3] = vote)
    <3> SUFFICES ASSUME NEW v \in votes, v[1] = r, <<v[1], v[2]>> \notin forgotten
                 PROVE  v[2] <= term /\ (v[2] = term => v[3] = vote)
      OBVIOUS
    <3>1. /\ v[2] \in Nat /\ v[3] \in Replicas /\ v[2] <= m_current_term[r]
          /\ v[2] = m_current_term[r] => m_voted_for[r] = v[3]
      BY DEF Remembers, ReplicantTypeOK
    <3>2. CASE m.term > m_current_term[r]
      BY <1>a, <3>1, <3>2, <1>0 DEF term, TermAfter
    <3>3. CASE ~(m.term > m_current_term[r])
      <4>1. v[2] = m_current_term[r] => vote = m_voted_for[r]
        BY <1>c, <1>d, <3>1, <3>3, ReplicantAssumption DEF VoteAfter
      <4>2. QED
        BY <1>a, <3>1, <3>3, <4>1, <1>0 DEF term, TermAfter
    <3>4. QED
      BY <3>2, <3>3
  <2>2. grant => term # disk[r].term \/ disk[r].vote = m.src
    <3>1. CASE m.term > m_current_term[r]
      BY <1>0, <1>a, <1>c, <3>1 DEF Logged, ReplicantTypeOK, term, TermAfter
    <3>2. CASE ~(m.term > m_current_term[r])
      BY <1>0, <1>a, <1>c, <3>2 DEF Logged, ReplicantTypeOK, term, TermAfter
    <3>3. QED
      BY <3>1, <3>2
  <2>3. Remembers'
    <3> SUFFICES ASSUME NEW v \in votes', <<v[1], v[2]>> \notin forgotten
                 PROVE  /\ v[2] <= m_current_term'[v[1]]
                        /\ v[2] = m_current_term'[v[1]] => m_voted_for'[v[1]] = v[3]
                        /\ v[2] = disk[v[1]].term => disk[v[1]].vote = v[3]
      BY <1>0 DEF Remembers
    <3>1. CASE v \in votes
      BY <1>0, <1>a, <2>1, <3>1 DEF Remembers, ReplicantTypeOK
    <3>2. CASE grant /\ v = <<r, m.term, m.src>>
      BY <1>0, <1>a, <1>c, <2>2, <3>2 DEF ReplicantTypeOK
    <3>3. QED
      BY <1>0, <3>1, <3>2
  <2>4. OneVote'
    BY <1>0, <1>c, <2>1 DEF OneVote
  <2>5. QED
    BY <2>3, <2>4
<1>6. Logged'
  <2>1. term = disk[r].term => vote = disk[r].vote
    <3>1. CASE m.term > m_current_term[r]
      BY <1>0, <1>a, <3>1 DEF Logged, ReplicantTypeOK, term, TermAfter
    <3>2. CASE ~(m.term > m_current_term[r])
      BY <1>0, <1>a, <1>c, <1>d, <3>2 DEF Logged, ReplicantTypeOK, term, TermAfter, VoteAfter
    <3>3. QED
      BY <3>1, <3>2
  <2>2. QED
    BY <1>0, <1>a, <2>1 DEF Logged, ReplicantTypeOK
<1>7. Stood'
  BY <1>0 DEF Stood, Requested
<1>8. QED
  BY <1>1, <1>2, <1>3, <1>4, <1>5, <1>6, <1>7

(* A candidate counts a vote that was cast for it; with a quorum it leads. *)
LEMMA ReplyIInv ==
  ASSUME IInv, NEW m \in msgs, ReceiveRequestVoteReply(m)
  PROVE  IInv'
<1> USE DEF IInv
<1> DEFINE r == m.dst
           granted == m_votes_granted[r] \cup (IF m.granted THEN {m.src} ELSE {})
<1>0. /\ r \in Replicas /\ m.src \in Replicas
      /\ m_role[r] = "candidate" /\ m.term = m_current_term[r] /\ m.term \in Nat
      /\ m_votes_granted' = [m_votes_granted EXCEPT ![r] = granted]
      /\ m_votes_responded' = [m_votes_responded EXCEPT ![r] = @ \cup {m.src}]
      /\ UNCHANGED <<m_current_term, m_voted_for, disk, msgs, restarts, votes, forgotten>>
      /\ \/ m_role' = m_role /\ leaders' = leaders
         \/ /\ Quorum(granted)
            /\ m_role' = [m_role EXCEPT ![r] = "leader"]
            /\ leaders' = leaders \cup {<<m.term, r>>}
  BY MessageType DEF ReceiveRequestVoteReply, ElectionInProgress
<1>1. granted \in SUBSET Replicas /\ \A v \in granted : <<v, m.term, r>> \in votes
  BY <1>0, MessageType DEF ReceiveRequestVoteReply, Requested, Counted, ReplicantTypeOK
<1> HIDE DEF granted, r
<1>2. ReplicantTypeOK'
  BY <1>0, <1>1 DEF ReplicantTypeOK
<1>3. Requested' /\ Remembers' /\ Logged' /\ Stood' /\ OneVote'
  BY <1>0 DEF Requested, Remembers, Logged, Stood, OneVote
<1>4. Counted'
  BY <1>0, <1>1 DEF Counted, ReplicantTypeOK
<1>5. Elected'
  <2> SUFFICES ASSUME NEW p \in leaders', p \notin leaders
               PROVE  \E Q \in SUBSET Replicas :
                        Quorum(Q) /\ \A v \in Q : <<v, p[1], p[2]>> \in votes
    BY <1>0 DEF Elected
  <2>1. Quorum(granted) /\ p = <<m.term, r>>
    BY <1>0
  <2>2. QED
    BY <1>1, <2>1
<1>6. QED
  BY <1>2, <1>3, <1>4, <1>5

(* A newer term only moves the replica past the votes it remembers. *)
LEMMA NewerTermIInv ==
  ASSUME IInv, NEW m \in msgs, ReceiveNewerTerm(m)
  PROVE  IInv'
<1> USE DEF IInv
<1> DEFINE r == m.dst
<1>0. /\ r \in Replicas /\ m.term \in Nat /\ m.term > m_current_term[r]
      /\ m_current_term' = [m_current_term EXCEPT ![r] = m.term]
      /\ m_role' = [m_role EXCEPT ![r] = "follower"]
      /\ m_voted_for' = [m_voted_for EXCEPT ![r] = 0]
      /\ UNCHANGED <<m_votes_responded, m_votes_granted, disk, msgs, restarts, votes,
                     forgotten, leaders>>
  BY MessageType DEF ReceiveNewerTerm, UpdateTerm, TermAfter, VoteAfter
<1> HIDE DEF r
<1>1. ReplicantTypeOK'
  BY <1>0 DEF ReplicantTypeOK
<1>2. Requested' /\ Elected' /\ Stood' /\ OneVote'
  BY <1>0 DEF Requested, Elected, Stood, OneVote
<1>3. Counted'
  BY <1>0 DEF Counted, ReplicantTypeOK
<1>4. Remembers'
  BY <1>0 DEF Remembers, ReplicantTypeOK
<1>5. Logged'
  BY <1>0 DEF Logged, ReplicantTypeOK
<1>6. QED
  BY <1>1, <1>2, <1>3, <1>4, <1>5

LEMMA ReplicantNextIInv == IInv /\ [ReplicantNext]_replicantvars => IInv'
<1> SUFFICES ASSUME IInv, [ReplicantNext]_replicantvars PROVE IInv'
  OBVIOUS
<1>1. ASSUME NEW r \in Replicas, Restart(r) PROVE IInv'
  BY <1>1, RestartIInv
<1>2. ASSUME NEW r \in Replicas, OnElectionTimeout(r) PROVE IInv'
  BY <1>2, TimeoutIInv
<1>3. ASSUME NEW r \in Replicas, SendRequestVoteMessages(r) \/ SendAppendEntries(r)
      PROVE  IInv'
  BY <1>3, SendIInv
<1>4. ASSUME NEW m \in msgs, ReceiveRequestVote(m) PROVE IInv'
  BY <1>4, RequestVoteIInv
<1>5. ASSUME NEW m \in msgs, ReceiveRequestVoteReply(m) PROVE IInv'
  BY <1>5, ReplyIInv
<1>6. ASSUME NEW m \in msgs, ReceiveNewerTerm(m) PROVE IInv'
  BY <1>6, NewerTermIInv
<1>7. CASE UNCHANGED replicantvars
  BY <1>7 DEF IInv, replicantvars, member, ReplicantTypeOK, Requested, Counted, Elected, Remembers, Logged,
              Stood, OneVote
<1>8. QED
  BY <1>1, <1>2, <1>3, <1>4, <1>5, <1>6, <1>7 DEF ReplicantNext

(* The inductive invariant holds in every behaviour of the election. *)
THEOREM InductiveInvariant == ReplicantSpec => []IInv
<1>1. ReplicantInit => IInv
  BY ReplicantInitIInv
<1>2. IInv /\ [ReplicantNext]_replicantvars => IInv'
  BY ReplicantNextIInv
<1>3. QED
  BY <1>1, <1>2, PTL DEF ReplicantSpec

(* Members, messages and histories keep their types. *)
THEOREM ReplicantTypeCorrect == ReplicantSpec => []ReplicantTypeOK
<1>1. IInv => ReplicantTypeOK
  BY DEF IInv
<1>2. QED
  BY <1>1, InductiveInvariant, PTL

(* Two leaders of a term share a voter, who has then voted twice and so    *)
(* lost the term at a restart in between.                                  *)
THEOREM OneLeaderPerTerm == ReplicantSpec => []ElectionSafety
<1>1. IInv => ElectionSafety
  <2> SUFFICES ASSUME IInv, NEW p \in leaders, NEW q \in leaders, p[1] = q[1], p[2] # q[2]
               PROVE  \E r \in Replicas : /\ <<r, p[1]>> \in forgotten
                                          /\ <<r, p[1], p[2]>> \in votes
                                          /\ <<r, q[1], q[2]>> \in votes
    BY DEF ElectionSafety
  <2>1. PICK P \in SUBSET Replicas : Quorum(P) /\ \A v \in P : <<v, p[1], p[2]>> \in votes
    BY DEF IInv, Elected
  <2>2. PICK Q \in SUBSET Replicas : Quorum(Q) /\ \A v \in Q : <<v, q[1], q[2]>> \in votes
    BY DEF IInv, Elected
  <2>3. PICK r \in P : r \in Q
    BY <2>1, <2>2, QuorumsMeet
  <2>4. <<r, p[1], p[2]>> \in votes /\ <<r, q[1], q[2]>> \in votes
    BY <2>1, <2>2, <2>3
  <2>5. <<r, p[1]>> \in forgotten
    BY <2>4 DEF IInv, OneVote
  <2>6. QED
    BY <2>1, <2>3, <2>4, <2>5
<1>2. QED
  BY <1>1, InductiveInvariant, PTL

(* A candidacy is in the log, so it outlives every restart: no later vote  *)
(* of the term goes to another.                                            *)
THEOREM CandidacyDurable == ReplicantSpec => CandidacyIsDurable
<1> DEFINE Durable == \A v \in votes' \ votes : <<v[1], v[2], v[1]>> \in votes => v[3] = v[1]
<1>1. IInv /\ [ReplicantNext]_replicantvars => [Durable]_replicantvars
  <2> SUFFICES ASSUME IInv, ReplicantNext PROVE Durable
    OBVIOUS
  <2>1. ASSUME NEW r \in Replicas, OnElectionTimeout(r) PROVE Durable
    BY <2>1 DEF OnElectionTimeout
  <2>2. ASSUME NEW m \in msgs, ReceiveRequestVote(m) PROVE Durable
    <3> SUFFICES ASSUME Grant(m.dst, m), <<m.dst, m.term, m.dst>> \in votes
                 PROVE  m.src = m.dst
      BY <2>2 DEF ReceiveRequestVote
    <3>1. m.dst \in Replicas /\ m.src \in Replicas /\ m.term \in Nat /\ m.term >= 2
      BY <2>2, MessageType DEF IInv, Requested, ReceiveRequestVote
    <3>2. m.term <= disk[m.dst].term
      BY DEF IInv, Stood
    <3>3. m.term >= m_current_term[m.dst] /\ m_current_term[m.dst] \in Nat
      BY <3>1 DEF Grant, TermAfter, IInv, ReplicantTypeOK
    <3>a. /\ disk[m.dst].term \in Nat /\ disk[m.dst].term <= m_current_term[m.dst]
          /\ m_current_term[m.dst] = disk[m.dst].term => m_voted_for[m.dst] = disk[m.dst].vote
          /\ disk[m.dst].vote \in {0, m.dst}
          /\ disk[m.dst].vote = 0 => disk[m.dst].term = 1
      BY <3>1 DEF IInv, Logged, ReplicantTypeOK
    <3>4. m.term = m_current_term[m.dst] /\ m.term = disk[m.dst].term
      BY <3>1, <3>2, <3>3, <3>a
    <3>5. m_voted_for[m.dst] = m.dst
      BY <3>1, <3>4, <3>a
    <3>6. QED
      BY <3>1, <3>3, <3>4, <3>5, ReplicantAssumption DEF Grant, VoteAfter
  <2>3. ASSUME votes' = votes PROVE Durable
    BY <2>3
  <2>4. QED
    BY <2>1, <2>2, <2>3 DEF ReplicantNext, Restart, SendRequestVoteMessages, SendAppendEntries,
                            ReceiveRequestVoteReply, ReceiveNewerTerm
<1>2. QED
  BY <1>1, InductiveInvariant, PTL DEF ReplicantSpec, CandidacyIsDurable
=============================================================================

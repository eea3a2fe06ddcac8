--------------------------- MODULE PromiseProofs ---------------------------
(***************************************************************************)
(* For any number of inputs, any combinator, any values and errors, and    *)
(* any number of handlers: what Promise states of promise.h.               *)
(*                                                                         *)
(* Every promise but the last goes through three stages: its lambdas are   *)
(* hung on it, its outcome is settled, its lambda fires; the first two in  *)
(* either order and, since all runs on one call stack, never interrupted   *)
(* by anything but what the call itself calls. Hung and Fired are read off *)
(* the stack. Base says what may lie on the stack and what each promise    *)
(* holds at each stage. On top of it, Combined relates the shared count    *)
(* and result of a combinator to the inputs that have fired, Linked the    *)
(* end of the chain to the promises it comes from, Handled the value of    *)
(* the last promise to the handlers that have been called, and Finalised   *)
(* its finally handler to what is left on the stack.                       *)
(***************************************************************************)
EXTENDS Promise, FiniteSets, SequenceTheorems, FiniteSetTheorems, TLAPS

-----------------------------------------------------------------------------
(* The call stack.                                                         *)

\* The items of a list, those behind its head, and what todo may hold.
ItemsOf(s) == {s[k] : k \in 1..Len(s)}
RestOf(s) == {s[k] : k \in 2..Len(s)}
ItemTypes ==
  [op : {"final"}, p : Promises]
    \cup [op : {"settle", "end"}, p : Promises, out : Outcomes]
    \cup [op : {"call"}, p : Promises, cb : Callbacks, out : Outcomes]
    \cup [op : {"then"}, p : Promises, res : Callbacks, rej : Callbacks]

\* No call of then is to be done twice.
Unique(s) == \A k, l \in 1..Len(s) : s[k] = s[l] /\ s[k].op = "then" => k = l

\* A call returns: its item is dropped.
LEMMA Popped ==
  ASSUME NEW S, NEW s \in Seq(S), s # <<>>, NEW t, t = Tail(s)
  PROVE  /\ t \in Seq(S)
         /\ s[1] = Head(s)
         /\ ItemsOf(t) = RestOf(s)
         /\ ItemsOf(s) = {s[1]} \cup RestOf(s)
         /\ t # <<>> => t[1] \in RestOf(s)
         /\ RestOf(t) \subseteq RestOf(s)
         /\ Unique(s) => Unique(t) /\ (s[1].op = "then" => s[1] \notin RestOf(s))
<1>1. t \in Seq(S) /\ Len(t) = Len(s) - 1 /\ Len(s) \in Nat /\ Len(s) >= 1
  OBVIOUS
<1>2. \A k \in 1..Len(t) : t[k] = s[k + 1]
  OBVIOUS
<1>3. \A k \in 2..Len(s) : k - 1 \in 1..Len(t) /\ s[k] = t[k - 1]
  BY <1>1, <1>2
<1>4. ItemsOf(t) = RestOf(s)
  <2>1. \A k \in 1..Len(t) : k + 1 \in 2..Len(s)
    BY <1>1
  <2>2. QED
    BY <1>2, <1>3, <2>1 DEF ItemsOf, RestOf
<1>5. ItemsOf(s) = {s[1]} \cup RestOf(s)
  <2>1. 1..Len(s) = {1} \cup 2..Len(s)
    BY <1>1
  <2>2. QED
    BY <2>1 DEF ItemsOf, RestOf
<1>6. t # <<>> => t[1] \in RestOf(s)
  <2>1. t # <<>> => 1 \in 1..Len(t)
    BY <1>1
  <2>2. QED
    BY <1>4, <2>1 DEF ItemsOf
<1>7. RestOf(t) \subseteq RestOf(s)
  <2>1. 2..Len(t) \subseteq 1..Len(t)
    BY <1>1
  <2>2. RestOf(t) \subseteq ItemsOf(t)
    BY <2>1 DEF ItemsOf, RestOf
  <2>3. QED
    BY <1>4, <2>2
<1>8. ASSUME Unique(s) PROVE Unique(t)
  <2>1. SUFFICES ASSUME NEW k \in 1..Len(t), NEW l \in 1..Len(t), t[k] = t[l], t[k].op = "then"
                 PROVE  k = l
    BY DEF Unique
  <2>2. k + 1 \in 1..Len(s) /\ l + 1 \in 1..Len(s)
    BY <1>1
  <2>3. s[k + 1] = s[l + 1] /\ s[k + 1].op = "then"
    BY <1>2, <2>1
  <2>4. k + 1 = l + 1
    BY <1>8, <2>2, <2>3 DEF Unique
  <2>5. QED
    BY <2>4
<1>9. ASSUME Unique(s), s[1].op = "then" PROVE s[1] \notin RestOf(s)
  <2>1. SUFFICES ASSUME NEW k \in 2..Len(s), s[k] = s[1] PROVE FALSE
    BY DEF RestOf
  <2>2. k \in 1..Len(s) /\ 1 \in 1..Len(s)
    BY <1>1
  <2>3. QED
    BY <1>9, <2>1, <2>2 DEF Unique
<1>10. s[1] = Head(s)
  OBVIOUS
<1>11. QED
  BY <1>1, <1>4, <1>5, <1>6, <1>7, <1>8, <1>9, <1>10

\* A call is replaced by what it calls.
LEMMA Replaced ==
  ASSUME NEW S, NEW s \in Seq(S), s # <<>>, NEW a \in S, NEW t, t = <<a>> \o Tail(s)
  PROVE  /\ t \in Seq(S) /\ t # <<>>
         /\ t[1] = a
         /\ RestOf(t) = RestOf(s)
         /\ Unique(s) /\ (a.op = "then" => a \notin RestOf(s)) => Unique(t)
<1>1. t \in Seq(S) /\ t # <<>> /\ t[1] = a /\ Len(t) = Len(s) /\ Len(s) \in Nat
  OBVIOUS
<1>2. \A k \in 2..Len(s) : t[k] = s[k]
  OBVIOUS
<1>3. RestOf(t) = RestOf(s)
  BY <1>1, <1>2 DEF RestOf
<1>4. ASSUME Unique(s), a.op = "then" => a \notin RestOf(s) PROVE Unique(t)
  <2>1. SUFFICES ASSUME NEW k \in 1..Len(t), NEW l \in 1..Len(t), t[k] = t[l], t[k].op = "then"
                 PROVE  k = l
    BY DEF Unique
  <2>2. k = 1 \/ k \in 2..Len(s)
    BY <1>1
  <2>3. l = 1 \/ l \in 2..Len(s)
    BY <1>1
  <2>4. CASE k = 1 /\ l \in 2..Len(s)
    BY <1>1, <1>2, <1>4, <2>1, <2>4 DEF RestOf
  <2>5. CASE l = 1 /\ k \in 2..Len(s)
    BY <1>1, <1>2, <1>4, <2>1, <2>5 DEF RestOf
  <2>6. CASE k \in 2..Len(s) /\ l \in 2..Len(s)
    <3>1. k \in 1..Len(s) /\ l \in 1..Len(s) /\ s[k] = s[l] /\ s[k].op = "then"
      BY <1>1, <1>2, <2>1, <2>6
    <3>2. QED
      BY <1>4, <3>1 DEF Unique
  <2>7. QED
    BY <2>2, <2>3, <2>4, <2>5, <2>6
<1>5. QED
  BY <1>1, <1>3, <1>4

\* t is s with two items in the place of its head.
Longer(t, s, a, b) ==
  Len(t) = Len(s) + 1 /\ t[1] = a /\ t[2] = b /\ \A k \in 3..Len(t) : t[k] = s[k - 1]

\* ... and by what is done behind it.
LEMMA Expanded ==
  ASSUME NEW S, NEW s \in Seq(S), s # <<>>, NEW a \in S, NEW b \in S, NEW t \in Seq(S), Longer(t, s, a, b)
  PROVE  /\ t # <<>>
         /\ RestOf(t) = {b} \cup RestOf(s)
         /\ Unique(s) /\ a.op # "then" /\ (b.op = "then" => b \notin RestOf(s)) => Unique(t)
<1>1. t \in Seq(S) /\ t # <<>> /\ t[1] = a /\ t[2] = b /\ Len(t) = Len(s) + 1 /\ Len(s) \in Nat /\ Len(s) >= 1
  BY DEF Longer
<1>2. \A k \in 3..Len(t) : t[k] = s[k - 1]
  BY DEF Longer
<1>3. RestOf(t) = {b} \cup RestOf(s)
  <2>1. \A k \in 3..Len(t) : k - 1 \in 2..Len(s) /\ t[k] = s[k - 1]
    BY <1>1, <1>2
  <2>2. \A k \in 2..Len(s) : k + 1 \in 3..Len(t) /\ t[k + 1] = s[k]
    BY <1>1, <1>2
  <2>3. \A k \in 3..Len(t) : t[k] \in RestOf(s)
    BY <2>1 DEF RestOf
  <2>4. 2..Len(t) = {2} \cup 3..Len(t)
    BY <1>1
  <2>5. RestOf(t) \subseteq {b} \cup RestOf(s)
    BY <1>1, <2>3, <2>4 DEF RestOf
  <2>6. RestOf(s) \subseteq RestOf(t)
    <3>1. SUFFICES ASSUME NEW k \in 2..Len(s) PROVE s[k] \in RestOf(t)
      BY DEF RestOf
    <3>2. k + 1 \in 2..Len(t) /\ t[k + 1] = s[k]
      BY <1>1, <2>2
    <3>3. QED
      BY <3>2 DEF RestOf
  <2>7. b \in RestOf(t)
    <3>1. 2 \in 2..Len(t)
      BY <1>1
    <3>2. QED
      BY <1>1, <3>1 DEF RestOf
  <2>8. QED
    BY <2>5, <2>6, <2>7
<1>4. ASSUME Unique(s), a.op # "then", b.op = "then" => b \notin RestOf(s) PROVE Unique(t)
  <2>1. SUFFICES ASSUME NEW k \in 1..Len(t), NEW l \in 1..Len(t), t[k] = t[l], t[k].op = "then"
                 PROVE  k = l
    BY DEF Unique
  <2>2. k = 2 \/ k \in 3..Len(t)
    BY <1>1, <1>4, <2>1
  <2>3. l = 2 \/ l \in 3..Len(t)
    BY <1>1, <1>4, <2>1
  <2>4. \A j \in 3..Len(t) : j - 1 \in 2..Len(s) /\ t[j] = s[j - 1]
    BY <1>1, <1>2
  <2>5. \A j \in 3..Len(t) : t[j] \in RestOf(s)
    BY <2>4 DEF RestOf
  <2>6. CASE k = 2 /\ l \in 3..Len(t)
    BY <1>1, <1>4, <2>1, <2>5, <2>6
  <2>7. CASE l = 2 /\ k \in 3..Len(t)
    BY <1>1, <1>4, <2>1, <2>5, <2>7
  <2>8. CASE k \in 3..Len(t) /\ l \in 3..Len(t)
    <3>1. k - 1 \in 1..Len(s) /\ l - 1 \in 1..Len(s) /\ s[k - 1] = s[l - 1] /\ s[k - 1].op = "then"
      BY <1>1, <2>1, <2>4, <2>8
    <3>2. k - 1 = l - 1
      BY <1>4, <3>1 DEF Unique
    <3>3. QED
      BY <3>2
  <2>9. QED
    BY <2>2, <2>3, <2>6, <2>7, <2>8
<1>5. QED
  BY <1>1, <1>3, <1>4

\* The program calls: one item.
LEMMA Started ==
  ASSUME NEW S, NEW a \in S, NEW t, t = <<a>>
  PROVE  t \in Seq(S) /\ t # <<>> /\ t[1] = a /\ RestOf(t) = {} /\ Unique(t)
<1>1. t \in Seq(S) /\ t # <<>> /\ t[1] = a /\ Len(t) = 1
  OBVIOUS
<1>2. 2..1 = {}
  OBVIOUS
<1>3. \A k \in 1..1 : k = 1
  OBVIOUS
<1>4. QED
  BY <1>1, <1>2, <1>3 DEF RestOf, Unique

\* No call is in progress.
LEMMA NothingToDo ==
  ASSUME NEW s, s = <<>>
  PROVE  ItemsOf(s) = {} /\ RestOf(s) = {} /\ Unique(s)
<1>1. Len(s) = 0
  OBVIOUS
<1>2. 1..0 = {} /\ 2..0 = {}
  OBVIOUS
<1>3. QED
  BY <1>1, <1>2 DEF ItemsOf, RestOf, Unique

-----------------------------------------------------------------------------
(* The invariant.                                                          *)

\* The item being done, those behind it, and all.
Hd == todo[1]
Rest == RestOf(todo)
Items == ItemsOf(todo)
Heading(op, p) == ~Idle /\ Hd.op = op /\ Hd.p = p

\* Every promise but the last is given one pair of lambdas, once: Hang is that
\* call of then.
Single == 1..(N + 2)
Cb(p) == Lambda(IF p = Ret THEN "chain" ELSE IF p = Inner THEN "forward" ELSE "input")
Hang(p) == Then(p, Cb(p), Cb(p))

\* That call has been made by the program or by the chain's lambda.
Begun(p) ==
  IF p = Inner
    THEN /\ "next" \in built /\ Hang(Ret) \notin Items
         /\ Finished(Ret) /\ ~Heading("call", Ret) /\ outcome[Ret].st = "resolved"
  ELSE IF p = Ret THEN "next" \in built ELSE built # {}

\* The promises that have been given their lambdas, and those whose lambda has
\* run.
Hung == {p \in Single : Begun(p) /\ Hang(p) \notin Items}
Fired == {p \in Hung : Finished(p) /\ ~Heading("call", p)}

\* Only what is left of a call lies behind the head, no call of then twice and
\* none that has not begun. What follows a callback comes with a finished promise.
Left(x) == x.op \in {"end", "final"} \/ \E p \in Single : x = Hang(p)
Stack ==
  /\ \A x \in Rest : Left(x)
  /\ \A x \in Items : x.op = "end" => Finished(x.p)
  /\ \A p \in Single : Hang(p) \in Items => Begun(p)
  /\ Unique(todo)

-----------------------------------------------------------------------------
(* Items, outcomes and callbacks.                                          *)

\* The outcome of a finished promise.
LEMMA OutcomeFacts ==
  ASSUME NEW o \in Outcomes
  PROVE  /\ o # Pending
         /\ o.st = "resolved" \/ o.st = "rejected"
         /\ o.st = "resolved" => o = Resolved(o.val) /\ o.val \in Data
         /\ o.st = "rejected" => o = Rejected(o.err) /\ o.err \in AnyError
<1>1. Pending.st = "pending"
  BY DEF Pending
<1>2. o.st = "resolved" \/ o.st = "rejected"
  BY DEF Outcomes
<1>3. ASSUME o.st = "resolved" PROVE o = Resolved(o.val) /\ o.val \in Data
  BY <1>3 DEF Outcomes, Resolved
<1>4. ASSUME o.st = "rejected" PROVE o = Rejected(o.err) /\ o.err \in AnyError
  BY <1>4 DEF Outcomes, Rejected
<1>5. QED
  BY <1>1, <1>2, <1>3, <1>4

\* A promise has an outcome as soon as it is finished.
LEMMA FinishedFacts ==
  ASSUME TypeOK, NEW p \in Promises
  PROVE  /\ Finished(p) => outcome[p] \in Outcomes
         /\ outcome[p].st = "resolved" \/ outcome[p].st = "rejected" => Finished(p)
<1>1. Pending.st = "pending"
  BY DEF Pending
<1>2. QED
  BY <1>1 DEF TypeOK, Finished

\* What is in an item.
LEMMA ItemFacts ==
  ASSUME NEW x \in ItemTypes
  PROVE  /\ x.op \in {"settle", "end", "call", "then", "final"}
         /\ x.p \in Promises
         /\ x.op \in {"settle", "end", "call"} => x.out \in Outcomes
         /\ x.op = "call" => x.cb \in Callbacks
         /\ x.op = "then" => x.res \in Callbacks /\ x.rej \in Callbacks
         /\ x.op = "settle" => x = Settle(x.p, x.out)
         /\ x.op = "call" => x = Call(x.p, x.cb, x.out)
         /\ x.op = "then" => x = Then(x.p, x.res, x.rej)
<1>1. CASE x \in [op : {"final"}, p : Promises]
  BY <1>1
<1>2. CASE x \in [op : {"settle", "end"}, p : Promises, out : Outcomes]
  BY <1>2 DEF Settle
<1>3. CASE x \in [op : {"call"}, p : Promises, cb : Callbacks, out : Outcomes]
  BY <1>3 DEF Call
<1>4. CASE x \in [op : {"then"}, p : Promises, res : Callbacks, rej : Callbacks]
  BY <1>4 DEF Then
<1>5. QED
  BY <1>1, <1>2, <1>3, <1>4 DEF ItemTypes

\* The items that calls push.
LEMMA MadeItems ==
  /\ \A p \in Promises, o \in Outcomes :
       /\ Settle(p, o) \in ItemTypes /\ End(p, o) \in ItemTypes
       /\ Settle(p, o).op = "settle" /\ Settle(p, o).p = p /\ Settle(p, o).out = o
       /\ End(p, o).op = "end" /\ End(p, o).p = p
  /\ \A p \in Promises, c \in Callbacks, o \in Outcomes :
       /\ Call(p, c, o) \in ItemTypes
       /\ Call(p, c, o).op = "call" /\ Call(p, c, o).p = p
       /\ Call(p, c, o).cb = c /\ Call(p, c, o).out = o
  /\ \A p \in Promises :
       Final(p) \in ItemTypes /\ Final(p).op = "final" /\ Final(p).p = p
  /\ \A p \in Promises, c, d \in Callbacks :
       /\ Then(p, c, d) \in ItemTypes
       /\ Then(p, c, d).op = "then" /\ Then(p, c, d).p = p
       /\ Then(p, c, d).res = c /\ Then(p, c, d).rej = d
BY DEF Settle, End, Call, Final, Then, ItemTypes

\* The promises and their callbacks.
LEMMA PromiseNumbers ==
  /\ Promises = Single \cup {Chained}
  /\ Single = Inputs \cup {Ret, Inner}
  /\ Chained \notin Single
  /\ Ret \notin Inputs /\ Inner \notin Inputs /\ Ret # Inner /\ Ret # Chained /\ Inner # Chained
  /\ \A p \in Inputs : p # Ret /\ p # Inner /\ p # Chained
BY PromiseAssumption DEF Promises, Single, Inputs, Ret, Inner, Chained

\* The lambda of each promise.
LEMMA CbFacts ==
  /\ \A p \in Single : Cb(p) \in Callbacks /\ Cb(p) # None
  /\ \A p \in Inputs : Cb(p) = Lambda("input")
  /\ Cb(Ret) = Lambda("chain")
  /\ Cb(Inner) = Lambda("forward")
  /\ None \in Callbacks
  /\ \A k \in {"input", "chain", "forward"} : Lambda(k).kind = k
  /\ \A k \in Handlers : User(k) \in Callbacks /\ User(k) # None /\ User(k).kind = "user" /\ User(k).id = k
<1>1. \A k \in {"input", "chain", "forward"} : Lambda(k).kind = k /\ Lambda(k) \in Callbacks
  BY DEF Lambda, Callbacks
<1>2. \A k \in Handlers : User(k) \in Callbacks /\ User(k).kind = "user" /\ User(k).id = k
  BY DEF User, Callbacks
<1>3. None \in Callbacks /\ None.kind = "none"
  BY DEF None, Callbacks
<1>4. /\ \A p \in Inputs : Cb(p) = Lambda("input")
      /\ Cb(Ret) = Lambda("chain")
      /\ Cb(Inner) = Lambda("forward")
  BY PromiseNumbers DEF Cb
<1>5. \A p \in Single : Cb(p) \in Callbacks /\ Cb(p) # None
  <2>1. SUFFICES ASSUME NEW p \in Single PROVE Cb(p) \in Callbacks /\ Cb(p) # None
    OBVIOUS
  <2>2. PICK k \in {"input", "chain", "forward"} : Cb(p) = Lambda(k)
    BY <1>4, PromiseNumbers
  <2>3. QED
    BY <1>1, <1>3, <2>2
<1>6. \A k \in Handlers : User(k) # None
  BY <1>2, <1>3
<1>7. QED
  BY <1>1, <1>2, <1>3, <1>4, <1>5, <1>6

\* The calls of then that hang the lambdas.
LEMMA HangFacts ==
  ASSUME NEW p \in Single
  PROVE  /\ Hang(p) \in ItemTypes
         /\ Hang(p).op = "then" /\ Hang(p).p = p
         /\ Hang(p).res = Cb(p) /\ Hang(p).rej = Cb(p)
         /\ \A q \in Single : Hang(p) = Hang(q) => p = q
<1>1. \A q \in Single : q \in Promises /\ Cb(q) \in Callbacks
  BY CbFacts, PromiseNumbers
<1>2. \A q \in Single : Hang(q) \in ItemTypes /\ Hang(q).op = "then" /\ Hang(q).p = q
                          /\ Hang(q).res = Cb(q) /\ Hang(q).rej = Cb(q)
  BY <1>1, MadeItems DEF Hang
<1>3. QED
  BY <1>2

-----------------------------------------------------------------------------
(* What the steps do to the stack.                                         *)

\* TypeOK speaks of these items.
LEMMA TodoType ==
  ASSUME TypeOK
  PROVE  /\ todo \in Seq(ItemTypes)
         /\ ~Idle => Hd \in ItemTypes /\ Hd = Head(todo) /\ Items = {Hd} \cup Rest
         /\ Idle => Items = {} /\ Rest = {}
<1>1. todo \in Seq(ItemTypes)
  BY DEF TypeOK, ItemTypes
<1>2. ASSUME ~Idle PROVE Hd \in ItemTypes /\ Hd = Head(todo) /\ Items = {Hd} \cup Rest
  <2>1. Hd = Head(todo) /\ Items = {Hd} \cup Rest
    BY <1>1, <1>2, Popped DEF Idle, Hd, Items, Rest
  <2>2. Head(todo) \in ItemTypes
    BY <1>1, <1>2 DEF Idle
  <2>3. QED
    BY <2>1, <2>2
<1>3. Idle => Items = {} /\ Rest = {}
  BY NothingToDo DEF Idle, Items, Rest
<1>4. QED
  BY <1>1, <1>2, <1>3

\* A call returns.
LEMMA PopStep ==
  ASSUME TypeOK, Stack, ~Idle, todo' = Tail(todo)
  PROVE  /\ todo' \in Seq(ItemTypes) /\ Unique(todo')
         /\ Items' = Rest /\ Rest' \subseteq Rest
         /\ Hd.op = "then" => Hd \notin Rest
         /\ \A p : ~Heading("call", p)' /\ ~Heading("settle", p)'
         /\ \A p : Heading("then", p)' => p \in Single /\ Hd' = Hang(p)
<1>1. todo \in Seq(ItemTypes) /\ todo # <<>> /\ Unique(todo)
  BY TodoType DEF Idle, Stack
<1>2. /\ todo' \in Seq(ItemTypes) /\ Unique(todo')
      /\ ItemsOf(todo') = Rest /\ RestOf(todo') \subseteq Rest
      /\ todo' # <<>> => todo'[1] \in Rest
      /\ todo[1].op = "then" => todo[1] \notin RestOf(todo)
  BY <1>1, Popped DEF Rest
<1>3. Hd' = todo'[1] /\ Items' = ItemsOf(todo') /\ Rest' = RestOf(todo') /\ (Idle' <=> todo' = <<>>)
  BY DEF Hd, Items, Rest, Idle
<1>4. ASSUME ~Idle' PROVE Hd'.op \in {"end", "final"} \/ \E p \in Single : Hd' = Hang(p)
  BY <1>2, <1>3, <1>4 DEF Stack, Left
<1>5. \A p : ~Heading("call", p)' /\ ~Heading("settle", p)'
  BY <1>4, HangFacts DEF Heading
<1>6. \A p : Heading("then", p)' => p \in Single /\ Hd' = Hang(p)
  BY <1>4, HangFacts DEF Heading
<1>7. QED
  BY <1>2, <1>3, <1>5, <1>6 DEF Hd, Rest

\* A call goes on with another.
LEMMA ReplaceStep ==
  ASSUME TypeOK, Stack, ~Idle, NEW a \in ItemTypes, todo' = <<a>> \o Tail(todo)
  PROVE  /\ todo' \in Seq(ItemTypes) /\ ~Idle'
         /\ Hd' = a /\ Rest' = Rest /\ Items' = {a} \cup Rest
         /\ (a.op = "then" => a \notin Rest) => Unique(todo')
         /\ Hd.op = "then" => Hd \notin Rest
         /\ \A op, p : Heading(op, p)' <=> a.op = op /\ a.p = p
<1>1. todo \in Seq(ItemTypes) /\ todo # <<>> /\ Unique(todo)
  BY TodoType DEF Idle, Stack
<1>2. /\ todo' \in Seq(ItemTypes) /\ todo' # <<>> /\ todo'[1] = a /\ RestOf(todo') = RestOf(todo)
      /\ (a.op = "then" => a \notin RestOf(todo)) => Unique(todo')
  BY <1>1, Replaced
<1>3. ItemsOf(todo') = {todo'[1]} \cup RestOf(todo')
  BY <1>2, Popped
<1>4. todo[1].op = "then" => todo[1] \notin RestOf(todo)
  BY <1>1, Popped
<1>5. QED
  BY <1>2, <1>3, <1>4 DEF Hd, Items, Rest, Idle, Heading

\* The stack with two items in the place of its head.
LEMMA LongerStep ==
  ASSUME todo \in Seq(ItemTypes), todo # <<>>, Unique(todo), NEW a \in ItemTypes, NEW b \in ItemTypes,
         todo' \in Seq(ItemTypes), Longer(todo', todo, a, b)
  PROVE  /\ todo' # <<>> /\ todo'[1] = a /\ RestOf(todo') = {b} \cup RestOf(todo)
         /\ a.op # "then" /\ (b.op = "then" => b \notin RestOf(todo)) => Unique(todo')
<1>1. todo'[1] = a
  BY DEF Longer
<1>2. QED
  BY <1>1, Expanded

\* ... and leaves something behind it.
LEMMA ExpandStep ==
  ASSUME TypeOK, Stack, ~Idle, NEW a \in ItemTypes, NEW b \in ItemTypes, todo' = <<a, b>> \o Tail(todo)
  PROVE  /\ todo' \in Seq(ItemTypes) /\ ~Idle'
         /\ Hd' = a /\ Rest' = {b} \cup Rest /\ Items' = {a, b} \cup Rest
         /\ a.op # "then" /\ (b.op = "then" => b \notin Rest) => Unique(todo')
         /\ Hd.op = "then" => Hd \notin Rest
         /\ \A op, p : Heading(op, p)' <=> a.op = op /\ a.p = p
<1>1. todo \in Seq(ItemTypes) /\ todo # <<>> /\ Unique(todo)
  BY TodoType DEF Idle, Stack
<1>2. /\ todo' \in Seq(ItemTypes) /\ todo' # <<>> /\ todo'[1] = a /\ RestOf(todo') = {b} \cup RestOf(todo)
      /\ a.op # "then" /\ (b.op = "then" => b \notin RestOf(todo)) => Unique(todo')
  <2>1. todo' \in Seq(ItemTypes) /\ Longer(todo', todo, a, b)
    BY <1>1 DEF Longer
  <2>2. QED
    BY <1>1, <2>1, LongerStep
<1>3. ItemsOf(todo') = {todo'[1]} \cup RestOf(todo')
  BY <1>2, Popped
<1>4. todo[1].op = "then" => todo[1] \notin RestOf(todo)
  BY <1>1, Popped
<1>5. Items' = {a, b} \cup Rest
  BY <1>2, <1>3 DEF Items, Rest
<1>6. QED
  BY <1>2, <1>4, <1>5 DEF Hd, Rest, Idle, Heading

\* The program makes a call.
LEMMA StartStep ==
  ASSUME NEW a \in ItemTypes, todo' = <<a>>
  PROVE  /\ todo' \in Seq(ItemTypes) /\ ~Idle'
         /\ Hd' = a /\ Rest' = {} /\ Items' = {a} /\ Unique(todo')
         /\ \A op, p : Heading(op, p)' <=> a.op = op /\ a.p = p
<1>1. todo' \in Seq(ItemTypes) /\ todo' # <<>> /\ todo'[1] = a /\ RestOf(todo') = {} /\ Unique(todo')
  BY Started
<1>2. ItemsOf(todo') = {todo'[1]} \cup RestOf(todo')
  BY <1>1, Popped
<1>3. QED
  BY <1>1, <1>2 DEF Hd, Items, Rest, Idle, Heading

-----------------------------------------------------------------------------
(* What the promises own.                                                  *)

\* How the owners of inputs and of inner settle them, and what a timer says.
ProgramOutcomes == {Resolved(<<v>>) : v \in Values} \cup {Rejected(e) : e \in Errors}
Expired == Rejected(TimedOut)

\* Only the promises the program may call timeout on have a timer.
Timed == \A p \in Promises : timer[p] => p \in {Ret, Chained}

\* A promise other than the last is only given its own lambdas, and they are
\* called with its outcome.
ThenOwn == \A p \in Single : Heading("then", p) => Hd = Hang(p)
CallOwn == \A p \in Single : Heading("call", p) =>
             p \in Hung /\ Finished(p) /\ Hd.cb = Cb(p) /\ Hd.out = outcome[p]

\* Before that it has no callback and keeps its value; afterwards it has its
\* lambdas until it is finished.
Kept(p) ==
  /\ resolve[p] = None /\ reject[p] = None
  /\ outcome[p].st = "resolved" => val[p] = outcome[p].val
Waits(p) == Finished(p) \/ (resolve[p] = Cb(p) /\ reject[p] = Cb(p))
HungOwn == \A p \in Single : IF p \in Hung THEN Waits(p) ELSE Kept(p)

\* What the program settles with.
SettleOwn == \A p \in Inputs \cup {Inner} : Heading("settle", p) => Hd.out \in ProgramOutcomes
Ended == \A p \in Inputs \cup {Inner} : Finished(p) => outcome[p] \in ProgramOutcomes

Owned == Timed /\ ThenOwn /\ CallOwn /\ HungOwn /\ SettleOwn /\ Ended

Base == TypeOK /\ Stack /\ Owned

\* The steps of a step: hung and fired, when no lambda is hung and none returns.
LEMMA SameStages ==
  ASSUME built' = built,
         \A p \in Single : Hang(p) \in Items' <=> Hang(p) \in Items,
         \A p \in Hung : (Finished(p) /\ ~Heading("call", p)) <=> (Finished(p)' /\ ~Heading("call", p)'),
         Finished(Ret) => outcome'[Ret] = outcome[Ret]
  PROVE  /\ Hung' = Hung /\ Fired' = Fired
         /\ \A p \in Single : Begun(p)' <=> Begun(p)
<1>1. ASSUME NEW p \in Single, p # Inner PROVE Begun(p)' <=> Begun(p)
  BY <1>1 DEF Begun
<1>2. Ret \in Single /\ Ret # Inner
  BY PromiseNumbers
<1>3. Ret \in Hung <=> "next" \in built /\ Hang(Ret) \notin Items
  BY <1>2 DEF Hung, Begun
<1>4. "next" \in built' /\ Hang(Ret) \notin Items' <=> "next" \in built /\ Hang(Ret) \notin Items
  BY <1>2
<1>5. CASE Ret \notin Hung
  <2>1. ~Begun(Inner) /\ ~Begun(Inner)'
    BY <1>3, <1>4, <1>5 DEF Begun
  <2>2. \A p \in Single : Begun(p)' <=> Begun(p)
    BY <1>1, <2>1
  <2>3. Hung' = Hung
    BY <2>2 DEF Hung
  <2>4. QED
    BY <2>2, <2>3 DEF Fired
<1>6. CASE Ret \in Hung
  <2>1. (Finished(Ret) /\ ~Heading("call", Ret)) <=> (Finished(Ret)' /\ ~Heading("call", Ret)')
    BY <1>6
  <2>2. Begun(Inner)' <=> Begun(Inner)
    BY <1>3, <1>4, <1>6, <2>1 DEF Begun
  <2>3. \A p \in Single : Begun(p)' <=> Begun(p)
    BY <1>1, <2>2
  <2>4. Hung' = Hung
    BY <2>3 DEF Hung
  <2>5. QED
    BY <2>3, <2>4 DEF Fired
<1>7. QED
  BY <1>5, <1>6

\* A step that settles nothing, hangs no lambda and returns from none.
Quiet ==
  /\ outcome' = outcome /\ built' = built
  /\ \A p \in Single : Hang(p) \in Items' <=> Hang(p) \in Items
  /\ \A p \in Single : ~Heading("call", p) /\ ~Heading("call", p)'

\* Such a step leaves every promise at its stage.
LEMMA QuietStages ==
  ASSUME Quiet
  PROVE  Hung' = Hung /\ Fired' = Fired /\ \A p \in Single : Begun(p)' <=> Begun(p)
<1>1. \A p \in Hung : p \in Single
  BY DEF Hung
<1>2. \A p : Finished(p)' <=> Finished(p)
  BY DEF Quiet, Finished
<1>3. QED
  BY <1>1, <1>2, SameStages DEF Quiet

\* What it leaves on the stack, and in the slots, is all that matters.
LEMMA QuietBase ==
  ASSUME Base, Quiet, Timed', \A p \in Single : val'[p] = val[p],
         Unique(todo'),
         \A x \in Rest' : x \in Rest \/ Left(x),
         \A x \in Items' : x.op = "end" => Finished(x.p),
         \A p \in Single : Heading("then", p)' => Hd' = Hang(p),
         \A p \in Inputs \cup {Inner} : Heading("settle", p)' => Hd'.out \in ProgramOutcomes,
         \A p \in Single : /\ resolve'[p] \in {resolve[p], None} /\ reject'[p] \in {reject[p], None}
                           /\ Finished(p) \/ (resolve'[p] = resolve[p] /\ reject'[p] = reject[p])
  PROVE  Stack' /\ Owned'
<1>1. /\ Hung' = Hung /\ Fired' = Fired
      /\ \A p \in Single : Begun(p)' <=> Begun(p)
  BY QuietStages
<1>2. \A p : Finished(p)' <=> Finished(p)
  BY DEF Quiet, Finished
<1>3. Stack'
  <2>1. \A x \in Rest' : Left(x)
    BY DEF Base, Stack
  <2>2. \A x \in Items' : x.op = "end" => Finished(x.p)'
    BY <1>2
  <2>3. \A p \in Single : Hang(p) \in Items' => Begun(p)'
    BY <1>1 DEF Base, Stack, Quiet
  <2>4. QED
    BY <2>1, <2>2, <2>3 DEF Stack, Left
<1>4. ThenOwn' /\ SettleOwn'
  BY DEF ThenOwn, SettleOwn, ProgramOutcomes
<1>5. CallOwn'
  BY DEF CallOwn, Quiet
<1>6. HungOwn'
  <2>1. SUFFICES ASSUME NEW p \in Single PROVE IF p \in Hung' THEN Waits(p)' ELSE Kept(p)'
    BY DEF HungOwn
  <2>2. IF p \in Hung THEN Waits(p) ELSE Kept(p)
    BY DEF Base, Owned, HungOwn
  <2>3. CASE p \in Hung
    BY <1>1, <1>2, <2>2, <2>3 DEF Waits, Cb, Ret, Inner
  <2>4. CASE p \notin Hung
    BY <1>1, <2>2, <2>4 DEF Kept, Quiet
  <2>5. QED
    BY <2>3, <2>4
<1>7. Ended'
  BY <1>2 DEF Base, Owned, Ended, Quiet, ProgramOutcomes
<1>8. QED
  BY <1>3, <1>4, <1>5, <1>6, <1>7 DEF Owned

-----------------------------------------------------------------------------
(* Steps that settle nothing, hang nothing and return from no lambda.      *)

\* The call that is done next.
LEMMA DoingHead ==
  ASSUME TypeOK, NEW op, Doing(op)
  PROVE  /\ ~Idle /\ Hd = Head(todo) /\ Hd.op = op /\ Hd \in ItemTypes /\ Items = {Hd} \cup Rest
         /\ \A q, p : Heading(q, p) <=> q = op /\ p = Hd.p
<1>1. ~Idle /\ Head(todo).op = op
  BY DEF Doing, Idle
<1>2. Hd \in ItemTypes /\ Hd = Head(todo) /\ Items = {Hd} \cup Rest
  BY <1>1, TodoType
<1>3. QED
  BY <1>1, <1>2 DEF Heading

\* What follows a callback.
LEMMA EndBase ==
  ASSUME Base, DoEnd
  PROVE  Base' /\ Quiet
<1> DEFINE p == Hd.p
           f == Final(p)
<1>0. TypeOK /\ Stack /\ Owned
  BY DEF Base
<1>1. /\ ~Idle /\ Hd = Head(todo) /\ Hd.op = "end" /\ Hd \in ItemTypes /\ Items = {Hd} \cup Rest
      /\ \A q, r : Heading(q, r) <=> q = "end" /\ r = Hd.p
  BY <1>0, DoingHead DEF DoEnd
<1>2. p \in Promises /\ Finished(p)
  BY <1>0, <1>1, ItemFacts DEF Stack
<1>3. f \in ItemTypes /\ f.op = "final" /\ f.p = p
  BY <1>2, MadeItems
<1>4. /\ UNCHANGED <<kind, isVoid, outcome, val, finally, timer, count, result, built,
                     thens, got, late, finals>>
      /\ todo' = <<f>> \o Tail(todo)
      /\ \/ reject' = [reject EXCEPT ![p] = None] /\ resolve' = resolve
         \/ resolve' = [resolve EXCEPT ![p] = None] /\ reject' = reject
  BY <1>1 DEF DoEnd, program, shared, history
<1> HIDE DEF f, p
<1>5. /\ todo' \in Seq(ItemTypes) /\ ~Idle'
      /\ Hd' = f /\ Rest' = Rest /\ Items' = {f} \cup Rest /\ Unique(todo')
      /\ \A q, r : Heading(q, r)' <=> f.op = q /\ f.p = r
  BY <1>0, <1>1, <1>3, <1>4, ReplaceStep
<1>6. TypeOK'
  <2>1. resolve' \in [Promises -> Callbacks] /\ reject' \in [Promises -> Callbacks]
    <3>1. resolve \in [Promises -> Callbacks] /\ reject \in [Promises -> Callbacks]
      BY <1>0 DEF TypeOK
    <3>2. p \in Promises /\ None \in Callbacks
      BY <1>2, CbFacts
    <3>3. QED
      BY <1>4, <3>1, <3>2
  <2>2. QED
    BY <1>0, <1>4, <1>5, <2>1 DEF TypeOK, ItemTypes
<1>7. \A r \in Single : Hang(r) \in Items' <=> Hang(r) \in Items
  BY <1>1, <1>3, <1>5, HangFacts
<1>8. Quiet
  BY <1>1, <1>3, <1>4, <1>5, <1>7 DEF Quiet
<1>9. \A r \in Single : /\ resolve'[r] \in {resolve[r], None} /\ reject'[r] \in {reject[r], None}
                        /\ Finished(r) \/ (resolve'[r] = resolve[r] /\ reject'[r] = reject[r])
  <2>1. SUFFICES ASSUME NEW r \in Single
                 PROVE  /\ resolve'[r] \in {resolve[r], None} /\ reject'[r] \in {reject[r], None}
                        /\ Finished(r) \/ (resolve'[r] = resolve[r] /\ reject'[r] = reject[r])
    OBVIOUS
  <2>2. r \in Promises /\ resolve \in [Promises -> Callbacks] /\ reject \in [Promises -> Callbacks]
    BY <1>0, PromiseNumbers DEF TypeOK
  <2>3. CASE r = p
    BY <1>2, <1>4, <2>2, <2>3
  <2>4. CASE r # p
    BY <1>4, <2>2, <2>4
  <2>5. QED
    BY <2>3, <2>4
<1>10. Timed'
  BY <1>0, <1>4 DEF Owned, Timed
<1>11. \A x \in Items' : x.op = "end" => Finished(x.p)
  BY <1>0, <1>1, <1>3, <1>5 DEF Stack
<1>12. Stack' /\ Owned'
  BY <1>3, <1>4, <1>5, <1>8, <1>9, <1>10, <1>11, QuietBase
<1>13. QED
  BY <1>6, <1>8, <1>12 DEF Base

\* A step that only drops the head, which is not a call of then or of a lambda.
LEMMA PopBase ==
  ASSUME Base, TypeOK', ~Idle, todo' = Tail(todo), UNCHANGED <<outcome, built, val, resolve, reject, timer>>,
         Hd.op # "then", \A p \in Single : ~Heading("call", p)
  PROVE  Base' /\ Quiet
<1>0. TypeOK /\ Stack /\ Owned
  BY DEF Base
<1>1. Items = {Hd} \cup Rest /\ Hd \in ItemTypes
  BY <1>0, TodoType
<1>2. /\ todo' \in Seq(ItemTypes) /\ Unique(todo')
      /\ Items' = Rest /\ Rest' \subseteq Rest
      /\ \A p : ~Heading("call", p)' /\ ~Heading("settle", p)'
      /\ \A p : Heading("then", p)' => p \in Single /\ Hd' = Hang(p)
  BY <1>0, PopStep
<1>3. \A r \in Single : Hang(r) \in Items' <=> Hang(r) \in Items
  BY <1>1, <1>2, HangFacts
<1>4. Quiet
  BY <1>2, <1>3 DEF Quiet
<1>5. Timed'
  BY <1>0 DEF Owned, Timed
<1>6. \A x \in Items' : x.op = "end" => Finished(x.p)
  BY <1>0, <1>1, <1>2 DEF Stack
<1>7. Stack' /\ Owned'
  BY <1>2, <1>4, <1>5, <1>6, QuietBase
<1>8. QED
  BY <1>4, <1>7 DEF Base

\* The finally handler.
LEMMA FinalBase ==
  ASSUME Base, DoFinal
  PROVE  Base' /\ Quiet
<1>0. TypeOK
  BY DEF Base
<1>1. /\ ~Idle /\ Hd = Head(todo) /\ Hd.op = "final" /\ Hd \in ItemTypes
      /\ \A q, r : Heading(q, r) <=> q = "final" /\ r = Hd.p
  BY <1>0, DoingHead DEF DoFinal
<1>2. Hd.p \in Promises
  BY <1>1, ItemFacts
<1>3. /\ UNCHANGED <<kind, isVoid, outcome, val, resolve, reject, timer, count, result,
                     built, thens, got, late>>
      /\ todo' = Tail(todo)
      /\ finally' = [finally EXCEPT ![Hd.p] = FALSE]
      /\ finals' \in {<<finals[1], finals[2] + 1>>, finals}
  BY <1>1 DEF DoFinal, program, shared
<1>4. todo' \in Seq(ItemTypes)
  BY <1>0, <1>1, <1>3, PopStep DEF Base
<1>5. finally' \in [Promises -> BOOLEAN]
  BY <1>0, <1>2, <1>3 DEF TypeOK
<1>6. finals' \in Nat \X Nat
  BY <1>0, <1>3 DEF TypeOK
<1>7. TypeOK'
  BY <1>0, <1>3, <1>4, <1>5, <1>6 DEF TypeOK, ItemTypes
<1>8. QED
  BY <1>1, <1>3, <1>7, PopBase

\* A handler of the program is one of the last promise.
LEMMA UserHead ==
  ASSUME Base, CallUser
  PROVE  /\ ~Idle /\ Hd = Head(todo) /\ Hd.op = "call" /\ Hd.p = Chained
         /\ Hd.cb.id \in Handlers /\ Hd.cb = User(Hd.cb.id) /\ Hd.out \in Outcomes
         /\ \A q, r : Heading(q, r) <=> q = "call" /\ r = Chained
<1>0. TypeOK /\ Owned
  BY DEF Base
<1>1. /\ ~Idle /\ Hd = Head(todo) /\ Hd.op = "call" /\ Hd \in ItemTypes /\ Hd.cb.kind = "user"
      /\ \A q, r : Heading(q, r) <=> q = "call" /\ r = Hd.p
  BY <1>0, DoingHead DEF CallUser
<1>2. Hd.p \in Promises /\ Hd.cb \in Callbacks /\ Hd.out \in Outcomes
  BY <1>1, ItemFacts
<1>3. Hd.cb.id \in Handlers /\ Hd.cb = User(Hd.cb.id)
  <2>1. PICK k \in Handlers : Hd.cb = User(k)
    BY <1>1, <1>2 DEF Callbacks, None, Lambda
  <2>2. QED
    BY <2>1, CbFacts
<1>4. ASSUME Hd.p \in Single PROVE FALSE
  <2>1. Hd.cb = Cb(Hd.p)
    BY <1>0, <1>1, <1>4 DEF Owned, CallOwn
  <2>2. Cb(Hd.p).kind \in {"input", "chain", "forward"}
    BY <1>4, CbFacts, PromiseNumbers
  <2>3. QED
    BY <1>1, <2>1, <2>2
<1>5. Hd.p = Chained
  BY <1>2, <1>4, PromiseNumbers
<1>6. QED
  BY <1>1, <1>2, <1>3, <1>5

\* A handler of the program runs.
LEMMA UserBase ==
  ASSUME Base, CallUser
  PROVE  Base' /\ Quiet
<1>0. TypeOK
  BY DEF Base
<1>1. /\ ~Idle /\ Hd = Head(todo) /\ Hd.op = "call" /\ Hd.p = Chained
      /\ Hd.cb.id \in Handlers /\ Hd.out \in Outcomes
      /\ \A q, r : Heading(q, r) <=> q = "call" /\ r = Chained
  BY UserHead
<1>2. /\ UNCHANGED <<kind, isVoid, outcome, val, resolve, reject, finally, timer, count,
                     result, built, thens, late, finals>>
      /\ todo' = Tail(todo)
      /\ got' = [got EXCEPT ![Hd.cb.id] = Append(@, Hd.out)]
  BY <1>1 DEF CallUser, program, slots, shared
<1>3. todo' \in Seq(ItemTypes)
  BY <1>0, <1>1, <1>2, PopStep DEF Base
<1>4. got' \in [Handlers -> Seq(Outcomes)]
  <2>1. got \in [Handlers -> Seq(Outcomes)]
    BY <1>0 DEF TypeOK
  <2>2. Append(got[Hd.cb.id], Hd.out) \in Seq(Outcomes)
    BY <1>1, <2>1
  <2>3. QED
    BY <1>1, <1>2, <2>1, <2>2
<1>5. TypeOK'
  BY <1>0, <1>2, <1>3, <1>4 DEF TypeOK, ItemTypes
<1>6. QED
  BY <1>1, <1>2, <1>5, PopBase, PromiseNumbers

\* A call that the program makes is no call of a lambda and hangs none.
LEMMA StartBase ==
  ASSUME Base, Idle, TypeOK', UNCHANGED <<outcome, built, val>>, Timed',
         \A p \in Single : resolve'[p] = resolve[p] /\ reject'[p] = reject[p],
         NEW a \in ItemTypes, todo' = <<a>> \/ todo' = <<>>,
         a.op \in {"settle", "then", "call"}, a.op \in {"then", "call"} => a.p = Chained,
         a.op = "settle" /\ a.p \in Inputs \cup {Inner} => a.out \in ProgramOutcomes
  PROVE  Base' /\ Quiet
<1>0. TypeOK /\ Stack /\ Owned
  BY DEF Base
<1>1. Items = {} /\ Rest = {} /\ \A q, p : ~Heading(q, p)
  BY <1>0, TodoType DEF Heading
<1>2. CASE todo' = <<a>>
  <2>1. /\ Hd' = a /\ Rest' = {} /\ Items' = {a} /\ Unique(todo')
        /\ \A q, p : Heading(q, p)' <=> a.op = q /\ a.p = p
    BY <1>2, StartStep
  <2>2. \A p \in Single : ~(a.op = "then" /\ a.p = p) /\ ~(a.op = "call" /\ a.p = p)
    BY PromiseNumbers
  <2>3. \A p \in Single : Hang(p) # a
    BY <2>2, HangFacts
  <2>4. Quiet
    BY <1>1, <2>1, <2>2, <2>3 DEF Quiet
  <2>5. Stack' /\ Owned'
    BY <2>1, <2>2, <2>4, QuietBase
  <2>6. QED
    BY <2>4, <2>5 DEF Base
<1>3. CASE todo' = <<>>
  <2>1. Idle' /\ Items' = {} /\ Rest' = {} /\ Unique(todo')
    BY <1>3, NothingToDo DEF Idle, Items, Rest
  <2>2. \A q, p : ~Heading(q, p)'
    BY <2>1 DEF Heading
  <2>3. Quiet
    BY <1>1, <2>1, <2>2 DEF Quiet
  <2>4. Stack' /\ Owned'
    BY <2>1, <2>2, <2>3, QuietBase
  <2>5. QED
    BY <2>3, <2>4 DEF Base
<1>4. QED
  BY <1>2, <1>3

\* What the program settles with is an outcome.
LEMMA ProgramOutcomeFacts ==
  /\ ProgramOutcomes \subseteq Outcomes
  /\ Expired \in Outcomes
  /\ \A v \in Values : Resolved(<<v>>) \in ProgramOutcomes
  /\ \A e \in Errors : Rejected(e) \in ProgramOutcomes
  /\ \A o \in ProgramOutcomes : \/ o.st = "resolved" /\ \E v \in Values : o = Resolved(<<v>>) /\ o.val = <<v>>
                                \/ o.st = "rejected"
<1>1. \A v \in Values : <<v>> \in Data
  BY DEF Data
<1>2. \A d \in Data : Resolved(d) \in Outcomes /\ Resolved(d).st = "resolved" /\ Resolved(d).val = d
  BY DEF Resolved, Outcomes
<1>3. \A e \in AnyError : Rejected(e) \in Outcomes /\ Rejected(e).st = "rejected"
  BY DEF Rejected, Outcomes
<1>4. TimedOut \in AnyError /\ \A e \in Errors : e \in AnyError
  BY DEF AnyError
<1>5. \A o \in ProgramOutcomes : (\E v \in Values : o = Resolved(<<v>>)) \/ (\E e \in Errors : o = Rejected(e))
  BY DEF ProgramOutcomes
<1>6. /\ \A v \in Values : Resolved(<<v>>) \in ProgramOutcomes
      /\ \A e \in Errors : Rejected(e) \in ProgramOutcomes
  BY DEF ProgramOutcomes
<1>7. Expired \in Outcomes
  BY <1>3, <1>4 DEF Expired
<1>8. ASSUME NEW o \in ProgramOutcomes
      PROVE  /\ o \in Outcomes
             /\ \/ o.st = "resolved" /\ \E v \in Values : o = Resolved(<<v>>) /\ o.val = <<v>>
                \/ o.st = "rejected"
  <2>1. CASE \E v \in Values : o = Resolved(<<v>>)
    BY <1>1, <1>2, <2>1
  <2>2. CASE \E e \in Errors : o = Rejected(e)
    BY <1>3, <1>4, <2>2
  <2>3. QED
    BY <1>5, <2>1, <2>2
<1>9. QED
  BY <1>6, <1>7, <1>8

\* The owner of an input or of inner settles it.
LEMMA ProgramSettlesBase ==
  ASSUME Base, NEW p \in Promises, NEW o \in ProgramOutcomes, ProgramSettles(p, o)
  PROVE  Base' /\ Quiet
<1> DEFINE a == Settle(p, o)
<1>0. TypeOK /\ Owned
  BY DEF Base
<1>1. /\ Idle /\ todo' = <<a>>
      /\ UNCHANGED <<kind, isVoid, outcome, val, resolve, reject, finally, timer, count,
                     result, built, thens, got, late, finals>>
  BY DEF ProgramSettles, program, slots, shared, history
<1>2. a \in ItemTypes /\ a.op = "settle" /\ a.p = p /\ a.out = o
  BY MadeItems, ProgramOutcomeFacts
<1> HIDE DEF a
<1>3. todo' \in Seq(ItemTypes)
  BY <1>1, <1>2, StartStep
<1>4. TypeOK'
  BY <1>0, <1>1, <1>3 DEF TypeOK, ItemTypes
<1>5. Timed'
  BY <1>0, <1>1 DEF Owned, Timed
<1>6. QED
  BY <1>1, <1>2, <1>4, <1>5, StartBase

\* A call of the program that does not touch the stack.
LEMMA StillBase ==
  ASSUME Base, Idle, TypeOK', Timed', todo' = <<>>, UNCHANGED <<outcome, built, val>>,
         \A p \in Single : resolve'[p] = resolve[p] /\ reject'[p] = reject[p]
  PROVE  Base' /\ Quiet
<1> DEFINE a == Then(Chained, None, None)
<1>1. a \in ItemTypes /\ a.op = "then" /\ a.p = Chained
  BY MadeItems, CbFacts, PromiseNumbers
<1> HIDE DEF a
<1>2. QED
  BY <1>1, StartBase

\* A timer is armed.
LEMMA TimeoutBase ==
  ASSUME Base, NEW p \in Promises, Timeout(p)
  PROVE  Base' /\ Quiet
<1>0. TypeOK /\ Owned
  BY DEF Base
<1>1. /\ Idle /\ todo' = <<>> /\ timer' = [timer EXCEPT ![p] = TRUE] /\ p \in {Ret, Chained}
      /\ UNCHANGED <<kind, isVoid, outcome, val, resolve, reject, finally, count, result,
                     built, thens, todo, got, late, finals>>
  BY DEF Timeout, Idle, program, slots, shared, history
<1>2. timer' \in [Promises -> BOOLEAN]
  BY <1>0, <1>1 DEF TypeOK
<1>3. TypeOK'
  BY <1>0, <1>1, <1>2 DEF TypeOK
<1>4. Timed'
  BY <1>0, <1>1 DEF Owned, Timed, TypeOK, Ret, Chained
<1>5. QED
  BY <1>1, <1>3, <1>4, StillBase

\* The program calls finally.
LEMMA FinallyBase ==
  ASSUME Base, Finally
  PROVE  Base' /\ Quiet
<1>0. TypeOK /\ Owned
  BY DEF Base
<1>1. /\ Idle /\ todo' = <<>>
      /\ UNCHANGED <<kind, isVoid, outcome, val, resolve, reject, timer, count, result,
                     built, thens, todo, got, late>>
  BY DEF Finally, Idle, program, shared
<1>2. finals' \in Nat \X Nat
  BY DEF Finally
<1>3. finally' \in [Promises -> BOOLEAN]
  <2>1. finally \in [Promises -> BOOLEAN] /\ Chained \in Promises
    BY <1>0, PromiseNumbers DEF TypeOK
  <2>2. QED
    BY <2>1 DEF Finally
<1>4. TypeOK'
  BY <1>0, <1>1, <1>2, <1>3 DEF TypeOK
<1>5. Timed'
  BY <1>0, <1>1 DEF Owned, Timed
<1>6. QED
  BY <1>1, <1>4, <1>5, StillBase

\* A timer fires.
LEMMA TimerFiresBase ==
  ASSUME Base, NEW p \in Promises, TimerFires(p)
  PROVE  Base' /\ Quiet
<1> DEFINE a == Settle(p, Expired)
<1>0. TypeOK /\ Owned
  BY DEF Base
<1>1. /\ Idle /\ timer[p] /\ timer' = [timer EXCEPT ![p] = FALSE] /\ (todo' = <<a>> \/ todo' = <<>>)
      /\ UNCHANGED <<kind, isVoid, outcome, val, resolve, reject, finally, count, result,
                     built, thens, got, late, finals>>
  BY DEF TimerFires, Expired, program, slots, shared, history
<1>2. p \in {Ret, Chained}
  BY <1>0, <1>1 DEF Owned, Timed
<1>3. a \in ItemTypes /\ a.op = "settle" /\ a.p = p
  BY MadeItems, ProgramOutcomeFacts
<1>4. p \notin Inputs \cup {Inner}
  BY <1>2, PromiseNumbers
<1> HIDE DEF a
<1>5. todo' \in Seq(ItemTypes)
  <2>1. CASE todo' = <<a>>
    BY <1>3, <2>1, StartStep
  <2>2. CASE todo' = <<>>
    BY <2>2, EmptySeq
  <2>3. QED
    BY <1>1, <2>1, <2>2
<1>6. timer' \in [Promises -> BOOLEAN]
  BY <1>0, <1>1 DEF TypeOK
<1>7. TypeOK'
  BY <1>0, <1>1, <1>5, <1>6 DEF TypeOK, ItemTypes
<1>8. Timed'
  <2>1. timer \in [Promises -> BOOLEAN] /\ \A q \in Promises : timer[q] => q \in {Ret, Chained}
    BY <1>0 DEF TypeOK, Owned, Timed
  <2>2. \A q \in Promises : timer'[q] => timer[q]
    BY <1>1, <2>1
  <2>3. QED
    BY <2>1, <2>2 DEF Timed, Ret, Chained
<1>9. QED
  BY <1>1, <1>3, <1>4, <1>7, <1>8, StartBase

\* The program calls next.then.
LEMMA UserThenBase ==
  ASSUME Base, NEW w \in BOOLEAN, UserThen(w)
  PROVE  /\ Base' /\ Quiet
         /\ thens' = thens + 1 /\ thens' \in Handlers
         /\ Hd' = Then(Chained, User(thens'), IF w THEN User(thens') ELSE None)
         /\ \A q, p : Heading(q, p)' <=> q = "then" /\ p = Chained
         /\ Rest' = {} /\ Items' = {Hd'} /\ ~Idle'
<1>0. TypeOK /\ Owned
  BY DEF Base
<1>1. thens' = thens + 1 /\ thens' \in Handlers /\ thens' \in 0..MaxThens
  BY <1>0, PromiseAssumption DEF UserThen, TypeOK, Handlers
<1> DEFINE r == IF w THEN User(thens') ELSE None
           a == Then(Chained, User(thens'), r)
<1>2. /\ Idle /\ todo' = <<a>>
      /\ UNCHANGED <<kind, isVoid, outcome, val, resolve, reject, finally, timer, count,
                     result, built, got, late, finals>>
  BY <1>1 DEF UserThen, program, slots, shared, history
<1>3. r \in Callbacks /\ User(thens') \in Callbacks
  BY <1>1, CbFacts
<1> HIDE DEF r
<1>4. a \in ItemTypes /\ a.op = "then" /\ a.p = Chained
  BY <1>3, MadeItems, PromiseNumbers
<1> HIDE DEF a
<1>5. /\ todo' \in Seq(ItemTypes) /\ Hd' = a /\ Rest' = {} /\ Items' = {a} /\ ~Idle'
      /\ \A q, p : Heading(q, p)' <=> a.op = q /\ a.p = p
  BY <1>2, <1>4, StartStep
<1>6. TypeOK'
  BY <1>0, <1>1, <1>2, <1>5 DEF TypeOK, ItemTypes
<1>7. Timed'
  BY <1>0, <1>2 DEF Owned, Timed
<1>8. Base' /\ Quiet
  BY <1>2, <1>4, <1>6, <1>7, StartBase
<1>9. QED
  BY <1>1, <1>4, <1>5, <1>8 DEF a, r

\* The program calls catcher: only the last promise is concerned.
LEMMA CatcherBase ==
  ASSUME Base, Catcher
  PROVE  /\ Base' /\ Quiet
         /\ thens' = thens + 1 /\ thens' \in Handlers
         /\ IF Finished(Chained)
              THEN /\ late' = late \cup {thens'} /\ reject' = reject
                   /\ Idle' \/ /\ Hd' = Call(Chained, User(thens'), outcome[Chained]) /\ Hd' \in ItemTypes
                               /\ \A q, p : Heading(q, p)' <=> q = "call" /\ p = Chained
              ELSE /\ late' = late /\ Idle'
                   /\ reject' = [reject EXCEPT ![Chained] = User(thens')]
<1>0. TypeOK /\ Owned
  BY DEF Base
<1>1. thens' = thens + 1 /\ thens' \in Handlers /\ thens' \in 0..MaxThens
  BY <1>0, PromiseAssumption DEF Catcher, TypeOK, Handlers
<1>2. Idle /\ UNCHANGED <<kind, isVoid, outcome, val, resolve, finally, timer, count, result,
                          built, got, finals>>
  BY DEF Catcher, program, shared
<1>3. Timed'
  BY <1>0, <1>2 DEF Owned, Timed
<1>4. Chained \in Promises /\ Chained \notin Single /\ User(thens') \in Callbacks
  BY <1>1, PromiseNumbers, CbFacts
<1>5. CASE Finished(Chained)
  <2> DEFINE a == Call(Chained, User(thens'), outcome[Chained])
  <2>1. late' = late \cup {thens'} /\ reject' = reject /\ (todo' = <<a>> \/ todo' = <<>>)
    BY <1>1, <1>5 DEF Catcher
  <2>2. a \in ItemTypes /\ a.op = "call" /\ a.p = Chained
    BY <1>0, <1>4, <1>5, MadeItems, FinishedFacts
  <2> HIDE DEF a
  <2>3. CASE todo' = <<a>>
    <3>1. /\ todo' \in Seq(ItemTypes) /\ Hd' = a
          /\ \A q, p : Heading(q, p)' <=> a.op = q /\ a.p = p
      BY <2>2, <2>3, StartStep
    <3>2. TypeOK'
      BY <1>0, <1>1, <1>2, <2>1, <3>1 DEF TypeOK, ItemTypes
    <3>3. Base' /\ Quiet
      BY <1>2, <1>3, <2>1, <2>2, <2>3, <3>2, StartBase
    <3>4. QED
      BY <1>1, <1>5, <2>1, <2>2, <3>1, <3>3 DEF a
  <2>4. CASE todo' = <<>>
    <3>1. TypeOK'
      BY <1>0, <1>1, <1>2, <2>1, <2>4 DEF TypeOK, ItemTypes
    <3>2. Base' /\ Quiet
      BY <1>2, <1>3, <2>1, <2>4, <3>1, StillBase
    <3>3. QED
      BY <1>1, <1>5, <2>1, <2>4, <3>2 DEF Idle
  <2>5. QED
    BY <2>1, <2>3, <2>4
<1>6. CASE ~Finished(Chained)
  <2>1. late' = late /\ reject' = [reject EXCEPT ![Chained] = User(thens')] /\ todo' = <<>>
    BY <1>1, <1>2, <1>6 DEF Catcher, Idle
  <2>2. reject' \in [Promises -> Callbacks] /\ \A p \in Single : reject'[p] = reject[p]
    <3>1. reject \in [Promises -> Callbacks]
      BY <1>0 DEF TypeOK
    <3>2. QED
      BY <1>4, <2>1, <3>1, PromiseNumbers
  <2>3. TypeOK'
    BY <1>0, <1>1, <1>2, <2>1, <2>2 DEF TypeOK, ItemTypes
  <2>4. Base' /\ Quiet
    BY <1>2, <1>3, <2>1, <2>2, <2>3, StillBase
  <2>5. QED
    BY <1>1, <1>6, <2>1, <2>4 DEF Idle
<1>7. QED
  BY <1>5, <1>6

-----------------------------------------------------------------------------
(* resolve and reject.                                                     *)

\* resolve and reject, taken apart.
LEMMA SettleCases ==
  ASSUME Base, DoSettle, NEW p, p = Hd.p, NEW o, o = Hd.out, NEW cb, cb = Slot(p, o)
  PROVE  /\ ~Idle /\ Hd.op = "settle" /\ Hd \in ItemTypes /\ Items = {Hd} \cup Rest
         /\ p \in Promises /\ o \in Outcomes /\ cb \in Callbacks
         /\ \A q, r : Heading(q, r) <=> q = "settle" /\ r = p
         /\ UNCHANGED <<kind, isVoid, finally, timer, count, result, built, thens, got,
                        late, finals>>
         /\ Finished(p) => todo' = Tail(todo) /\ UNCHANGED <<outcome, val, resolve, reject>>
         /\ ~Finished(p) =>
              /\ outcome' = [outcome EXCEPT ![p] = o]
              /\ val' = IF o.st = "resolved" /\ cb = None THEN [val EXCEPT ![p] = o.val] ELSE val
              /\ resolve' = IF o.st = "resolved" THEN [resolve EXCEPT ![p] = None] ELSE resolve
              /\ reject' = IF o.st = "resolved" THEN reject ELSE [reject EXCEPT ![p] = None]
              /\ todo' = IF cb = None THEN Tail(todo) ELSE <<Call(p, cb, o), End(p, o)>> \o Tail(todo)
<1>0. TypeOK
  BY DEF Base
<1>1. /\ ~Idle /\ Hd = Head(todo) /\ Hd.op = "settle" /\ Hd \in ItemTypes /\ Items = {Hd} \cup Rest
      /\ \A q, r : Heading(q, r) <=> q = "settle" /\ r = Hd.p
  BY <1>0, DoingHead DEF DoSettle
<1>2. p \in Promises /\ o \in Outcomes
  BY <1>1, ItemFacts
<1>3. cb \in Callbacks
  BY <1>0, <1>2 DEF Slot, TypeOK
<1>4. UNCHANGED <<kind, isVoid, finally, timer, count, result, built, thens, got, late, finals>>
  BY DEF DoSettle, program, shared, history
<1>5. Finished(p) => todo' = Tail(todo) /\ UNCHANGED <<outcome, val, resolve, reject>>
  BY <1>1 DEF DoSettle, MaySettle
<1>6. ASSUME ~Finished(p)
      PROVE  /\ outcome' = [outcome EXCEPT ![p] = o]
             /\ val' = IF o.st = "resolved" /\ cb = None THEN [val EXCEPT ![p] = o.val] ELSE val
             /\ resolve' = IF o.st = "resolved" THEN [resolve EXCEPT ![p] = None] ELSE resolve
             /\ reject' = IF o.st = "resolved" THEN reject ELSE [reject EXCEPT ![p] = None]
             /\ todo' = IF cb = None THEN Tail(todo) ELSE <<Call(p, cb, o), End(p, o)>> \o Tail(todo)
  BY <1>1, <1>6 DEF DoSettle, MaySettle
<1>7. QED
  BY <1>1, <1>2, <1>3, <1>4, <1>5, <1>6

\* The stack after a promise was settled.
LEMMA SettleStack ==
  ASSUME Base, DoSettle, NEW p, p = Hd.p, NEW o, o = Hd.out, NEW cb, cb = Slot(p, o)
  PROVE  /\ todo' \in Seq(ItemTypes) /\ Unique(todo')
         /\ Rest' \subseteq Rest \cup {End(p, o)} /\ Items' \subseteq Rest \cup {Call(p, cb, o), End(p, o)}
         /\ Rest \subseteq Items'
         /\ \A q : ~Heading("settle", q)'
         /\ \A q : Heading("then", q)' => q \in Single /\ Hd' = Hang(q)
         /\ Finished(p) \/ cb = None => \A q : ~Heading("call", q)'
         /\ ~Finished(p) /\ cb # None =>
              /\ Hd' = Call(p, cb, o) /\ Rest' = Rest \cup {End(p, o)}
              /\ \A q, r : Heading(q, r)' <=> q = "call" /\ r = p
<1>0. TypeOK /\ Stack
  BY DEF Base
<1>1. /\ ~Idle /\ p \in Promises /\ o \in Outcomes /\ cb \in Callbacks
      /\ Finished(p) => todo' = Tail(todo)
      /\ ~Finished(p) => todo' = IF cb = None THEN Tail(todo) ELSE <<Call(p, cb, o), End(p, o)>> \o Tail(todo)
  BY SettleCases
<1>2. CASE Finished(p) \/ cb = None
  <2>1. todo' = Tail(todo)
    BY <1>1, <1>2
  <2>2. QED
    BY <1>0, <1>1, <1>2, <2>1, PopStep
<1>3. CASE ~Finished(p) /\ cb # None
  <2>1. PICK a : a = Call(p, cb, o)
    OBVIOUS
  <2>2. PICK b : b = End(p, o)
    OBVIOUS
  <2>3. /\ a \in ItemTypes /\ a.op = "call" /\ a.p = p
        /\ b \in ItemTypes /\ b.op = "end" /\ b.p = p
    BY <1>1, <2>1, <2>2, MadeItems
  <2>4. todo' = <<a, b>> \o Tail(todo)
    BY <1>1, <1>3, <2>1, <2>2
  <2>5. /\ todo' \in Seq(ItemTypes) /\ Hd' = a /\ Rest' = {b} \cup Rest /\ Items' = {a, b} \cup Rest
        /\ Unique(todo')
        /\ \A q, r : Heading(q, r)' <=> a.op = q /\ a.p = r
    BY <1>0, <1>1, <2>3, <2>4, ExpandStep
  <2>6. QED
    BY <1>3, <2>1, <2>2, <2>3, <2>5
<1>4. QED
  BY <1>2, <1>3

\* Settling a promise keeps the types.
LEMMA SettleType ==
  ASSUME Base, DoSettle
  PROVE  TypeOK'
<1>0. TypeOK
  BY DEF Base
<1>1. PICK p : p = Hd.p
  OBVIOUS
<1>2. PICK o : o = Hd.out
  OBVIOUS
<1>3. PICK cb : cb = Slot(p, o)
  OBVIOUS
<1>4. /\ p \in Promises /\ o \in Outcomes
      /\ UNCHANGED <<kind, isVoid, finally, timer, count, result, built, thens, got, late, finals>>
      /\ Finished(p) => UNCHANGED <<outcome, val, resolve, reject>>
      /\ ~Finished(p) =>
           /\ outcome' = [outcome EXCEPT ![p] = o]
           /\ val' = IF o.st = "resolved" /\ cb = None THEN [val EXCEPT ![p] = o.val] ELSE val
           /\ resolve' = IF o.st = "resolved" THEN [resolve EXCEPT ![p] = None] ELSE resolve
           /\ reject' = IF o.st = "resolved" THEN reject ELSE [reject EXCEPT ![p] = None]
  BY <1>1, <1>2, <1>3, SettleCases
<1>5. todo' \in Seq(ItemTypes)
  BY <1>1, <1>2, <1>3, SettleStack
<1>6. CASE Finished(p)
  BY <1>0, <1>4, <1>5, <1>6 DEF TypeOK, ItemTypes
<1>7. CASE ~Finished(p)
  <2>1. /\ outcome \in [Promises -> Outcomes \cup {Pending}] /\ val \in [Promises -> Data]
        /\ resolve \in [Promises -> Callbacks] /\ reject \in [Promises -> Callbacks]
    BY <1>0 DEF TypeOK
  <2>2. o.st = "resolved" => o.val \in Data
    BY <1>4, OutcomeFacts
  <2>3. None \in Callbacks
    BY CbFacts
  <2>4. outcome' \in [Promises -> Outcomes \cup {Pending}] /\ val' \in [Promises -> Data]
    BY <1>4, <1>7, <2>1, <2>2
  <2>5. resolve' \in [Promises -> Callbacks] /\ reject' \in [Promises -> Callbacks]
    BY <1>4, <1>7, <2>1, <2>3
  <2>6. QED
    BY <1>0, <1>4, <1>5, <2>4, <2>5 DEF TypeOK, ItemTypes
<1>8. QED
  BY <1>6, <1>7

\* Settling a promise hangs no lambda and returns from none.
LEMMA SettleStages ==
  ASSUME Base, DoSettle
  PROVE  Hung' = Hung /\ Fired' = Fired /\ \A p \in Single : Begun(p)' <=> Begun(p)
<1>0. TypeOK /\ Stack /\ Owned
  BY DEF Base
<1>1. PICK p : p = Hd.p
  OBVIOUS
<1>2. PICK o : o = Hd.out
  OBVIOUS
<1>3. PICK cb : cb = Slot(p, o)
  OBVIOUS
<1>4. /\ ~Idle /\ Hd.op = "settle" /\ Items = {Hd} \cup Rest
      /\ p \in Promises /\ o \in Outcomes /\ cb \in Callbacks
      /\ \A q, r : Heading(q, r) <=> q = "settle" /\ r = p
      /\ built' = built
      /\ Finished(p) => outcome' = outcome
      /\ ~Finished(p) => outcome' = [outcome EXCEPT ![p] = o]
  BY <1>1, <1>2, <1>3, SettleCases
<1>5. /\ Items' \subseteq Rest \cup {Call(p, cb, o), End(p, o)}
      /\ Rest \subseteq Items'
      /\ Finished(p) \/ cb = None => \A q : ~Heading("call", q)'
      /\ ~Finished(p) /\ cb # None => \A q, r : Heading(q, r)' <=> q = "call" /\ r = p
  BY <1>1, <1>2, <1>3, SettleStack
<1>6. Call(p, cb, o).op = "call" /\ End(p, o).op = "end"
  BY <1>4, MadeItems
<1>7. \A q \in Single : Hang(q) \in Items' <=> Hang(q) \in Items
  BY <1>4, <1>5, <1>6, HangFacts
<1>8. outcome \in [Promises -> Outcomes \cup {Pending}] /\ o # Pending
  BY <1>0, <1>4, OutcomeFacts DEF TypeOK
<1>9. ASSUME NEW q \in Hung
      PROVE  (Finished(q) /\ ~Heading("call", q)) <=> (Finished(q)' /\ ~Heading("call", q)')
  <2>1. q \in Single /\ q \in Promises
    BY PromiseNumbers DEF Hung
  <2>2. CASE Finished(p)
    BY <1>4, <1>5, <2>2 DEF Finished
  <2>3. CASE ~Finished(p) /\ q # p
    <3>1. outcome'[q] = outcome[q]
      BY <1>4, <1>8, <2>1, <2>3
    <3>2. ~Heading("call", q) /\ ~Heading("call", q)'
      BY <1>4, <1>5, <2>3
    <3>3. QED
      BY <3>1, <3>2 DEF Finished
  <2>4. CASE ~Finished(p) /\ q = p
    <3>1. Waits(p)
      BY <1>0, <2>1, <2>4 DEF Owned, HungOwn
    <3>2. cb = Cb(p)
      BY <1>3, <2>4, <3>1 DEF Waits, Slot
    <3>3. cb # None
      BY <2>1, <2>4, <3>2, CbFacts
    <3>4. Heading("call", q)'
      BY <1>5, <2>4, <3>3
    <3>5. QED
      BY <2>4, <3>4
  <2>5. QED
    BY <2>2, <2>3, <2>4
<1>10. Finished(Ret) => outcome'[Ret] = outcome[Ret]
  <2>1. Ret \in Promises
    BY PromiseNumbers
  <2>2. QED
    BY <1>4, <1>8, <2>1 DEF Finished
<1>11. QED
  BY <1>4, <1>7, <1>9, <1>10, SameStages

\* A promise is settled; its lambda, if it has one, is called and has not
\* returned, so no promise moves to another stage.
LEMMA SettleBase ==
  ASSUME Base, DoSettle
  PROVE  Base' /\ Hung' = Hung /\ Fired' = Fired
<1>0. TypeOK /\ Stack /\ Owned
  BY DEF Base
<1>1. PICK p : p = Hd.p
  OBVIOUS
<1>2. PICK o : o = Hd.out
  OBVIOUS
<1>3. PICK cb : cb = Slot(p, o)
  OBVIOUS
<1>4. /\ Hd.op = "settle" /\ Items = {Hd} \cup Rest
      /\ p \in Promises /\ o \in Outcomes /\ cb \in Callbacks
      /\ \A q, r : Heading(q, r) <=> q = "settle" /\ r = p
      /\ timer' = timer
      /\ Finished(p) => UNCHANGED <<outcome, val, resolve, reject>>
      /\ ~Finished(p) =>
           /\ outcome' = [outcome EXCEPT ![p] = o]
           /\ val' = IF o.st = "resolved" /\ cb = None THEN [val EXCEPT ![p] = o.val] ELSE val
           /\ resolve' = IF o.st = "resolved" THEN [resolve EXCEPT ![p] = None] ELSE resolve
           /\ reject' = IF o.st = "resolved" THEN reject ELSE [reject EXCEPT ![p] = None]
  BY <1>1, <1>2, <1>3, SettleCases
<1>5. /\ Unique(todo')
      /\ Rest' \subseteq Rest \cup {End(p, o)} /\ Items' \subseteq Rest \cup {Call(p, cb, o), End(p, o)}
      /\ Rest \subseteq Items'
      /\ \A q : ~Heading("settle", q)'
      /\ \A q : Heading("then", q)' => q \in Single /\ Hd' = Hang(q)
      /\ Finished(p) \/ cb = None => \A q : ~Heading("call", q)'
      /\ ~Finished(p) /\ cb # None =>
           /\ Hd' = Call(p, cb, o)
           /\ \A q, r : Heading(q, r)' <=> q = "call" /\ r = p
  BY <1>1, <1>2, <1>3, SettleStack
<1>6. /\ Call(p, cb, o).op = "call" /\ Call(p, cb, o).cb = cb /\ Call(p, cb, o).out = o
      /\ End(p, o).op = "end" /\ End(p, o).p = p
  BY <1>4, MadeItems
<1>7. Hung' = Hung /\ Fired' = Fired /\ \A q \in Single : Begun(q)' <=> Begun(q)
  BY SettleStages
<1>8. /\ outcome \in [Promises -> Outcomes \cup {Pending}] /\ o # Pending /\ val \in [Promises -> Data]
      /\ resolve \in [Promises -> Callbacks] /\ reject \in [Promises -> Callbacks]
  BY <1>0, <1>4, OutcomeFacts DEF TypeOK
<1>9. /\ Finished(p)'
      /\ \A q \in Promises : q # p => outcome'[q] = outcome[q] /\ val'[q] = val[q]
                                        /\ resolve'[q] = resolve[q] /\ reject'[q] = reject[q]
  BY <1>4, <1>8 DEF Finished
<1>10. \A q \in Promises : Finished(q) => Finished(q)'
  BY <1>9 DEF Finished
<1>11. Stack'
  <2>1. \A x \in Rest' : Left(x)
    BY <1>0, <1>5, <1>6 DEF Stack, Left
  <2>2. ASSUME NEW x \in Items', x.op = "end" PROVE Finished(x.p)'
    <3>1. x \in Rest \/ x = End(p, o)
      BY <1>5, <1>6, <2>2
    <3>2. CASE x = End(p, o)
      BY <1>6, <1>9, <3>2
    <3>3. CASE x \in Rest
      <4>1. Finished(x.p)
        BY <1>0, <1>4, <2>2, <3>3 DEF Stack
      <4>2. x.p = p \/ x.p \in Promises
        <5>1. todo \in Seq(ItemTypes)
          BY <1>0, TodoType
        <5>2. x \in ItemTypes
          BY <3>3, <5>1 DEF Rest, RestOf
        <5>3. QED
          BY <5>2, ItemFacts
      <4>3. QED
        BY <1>9, <1>10, <4>1, <4>2
    <3>4. QED
      BY <3>1, <3>2, <3>3
  <2>3. ASSUME NEW q \in Single, Hang(q) \in Items' PROVE Begun(q)'
    BY <1>0, <1>4, <1>5, <1>6, <1>7, <2>3, HangFacts DEF Stack
  <2>4. QED
    BY <1>5, <2>1, <2>2, <2>3 DEF Stack, Left
<1>12. Timed'
  BY <1>0, <1>4 DEF Owned, Timed
<1>13. ThenOwn' /\ SettleOwn'
  BY <1>5 DEF ThenOwn, SettleOwn
<1>14. HungOwn'
  <2>1. SUFFICES ASSUME NEW q \in Single PROVE IF q \in Hung' THEN Waits(q)' ELSE Kept(q)'
    BY DEF HungOwn
  <2>2. (IF q \in Hung THEN Waits(q) ELSE Kept(q)) /\ q \in Promises
    BY <1>0, PromiseNumbers DEF Owned, HungOwn
  <2>3. CASE q # p
    BY <1>7, <1>9, <2>2, <2>3 DEF Waits, Kept, Finished, Cb, Ret, Inner
  <2>4. CASE q = p /\ q \in Hung
    BY <1>7, <1>9, <2>4 DEF Waits
  <2>5. CASE q = p /\ q \notin Hung /\ Finished(p)
    BY <1>4, <1>7, <2>2, <2>5 DEF Kept
  <2>6. CASE q = p /\ q \notin Hung /\ ~Finished(p)
    <3>1. resolve[p] = None /\ reject[p] = None
      BY <2>2, <2>6 DEF Kept
    <3>2. cb = None
      BY <1>3, <3>1 DEF Slot
    <3>3. resolve'[p] = None /\ reject'[p] = None
      BY <1>4, <1>8, <2>6, <3>1
    <3>4. outcome'[p] = o
      BY <1>4, <1>8, <2>6
    <3>5. o.st = "resolved" => val'[p] = o.val
      BY <1>4, <1>8, <2>6, <3>2
    <3>6. QED
      BY <1>7, <2>6, <3>3, <3>4, <3>5 DEF Kept
  <2>7. QED
    BY <2>3, <2>4, <2>5, <2>6
<1>15. CallOwn'
  <2>1. SUFFICES ASSUME NEW q \in Single, Heading("call", q)'
                 PROVE  q \in Hung' /\ Finished(q)' /\ Hd'.cb = Cb(q) /\ Hd'.out = outcome'[q]
    BY DEF CallOwn, Cb, Ret, Inner
  <2>2. ~Finished(p) /\ cb # None /\ q = p /\ Hd' = Call(p, cb, o)
    BY <1>5, <2>1
  <2>3. q \in Hung
    <3>1. Kept(q) => cb = None
      BY <1>3, <2>2 DEF Kept, Slot
    <3>2. QED
      BY <1>0, <2>2, <3>1 DEF Owned, HungOwn
  <2>4. cb = Cb(q)
    <3>1. Waits(q)
      BY <1>0, <2>3 DEF Owned, HungOwn
    <3>2. QED
      BY <1>3, <2>2, <3>1 DEF Waits, Slot
  <2>5. outcome'[q] = o
    BY <1>4, <1>8, <2>2
  <2>6. QED
    BY <1>6, <1>7, <1>9, <2>2, <2>3, <2>4, <2>5
<1>16. Ended'
  <2>1. SUFFICES ASSUME NEW q \in Inputs \cup {Inner}, Finished(q)' PROVE outcome'[q] \in ProgramOutcomes
    BY DEF Ended, ProgramOutcomes, Inner, Inputs
  <2>2. q \in Promises
    BY PromiseNumbers
  <2>3. CASE q # p \/ Finished(p)
    BY <1>0, <1>4, <1>9, <2>1, <2>2, <2>3 DEF Owned, Ended, Finished
  <2>4. CASE q = p /\ ~Finished(p)
    <3>1. outcome'[q] = o
      BY <1>4, <1>8, <2>4
    <3>2. o \in ProgramOutcomes
      BY <1>0, <1>2, <1>4, <2>4 DEF Owned, SettleOwn
    <3>3. QED
      BY <3>1, <3>2
  <2>5. QED
    BY <2>3, <2>4
<1>17. QED
  BY <1>7, <1>11, <1>12, <1>13, <1>14, <1>15, <1>16, SettleType DEF Base, Owned

-----------------------------------------------------------------------------
(* then.                                                                   *)

\* What then calls at once on a finished promise.
Selected == IF outcome[Hd.p].st = "resolved" THEN Hd.res ELSE Hd.rej
Handed == IF outcome[Hd.p].st = "resolved" /\ ~Void(Hd.p) THEN Resolved(val[Hd.p]) ELSE outcome[Hd.p]

\* Pairs are equal when their parts are.
LEMMA SamePair ==
  ASSUME NEW S, NEW a, NEW f, NEW x \in Seq(S), NEW y \in Seq(S), Len(x) = 2, Len(y) = 2,
         x[1] = a, x[2] = f, y[1] = a, y[2] = f
  PROVE  x = y
<1>1. 1..2 = {1, 2}
  OBVIOUS
<1>2. \A i \in 1..Len(x) : x[i] = y[i]
  BY <1>1
<1>3. QED
  BY <1>2, SeqEqual

\* Short stacks put together.
LEMMA Joined ==
  ASSUME NEW a, NEW f
  PROVE  /\ <<>> \o <<>> = <<>> /\ <<>> \o <<f>> = <<f>> /\ <<a>> \o <<>> = <<a>>
         /\ <<a>> \o <<f>> = <<a, f>>
<1>1. <<a>> \in Seq({a, f}) /\ <<f>> \in Seq({a, f}) /\ <<a, f>> \in Seq({a, f})
  OBVIOUS
<1>2. <<>> \o <<>> = <<>> /\ <<>> \o <<f>> = <<f>> /\ <<a>> \o <<>> = <<a>>
  BY <1>1
<1>3. PICK x : x = <<a>> \o <<f>>
  OBVIOUS
<1>4. PICK y : y = <<a, f>>
  OBVIOUS
<1>5. x \in Seq({a, f}) /\ Len(x) = 2
  BY <1>1, <1>3, ConcatProperties
<1>6. x[1] = a
  BY <1>3
<1>7. x[2] = f
  BY <1>3
<1>8. y \in Seq({a, f}) /\ Len(y) = 2 /\ y[1] = a /\ y[2] = f
  BY <1>1, <1>4
<1>9. x = y
  BY <1>5, <1>6, <1>7, <1>8, SamePair
<1>10. QED
  BY <1>2, <1>3, <1>4, <1>9

\* really_then, taken apart.
LEMMA ThenCases ==
  ASSUME Base, DoThen, NEW p, p = Hd.p, NEW cb, cb = Selected, NEW o, o = Handed
  PROVE  /\ ~Idle /\ Hd.op = "then" /\ Hd \in ItemTypes /\ Items = {Hd} \cup Rest
         /\ p \in Promises /\ cb \in Callbacks /\ (Finished(p) => o \in Outcomes)
         /\ Hd.res \in Callbacks /\ Hd.rej \in Callbacks
         /\ \A q, r : Heading(q, r) <=> q = "then" /\ r = p
         /\ UNCHANGED <<kind, isVoid, outcome, finally, timer, count, result, built, thens,
                        got, late, finals>>
         /\ resolve' = [resolve EXCEPT ![p] = Hd.res] /\ reject' = [reject EXCEPT ![p] = Hd.rej]
         /\ val' = IF outcome[p].st = "resolved" /\ cb # None /\ ~Void(p)
                     THEN [val EXCEPT ![p] = <<Default>>] ELSE val
         /\ ~Finished(p) => todo' = Tail(todo)
         /\ Finished(p) /\ cb = None /\ ~Void(p) => todo' = Tail(todo)
         /\ Finished(p) /\ cb = None /\ Void(p) => todo' = <<Final(p)>> \o Tail(todo)
         /\ Finished(p) /\ cb # None /\ ~Void(p) => todo' = <<Call(p, cb, o)>> \o Tail(todo)
         /\ Finished(p) /\ cb # None /\ Void(p) => todo' = <<Call(p, cb, o), Final(p)>> \o Tail(todo)
<1>0. TypeOK
  BY DEF Base
<1>1. /\ ~Idle /\ Hd = Head(todo) /\ Hd.op = "then" /\ Hd \in ItemTypes /\ Items = {Hd} \cup Rest
      /\ \A q, r : Heading(q, r) <=> q = "then" /\ r = Hd.p
  BY <1>0, DoingHead DEF DoThen
<1>2. p \in Promises /\ Hd.res \in Callbacks /\ Hd.rej \in Callbacks
  BY <1>1, ItemFacts
<1>3. cb \in Callbacks
  BY <1>2 DEF Selected
<1>4. ASSUME Finished(p) PROVE o \in Outcomes
  <2>1. outcome[p] \in Outcomes
    BY <1>0, <1>2, <1>4, FinishedFacts
  <2>2. Resolved(val[p]) \in Outcomes
    BY <1>0, <1>2 DEF TypeOK, Resolved, Outcomes
  <2>3. QED
    BY <2>1, <2>2 DEF Handed
<1>5. UNCHANGED <<kind, isVoid, outcome, finally, timer, count, result, built, thens, got, late, finals>>
  BY DEF DoThen, program, shared, history
<1>6. /\ resolve' = [resolve EXCEPT ![p] = Hd.res] /\ reject' = [reject EXCEPT ![p] = Hd.rej]
      /\ val' = IF outcome[p].st = "resolved" /\ cb # None /\ ~Void(p)
                  THEN [val EXCEPT ![p] = <<Default>>] ELSE val
      /\ todo' = (IF ~Finished(p) THEN <<>>
                  ELSE (IF cb = None THEN <<>> ELSE <<Call(p, cb, o)>>) \o AfterDirect(p)) \o Tail(todo)
  BY <1>1 DEF DoThen, Selected, Handed
<1>7. PICK s : s = Tail(todo) /\ s \in Seq(ItemTypes)
  <2>1. todo \in Seq(ItemTypes) /\ todo # <<>>
    BY <1>0, <1>1, TodoType DEF Idle
  <2>2. Tail(todo) \in Seq(ItemTypes)
    BY <2>1
  <2>3. QED
    BY <2>2
<1>8. PICK a : a = Call(p, cb, o)
  OBVIOUS
<1>9. PICK f : f = Final(p)
  OBVIOUS
<1>10. /\ <<>> \o s = s /\ (<<>> \o <<>>) \o s = s
       /\ (<<>> \o <<f>>) \o s = <<f>> \o s
       /\ (<<a>> \o <<>>) \o s = <<a>> \o s
       /\ (<<a>> \o <<f>>) \o s = <<a, f>> \o s
  <2>1. <<>> \o <<>> = <<>> /\ <<>> \o <<f>> = <<f>> /\ <<a>> \o <<>> = <<a>> /\ <<a>> \o <<f>> = <<a, f>>
    BY Joined
  <2>2. <<>> \o s = s
    BY <1>7
  <2>3. QED
    BY <2>1, <2>2
<1>11. AfterDirect(p) = IF Void(p) THEN <<f>> ELSE <<>>
  BY <1>9 DEF AfterDirect
<1>12. /\ ~Finished(p) => todo' = s
       /\ Finished(p) /\ cb = None /\ ~Void(p) => todo' = s
       /\ Finished(p) /\ cb = None /\ Void(p) => todo' = <<f>> \o s
       /\ Finished(p) /\ cb # None /\ ~Void(p) => todo' = <<a>> \o s
       /\ Finished(p) /\ cb # None /\ Void(p) => todo' = <<a, f>> \o s
  BY <1>6, <1>7, <1>8, <1>10, <1>11
<1>13. QED
  BY <1>1, <1>2, <1>3, <1>4, <1>5, <1>6, <1>7, <1>8, <1>9, <1>12

\* The stack after a call of then.
LEMMA ThenStack ==
  ASSUME Base, DoThen, NEW p, p = Hd.p, NEW cb, cb = Selected, NEW o, o = Handed
  PROVE  /\ todo' \in Seq(ItemTypes) /\ Unique(todo') /\ Hd \notin Rest
         /\ Rest' \subseteq Rest \cup {Final(p)} /\ Items' \subseteq Rest \cup {Call(p, cb, o), Final(p)}
         /\ Rest \subseteq Items'
         /\ Void(p) /\ Finished(p) => Final(p) \in Items'
         /\ \A q : ~Heading("settle", q)'
         /\ \A q : Heading("then", q)' => q \in Single /\ Hd' = Hang(q)
         /\ ~Finished(p) \/ cb = None => \A q : ~Heading("call", q)'
         /\ Finished(p) /\ cb # None =>
              /\ Hd' = Call(p, cb, o) /\ (Void(p) => Final(p) \in Rest')
              /\ \A q, r : Heading(q, r)' <=> q = "call" /\ r = p
<1>0. TypeOK /\ Stack
  BY DEF Base
<1>1. /\ ~Idle /\ Hd.op = "then" /\ p \in Promises /\ cb \in Callbacks /\ (Finished(p) => o \in Outcomes)
      /\ ~Finished(p) => todo' = Tail(todo)
      /\ Finished(p) /\ cb = None /\ ~Void(p) => todo' = Tail(todo)
      /\ Finished(p) /\ cb = None /\ Void(p) => todo' = <<Final(p)>> \o Tail(todo)
      /\ Finished(p) /\ cb # None /\ ~Void(p) => todo' = <<Call(p, cb, o)>> \o Tail(todo)
      /\ Finished(p) /\ cb # None /\ Void(p) => todo' = <<Call(p, cb, o), Final(p)>> \o Tail(todo)
  BY ThenCases
<1>2. PICK a : a = Call(p, cb, o)
  OBVIOUS
<1>3. PICK f : f = Final(p)
  OBVIOUS
<1>4. f \in ItemTypes /\ f.op = "final" /\ f.p = p
  BY <1>1, <1>3, MadeItems
<1>5. Finished(p) => a \in ItemTypes /\ a.op = "call" /\ a.p = p
  BY <1>1, <1>2, MadeItems
<1>6. CASE ~Finished(p) \/ (cb = None /\ ~Void(p))
  <2>1. todo' = Tail(todo)
    BY <1>1, <1>6
  <2>2. QED
    BY <1>0, <1>1, <1>6, <2>1, PopStep
<1>7. CASE Finished(p) /\ cb = None /\ Void(p)
  <2>1. todo' = <<f>> \o Tail(todo)
    BY <1>1, <1>3, <1>7
  <2>2. /\ todo' \in Seq(ItemTypes)
        /\ Hd' = f /\ Rest' = Rest /\ Items' = {f} \cup Rest
        /\ Unique(todo') /\ Hd \notin Rest
        /\ \A op, q : Heading(op, q)' <=> f.op = op /\ f.p = q
    BY <1>0, <1>1, <1>4, <2>1, ReplaceStep
  <2>3. QED
    BY <1>3, <1>4, <1>7, <2>2
<1>8. CASE Finished(p) /\ cb # None /\ ~Void(p)
  <2>1. todo' = <<a>> \o Tail(todo)
    BY <1>1, <1>2, <1>8
  <2>2. /\ todo' \in Seq(ItemTypes)
        /\ Hd' = a /\ Rest' = Rest /\ Items' = {a} \cup Rest
        /\ Unique(todo') /\ Hd \notin Rest
        /\ \A op, q : Heading(op, q)' <=> a.op = op /\ a.p = q
    BY <1>0, <1>1, <1>5, <1>8, <2>1, ReplaceStep
  <2>3. QED
    BY <1>2, <1>5, <1>8, <2>2
<1>9. CASE Finished(p) /\ cb # None /\ Void(p)
  <2>1. todo' = <<a, f>> \o Tail(todo)
    BY <1>1, <1>2, <1>3, <1>9
  <2>2. /\ todo' \in Seq(ItemTypes)
        /\ Hd' = a /\ Rest' = {f} \cup Rest /\ Items' = {a, f} \cup Rest
        /\ Unique(todo') /\ Hd \notin Rest
        /\ \A op, q : Heading(op, q)' <=> a.op = op /\ a.p = q
    BY <1>0, <1>1, <1>4, <1>5, <1>9, <2>1, ExpandStep
  <2>3. QED
    BY <1>2, <1>3, <1>5, <1>9, <2>2
<1>10. QED
  BY <1>6, <1>7, <1>8, <1>9

\* A call of then keeps the types.
LEMMA ThenType ==
  ASSUME Base, DoThen
  PROVE  TypeOK'
<1>0. TypeOK
  BY DEF Base
<1>1. PICK p : p = Hd.p
  OBVIOUS
<1>2. PICK cb : cb = Selected
  OBVIOUS
<1>3. PICK o : o = Handed
  OBVIOUS
<1>4. /\ p \in Promises /\ Hd.res \in Callbacks /\ Hd.rej \in Callbacks
      /\ UNCHANGED <<kind, isVoid, outcome, finally, timer, count, result, built, thens,
                     got, late, finals>>
      /\ resolve' = [resolve EXCEPT ![p] = Hd.res] /\ reject' = [reject EXCEPT ![p] = Hd.rej]
      /\ val' = IF outcome[p].st = "resolved" /\ cb # None /\ ~Void(p)
                  THEN [val EXCEPT ![p] = <<Default>>] ELSE val
  BY <1>1, <1>2, <1>3, ThenCases
<1>5. todo' \in Seq(ItemTypes)
  BY <1>1, <1>2, <1>3, ThenStack
<1>6. /\ val \in [Promises -> Data]
      /\ resolve \in [Promises -> Callbacks] /\ reject \in [Promises -> Callbacks]
  BY <1>0 DEF TypeOK
<1>7. <<Default>> \in Data
  BY DEF Data
<1>8. val' \in [Promises -> Data]
  BY <1>4, <1>6, <1>7
<1>9. resolve' \in [Promises -> Callbacks] /\ reject' \in [Promises -> Callbacks]
  BY <1>4, <1>6
<1>10. QED
  BY <1>0, <1>4, <1>5, <1>8, <1>9 DEF TypeOK, ItemTypes

\* A handler is hung on the last promise.
LEMMA ThenChainedBase ==
  ASSUME Base, DoThen, Hd.p = Chained
  PROVE  Base' /\ Quiet
<1>0. TypeOK /\ Stack /\ Owned
  BY DEF Base
<1>2. PICK cb : cb = Selected
  OBVIOUS
<1>3. PICK o : o = Handed
  OBVIOUS
<1>4. /\ Hd.op = "then" /\ Items = {Hd} \cup Rest /\ Chained \in Promises
      /\ cb \in Callbacks /\ (Finished(Chained) => o \in Outcomes)
      /\ \A q, r : Heading(q, r) <=> q = "then" /\ r = Chained
      /\ UNCHANGED <<outcome, timer, built>>
      /\ resolve' = [resolve EXCEPT ![Chained] = Hd.res] /\ reject' = [reject EXCEPT ![Chained] = Hd.rej]
      /\ val' = IF outcome[Chained].st = "resolved" /\ cb # None /\ ~Void(Chained)
                  THEN [val EXCEPT ![Chained] = <<Default>>] ELSE val
  BY <1>2, <1>3, ThenCases
<1>5. /\ Unique(todo')
      /\ Rest' \subseteq Rest \cup {Final(Chained)} /\ Items' \subseteq Rest \cup {Call(Chained, cb, o), Final(Chained)}
      /\ Rest \subseteq Items'
      /\ \A q : ~Heading("settle", q)'
      /\ \A q : Heading("then", q)' => q \in Single /\ Hd' = Hang(q)
      /\ ~Finished(Chained) \/ cb = None => \A q : ~Heading("call", q)'
      /\ Finished(Chained) /\ cb # None => \A q, r : Heading(q, r)' <=> q = "call" /\ r = Chained
  BY <1>2, <1>3, ThenStack
<1>6. Call(Chained, cb, o).op = "call" /\ Final(Chained).op = "final" /\ Chained \notin Single
  BY PromiseNumbers DEF Call, Final
<1>7. \A q \in Single : Hang(q) # Hd /\ Hang(q) # Call(Chained, cb, o) /\ Hang(q) # Final(Chained)
  BY <1>6, HangFacts
<1>8. \A q \in Single : Hang(q) \in Items' <=> Hang(q) \in Items
  BY <1>4, <1>5, <1>7
<1>9. \A q \in Single : ~Heading("call", q) /\ ~Heading("call", q)'
  BY <1>4, <1>5, <1>6
<1>10. Quiet
  BY <1>4, <1>8, <1>9 DEF Quiet
<1>11. \A q \in Single : val'[q] = val[q] /\ resolve'[q] = resolve[q] /\ reject'[q] = reject[q]
  BY <1>0, <1>4, <1>6, PromiseNumbers DEF TypeOK
<1>12. Timed'
  BY <1>0, <1>4 DEF Owned, Timed
<1>13. \A x \in Items' : x.op = "end" => Finished(x.p)
  BY <1>0, <1>4, <1>5, <1>6 DEF Stack
<1>14. \A x \in Rest' : x \in Rest \/ Left(x)
  BY <1>5, <1>6 DEF Left
<1>15. Stack' /\ Owned'
  BY <1>5, <1>10, <1>11, <1>12, <1>13, <1>14, QuietBase
<1>16. QED
  BY <1>10, <1>15, ThenType DEF Base

\* The lambdas of a promise are hung, and called at once on a finished one.
LEMMA ThenSingleBase ==
  ASSUME Base, DoThen, NEW p \in Single, p = Hd.p
  PROVE  Base' /\ Hung' = Hung \cup {p} /\ Fired' = Fired
<1>0. TypeOK /\ Stack /\ Owned
  BY DEF Base
<1>2. PICK cb : cb = Selected
  OBVIOUS
<1>3. PICK o : o = Handed
  OBVIOUS
<1>4. /\ ~Idle /\ Hd.op = "then" /\ Items = {Hd} \cup Rest /\ p \in Promises
      /\ cb \in Callbacks /\ (Finished(p) => o \in Outcomes)
      /\ \A q, r : Heading(q, r) <=> q = "then" /\ r = p
      /\ UNCHANGED <<outcome, timer, built>>
      /\ resolve' = [resolve EXCEPT ![p] = Hd.res] /\ reject' = [reject EXCEPT ![p] = Hd.rej]
      /\ val' = IF outcome[p].st = "resolved" /\ cb # None /\ ~Void(p)
                  THEN [val EXCEPT ![p] = <<Default>>] ELSE val
  BY <1>2, <1>3, ThenCases
<1>5. /\ Unique(todo') /\ Hd \notin Rest
      /\ Rest' \subseteq Rest \cup {Final(p)} /\ Items' \subseteq Rest \cup {Call(p, cb, o), Final(p)}
      /\ Rest \subseteq Items'
      /\ \A q : ~Heading("settle", q)'
      /\ \A q : Heading("then", q)' => q \in Single /\ Hd' = Hang(q)
      /\ ~Finished(p) \/ cb = None => \A q : ~Heading("call", q)'
      /\ Finished(p) /\ cb # None => Hd' = Call(p, cb, o) /\ \A q, r : Heading(q, r)' <=> q = "call" /\ r = p
  BY <1>2, <1>3, ThenStack
<1>6. Hd = Hang(p)
  BY <1>0, <1>4 DEF Owned, ThenOwn
<1>7. Hd.res = Cb(p) /\ Hd.rej = Cb(p) /\ cb = Cb(p) /\ cb # None
  BY <1>2, <1>6, HangFacts, CbFacts DEF Selected
<1>8. Begun(p) /\ p \notin Hung /\ Hang(p) \in Items
  BY <1>0, <1>4, <1>6 DEF Stack, Hung
<1>9. o = outcome[p]
  <2>1. Kept(p)
    BY <1>0, <1>8 DEF Owned, HungOwn
  <2>2. ASSUME outcome[p].st = "resolved" PROVE Resolved(val[p]) = outcome[p]
    <3>1. outcome[p] \in Outcomes
      BY <1>0, <1>4, <2>2, FinishedFacts
    <3>2. val[p] = outcome[p].val
      BY <2>1, <2>2 DEF Kept
    <3>3. QED
      BY <2>2, <3>1, <3>2, OutcomeFacts
  <2>3. QED
    BY <1>3, <2>2 DEF Handed
<1>10. Call(p, cb, o).op = "call" /\ Call(p, cb, o).cb = cb /\ Call(p, cb, o).out = o /\ Final(p).op = "final"
  BY DEF Call, Final
<1>11. /\ Hang(p) \notin Items'
       /\ \A q \in Single : q # p => (Hang(q) \in Items' <=> Hang(q) \in Items)
  <2>1. \A q \in Single : Hang(q) # Call(p, cb, o) /\ Hang(q) # Final(p)
    BY <1>10, HangFacts
  <2>2. \A q \in Single : q # p => Hang(q) # Hd
    BY <1>6, HangFacts
  <2>3. QED
    BY <1>4, <1>5, <1>6, <2>1, <2>2
<1>12. /\ \A q : Finished(q)' <=> Finished(q)
       /\ \A q : ~Heading("call", q)
       /\ \A q : Heading("call", q)' <=> q = p /\ Finished(p)
  BY <1>4, <1>5, <1>7 DEF Finished
<1>13. \A q \in Single : Begun(q)' <=> Begun(q)
  <2>1. \A q \in Single : q # Inner => (Begun(q)' <=> Begun(q))
    BY <1>4 DEF Begun
  <2>2. CASE p = Ret
    BY <1>8, <1>12, <2>1, <2>2 DEF Begun
  <2>3. CASE p # Ret
    <3>1. Hang(Ret) \in Items' <=> Hang(Ret) \in Items
      BY <1>11, <2>3, PromiseNumbers
    <3>2. Begun(Inner)' <=> Begun(Inner)
      BY <1>4, <1>12, <2>3, <3>1 DEF Begun
    <3>3. QED
      BY <2>1, <3>2
  <2>4. QED
    BY <2>2, <2>3
<1>14. Hung' = Hung \cup {p}
  BY <1>8, <1>11, <1>13 DEF Hung
<1>15. Fired' = Fired
  BY <1>8, <1>12, <1>14 DEF Fired
<1>16. Stack'
  <2>1. \A x \in Rest' : Left(x)
    BY <1>0, <1>5, <1>10 DEF Stack, Left
  <2>2. \A x \in Items' : x.op = "end" => Finished(x.p)'
    BY <1>0, <1>4, <1>5, <1>10, <1>12 DEF Stack
  <2>3. \A q \in Single : Hang(q) \in Items' => Begun(q)'
    BY <1>0, <1>8, <1>11, <1>13 DEF Stack
  <2>4. QED
    BY <1>5, <2>1, <2>2, <2>3 DEF Stack, Left
<1>17. Timed' /\ ThenOwn' /\ SettleOwn'
  BY <1>0, <1>4, <1>5 DEF Owned, Timed, ThenOwn, SettleOwn
<1>18. CallOwn'
  <2>1. SUFFICES ASSUME NEW q \in Single, Heading("call", q)'
                 PROVE  q \in Hung' /\ Finished(q)' /\ Hd'.cb = Cb(q) /\ Hd'.out = outcome'[q]
    BY DEF CallOwn, Cb, Ret, Inner
  <2>2. q = p /\ Finished(p)
    BY <1>12, <2>1
  <2>3. QED
    BY <1>4, <1>5, <1>7, <1>9, <1>10, <1>12, <1>14, <2>2
<1>19. HungOwn'
  <2>1. SUFFICES ASSUME NEW q \in Single PROVE IF q \in Hung' THEN Waits(q)' ELSE Kept(q)'
    BY DEF HungOwn
  <2>2. /\ IF q \in Hung THEN Waits(q) ELSE Kept(q)
        /\ q \in Promises /\ val \in [Promises -> Data]
        /\ resolve \in [Promises -> Callbacks] /\ reject \in [Promises -> Callbacks]
    BY <1>0, PromiseNumbers DEF Owned, HungOwn, TypeOK
  <2>3. CASE q = p
    <3>1. resolve'[q] = Cb(q) /\ reject'[q] = Cb(q)
      BY <1>4, <1>7, <2>2, <2>3
    <3>2. QED
      BY <1>14, <2>3, <3>1 DEF Waits, Cb, Ret, Inner
  <2>4. CASE q # p
    <3>1. resolve'[q] = resolve[q] /\ reject'[q] = reject[q] /\ val'[q] = val[q]
      BY <1>4, <2>2, <2>4
    <3>2. QED
      BY <1>4, <1>14, <2>2, <2>4, <3>1 DEF Waits, Kept, Finished, Cb, Ret, Inner
  <2>5. QED
    BY <2>3, <2>4
<1>20. Ended'
  BY <1>0, <1>4, <1>12 DEF Owned, Ended, ProgramOutcomes
<1>21. QED
  BY <1>14, <1>15, <1>16, <1>17, <1>18, <1>19, <1>20, ThenType DEF Base, Owned

-----------------------------------------------------------------------------
(* The lambdas.                                                            *)

\* The lambda of p returns: it has fired.
LEMMA FireBase ==
  ASSUME Base, NEW p \in Single, Heading("call", p), UNCHANGED <<outcome, val, resolve, reject, timer, built>>,
         \A q \in Single : q # Inner \/ p # Ret => (Hang(q) \in Items' <=> Hang(q) \in Items),
         p = Ret => (Hang(Inner) \in Items' <=> outcome[Ret].st = "resolved"),
         Unique(todo'),
         \A x \in Rest' : x \in Rest \/ Left(x),
         \A x \in Items' : x.op = "end" => Finished(x.p),
         \A q : ~Heading("call", q)',
         \A q \in Single : Heading("then", q)' => Hd' = Hang(q),
         \A q \in Inputs \cup {Inner} : Heading("settle", q)' => Hd'.out \in ProgramOutcomes
  PROVE  Stack' /\ Owned' /\ Hung' = Hung /\ Fired' = Fired \cup {p}
<1>0. TypeOK /\ Stack /\ Owned
  BY DEF Base
<1>1. p \in Hung /\ Finished(p)
  BY <1>0 DEF Owned, CallOwn
<1>2. /\ \A q : Finished(q)' <=> Finished(q)
      /\ \A q : Heading("call", q) <=> q = p
  BY DEF Finished, Heading
<1>3. \A q \in Single : q # Inner => (Begun(q)' <=> Begun(q))
  BY DEF Begun
<1>4. Inner \in Single /\ Ret \in Single /\ Ret # Inner
  BY PromiseNumbers
<1>5. ASSUME p # Ret
      PROVE  Hung' = Hung /\ \A q \in Single : Hang(q) \in Items' => Begun(q)'
  <2>1. Hang(Ret) \in Items' <=> Hang(Ret) \in Items
    BY <1>4, <1>5
  <2>2. Begun(Inner)' <=> Begun(Inner)
    BY <1>2, <1>5, <2>1 DEF Begun
  <2>3. \A q \in Single : (Begun(q)' <=> Begun(q)) /\ (Hang(q) \in Items' <=> Hang(q) \in Items)
    BY <1>3, <1>5, <2>2
  <2>4. Hung' = Hung
    BY <2>3 DEF Hung
  <2>5. \A q \in Single : Hang(q) \in Items' => Begun(q)'
    BY <1>0, <2>3 DEF Stack
  <2>6. QED
    BY <2>4, <2>5
<1>6. ASSUME p = Ret
      PROVE  Hung' = Hung /\ \A q \in Single : Hang(q) \in Items' => Begun(q)'
  <2>1. "next" \in built /\ Hang(Ret) \notin Items
    BY <1>1, <1>4, <1>6 DEF Hung, Begun
  <2>2. ~Begun(Inner)
    BY <1>2, <1>6 DEF Begun
  <2>3. Hang(Ret) \notin Items'
    BY <1>4, <2>1
  <2>4. Begun(Inner)' <=> outcome[Ret].st = "resolved"
    BY <1>1, <1>2, <1>6, <2>1, <2>3 DEF Begun
  <2>5. Begun(Inner)' <=> Hang(Inner) \in Items'
    BY <1>6, <2>4
  <2>6. \A q \in Single : q # Inner =>
          (Begun(q)' <=> Begun(q)) /\ (Hang(q) \in Items' <=> Hang(q) \in Items)
    BY <1>3
  <2>7. Hung' = Hung
    BY <2>2, <2>5, <2>6 DEF Hung
  <2>8. \A q \in Single : Hang(q) \in Items' => Begun(q)'
    BY <1>0, <2>5, <2>6 DEF Stack
  <2>9. QED
    BY <2>7, <2>8
<1>7. Hung' = Hung /\ \A q \in Single : Hang(q) \in Items' => Begun(q)'
  BY <1>5, <1>6
<1>8. Fired' = Fired \cup {p}
  BY <1>1, <1>2, <1>7 DEF Fired
<1>9. Stack'
  <2>1. \A x \in Rest' : Left(x)
    BY <1>0 DEF Stack
  <2>2. \A x \in Items' : x.op = "end" => Finished(x.p)'
    BY <1>2
  <2>3. QED
    BY <1>7, <2>1, <2>2 DEF Stack, Left
<1>10. Timed' /\ ThenOwn' /\ CallOwn' /\ SettleOwn'
  BY <1>0 DEF Owned, Timed, ThenOwn, CallOwn, SettleOwn, ProgramOutcomes
<1>11. HungOwn'
  <2>1. SUFFICES ASSUME NEW q \in Single PROVE IF q \in Hung' THEN Waits(q)' ELSE Kept(q)'
    BY DEF HungOwn
  <2>2. IF q \in Hung THEN Waits(q) ELSE Kept(q)
    BY <1>0 DEF Owned, HungOwn
  <2>3. CASE q \in Hung
    BY <1>2, <1>7, <2>2, <2>3 DEF Waits, Cb, Ret, Inner
  <2>4. CASE q \notin Hung
    BY <1>7, <2>2, <2>4 DEF Kept
  <2>5. QED
    BY <2>3, <2>4
<1>12. Ended'
  BY <1>0, <1>2 DEF Owned, Ended, ProgramOutcomes
<1>13. QED
  BY <1>7, <1>8, <1>9, <1>10, <1>11, <1>12 DEF Owned

\* Only handlers of the program are called on the last promise.
ByUser == Heading("call", Chained) => Hd.cb.kind = "user"

\* The lambda that is called tells its promise.
LEMMA LambdaHead ==
  ASSUME Base, ByUser, Doing("call"), Head(todo).cb.kind # "user", NEW p, p = Hd.p
  PROVE  /\ ~Idle /\ Hd = Head(todo) /\ Hd.op = "call" /\ Items = {Hd} \cup Rest
         /\ p \in Single /\ Hd.cb = Cb(p) /\ Hd.out = outcome[p] /\ p \in Hung /\ Finished(p)
         /\ outcome[p] \in Outcomes /\ p \notin Fired
         /\ \A q, r : Heading(q, r) <=> q = "call" /\ r = p
         /\ Hd.cb.kind = "input" <=> p \in Inputs
         /\ Hd.cb.kind = "chain" <=> p = Ret
         /\ Hd.cb.kind = "forward" <=> p = Inner
<1>0. TypeOK /\ Owned
  BY DEF Base
<1>1. /\ ~Idle /\ Hd = Head(todo) /\ Hd.op = "call" /\ Hd \in ItemTypes /\ Items = {Hd} \cup Rest
      /\ \A q, r : Heading(q, r) <=> q = "call" /\ r = p
  BY <1>0, DoingHead
<1>2. p \in Promises
  BY <1>1, ItemFacts
<1>3. p \in Single
  BY <1>1, <1>2, PromiseNumbers DEF ByUser
<1>4. Hd.cb = Cb(p) /\ Hd.out = outcome[p] /\ p \in Hung /\ Finished(p)
  BY <1>0, <1>1, <1>3 DEF Owned, CallOwn
<1>5. /\ Hd.cb.kind = "input" <=> p \in Inputs
      /\ Hd.cb.kind = "chain" <=> p = Ret
      /\ Hd.cb.kind = "forward" <=> p = Inner
  BY <1>3, <1>4, CbFacts, PromiseNumbers
<1>6. outcome[p] \in Outcomes
  BY <1>0, <1>2, <1>4, FinishedFacts
<1>7. p \notin Fired
  BY <1>1 DEF Fired
<1>8. QED
  BY <1>1, <1>3, <1>4, <1>5, <1>6, <1>7

\* A lambda settles another promise, or does nothing.
LEMMA FireOn ==
  ASSUME Base, ByUser, Doing("call"), Head(todo).cb.kind # "user", NEW p, p = Hd.p, TypeOK',
         UNCHANGED <<outcome, val, resolve, reject, timer, built>>,
         NEW a \in ItemTypes, a.op = "settle", a.p \in {Ret, Chained},
         todo' = <<a>> \o Tail(todo) \/ todo' = Tail(todo),
         p = Ret => outcome[Ret].st # "resolved"
  PROVE  /\ Base' /\ Hung' = Hung /\ Fired' = Fired \cup {p}
         /\ \A q : Heading("settle", q)' => Hd' = a /\ q = a.p
         /\ todo' = <<a>> \o Tail(todo) => Hd' = a /\ Heading("settle", a.p)'
         /\ todo' = Tail(todo) => \A q : ~Heading("settle", q)'
         /\ \A q : ~Heading("call", q)'
         /\ \A q : Heading("then", q)' => q \in Single
         /\ Items = {Hd} \cup Rest /\ Rest \subseteq Items'
<1>0. TypeOK /\ Stack /\ Owned
  BY DEF Base
<1>1. /\ ~Idle /\ Hd.op = "call" /\ Items = {Hd} \cup Rest
      /\ p \in Single /\ Heading("call", p)
  BY LambdaHead
<1>2. /\ Unique(todo') /\ Rest' \subseteq Rest /\ Items' \subseteq Rest \cup {a} /\ Rest \subseteq Items'
      /\ \A q : ~Heading("call", q)'
      /\ \A q : Heading("then", q)' => q \in Single /\ Hd' = Hang(q)
      /\ \A q : Heading("settle", q)' => Hd' = a /\ q = a.p
      /\ todo' = <<a>> \o Tail(todo) => Hd' = a /\ Heading("settle", a.p)'
      /\ todo' = Tail(todo) => \A q : ~Heading("settle", q)'
  <2>1. CASE todo' = Tail(todo)
    <3>1. /\ Unique(todo') /\ Items' = Rest /\ Rest' \subseteq Rest
          /\ \A q : ~Heading("call", q)' /\ ~Heading("settle", q)'
          /\ \A q : Heading("then", q)' => q \in Single /\ Hd' = Hang(q)
      BY <1>0, <1>1, <2>1, PopStep
    <3>2. ASSUME todo' = <<a>> \o Tail(todo) PROVE FALSE
      <4>1. Heading("settle", a.p)'
        BY <1>0, <1>1, <3>2, ReplaceStep
      <4>2. QED
        BY <3>1, <4>1
    <3>3. QED
      BY <3>1, <3>2
  <2>2. CASE todo' = <<a>> \o Tail(todo)
    <3>1. /\ Hd' = a /\ Rest' = Rest /\ Items' = {a} \cup Rest /\ Unique(todo')
          /\ \A op, q : Heading(op, q)' <=> a.op = op /\ a.p = q
      BY <1>0, <1>1, <2>2, ReplaceStep
    <3>2. ASSUME todo' = Tail(todo) PROVE FALSE
      BY <1>0, <1>1, <3>1, <3>2, PopStep
    <3>3. QED
      BY <2>2, <3>1, <3>2
  <2>3. QED
    BY <2>1, <2>2
<1>3. \A q \in Single : Hang(q) # a /\ Hang(q) # Hd
  BY <1>1, HangFacts
<1>4. \A q \in Single : Hang(q) \in Items' <=> Hang(q) \in Items
  BY <1>1, <1>2, <1>3
<1>5. ASSUME p = Ret PROVE Hang(Inner) \notin Items'
  <2>1. ~Begun(Inner)
    BY <1>1, <1>5 DEF Begun
  <2>2. QED
    BY <1>0, <1>4, <2>1, PromiseNumbers DEF Stack
<1>6. \A x \in Items' : x.op = "end" => Finished(x.p)
  BY <1>0, <1>1, <1>2 DEF Stack
<1>7. \A q \in Inputs \cup {Inner} : ~Heading("settle", q)'
  BY <1>2, PromiseNumbers
<1>8. Stack' /\ Owned' /\ Hung' = Hung /\ Fired' = Fired \cup {p}
  BY <1>1, <1>2, <1>4, <1>5, <1>6, <1>7, FireBase
<1>9. QED
  BY <1>1, <1>2, <1>8 DEF Base

\* The lambdas hung on inner.
LEMMA CallForwardBase ==
  ASSUME Base, ByUser, CallForward
  PROVE  /\ Base' /\ Hung' = Hung /\ Fired' = Fired \cup {Inner} /\ Heading("call", Inner)
         /\ Finished(Inner) /\ Inner \in Hung
         /\ \A q : Heading("settle", q)' <=> q = Chained
         /\ Hd'.out = outcome[Inner]
         /\ \A q : ~Heading("call", q)'
         /\ \A q : Heading("then", q)' => q \in Single
         /\ Items = {Hd} \cup Rest /\ Rest \subseteq Items' /\ Hd.op = "call"
         /\ UNCHANGED <<kind, isVoid, outcome, val, resolve, reject, finally, timer, count,
                        result, built, thens, got, late, finals>>
<1>0. TypeOK /\ Stack
  BY DEF Base
<1>1. PICK p : p = Hd.p
  OBVIOUS
<1>2. /\ Doing("call") /\ Head(todo).cb.kind = "forward"
      /\ UNCHANGED <<kind, isVoid, outcome, val, resolve, reject, finally, timer, count,
                     result, built, thens, got, late, finals>>
      /\ todo' = <<Settle(Chained, Head(todo).out)>> \o Tail(todo)
  BY DEF CallForward, program, slots, shared, history
<1>3. /\ ~Idle /\ Hd = Head(todo) /\ Hd.op = "call" /\ p \in Single /\ Hd.out = outcome[p] /\ p \in Hung
      /\ Finished(p) /\ outcome[p] \in Outcomes /\ p = Inner
      /\ \A q, r : Heading(q, r) <=> q = "call" /\ r = p
  BY <1>1, <1>2, LambdaHead
<1>4. PICK a : a = Settle(Chained, outcome[p])
  OBVIOUS
<1>5. a \in ItemTypes /\ a.op = "settle" /\ a.p = Chained /\ a.out = outcome[p]
  BY <1>3, <1>4, MadeItems, PromiseNumbers
<1>6. todo' = <<a>> \o Tail(todo)
  BY <1>2, <1>3, <1>4
<1>7. todo' \in Seq(ItemTypes)
  BY <1>0, <1>3, <1>5, <1>6, ReplaceStep
<1>8. TypeOK'
  BY <1>0, <1>2, <1>7 DEF TypeOK, ItemTypes
<1>9. /\ Base' /\ Hung' = Hung /\ Fired' = Fired \cup {p}
      /\ \A q : Heading("settle", q)' => Hd' = a /\ q = a.p
      /\ Hd' = a /\ Heading("settle", a.p)'
      /\ \A q : ~Heading("call", q)'
      /\ \A q : Heading("then", q)' => q \in Single
      /\ Items = {Hd} \cup Rest /\ Rest \subseteq Items'
  BY <1>1, <1>2, <1>3, <1>5, <1>6, <1>8, FireOn, PromiseNumbers
<1>10. QED
  BY <1>2, <1>3, <1>5, <1>9

\* What the lambda of an input stores, and what it settles the result with.
Stored(p, o) == IF kind = "all" /\ o.st = "resolved" /\ ~Finished(Ret)
                  THEN [result EXCEPT ![p] = o.val[1]] ELSE result
Answer(p, o) == IF kind = "all" /\ o.st = "resolved" THEN Resolved(Stored(p, o)) ELSE o

\* A result is data.
LEMMA ResultData ==
  ASSUME NEW r \in [Inputs -> Values \cup {Default}]
  PROVE  r \in Data /\ Resolved(r) \in Outcomes
<1>1. N \in Nat
  BY PromiseAssumption
<1>2. PICK S : S = Values \cup {Default}
  OBVIOUS
<1>3. r \in [1..N -> S]
  BY <1>2 DEF Inputs
<1>4. r \in Seq(S)
  BY <1>1, <1>3
<1>5. r \in Data
  BY <1>2, <1>4 DEF Data
<1>6. QED
  BY <1>5 DEF Resolved, Outcomes

\* The values of a settled input.
LEMMA InputData ==
  ASSUME Base, NEW p \in Inputs, Finished(p)
  PROVE  /\ outcome[p] \in ProgramOutcomes /\ outcome[p] \in Outcomes
         /\ outcome[p].st = "resolved" =>
              /\ outcome[p].val[1] \in Values /\ outcome[p].val = <<outcome[p].val[1]>>
              /\ outcome[p] = Resolved(<<outcome[p].val[1]>>)
<1>1. outcome[p] \in ProgramOutcomes /\ outcome[p] \in Outcomes
  BY ProgramOutcomeFacts DEF Base, Owned, Ended
<1>2. ASSUME outcome[p].st = "resolved"
      PROVE  /\ outcome[p].val[1] \in Values /\ outcome[p].val = <<outcome[p].val[1]>>
             /\ outcome[p] = Resolved(<<outcome[p].val[1]>>)
  <2>1. PICK v \in Values : outcome[p] = Resolved(<<v>>) /\ outcome[p].val = <<v>>
    BY <1>1, <1>2, ProgramOutcomeFacts
  <2>2. outcome[p].val[1] = v
    BY <2>1
  <2>3. QED
    BY <2>1, <2>2
<1>3. QED
  BY <1>1, <1>2

\* The lambdas hung on an input.
LEMMA CallInputBase ==
  ASSUME Base, ByUser, CallInput, NEW p, p = Hd.p, NEW o, o = outcome[p], NEW fin, fin = Answer(p, o),
         count' \in 0..N
  PROVE  /\ Base' /\ Hung' = Hung /\ Fired' = Fired \cup {p}
         /\ p \in Inputs /\ p \notin Fired /\ p \in Hung /\ Heading("call", p) /\ Finished(p)
         /\ \A q, r : Heading(q, r) <=> q = "call" /\ r = p
         /\ \A q : Heading("settle", q)' => q = Ret
         /\ IF ~Finished(Ret) /\ SettlesRet(count + 1, o)
              THEN Heading("settle", Ret)' /\ Hd'.out = fin ELSE ~Heading("settle", Ret)'
         /\ \A q : ~Heading("call", q)'
         /\ \A q : Heading("then", q)' => q \in Single
         /\ Items = {Hd} \cup Rest /\ Rest \subseteq Items' /\ Hd.op = "call"
         /\ count' = IF kind = "race" THEN count ELSE count + 1
         /\ result' = Stored(p, o)
         /\ UNCHANGED <<kind, isVoid, outcome, val, resolve, reject, finally, timer, built,
                        thens, got, late, finals>>
<1>0. TypeOK /\ Stack
  BY DEF Base
<1>2. /\ Doing("call") /\ Head(todo).cb.kind = "input" /\ Head(todo).cb.kind # "user"
      /\ UNCHANGED <<kind, isVoid, outcome, val, resolve, reject, finally, timer, built,
                     thens, got, late, finals>>
  BY DEF CallInput, program, slots, history
<1>3. /\ ~Idle /\ Hd = Head(todo) /\ Hd.op = "call" /\ p \in Single /\ Hd.out = o /\ p \in Hung
      /\ Finished(p) /\ p \in Inputs /\ p \notin Fired /\ Items = {Hd} \cup Rest
      /\ \A q, r : Heading(q, r) <=> q = "call" /\ r = p
  BY <1>2, LambdaHead
<1>4. PICK a : a = Settle(Ret, fin)
  OBVIOUS
<1>5. /\ count' = IF kind = "race" THEN count ELSE count + 1
      /\ result' = Stored(p, o)
      /\ todo' = (IF ~Finished(Ret) /\ SettlesRet(count + 1, o) THEN <<a>> ELSE <<>>) \o Tail(todo)
  BY <1>3, <1>4 DEF CallInput, Counted, StoresAt, Stored, Answer
<1>6. Tail(todo) \in Seq(ItemTypes)
  <2>1. todo \in Seq(ItemTypes) /\ todo # <<>>
    BY <1>0, <1>3, TodoType DEF Idle
  <2>2. QED
    BY <2>1
<1>7. IF ~Finished(Ret) /\ SettlesRet(count + 1, o) THEN todo' = <<a>> \o Tail(todo) ELSE todo' = Tail(todo)
  <2>1. <<>> \o Tail(todo) = Tail(todo)
    BY <1>6
  <2>2. QED
    BY <1>5, <2>1
<1>8. /\ o \in Outcomes /\ (o.st = "resolved" => o.val[1] \in Values)
  BY <1>3, InputData
<1>9. result' \in [Inputs -> Values \cup {Default}]
  <2>1. result \in [Inputs -> Values \cup {Default}]
    BY <1>0 DEF TypeOK
  <2>2. QED
    BY <1>3, <1>5, <1>8, <2>1 DEF Stored
<1>10. fin \in Outcomes
  BY <1>5, <1>8, <1>9, ResultData DEF Answer
<1>11. a \in ItemTypes /\ a.op = "settle" /\ a.p = Ret /\ a.out = fin
  BY <1>4, <1>10, MadeItems, PromiseNumbers
<1>12. todo' \in Seq(ItemTypes)
  BY <1>0, <1>3, <1>7, <1>11, ReplaceStep, PopStep
<1>13. TypeOK'
  BY <1>0, <1>2, <1>9, <1>12 DEF TypeOK, ItemTypes
<1>14. /\ todo' = <<a>> \o Tail(todo) \/ todo' = Tail(todo)
       /\ p # Ret
  BY <1>3, <1>7, PromiseNumbers
<1>15. /\ Base' /\ Hung' = Hung /\ Fired' = Fired \cup {p}
       /\ \A q : Heading("settle", q)' => Hd' = a /\ q = a.p
       /\ todo' = <<a>> \o Tail(todo) => Hd' = a /\ Heading("settle", a.p)'
       /\ todo' = Tail(todo) => \A q : ~Heading("settle", q)'
       /\ \A q : ~Heading("call", q)'
       /\ \A q : Heading("then", q)' => q \in Single
       /\ Rest \subseteq Items'
  BY <1>2, <1>11, <1>13, <1>14, FireOn
<1>16. IF ~Finished(Ret) /\ SettlesRet(count + 1, o)
         THEN Heading("settle", Ret)' /\ Hd'.out = fin ELSE ~Heading("settle", Ret)'
  BY <1>7, <1>11, <1>15
<1>17. \A q : Heading("settle", q)' => q = Ret
  BY <1>11, <1>15
<1>18. QED
  BY <1>2, <1>3, <1>5, <1>15, <1>16, <1>17

\* f returns inner: its lambdas are hung, behind the call that settles it if
\* there is one.
LEMMA FireChain ==
  ASSUME Base, Heading("call", Ret), outcome[Ret].st = "resolved", TypeOK',
         UNCHANGED <<outcome, val, resolve, reject, timer, built>>,
         NEW i \in Outcomes,
         \/ todo' = <<Hang(Inner)>> \o Tail(todo)
         \/ i \in ProgramOutcomes /\ todo' = <<Settle(Inner, i), Hang(Inner)>> \o Tail(todo)
  PROVE  /\ Base' /\ Hung' = Hung /\ Fired' = Fired \cup {Ret}
         /\ \A q : Heading("settle", q)' => q = Inner
         /\ \A q : ~Heading("call", q)'
         /\ \A q : Heading("then", q)' => q \in Single
         /\ Rest \subseteq Items'
<1>0. TypeOK /\ Stack /\ Owned
  BY DEF Base
<1>1. PICK h : h = Hang(Inner)
  OBVIOUS
<1>2. PICK a : a = Settle(Inner, i)
  OBVIOUS
<1>3. /\ Inner \in Single /\ Ret \in Single /\ Inner # Ret /\ Inner \in Promises
  BY PromiseNumbers
<1>4. h \in ItemTypes /\ h.op = "then" /\ h.p = Inner
  BY <1>1, <1>3, HangFacts
<1>5. a \in ItemTypes /\ a.op = "settle" /\ a.p = Inner /\ a.out = i
  BY <1>2, <1>3, MadeItems
<1>6. ~Idle /\ Hd.op = "call" /\ Items = {Hd} \cup Rest
  BY <1>0, TodoType DEF Heading
<1>7. h \notin Items
  BY <1>0, <1>1, <1>3 DEF Stack, Begun
<1>8. /\ Unique(todo') /\ Rest' \subseteq Rest \cup {h} /\ Items' \subseteq Rest \cup {a, h} /\ Rest \subseteq Items'
      /\ h \in Items'
      /\ \A q : ~Heading("call", q)'
      /\ \A q : Heading("then", q)' => q = Inner /\ Hd' = h
      /\ \A q : Heading("settle", q)' => q = Inner /\ Hd' = a /\ i \in ProgramOutcomes
  <2>1. CASE todo' = <<h>> \o Tail(todo)
    <3>1. /\ Hd' = h /\ Rest' = Rest /\ Items' = {h} \cup Rest /\ Unique(todo')
          /\ \A op, q : Heading(op, q)' <=> h.op = op /\ h.p = q
      BY <1>0, <1>4, <1>6, <1>7, <2>1, ReplaceStep
    <3>2. QED
      BY <1>4, <3>1
  <2>2. CASE i \in ProgramOutcomes /\ todo' = <<a, h>> \o Tail(todo)
    <3>1. /\ Hd' = a /\ Rest' = {h} \cup Rest /\ Items' = {a, h} \cup Rest /\ Unique(todo')
          /\ \A op, q : Heading(op, q)' <=> a.op = op /\ a.p = q
      BY <1>0, <1>4, <1>5, <1>6, <1>7, <2>2, ExpandStep
    <3>2. QED
      BY <1>5, <2>2, <3>1
  <2>3. QED
    BY <1>1, <1>2, <2>1, <2>2
<1>9. \A q \in Single : q # Inner => (Hang(q) \in Items' <=> Hang(q) \in Items)
  <2>1. \A q \in Single : Hang(q) # a /\ Hang(q) # Hd
    BY <1>5, <1>6, HangFacts
  <2>2. \A q \in Single : q # Inner => Hang(q) # h
    BY <1>1, <1>3, HangFacts
  <2>3. QED
    BY <1>6, <1>8, <2>1, <2>2
<1>10. \A x \in Items' : x.op = "end" => Finished(x.p)
  BY <1>0, <1>4, <1>5, <1>6, <1>8 DEF Stack
<1>11. \A x \in Rest' : x \in Rest \/ Left(x)
  BY <1>1, <1>3, <1>8 DEF Left
<1>12. \A q \in Single : Heading("then", q)' => Hd' = Hang(q)
  BY <1>1, <1>8
<1>13. \A q \in Inputs \cup {Inner} : Heading("settle", q)' => Hd'.out \in ProgramOutcomes
  BY <1>5, <1>8
<1>14. Hang(Inner) \in Items'
  BY <1>1, <1>8
<1>15. Stack' /\ Owned' /\ Hung' = Hung /\ Fired' = Fired \cup {Ret}
  BY <1>3, <1>8, <1>9, <1>10, <1>11, <1>12, <1>13, <1>14, FireBase
<1>16. QED
  BY <1>3, <1>8, <1>15 DEF Base

\* The lambda of ret.then( f ).
LEMMA CallChainBase ==
  ASSUME Base, ByUser, CallChain
  PROVE  /\ Base' /\ Hung' = Hung /\ Fired' = Fired \cup {Ret} /\ Heading("call", Ret)
         /\ Finished(Ret) /\ Ret \in Hung /\ Ret \notin Fired
         /\ outcome[Ret].st = "rejected" => Heading("settle", Chained)' /\ Hd'.out = outcome[Ret]
         /\ outcome[Ret].st = "resolved" => ~Heading("settle", Chained)'
         /\ outcome[Ret].st \in {"resolved", "rejected"}
         /\ \A q : Heading("settle", q)' => q \in {Inner, Chained}
         /\ \A q : ~Heading("call", q)'
         /\ \A q : Heading("then", q)' => q \in Single
         /\ Items = {Hd} \cup Rest /\ Rest \subseteq Items' /\ Hd.op = "call"
         /\ UNCHANGED <<kind, isVoid, outcome, val, resolve, reject, finally, timer, count,
                        result, built, thens, got, late, finals>>
<1>0. TypeOK /\ Stack
  BY DEF Base
<1>1. PICK p : p = Hd.p
  OBVIOUS
<1>2. /\ Doing("call") /\ Head(todo).cb.kind = "chain"
      /\ UNCHANGED <<kind, isVoid, outcome, val, resolve, reject, finally, timer, count,
                     result, built, thens, got, late, finals>>
  BY DEF CallChain, program, slots, shared, history
<1>3. /\ ~Idle /\ Hd = Head(todo) /\ Hd.op = "call" /\ p \in Single /\ Hd.out = outcome[p] /\ p \in Hung
      /\ Finished(p) /\ outcome[p] \in Outcomes /\ p = Ret /\ p \notin Fired /\ Items = {Hd} \cup Rest
      /\ \A q, r : Heading(q, r) <=> q = "call" /\ r = p
  BY <1>1, <1>2, LambdaHead
<1>4. outcome[Ret].st \in {"resolved", "rejected"}
  BY <1>3, OutcomeFacts
<1>5. Hang(Inner) = Then(Inner, Lambda("forward"), Lambda("forward"))
  BY CbFacts DEF Hang
<1>6. PICK a : a = Settle(Chained, outcome[p])
  OBVIOUS
<1>7. a \in ItemTypes /\ a.op = "settle" /\ a.p = Chained /\ a.out = outcome[p]
  BY <1>3, <1>6, MadeItems, PromiseNumbers
<1>8. \/ outcome[Ret].st = "rejected" /\ todo' = <<a>> \o Tail(todo)
      \/ outcome[Ret].st = "resolved" /\ todo' = <<Hang(Inner)>> \o Tail(todo)
      \/ outcome[Ret].st = "resolved" /\ \E i \in ProgramOutcomes : todo' = <<Settle(Inner, i), Hang(Inner)>> \o Tail(todo)
  BY <1>3, <1>5, <1>6 DEF CallChain, ChainReject, ProgramOutcomes
<1>9. Hang(Inner) \in ItemTypes /\ \A i \in ProgramOutcomes : Settle(Inner, i) \in ItemTypes
  BY HangFacts, MadeItems, PromiseNumbers, ProgramOutcomeFacts
<1>10. CASE outcome[Ret].st = "rejected"
  <2>1. todo' = <<a>> \o Tail(todo)
    BY <1>8, <1>10
  <2>2. todo' \in Seq(ItemTypes)
    BY <1>0, <1>3, <1>7, <2>1, ReplaceStep
  <2>3. TypeOK'
    BY <1>0, <1>2, <2>2 DEF TypeOK, ItemTypes
  <2>4. /\ Base' /\ Hung' = Hung /\ Fired' = Fired \cup {p}
        /\ \A q : Heading("settle", q)' => Hd' = a /\ q = a.p
        /\ Hd' = a /\ Heading("settle", a.p)'
        /\ \A q : ~Heading("call", q)'
        /\ \A q : Heading("then", q)' => q \in Single
        /\ Rest \subseteq Items'
    BY <1>1, <1>2, <1>7, <1>10, <2>1, <2>3, FireOn
  <2>5. QED
    BY <1>2, <1>3, <1>4, <1>7, <1>10, <2>4
<1>11. ASSUME outcome[Ret].st = "resolved", NEW i \in Outcomes, todo' \in Seq(ItemTypes),
              \/ todo' = <<Hang(Inner)>> \o Tail(todo)
              \/ i \in ProgramOutcomes /\ todo' = <<Settle(Inner, i), Hang(Inner)>> \o Tail(todo)
       PROVE  /\ Base' /\ Hung' = Hung /\ Fired' = Fired \cup {Ret}
              /\ \A q : Heading("settle", q)' => q = Inner
              /\ \A q : ~Heading("call", q)'
              /\ \A q : Heading("then", q)' => q \in Single
              /\ Rest \subseteq Items'
  <2>1. TypeOK'
    BY <1>0, <1>2, <1>11 DEF TypeOK, ItemTypes
  <2>2. QED
    BY <1>2, <1>3, <1>11, <2>1, FireChain
<1>12. CASE outcome[Ret].st = "resolved" /\ todo' = <<Hang(Inner)>> \o Tail(todo)
  <2>1. todo' \in Seq(ItemTypes)
    BY <1>0, <1>3, <1>9, <1>12, ReplaceStep
  <2>2. PICK i : i \in Outcomes
    BY ProgramOutcomeFacts
  <2>3. QED
    BY <1>2, <1>3, <1>4, <1>11, <1>12, <2>1, <2>2, PromiseNumbers
<1>13. CASE outcome[Ret].st = "resolved" /\ \E i \in ProgramOutcomes : todo' = <<Settle(Inner, i), Hang(Inner)>> \o Tail(todo)
  <2>1. PICK i \in ProgramOutcomes : todo' = <<Settle(Inner, i), Hang(Inner)>> \o Tail(todo)
    BY <1>13
  <2>2. todo' \in Seq(ItemTypes)
    BY <1>0, <1>3, <1>9, <2>1, ExpandStep
  <2>3. QED
    BY <1>2, <1>3, <1>4, <1>11, <1>13, <2>1, <2>2, PromiseNumbers, ProgramOutcomeFacts
<1>14. QED
  BY <1>8, <1>10, <1>12, <1>13

-----------------------------------------------------------------------------
(* What the program builds.                                                *)

\* The program builds something: lambdas are to be hung.
LEMMA BuildBase ==
  ASSUME Base, Idle, TypeOK', UNCHANGED <<outcome, val, resolve, reject, timer>>, Hung' = Hung,
         Unique(todo'), \A x \in Rest' : Left(x), \A x \in Items' : x.op # "end",
         \A p \in Single : Hang(p) \in Items' => Begun(p)',
         \A p : ~Heading("call", p)',
         \A p \in Single : Heading("then", p)' => Hd' = Hang(p),
         \A p \in Inputs \cup {Inner} : ~Heading("settle", p)'
  PROVE  Base' /\ Fired' = Fired
<1>0. TypeOK /\ Stack /\ Owned
  BY DEF Base
<1>1. \A q : Finished(q)' <=> Finished(q)
  BY DEF Finished
<1>2. \A q, p : ~Heading(q, p)
  BY DEF Heading
<1>3. Fired' = Fired
  BY <1>1, <1>2 DEF Fired
<1>4. Stack'
  BY DEF Stack, Left
<1>5. Timed' /\ ThenOwn' /\ CallOwn' /\ SettleOwn'
  BY <1>0 DEF Owned, Timed, ThenOwn, CallOwn, SettleOwn
<1>6. HungOwn'
  <2>1. SUFFICES ASSUME NEW q \in Single PROVE IF q \in Hung' THEN Waits(q)' ELSE Kept(q)'
    BY DEF HungOwn
  <2>2. IF q \in Hung THEN Waits(q) ELSE Kept(q)
    BY <1>0 DEF Owned, HungOwn
  <2>3. CASE q \in Hung
    BY <1>1, <2>2, <2>3 DEF Waits, Cb, Ret, Inner
  <2>4. CASE q \notin Hung
    BY <2>2, <2>4 DEF Kept
  <2>5. QED
    BY <2>3, <2>4
<1>7. Ended'
  BY <1>0, <1>1 DEF Owned, Ended, ProgramOutcomes
<1>8. QED
  BY <1>3, <1>4, <1>5, <1>6, <1>7 DEF Base, Owned

\* The stack that hangs lambdas on all inputs.
LEMMA HangAll ==
  ASSUME N # 0, NEW t, t = [i \in Inputs |-> Hang(i)]
  PROVE  /\ t \in Seq(ItemTypes) /\ t # <<>> /\ t[1] = Hang(1) /\ 1 \in Inputs
         /\ ItemsOf(t) = {Hang(i) : i \in Inputs} /\ RestOf(t) \subseteq ItemsOf(t) /\ Unique(t)
<1>1. N \in Nat /\ 1 \in Inputs /\ Inputs = 1..N
  BY PromiseAssumption DEF Inputs
<1>2. \A i \in Inputs : Hang(i) \in ItemTypes /\ \A j \in Inputs : Hang(i) = Hang(j) => i = j
  BY HangFacts, PromiseNumbers
<1>3. t \in [1..N -> ItemTypes] /\ \A i \in 1..N : t[i] = Hang(i)
  BY <1>1, <1>2
<1>4. t \in Seq(ItemTypes) /\ Len(t) = N
  BY <1>1, <1>3, LenProperties
<1>5. t # <<>>
  BY <1>1, <1>4
<1>6. ItemsOf(t) = {Hang(i) : i \in Inputs}
  BY <1>1, <1>3, <1>4 DEF ItemsOf
<1>7. RestOf(t) \subseteq ItemsOf(t)
  <2>1. 2..Len(t) \subseteq 1..Len(t)
    BY <1>1, <1>4
  <2>2. QED
    BY <2>1 DEF ItemsOf, RestOf
<1>8. Unique(t)
  BY <1>1, <1>2, <1>3, <1>4 DEF Unique
<1>9. QED
  BY <1>1, <1>3, <1>4, <1>5, <1>6, <1>7, <1>8

\* What the combinators say without inputs.
Empty == IF kind = "all" THEN Resolved(<<>>) ELSE Rejected(Invalid)

\* The combinator is called.
LEMMA CombineBase ==
  ASSUME Base, Combine
  PROVE  /\ Base' /\ Hung' = Hung /\ Fired' = Fired /\ Hung = {} /\ Idle
         /\ N = 0 => Heading("settle", Ret)' /\ Hd'.out = Empty
         /\ N # 0 => ~Heading("settle", Ret)'
         /\ \A q : Heading("settle", q)' => q = Ret
         /\ \A q : ~Heading("call", q)'
         /\ \A q : Heading("then", q)' => q \in Single
         /\ built = {} /\ built' = {"ret"}
         /\ UNCHANGED <<kind, isVoid, outcome, val, resolve, reject, finally, timer, count,
                        result, thens, got, late, finals>>
<1>0. TypeOK /\ Stack /\ Owned
  BY DEF Base
<1>1. /\ Idle /\ built = {} /\ built' = {"ret"}
      /\ UNCHANGED <<kind, isVoid, outcome, val, resolve, reject, finally, timer, count,
                     result, thens, got, late, finals>>
  BY DEF Combine, program, slots, shared, history
<1>2. \A p \in Single : Begun(p)' <=> p \in Inputs
  <2>1. "next" \notin built' /\ built' # {}
    BY <1>1
  <2>2. QED
    BY <2>1, PromiseNumbers DEF Begun, Ret, Inner
<1>3. Hung = {}
  BY <1>1 DEF Hung, Begun
<1>4. CASE N = 0
  <2>1. PICK a : a = Settle(Ret, Empty)
    OBVIOUS
  <2>2. todo' = <<a>>
    BY <1>4, <2>1 DEF Combine, Empty
  <2>3. Empty \in Outcomes
    BY DEF Empty, Resolved, Rejected, Outcomes, AnyError, Data
  <2>4. a \in ItemTypes /\ a.op = "settle" /\ a.p = Ret /\ a.out = Empty
    BY <2>1, <2>3, MadeItems, PromiseNumbers
  <2>5. /\ todo' \in Seq(ItemTypes) /\ Hd' = a /\ Rest' = {} /\ Items' = {a} /\ Unique(todo')
        /\ \A op, p : Heading(op, p)' <=> a.op = op /\ a.p = p
    BY <2>2, <2>4, StartStep
  <2>6. TypeOK'
    BY <1>0, <1>1, <2>5 DEF TypeOK, ItemTypes
  <2>7. \A p \in Single : Hang(p) \notin Items' /\ p \notin Inputs
    BY <1>4, <2>4, <2>5, HangFacts DEF Inputs
  <2>8. Hung' = {}
    BY <1>2, <2>7 DEF Hung
  <2>9. Base' /\ Fired' = Fired
    BY <1>1, <1>3, <2>4, <2>5, <2>6, <2>7, <2>8, BuildBase, PromiseNumbers
  <2>10. QED
    BY <1>1, <1>3, <1>4, <2>4, <2>5, <2>8, <2>9
<1>5. CASE N # 0
  <2>1. todo' = [i \in Inputs |-> Hang(i)]
    <3>1. \A i \in Inputs : Hang(i) = Then(i, Lambda("input"), Lambda("input"))
      BY CbFacts DEF Hang
    <3>2. todo' = [i \in Inputs |-> Then(i, Lambda("input"), Lambda("input"))]
      BY <1>5 DEF Combine
    <3>3. QED
      BY <3>1, <3>2
  <2>2. /\ todo' \in Seq(ItemTypes) /\ todo' # <<>> /\ todo'[1] = Hang(1) /\ 1 \in Inputs
        /\ ItemsOf(todo') = {Hang(i) : i \in Inputs} /\ RestOf(todo') \subseteq ItemsOf(todo') /\ Unique(todo')
    BY <1>5, <2>1, HangAll
  <2>3. /\ ~Idle' /\ Hd' = Hang(1) /\ Items' = {Hang(i) : i \in Inputs} /\ Rest' \subseteq Items'
    BY <2>2 DEF Idle, Hd, Items, Rest
  <2>4. \A op, p : Heading(op, p)' <=> op = "then" /\ p = 1
    <3>1. Hang(1).op = "then" /\ Hang(1).p = 1
      BY <2>2, HangFacts, PromiseNumbers
    <3>2. QED
      BY <2>3, <3>1 DEF Heading
  <2>5. TypeOK'
    BY <1>0, <1>1, <2>2 DEF TypeOK, ItemTypes
  <2>6. \A p \in Single : Hang(p) \in Items' <=> p \in Inputs
    BY <2>3, HangFacts, PromiseNumbers
  <2>7. Hung' = {}
    BY <1>2, <2>6 DEF Hung
  <2>8. \A x \in Items' : x.op # "end" /\ Left(x)
    BY <2>3, HangFacts, PromiseNumbers DEF Left
  <2>9. Base' /\ Fired' = Fired
    BY <1>1, <1>2, <1>3, <2>2, <2>3, <2>4, <2>5, <2>6, <2>7, <2>8, BuildBase
  <2>10. QED
    BY <1>1, <1>3, <1>5, <2>2, <2>4, <2>7, <2>9, PromiseNumbers
<1>6. QED
  BY <1>4, <1>5

\* next = ret.then( f )
LEMMA ChainThenBase ==
  ASSUME Base, ChainThen
  PROVE  /\ Base' /\ Hung' = Hung /\ Fired' = Fired /\ Idle
         /\ \A q : ~Heading("settle", q)'
         /\ \A q : ~Heading("call", q)'
         /\ \A q : Heading("then", q)' => q \in Single
         /\ built = {"ret"} /\ built' = {"ret", "next"}
         /\ UNCHANGED <<kind, isVoid, outcome, val, resolve, reject, finally, timer, count,
                        result, thens, got, late, finals>>
<1>0. TypeOK /\ Stack /\ Owned
  BY DEF Base
<1>1. /\ Idle /\ built = {"ret"} /\ built' = {"ret", "next"}
      /\ UNCHANGED <<kind, isVoid, outcome, val, resolve, reject, finally, timer, count,
                     result, thens, got, late, finals>>
  BY DEF ChainThen, program, slots, shared, history
<1>2. todo' = <<Hang(Ret)>>
  BY CbFacts DEF ChainThen, Hang
<1>3. PICK a : a = Hang(Ret)
  OBVIOUS
<1>4. a \in ItemTypes /\ a.op = "then" /\ a.p = Ret
  BY <1>3, HangFacts, PromiseNumbers
<1>5. /\ todo' \in Seq(ItemTypes) /\ Hd' = a /\ Rest' = {} /\ Items' = {a} /\ Unique(todo')
      /\ \A op, p : Heading(op, p)' <=> a.op = op /\ a.p = p
  BY <1>2, <1>3, <1>4, StartStep
<1>6. TypeOK'
  BY <1>0, <1>1, <1>5 DEF TypeOK, ItemTypes
<1>7. Items = {}
  BY <1>0, <1>1, TodoType
<1>8. \A p \in Single : Hang(p) \in Items' <=> p = Ret
  BY <1>3, <1>5, HangFacts, PromiseNumbers
<1>9. /\ \A p \in Single : Begun(p) <=> p \in Inputs
      /\ \A p \in Single : Begun(p)' <=> p \in Inputs \cup {Ret}
  <2>1. "next" \in built' /\ built' # {} /\ "next" \notin built /\ built # {}
    BY <1>1
  <2>2. Hang(Ret) \in Items'
    BY <1>8, PromiseNumbers
  <2>3. \A p \in Single : Begun(p) <=> p \in Inputs
    BY <2>1, PromiseNumbers DEF Begun
  <2>4. ~Begun(Inner)'
    BY <2>2 DEF Begun
  <2>5. \A p \in Single : p # Inner => Begun(p)'
    BY <2>1 DEF Begun
  <2>6. QED
    BY <2>3, <2>4, <2>5, PromiseNumbers
<1>10. Hung' = Hung
  BY <1>7, <1>8, <1>9, PromiseNumbers DEF Hung
<1>11. \A x \in Items' : x.op # "end"
  BY <1>4, <1>5
<1>12. Base' /\ Fired' = Fired
  BY <1>1, <1>3, <1>4, <1>5, <1>6, <1>8, <1>9, <1>10, <1>11, BuildBase
<1>13. QED
  BY <1>1, <1>4, <1>5, <1>10, <1>12, PromiseNumbers

\* At first nothing is built.
LEMMA InitBase ==
  ASSUME Init
  PROVE  Base /\ Hung = {} /\ Fired = {} /\ Idle /\ (\A q, p : ~Heading(q, p)) /\ Items = {} /\ Rest = {}
<1>1. TypeOK
  <2>1. todo \in Seq(ItemTypes)
    BY DEF Init
  <2>2. val \in [Promises -> Data]
    BY DEF Init, Data
  <2>3. resolve \in [Promises -> Callbacks] /\ reject \in [Promises -> Callbacks]
    BY CbFacts DEF Init
  <2>4. count \in 0..N /\ thens \in 0..MaxThens
    BY PromiseAssumption DEF Init
  <2>5. got \in [Handlers -> Seq(Outcomes)]
    BY DEF Init
  <2>6. finals \in Nat \X Nat
    BY DEF Init
  <2>7. QED
    BY <2>1, <2>2, <2>3, <2>4, <2>5, <2>6 DEF Init, TypeOK, ItemTypes
<1>2. Idle /\ Items = {} /\ Rest = {} /\ Unique(todo)
  BY NothingToDo DEF Init, Idle, Items, Rest
<1>3. \A q, p : ~Heading(q, p)
  BY <1>2 DEF Heading
<1>4. \A p \in Single : ~Begun(p)
  BY DEF Init, Begun
<1>5. Hung = {} /\ Fired = {}
  BY <1>4 DEF Hung, Fired
<1>6. Stack
  BY <1>2 DEF Stack
<1>7. \A p \in Promises : ~Finished(p) /\ ~timer[p] /\ resolve[p] = None /\ reject[p] = None
  BY DEF Init, Finished
<1>8. Timed /\ ThenOwn /\ CallOwn /\ SettleOwn
  BY <1>3, <1>7 DEF Timed, ThenOwn, CallOwn, SettleOwn
<1>9. HungOwn /\ Ended
  BY <1>1, <1>5, <1>7, FinishedFacts, PromiseNumbers DEF HungOwn, Kept, Ended
<1>10. QED
  BY <1>1, <1>2, <1>3, <1>5, <1>6, <1>8, <1>9 DEF Base, Owned

-----------------------------------------------------------------------------
(* The combinators.                                                        *)

FiredInputs == Fired \cap Inputs

\* An outcome that the inputs' outcomes justify.
Verdict(o) ==
  \/ /\ kind = "all" /\ o.st = "resolved"
     /\ \A i \in Inputs : outcome[i] = Resolved(<<o.val[i]>>)
  \/ /\ kind = "all" /\ o.st = "rejected"
     /\ \E i \in Inputs : outcome[i] = o
  \/ /\ kind = "any" /\ o.st = "resolved"
     /\ \E i \in Inputs : outcome[i] = o
  \/ /\ kind = "any" /\ o.st = "rejected"
     /\ \A i \in Inputs : outcome[i].st = "rejected"
     /\ N = 0 \/ \E i \in Inputs : outcome[i] = o
  \/ /\ kind = "race"
     /\ N = 0 \/ \E i \in Inputs : outcome[i] = o

\* None is due yet.
Undecided ==
  /\ kind = "all" =>
       /\ FiredInputs # Inputs
       /\ \A i \in FiredInputs : outcome[i].st = "resolved" /\ result[i] = outcome[i].val[1]
  /\ kind = "any" => FiredInputs # Inputs /\ \A i \in FiredInputs : outcome[i].st = "rejected"
  /\ kind = "race" => FiredInputs = {} /\ N # 0

\* The lambdas count the inputs they ran for, and settle the result when and
\* as the inputs ask for.
Combined ==
  /\ count = IF kind = "race" THEN 0 ELSE Cardinality(FiredInputs)
  /\ Heading("settle", Ret) => Hd.out = Expired \/ Verdict(Hd.out)
  /\ Finished(Ret) /\ outcome[Ret] # Expired => Verdict(outcome[Ret])
  /\ built # {} /\ ~Finished(Ret) /\ ~Heading("settle", Ret) => Undecided

\* A verdict stays one.
LEMMA VerdictKept ==
  ASSUME NEW o \in Outcomes, Verdict(o), kind' = kind,
         \A i \in Inputs : Finished(i) => outcome'[i] = outcome[i]
  PROVE  Verdict(o)'
<1>1. \A i \in Inputs : outcome[i].st \in {"resolved", "rejected"} => outcome'[i] = outcome[i]
  <2>1. Pending.st = "pending"
    BY DEF Pending
  <2>2. QED
    BY <2>1 DEF Finished
<1>2. o.st \in {"resolved", "rejected"}
  BY OutcomeFacts
<1>3. \A d : Resolved(d).st = "resolved"
  BY DEF Resolved
<1>4. CASE kind = "all" /\ o.st = "resolved" /\ \A i \in Inputs : outcome[i] = Resolved(<<o.val[i]>>)
  <2>1. \A i \in Inputs : outcome'[i] = Resolved(<<o.val[i]>>)
    BY <1>1, <1>3, <1>4
  <2>2. QED
    BY <1>4, <2>1 DEF Verdict
<1>5. CASE kind = "any" /\ o.st = "rejected" /\ (\A i \in Inputs : outcome[i].st = "rejected")
           /\ (N = 0 \/ \E i \in Inputs : outcome[i] = o)
  <2>1. \A i \in Inputs : outcome'[i] = outcome[i]
    BY <1>1, <1>5
  <2>2. QED
    BY <1>5, <2>1 DEF Verdict
<1>6. CASE (\E i \in Inputs : outcome[i] = o) /\ (kind = "race" \/ (kind = "all" /\ o.st = "rejected") \/ (kind = "any" /\ o.st = "resolved"))
  <2>1. PICK i \in Inputs : outcome[i] = o
    BY <1>6
  <2>2. outcome'[i] = o
    BY <1>1, <1>2, <2>1
  <2>3. QED
    BY <1>6, <2>2 DEF Verdict
<1>7. CASE kind = "race" /\ N = 0
  BY <1>7 DEF Verdict
<1>8. QED
  BY <1>4, <1>5, <1>6, <1>7, Zenon DEF Verdict

\* A step in which no input's lambda returns and the result is settled, if at
\* all, as announced.
LEMMA CombinedKept ==
  ASSUME Base, Combined, kind' = kind, count' = count, result' = result, FiredInputs' = FiredInputs,
         built = {} <=> built' = {},
         \A i \in Inputs : Finished(i) => outcome'[i] = outcome[i],
         \/ outcome'[Ret] = outcome[Ret] /\ (~Heading("settle", Ret) \/ Finished(Ret))
         \/ Heading("settle", Ret) /\ outcome'[Ret] = Hd.out,
         Heading("settle", Ret)' => Hd'.out = Expired
  PROVE  Combined'
<1>0. TypeOK
  BY DEF Base
<1>1. ASSUME Finished(Ret)', outcome'[Ret] # Expired PROVE Verdict(outcome[Ret])'
  <2>1. PICK o : o = outcome'[Ret]
    OBVIOUS
  <2>2. CASE outcome'[Ret] = outcome[Ret] /\ (~Heading("settle", Ret) \/ Finished(Ret))
    <3>1. Finished(Ret)
      BY <1>1, <2>2 DEF Finished
    <3>2. o \in Outcomes /\ Verdict(o)
      BY <1>0, <1>1, <2>1, <2>2, <3>1, FinishedFacts, PromiseNumbers DEF Combined
    <3>3. QED
      BY <2>1, <3>2, VerdictKept
  <2>3. CASE Heading("settle", Ret) /\ outcome'[Ret] = Hd.out
    <3>1. o \in Outcomes
      BY <1>0, <2>1, <2>3, TodoType, ItemFacts DEF Heading
    <3>2. Verdict(o)
      BY <1>1, <2>1, <2>3 DEF Combined
    <3>3. QED
      BY <2>1, <3>1, <3>2, VerdictKept
  <2>4. QED
    BY <2>2, <2>3
<1>2. ASSUME built' # {}, ~Finished(Ret)', ~Heading("settle", Ret)' PROVE Undecided'
  <2>1. ~Finished(Ret) /\ ~Heading("settle", Ret)
    <3>1. ASSUME Heading("settle", Ret) PROVE Hd.out # Pending
      BY <1>0, <3>1, TodoType, ItemFacts, OutcomeFacts DEF Heading
    <3>2. QED
      BY <1>2, <3>1 DEF Finished
  <2>2. Undecided
    BY <1>2, <2>1 DEF Combined
  <2>3. \A i \in FiredInputs : outcome'[i] = outcome[i]
    BY DEF FiredInputs, Fired
  <2>4. QED
    BY <2>2, <2>3 DEF Undecided
<1>3. count' = IF kind' = "race" THEN 0 ELSE Cardinality(FiredInputs')
  BY DEF Combined
<1>4. QED
  BY <1>1, <1>2, <1>3 DEF Combined, Expired, Rejected

\* The inputs that fired, counted.
LEMMA FiredCount ==
  /\ IsFiniteSet(FiredInputs) /\ Cardinality(FiredInputs) \in 0..N
  /\ FiredInputs # Inputs => Cardinality(FiredInputs) < N
  /\ FiredInputs = Inputs => Cardinality(FiredInputs) = N
<1>1. IsFiniteSet(Inputs) /\ Cardinality(Inputs) = N /\ N \in Nat
  BY PromiseAssumption, FS_Interval DEF Inputs
<1>2. FiredInputs \subseteq Inputs
  BY DEF FiredInputs
<1>3. /\ IsFiniteSet(FiredInputs) /\ Cardinality(FiredInputs) <= N
      /\ FiredInputs # Inputs => Cardinality(FiredInputs) # N
  BY <1>1, <1>2, FS_Subset
<1>4. Cardinality(FiredInputs) \in Nat
  BY <1>3, FS_CardinalityType
<1>5. QED
  BY <1>1, <1>3, <1>4

\* There is room for one that has not.
LEMMA FireCount ==
  ASSUME NEW p \in Inputs, p \notin Fired, Fired' = Fired \cup {p}
  PROVE  /\ FiredInputs' = FiredInputs \cup {p}
         /\ Cardinality(FiredInputs') = Cardinality(FiredInputs) + 1
         /\ Cardinality(FiredInputs) + 1 <= N
         /\ FiredInputs' = Inputs <=> Cardinality(FiredInputs) + 1 = N
<1>1. FiredInputs' = FiredInputs \cup {p} /\ p \notin FiredInputs /\ FiredInputs # Inputs
  BY DEF FiredInputs, Inputs
<1>2. /\ IsFiniteSet(FiredInputs) /\ Cardinality(FiredInputs) \in 0..N /\ Cardinality(FiredInputs) < N
  BY <1>1, FiredCount
<1>3. Cardinality(FiredInputs') = Cardinality(FiredInputs) + 1
  BY <1>1, <1>2, FS_AddElement
<1>4. IsFiniteSet(Inputs) /\ Cardinality(Inputs) = N /\ N \in Nat
  BY PromiseAssumption, FS_Interval DEF Inputs
<1>5. FiredInputs' \subseteq Inputs
  BY <1>1 DEF FiredInputs
<1>6. FiredInputs' # Inputs => Cardinality(FiredInputs') # N
  BY <1>4, <1>5, FS_Subset
<1>7. FiredInputs' = Inputs => Cardinality(FiredInputs') = N
  BY <1>4
<1>8. QED
  BY <1>1, <1>2, <1>3, <1>4, <1>6, <1>7

\* When the lambda of an input settles the result.
LEMMA SettlesFacts ==
  ASSUME NEW c, NEW o
  PROVE  /\ kind = "all" => (SettlesRet(c, o) <=> o.st = "rejected" \/ c = N)
         /\ kind = "any" => (SettlesRet(c, o) <=> o.st = "resolved" \/ c = N)
         /\ kind = "race" => SettlesRet(c, o)
<1>1. ASSUME kind = "all" PROVE SettlesRet(c, o) <=> o.st = "rejected" \/ c = N
  BY <1>1 DEF SettlesRet
<1>2. ASSUME kind = "any" PROVE SettlesRet(c, o) <=> o.st = "resolved" \/ c = N
  BY <1>2 DEF SettlesRet
<1>3. ASSUME kind = "race" PROVE SettlesRet(c, o)
  BY <1>3 DEF SettlesRet
<1>4. QED
  BY <1>1, <1>2, <1>3

\* The count has room for the lambda that runs.
LEMMA InputCount ==
  ASSUME Base, ByUser, Combined, CallInput
  PROVE  count' \in 0..N
<1>0. TypeOK
  BY DEF Base
<1>1. PICK p : p = Hd.p
  OBVIOUS
<1>2. Doing("call") /\ Head(todo).cb.kind = "input" /\ count' = IF kind = "race" THEN count ELSE count + 1
  BY DEF CallInput, Counted
<1>3. p \in Inputs /\ p \notin Fired /\ Hd = Head(todo)
  BY <1>1, <1>2, LambdaHead
<1>4. FiredInputs # Inputs
  BY <1>3 DEF FiredInputs
<1>5. kind # "race" => count \in 0..N /\ count < N
  BY <1>4, FiredCount DEF Combined
<1>6. QED
  BY <1>0, <1>2, <1>5, PromiseAssumption DEF TypeOK

\* The outcomes the lambda of an input settles the result with are verdicts.
LEMMA AnswerVerdict ==
  ASSUME TypeOK, NEW p \in Inputs, NEW o \in Outcomes, o = outcome[p],
         o.st = "resolved" => o = Resolved(<<o.val[1]>>),
         \A i \in FiredInputs : outcome[i].st = "resolved" => outcome[i] = Resolved(<<outcome[i].val[1]>>),
         Undecided, ~Finished(Ret), kind \in {"all", "any", "race"},
         kind # "race" => (count + 1 = N => FiredInputs \cup {p} = Inputs), SettlesRet(count + 1, o)
  PROVE  Verdict(Answer(p, o))
<1>1. o.st = "resolved" \/ o.st = "rejected"
  BY OutcomeFacts
<1>2. CASE kind = "all" /\ o.st = "resolved"
  <2>1. FiredInputs \cup {p} = Inputs
    BY <1>2, SettlesFacts
  <2>2. PICK r : r = [result EXCEPT ![p] = o.val[1]]
    OBVIOUS
  <2>3. Answer(p, o) = Resolved(r)
    BY <1>2, <2>2 DEF Answer, Stored
  <2>4. \A i \in Inputs : outcome[i] = Resolved(<<r[i]>>)
    <3>1. SUFFICES ASSUME NEW i \in Inputs PROVE outcome[i] = Resolved(<<r[i]>>)
      OBVIOUS
    <3>2. result \in [Inputs -> Values \cup {Default}]
      BY DEF TypeOK
    <3>3. CASE i = p
      BY <1>2, <2>2, <3>2, <3>3
    <3>4. CASE i # p
      <4>1. i \in FiredInputs /\ r[i] = result[i]
        BY <2>1, <2>2, <3>2, <3>4
      <4>2. outcome[i].st = "resolved" /\ result[i] = outcome[i].val[1]
        BY <1>2, <4>1 DEF Undecided
      <4>3. QED
        BY <4>1, <4>2
    <3>5. QED
      BY <3>3, <3>4
  <2>5. Resolved(r).st = "resolved" /\ Resolved(r).val = r
    BY DEF Resolved
  <2>6. QED
    BY <1>2, <2>3, <2>4, <2>5 DEF Verdict
<1>3. CASE kind = "any" /\ o.st = "rejected"
  <2>1. FiredInputs \cup {p} = Inputs
    BY <1>3, SettlesFacts
  <2>2. \A i \in Inputs : outcome[i].st = "rejected"
    BY <1>3, <2>1 DEF Undecided
  <2>3. Answer(p, o) = o
    BY <1>3 DEF Answer
  <2>4. QED
    BY <1>3, <2>2, <2>3 DEF Verdict
<1>4. CASE kind = "race" \/ (kind = "all" /\ o.st = "rejected") \/ (kind = "any" /\ o.st = "resolved")
  <2>1. Answer(p, o) = o
    BY <1>1, <1>4 DEF Answer
  <2>2. QED
    BY <1>4, <2>1 DEF Verdict
<1>5. QED
  BY <1>1, <1>2, <1>3, <1>4

\* The lambdas of the inputs.
LEMMA CallInputCombined ==
  ASSUME Base, ByUser, Combined, CallInput
  PROVE  Combined'
<1>0. TypeOK
  BY DEF Base
<1>1. PICK p : p = Hd.p
  OBVIOUS
<1>2. PICK o : o = outcome[p]
  OBVIOUS
<1>3. PICK fin : fin = Answer(p, o)
  OBVIOUS
<1>4. count' \in 0..N
  BY InputCount
<1>5. /\ Fired' = Fired \cup {p}
      /\ p \in Inputs /\ p \notin Fired /\ p \in Hung /\ Finished(p)
      /\ ~Heading("settle", Ret)
      /\ IF ~Finished(Ret) /\ SettlesRet(count + 1, o)
           THEN Heading("settle", Ret)' /\ Hd'.out = fin ELSE ~Heading("settle", Ret)'
      /\ count' = IF kind = "race" THEN count ELSE count + 1
      /\ result' = Stored(p, o)
      /\ UNCHANGED <<kind, outcome, built>>
  BY <1>1, <1>2, <1>3, <1>4, CallInputBase
<1>6. /\ FiredInputs' = FiredInputs \cup {p}
      /\ Cardinality(FiredInputs') = Cardinality(FiredInputs) + 1
      /\ FiredInputs' = Inputs <=> Cardinality(FiredInputs) + 1 = N
  BY <1>5, FireCount
<1>7. count' = IF kind' = "race" THEN 0 ELSE Cardinality(FiredInputs')
  BY <1>5, <1>6 DEF Combined
<1>8. Finished(Ret)' /\ outcome'[Ret] # Expired => Verdict(outcome[Ret])'
  <2>1. Finished(Ret) /\ outcome[Ret] # Expired => Verdict(outcome[Ret])
    BY DEF Combined
  <2>2. QED
    BY <1>5, <2>1 DEF Finished, Verdict
<1>9. \A d : Verdict(d)' <=> Verdict(d)
  BY <1>5 DEF Verdict
<1>10. CASE Finished(Ret)
  <2>1. Finished(Ret)' /\ ~Heading("settle", Ret)'
    BY <1>5, <1>10 DEF Finished
  <2>2. QED
    BY <1>7, <1>8, <2>1 DEF Combined, Expired, Rejected
<1>11. CASE ~Finished(Ret)
  <2>1. built # {}
    BY <1>5, PromiseNumbers DEF Hung, Begun
  <2>2. Undecided
    BY <1>5, <1>11, <2>1 DEF Combined
  <2>3. /\ o \in Outcomes /\ (o.st = "resolved" => o = Resolved(<<o.val[1]>>))
        /\ \A i \in FiredInputs : outcome[i].st = "resolved" => outcome[i] = Resolved(<<outcome[i].val[1]>>)
    BY <1>2, <1>5, InputData DEF FiredInputs, Fired
  <2>4. kind \in {"all", "any", "race"}
    BY <1>0, PromiseAssumption DEF TypeOK
  <2>5. kind # "race" => (count + 1 = N <=> FiredInputs \cup {p} = Inputs)
    BY <1>6 DEF Combined
  <2>6. ~Finished(Ret)'
    BY <1>5, <1>11 DEF Finished
  <2>7. CASE SettlesRet(count + 1, o)
    <3>1. Verdict(fin)
      BY <1>0, <1>2, <1>3, <1>5, <1>11, <2>2, <2>3, <2>4, <2>5, <2>7, AnswerVerdict
    <3>2. Heading("settle", Ret)' /\ Hd'.out = fin
      BY <1>5, <1>11, <2>7
    <3>3. Verdict(Hd.out)'
      BY <1>5, <3>1, <3>2 DEF Verdict
    <3>4. QED
      BY <1>7, <2>6, <3>2, <3>3 DEF Combined
  <2>8. CASE ~SettlesRet(count + 1, o)
    <3>1. kind # "race" /\ (kind = "all" => o.st = "resolved") /\ (kind = "any" => o.st = "rejected")
          /\ FiredInputs' # Inputs
      BY <1>6, <2>3, <2>4, <2>5, <2>8, SettlesFacts, OutcomeFacts
    <3>2. ASSUME kind = "all", NEW i \in FiredInputs'
          PROVE  outcome'[i].st = "resolved" /\ result'[i] = outcome'[i].val[1]
      <4>1. result' = [result EXCEPT ![p] = o.val[1]]
        BY <1>5, <1>11, <3>1, <3>2 DEF Stored
      <4>2. result \in [Inputs -> Values \cup {Default}]
        BY <1>0 DEF TypeOK
      <4>3. CASE i = p
        BY <1>2, <1>5, <3>1, <3>2, <4>1, <4>2, <4>3
      <4>4. CASE i # p
        <5>1. i \in FiredInputs /\ i \in Inputs
          BY <1>6, <3>2, <4>4 DEF FiredInputs
        <5>2. outcome[i].st = "resolved" /\ result[i] = outcome[i].val[1]
          BY <2>2, <3>2, <5>1 DEF Undecided
        <5>3. QED
          BY <1>5, <4>1, <4>2, <4>4, <5>1, <5>2
      <4>5. QED
        BY <4>3, <4>4
    <3>3. ASSUME kind = "any", NEW i \in FiredInputs' PROVE outcome'[i].st = "rejected"
      BY <1>2, <1>5, <1>6, <2>2, <3>1, <3>3 DEF Undecided
    <3>4. Undecided'
      BY <1>5, <3>1, <3>2, <3>3 DEF Undecided, Inputs
    <3>5. ~Heading("settle", Ret)'
      BY <1>5, <2>8
    <3>6. QED
      BY <1>7, <2>6, <3>4, <3>5 DEF Combined
  <2>9. QED
    BY <2>7, <2>8
<1>12. QED
  BY <1>10, <1>11

\* all, any and race.
LEMMA CombineCombined ==
  ASSUME Base, Combined, Combine
  PROVE  Combined'
<1>0. TypeOK
  BY DEF Base
<1>1. /\ Fired' = Fired /\ Hung = {} /\ Idle
      /\ N = 0 => Heading("settle", Ret)' /\ Hd'.out = Empty
      /\ N # 0 => ~Heading("settle", Ret)'
      /\ UNCHANGED <<kind, outcome, count, result>>
  BY CombineBase
<1>2. FiredInputs = {} /\ FiredInputs' = {}
  BY <1>1 DEF FiredInputs, Fired
<1>3. count' = IF kind' = "race" THEN 0 ELSE Cardinality(FiredInputs')
  BY <1>1, <1>2 DEF Combined
<1>4. Finished(Ret)' /\ outcome'[Ret] # Expired => Verdict(outcome[Ret])'
  <2>1. Finished(Ret) /\ outcome[Ret] # Expired => Verdict(outcome[Ret])
    BY DEF Combined
  <2>2. QED
    BY <1>1, <2>1 DEF Finished, Verdict
<1>5. CASE N = 0
  <2>1. kind \in {"all", "any", "race"}
    BY <1>0, PromiseAssumption DEF TypeOK
  <2>2. Inputs = {}
    BY <1>5 DEF Inputs
  <2>3. kind = "all" => Empty.st = "resolved"
    BY DEF Empty, Resolved
  <2>4. kind # "all" => Empty.st = "rejected"
    BY DEF Empty, Rejected
  <2>5. Verdict(Empty)
    BY <1>5, <2>1, <2>2, <2>3, <2>4 DEF Verdict
  <2>6. Verdict(Hd.out)'
    <3>1. PICK d : d = Empty
      OBVIOUS
    <3>2. Hd'.out = d /\ Verdict(d)
      BY <1>1, <1>5, <2>5, <3>1
    <3>3. QED
      BY <1>1, <3>2 DEF Verdict
  <2>7. QED
    BY <1>1, <1>3, <1>4, <1>5, <2>6 DEF Combined, Expired, Rejected
<1>6. CASE N # 0
  <2>1. Inputs # {}
    BY <1>6, PromiseAssumption DEF Inputs
  <2>2. Undecided'
    BY <1>2, <1>6, <2>1 DEF Undecided, Inputs
  <2>3. QED
    BY <1>1, <1>3, <1>4, <1>6, <2>2 DEF Combined, Expired, Rejected
<1>7. QED
  BY <1>5, <1>6

-----------------------------------------------------------------------------
(* The chain.                                                              *)

\* What the chain carries to its end, and when something is due there.
Carried(o) ==
  /\ Ret \in Fired
  /\ IF outcome[Ret].st = "rejected" THEN o = outcome[Ret] ELSE Inner \in Fired /\ o = outcome[Inner]
Reached == Ret \in Fired /\ (outcome[Ret].st = "rejected" \/ Inner \in Fired)

\* The last promise of the chain has what was carried to it, or a timeout.
Linked ==
  /\ Heading("settle", Chained) => Hd.out = Expired \/ Carried(Hd.out)
  /\ Finished(Chained) /\ outcome[Chained] # Expired => Carried(outcome[Chained])
  /\ ~Finished(Chained) /\ ~Heading("settle", Chained) => ~Reached

\* A step that does not move along the chain and settles its end, if at all,
\* as announced.
LEMMA LinkedKept ==
  ASSUME Base, Linked, Ret \in Fired' <=> Ret \in Fired, Inner \in Fired' <=> Inner \in Fired,
         \A p \in {Ret, Inner} : Finished(p) => outcome'[p] = outcome[p],
         \/ outcome'[Chained] = outcome[Chained] /\ (~Heading("settle", Chained) \/ Finished(Chained))
         \/ Heading("settle", Chained) /\ outcome'[Chained] = Hd.out,
         Heading("settle", Chained)' => Hd'.out = Expired
  PROVE  Linked'
<1>0. TypeOK
  BY DEF Base
<1>1. /\ Ret \in Fired => outcome'[Ret] = outcome[Ret]
      /\ Inner \in Fired => outcome'[Inner] = outcome[Inner]
  BY DEF Fired
<1>2. Reached' <=> Reached
  BY <1>1 DEF Reached, Ret, Inner
<1>3. ASSUME Finished(Chained)', outcome'[Chained] # Expired PROVE Carried(outcome[Chained])'
  <2>1. PICK o : o = outcome'[Chained]
    OBVIOUS
  <2>2. Carried(o)
    BY <1>3, <2>1 DEF Linked, Finished
  <2>3. QED
    BY <1>1, <2>1, <2>2 DEF Carried, Ret, Inner
<1>4. ASSUME ~Finished(Chained)', ~Heading("settle", Chained)' PROVE ~Reached'
  <2>1. ~Finished(Chained) /\ ~Heading("settle", Chained)
    <3>1. ASSUME Heading("settle", Chained) PROVE Hd.out # Pending
      BY <1>0, <3>1, TodoType, ItemFacts, OutcomeFacts DEF Heading
    <3>2. QED
      BY <1>4, <3>1 DEF Finished
  <2>2. QED
    BY <1>2, <2>1 DEF Linked
<1>5. QED
  BY <1>3, <1>4 DEF Linked, Expired, Rejected

\* The outcome of the promise f returned is passed on.
LEMMA CallForwardLinked ==
  ASSUME Base, ByUser, Linked, CallForward
  PROVE  Linked'
<1>1. /\ Fired' = Fired \cup {Inner} /\ Inner \in Hung
      /\ Heading("settle", Chained)' /\ Hd'.out = outcome[Inner] /\ outcome' = outcome
  BY CallForwardBase
<1>2. Ret \in Fired /\ outcome[Ret].st = "resolved"
  BY <1>1, PromiseNumbers DEF Hung, Fired, Begun
<1>3. Carried(Hd.out)'
  BY <1>1, <1>2 DEF Carried, Ret, Inner
<1>4. ASSUME Finished(Chained)', outcome'[Chained] # Expired PROVE Carried(outcome[Chained])'
  <2>1. Carried(outcome[Chained])
    BY <1>1, <1>4 DEF Linked, Finished
  <2>2. QED
    BY <1>1, <1>2, <2>1 DEF Carried, Ret, Inner
<1>5. QED
  BY <1>1, <1>3, <1>4 DEF Linked, Expired, Rejected

\* An error is passed on; otherwise the end waits for the promise f returned.
LEMMA CallChainLinked ==
  ASSUME Base, ByUser, Linked, CallChain
  PROVE  Linked'
<1>1. /\ Fired' = Fired \cup {Ret} /\ Heading("call", Ret) /\ Ret \notin Fired
      /\ outcome[Ret].st = "rejected" => Heading("settle", Chained)' /\ Hd'.out = outcome[Ret]
      /\ outcome[Ret].st = "resolved" => ~Heading("settle", Chained)'
      /\ outcome[Ret].st \in {"resolved", "rejected"}
      /\ outcome' = outcome
  BY CallChainBase
<1>2. Inner \notin Fired' /\ Ret \in Fired'
  BY <1>1, PromiseNumbers DEF Fired, Hung, Begun
<1>3. ~(Finished(Chained)' /\ outcome'[Chained] # Expired)
  BY <1>1 DEF Linked, Carried, Finished
<1>4. CASE outcome[Ret].st = "rejected"
  <2>1. Carried(Hd.out)'
    BY <1>1, <1>2, <1>4 DEF Carried, Ret
  <2>2. QED
    BY <1>1, <1>3, <1>4, <2>1 DEF Linked, Expired, Rejected
<1>5. CASE outcome[Ret].st = "resolved"
  <2>1. ~Reached'
    BY <1>1, <1>2, <1>5 DEF Reached, Ret, Inner
  <2>2. QED
    BY <1>1, <1>3, <1>5, <2>1 DEF Linked, Expired, Rejected
<1>6. QED
  BY <1>1, <1>4, <1>5

-----------------------------------------------------------------------------
(* The handlers of the program.                                            *)

\* What the k-th handler may be called with.
Given(k, o) ==
  \/ o = outcome[Chained]
  \/ /\ ~isVoid
     /\ o = Resolved(<<Default>>) /\ outcome[Chained].st = "resolved"
     /\ \E j \in 1..(k - 1) : got[j] # <<>>

\* A handler has been called once at most; the one being called and the one
\* being hung have not been called.
Called == \A k \in Handlers : got[k] # <<>> =>
            Finished(Chained) /\ k <= thens /\ Len(got[k]) = 1 /\ Given(k, got[k][1])
Calling == Heading("call", Chained) =>
             /\ Finished(Chained)
             /\ \E k \in 1..thens : Hd.cb = User(k) /\ got[k] = <<>> /\ Given(k, Hd.out)
Hanging == Heading("then", Chained) =>
             /\ thens > 0 /\ got[thens] = <<>>
             /\ Hd.res = User(thens) /\ Hd.rej \in {None, User(thens)}
OwnSlot(s) == s = None \/ \E k \in 1..thens : s = User(k)

\* The value waits for the first handler, which takes it.
Valued ==
  /\ ~Finished(Chained) => val[Chained] = <<Default>>
  /\ outcome[Chained].st = "resolved" /\ ~isVoid =>
       \/ val[Chained] = outcome[Chained].val
       \/ /\ val[Chained] = <<Default>>
          /\ (\E j \in 1..thens : got[j] # <<>>) \/ Heading("call", Chained)

Handled == Called /\ Calling /\ Hanging /\ OwnSlot(resolve[Chained]) /\ OwnSlot(reject[Chained]) /\ Valued

\* The program's handlers are the only ones called on the last promise.
LEMMA HandledByUser ==
  ASSUME TypeOK, Handled
  PROVE  ByUser /\ thens \in 0..MaxThens /\ 1..thens \subseteq Handlers
<1>1. thens \in 0..MaxThens /\ MaxThens \in Nat
  BY PromiseAssumption DEF TypeOK
<1>2. 1..thens \subseteq Handlers
  BY <1>1 DEF Handlers
<1>3. ByUser
  BY <1>2, CbFacts DEF Handled, Calling, ByUser
<1>4. QED
  BY <1>1, <1>2, <1>3

\* A step that leaves the last promise alone.
LEMMA HandledKept ==
  ASSUME Handled, UNCHANGED <<isVoid, thens, got>>,
         outcome'[Chained] = outcome[Chained], val'[Chained] = val[Chained],
         resolve'[Chained] \in {resolve[Chained], None}, reject'[Chained] \in {reject[Chained], None},
         ~Heading("call", Chained), ~Heading("call", Chained)', ~Heading("then", Chained)'
  PROVE  Handled'
<1>1. Finished(Chained)' <=> Finished(Chained)
  BY DEF Finished, Chained
<1>2. \A k, o : Given(k, o)' <=> Given(k, o)
  BY DEF Given, Chained
<1>3. Called'
  <2>1. SUFFICES ASSUME NEW k \in Handlers, got'[k] # <<>>
                 PROVE  Finished(Chained)' /\ k <= thens' /\ Len(got'[k]) = 1 /\ Given(k, got[k][1])'
    BY DEF Called, Handlers, Chained
  <2>2. Finished(Chained) /\ k <= thens /\ Len(got[k]) = 1 /\ Given(k, got[k][1])
    BY <2>1 DEF Handled, Called
  <2>3. Given(k, got[k][1])'
    <3>1. PICK o : o = got[k][1]
      OBVIOUS
    <3>2. Given(k, o)'
      BY <1>2, <2>2, <3>1
    <3>3. QED
      BY <3>1, <3>2 DEF Given
  <2>4. QED
    BY <1>1, <2>2, <2>3
<1>4. Calling' /\ Hanging'
  BY DEF Calling, Hanging, Chained
<1>5. OwnSlot(resolve[Chained])' /\ OwnSlot(reject[Chained])'
  BY DEF Handled, OwnSlot, Chained
<1>6. Valued'
  BY <1>1 DEF Handled, Valued, Chained
<1>7. QED
  BY <1>3, <1>4, <1>5, <1>6 DEF Handled

\* Until the last promise is finished no handler has been called.
LEMMA Uncalled ==
  ASSUME Handled, ~Finished(Chained)
  PROVE  /\ \A k \in Handlers : got[k] = <<>>
         /\ val[Chained] = <<Default>>
BY DEF Handled, Called, Valued

\* The last promise is settled.
LEMMA SettleHandled ==
  ASSUME Base, Handled, DoSettle, Hd.p = Chained, ~Finished(Chained)
  PROVE  Handled'
<1>0. TypeOK
  BY DEF Base
<1>1. PICK o : o = Hd.out
  OBVIOUS
<1>2. PICK cb : cb = Slot(Chained, o)
  OBVIOUS
<1>3. /\ Chained \in Promises /\ o \in Outcomes /\ cb \in Callbacks
      /\ UNCHANGED <<isVoid, thens, got>>
      /\ outcome' = [outcome EXCEPT ![Chained] = o]
      /\ val' = IF o.st = "resolved" /\ cb = None THEN [val EXCEPT ![Chained] = o.val] ELSE val
      /\ resolve' = IF o.st = "resolved" THEN [resolve EXCEPT ![Chained] = None] ELSE resolve
      /\ reject' = IF o.st = "resolved" THEN reject ELSE [reject EXCEPT ![Chained] = None]
  BY <1>1, <1>2, SettleCases
<1>4. /\ cb = None => \A q : ~Heading("call", q)'
      /\ \A q : Heading("then", q)' => q \in Single
      /\ cb # None => Hd' = Call(Chained, cb, o) /\ Heading("call", Chained)'
  BY <1>1, <1>2, SettleStack
<1>5. /\ outcome \in [Promises -> Outcomes \cup {Pending}] /\ val \in [Promises -> Data]
      /\ resolve \in [Promises -> Callbacks] /\ reject \in [Promises -> Callbacks]
  BY <1>0 DEF TypeOK
<1>6. /\ outcome'[Chained] = o
      /\ val'[Chained] = IF o.st = "resolved" /\ cb = None THEN o.val ELSE val[Chained]
      /\ resolve'[Chained] \in {resolve[Chained], None} /\ reject'[Chained] \in {reject[Chained], None}
  BY <1>3, <1>5
<1>7. o # Pending
  BY <1>3, OutcomeFacts
<1>8. \A k \in Handlers : got[k] = <<>>
  BY Uncalled
<1>9. Called'
  BY <1>3, <1>8 DEF Called, Handlers
<1>10. cb # None => \E k \in 1..thens : cb = User(k)
  BY <1>2 DEF Slot, Handled, OwnSlot
<1>11. Calling'
  <2>1. SUFFICES ASSUME Heading("call", Chained)'
                 PROVE  /\ Finished(Chained)'
                        /\ \E k \in 1..thens' : Hd'.cb = User(k) /\ got'[k] = <<>> /\ Given(k, Hd.out)'
    BY DEF Calling, User, Chained
  <2>2. cb # None
    BY <1>4, <2>1
  <2>3. PICK k \in 1..thens : cb = User(k)
    BY <1>10, <2>2
  <2>4. k \in Handlers
    BY <1>0, <2>3, HandledByUser
  <2>5. Hd'.cb = cb /\ Hd'.out = o
    BY <1>4, <2>2 DEF Call
  <2>6. Given(k, Hd.out)'
    BY <1>6, <2>5 DEF Given, Chained
  <2>7. Finished(Chained)'
    BY <1>6, <1>7 DEF Finished, Chained
  <2>8. QED
    BY <1>3, <1>8, <2>3, <2>4, <2>5, <2>6, <2>7
<1>12. Hanging'
  BY <1>4, PromiseNumbers DEF Hanging, Chained
<1>13. OwnSlot(resolve[Chained])' /\ OwnSlot(reject[Chained])'
  BY <1>3, <1>6 DEF Handled, OwnSlot, Chained
<1>14. Valued'
  <2>1. val[Chained] = <<Default>>
    BY Uncalled
  <2>2. CASE o.st = "resolved" /\ cb = None
    BY <1>6, <1>7, <2>2 DEF Valued, Finished, Chained
  <2>3. CASE ~(o.st = "resolved" /\ cb = None)
    BY <1>4, <1>6, <1>7, <2>1, <2>3 DEF Valued, Finished, Chained
  <2>4. QED
    BY <2>2, <2>3
<1>15. QED
  BY <1>9, <1>11, <1>12, <1>13, <1>14 DEF Handled

\* A handler is hung on the last promise, and called at once if it is finished.
LEMMA ThenHandled ==
  ASSUME Base, Handled, DoThen, Hd.p = Chained
  PROVE  Handled'
<1>0. TypeOK
  BY DEF Base
<1>2. PICK cb : cb = Selected
  OBVIOUS
<1>3. PICK o : o = Handed
  OBVIOUS
<1>4. /\ Chained \in Promises /\ cb \in Callbacks /\ (Finished(Chained) => o \in Outcomes)
      /\ \A q, r : Heading(q, r) <=> q = "then" /\ r = Chained
      /\ UNCHANGED <<isVoid, outcome, thens, got>>
      /\ resolve' = [resolve EXCEPT ![Chained] = Hd.res] /\ reject' = [reject EXCEPT ![Chained] = Hd.rej]
      /\ val' = IF outcome[Chained].st = "resolved" /\ cb # None /\ ~Void(Chained)
                  THEN [val EXCEPT ![Chained] = <<Default>>] ELSE val
  BY <1>2, <1>3, ThenCases
<1>5. /\ \A q : Heading("then", q)' => q \in Single
      /\ ~Finished(Chained) \/ cb = None => \A q : ~Heading("call", q)'
      /\ Finished(Chained) /\ cb # None => Hd' = Call(Chained, cb, o) /\ Heading("call", Chained)'
  BY <1>2, <1>3, ThenStack
<1>6. /\ val \in [Promises -> Data] /\ resolve \in [Promises -> Callbacks] /\ reject \in [Promises -> Callbacks]
  BY <1>0 DEF TypeOK
<1>7. /\ thens > 0 /\ got[thens] = <<>>
      /\ Hd.res = User(thens) /\ Hd.rej \in {None, User(thens)}
  BY <1>4 DEF Handled, Hanging
<1>8. thens \in 1..thens /\ thens \in Nat /\ thens \in Handlers
  BY <1>0, <1>7, HandledByUser DEF Handlers
<1>9. /\ val'[Chained] = IF outcome[Chained].st = "resolved" /\ cb # None /\ ~isVoid
                           THEN <<Default>> ELSE val[Chained]
      /\ resolve'[Chained] = User(thens) /\ reject'[Chained] \in {None, User(thens)}
  BY <1>4, <1>6, <1>7 DEF Void
<1>10. cb = None \/ cb = User(thens)
  BY <1>2, <1>7 DEF Selected
<1>11. Finished(Chained)' <=> Finished(Chained)
  BY <1>4 DEF Finished, Chained
<1>12. \A k, d : Given(k, d)' <=> Given(k, d)
  BY <1>4 DEF Given, Chained
<1>13. Called'
  <2>1. SUFFICES ASSUME NEW k \in Handlers, got'[k] # <<>>
                 PROVE  Finished(Chained)' /\ k <= thens' /\ Len(got'[k]) = 1 /\ Given(k, got[k][1])'
    BY DEF Called, Handlers, Chained
  <2>2. Finished(Chained) /\ k <= thens /\ Len(got[k]) = 1 /\ Given(k, got[k][1])
    BY <1>4, <2>1 DEF Handled, Called
  <2>3. Given(k, got[k][1])'
    <3>1. PICK d : d = got[k][1]
      OBVIOUS
    <3>2. Given(k, d)'
      BY <1>12, <2>2, <3>1
    <3>3. QED
      BY <1>4, <3>1, <3>2 DEF Given
  <2>4. QED
    BY <1>4, <1>11, <2>2, <2>3
<1>14. ASSUME Finished(Chained), cb # None PROVE Given(thens, o)
  <2>1. CASE outcome[Chained].st = "resolved" /\ ~isVoid
    <3>1. o = Resolved(val[Chained])
      BY <1>3, <1>4, <2>1 DEF Handed, Void
    <3>2. CASE val[Chained] = outcome[Chained].val
      <4>1. outcome[Chained] \in Outcomes
        BY <1>0, <1>4, <1>14, FinishedFacts
      <4>2. outcome[Chained] = Resolved(outcome[Chained].val)
        BY <2>1, <4>1, OutcomeFacts
      <4>3. QED
        BY <3>1, <3>2, <4>2 DEF Given
    <3>3. CASE val[Chained] = <<Default>> /\ \E j \in 1..thens : got[j] # <<>>
      <4>1. PICK j \in 1..thens : got[j] # <<>>
        BY <3>3
      <4>2. j # thens
        BY <1>7, <4>1
      <4>3. j \in 1..(thens - 1)
        BY <1>8, <4>2
      <4>4. QED
        BY <2>1, <3>1, <3>3, <4>1, <4>3 DEF Given
    <3>4. QED
      BY <1>4, <2>1, <3>2, <3>3 DEF Handled, Valued
  <2>2. CASE ~(outcome[Chained].st = "resolved" /\ ~isVoid)
    <3>1. o = outcome[Chained]
      BY <1>3, <1>4, <2>2 DEF Handed, Void
    <3>2. QED
      BY <3>1 DEF Given
  <2>3. QED
    BY <2>1, <2>2
<1>15. Calling'
  <2>1. SUFFICES ASSUME Heading("call", Chained)'
                 PROVE  /\ Finished(Chained)'
                        /\ \E k \in 1..thens' : Hd'.cb = User(k) /\ got'[k] = <<>> /\ Given(k, Hd.out)'
    BY DEF Calling, User, Chained
  <2>2. Finished(Chained) /\ cb # None
    BY <1>5, <2>1
  <2>3. Hd'.cb = User(thens) /\ Hd'.out = o
    BY <1>5, <1>10, <2>2 DEF Call
  <2>4. PICK k : k = thens
    OBVIOUS
  <2>5. Given(k, o)'
    BY <1>12, <1>14, <2>2, <2>4
  <2>6. Given(k, Hd.out)'
    BY <2>3, <2>5 DEF Given
  <2>7. QED
    BY <1>4, <1>7, <1>8, <1>11, <2>2, <2>3, <2>4, <2>6
<1>16. Hanging'
  BY <1>5, PromiseNumbers DEF Hanging, Chained
<1>17. OwnSlot(resolve[Chained])' /\ OwnSlot(reject[Chained])'
  BY <1>4, <1>8, <1>9 DEF OwnSlot, Chained
<1>18. Valued'
  <2>1. /\ ~Finished(Chained) => val[Chained] = <<Default>>
        /\ outcome[Chained].st = "resolved" /\ ~isVoid =>
             \/ val[Chained] = outcome[Chained].val
             \/ val[Chained] = <<Default>> /\ \E j \in 1..thens : got[j] # <<>>
    BY <1>4 DEF Handled, Valued
  <2>2. outcome[Chained].st = "resolved" => Finished(Chained)
    BY <1>0, <1>4, FinishedFacts
  <2>3. QED
    BY <1>4, <1>5, <1>9, <1>11, <2>1, <2>2 DEF Valued, Chained
<1>19. QED
  BY <1>13, <1>15, <1>16, <1>17, <1>18 DEF Handled

\* A handler of the program runs.
LEMMA UserHandled ==
  ASSUME Base, Handled, CallUser
  PROVE  Handled'
<1>0. TypeOK /\ Stack
  BY DEF Base
<1>1. /\ ~Idle /\ Hd = Head(todo) /\ Heading("call", Chained) /\ Hd.out \in Outcomes
      /\ Hd.cb = User(Hd.cb.id) /\ Hd.cb.id \in Handlers
  BY UserHead
<1>2. PICK k : k \in 1..thens /\ Hd.cb = User(k) /\ got[k] = <<>> /\ Given(k, Hd.out)
  BY <1>1 DEF Handled, Calling
<1>3. k \in Handlers /\ Hd.cb.id = k /\ Finished(Chained)
  BY <1>0, <1>1, <1>2, HandledByUser, CbFacts DEF Handled, Calling
<1>4. PICK o : o = Hd.out
  OBVIOUS
<1>5. /\ got' = [got EXCEPT ![k] = Append(@, o)] /\ todo' = Tail(todo)
      /\ UNCHANGED <<isVoid, outcome, val, resolve, reject, thens>>
  BY <1>1, <1>3, <1>4 DEF CallUser, program, slots
<1>6. got \in [Handlers -> Seq(Outcomes)]
  BY <1>0 DEF TypeOK
<1>7. got'[k] = <<o>> /\ \A j \in Handlers : j # k => got'[j] = got[j]
  <2>1. Append(<<>>, o) = <<o>>
    OBVIOUS
  <2>2. QED
    BY <1>2, <1>3, <1>5, <1>6, <2>1
<1>8. Len(got'[k]) = 1 /\ got'[k][1] = o /\ got'[k] # <<>>
  BY <1>7
<1>9. \A j \in Handlers : got[j] # <<>> => got'[j] = got[j]
  BY <1>2, <1>7
<1>10. \A q : ~Heading("call", q)' /\ (Heading("then", q)' => q \in Single)
  BY <1>0, <1>1, <1>5, PopStep
<1>11. Finished(Chained)'
  BY <1>3, <1>5 DEF Finished, Chained
<1>12. ASSUME NEW j \in Handlers, NEW d, Given(j, d) PROVE Given(j, d)'
  <2>1. \A i \in 1..(j - 1) : i \in Handlers
    BY <1>12, PromiseAssumption DEF Handlers
  <2>2. \A i \in 1..(j - 1) : got[i] # <<>> => got'[i] # <<>>
    BY <1>9, <2>1
  <2>3. QED
    BY <1>5, <1>12, <2>2 DEF Given, Chained
<1>13. Called'
  <2>1. SUFFICES ASSUME NEW j \in Handlers, got'[j] # <<>>
                 PROVE  Finished(Chained)' /\ j <= thens' /\ Len(got'[j]) = 1 /\ Given(j, got[j][1])'
    BY DEF Called, Handlers, Chained
  <2>2. PICK d : d = got'[j][1]
    OBVIOUS
  <2>3. CASE j = k
    <3>1. Given(j, d)
      BY <1>2, <1>4, <1>8, <2>2, <2>3
    <3>2. Given(j, got[j][1])'
      BY <1>12, <2>2, <3>1 DEF Given
    <3>3. k <= thens'
      BY <1>0, <1>2, <1>5, HandledByUser
    <3>4. QED
      BY <1>8, <1>11, <2>3, <3>2, <3>3
  <2>4. CASE j # k
    <3>1. j <= thens /\ Len(got[j]) = 1 /\ Given(j, d) /\ got'[j] = got[j]
      BY <1>7, <2>1, <2>2, <2>4 DEF Handled, Called
    <3>2. Given(j, got[j][1])'
      BY <1>12, <2>2, <3>1 DEF Given
    <3>3. QED
      BY <1>5, <1>11, <3>1, <3>2
  <2>5. QED
    BY <2>3, <2>4
<1>14. Calling' /\ Hanging'
  BY <1>10, PromiseNumbers DEF Calling, Hanging, Chained
<1>15. OwnSlot(resolve[Chained])' /\ OwnSlot(reject[Chained])'
  BY <1>5 DEF Handled, OwnSlot, Chained
<1>16. Valued'
  <2>1. \E j \in 1..thens' : got'[j] # <<>>
    BY <1>2, <1>5, <1>8
  <2>2. QED
    BY <1>5, <1>11, <2>1 DEF Handled, Valued, Chained
<1>17. QED
  BY <1>13, <1>14, <1>15, <1>16 DEF Handled

\* One more call of then or of catcher.
LEMMA MoreHandled ==
  ASSUME Base, Handled, Idle, thens' = thens + 1, thens' \in Handlers,
         UNCHANGED <<isVoid, outcome, val, resolve, got>>,
         reject'[Chained] = reject[Chained] \/ reject'[Chained] = User(thens'),
         Calling' \/ (Finished(Chained) /\ Hd'.cb = User(thens') /\ Hd'.out = outcome[Chained]),
         ~Heading("then", Chained)' \/ (Hd'.res = User(thens') /\ Hd'.rej \in {None, User(thens')})
  PROVE  Handled'
<1>0. TypeOK
  BY DEF Base
<1>1. thens \in Nat /\ thens' \in 1..thens' /\ \A k \in 1..thens : k \in 1..thens'
  BY <1>0, HandledByUser
<1>2. got[thens'] = <<>>
  BY <1>1 DEF Handled, Called
<1>3. Finished(Chained)' <=> Finished(Chained)
  BY DEF Finished, Chained
<1>4. \A k, d : Given(k, d)' <=> Given(k, d)
  BY DEF Given, Chained
<1>5. Called'
  <2>1. SUFFICES ASSUME NEW k \in Handlers, got'[k] # <<>>
                 PROVE  Finished(Chained)' /\ k <= thens' /\ Len(got'[k]) = 1 /\ Given(k, got[k][1])'
    BY DEF Called, Handlers, Chained
  <2>2. Finished(Chained) /\ k <= thens /\ Len(got[k]) = 1 /\ Given(k, got[k][1])
    BY <2>1 DEF Handled, Called
  <2>3. Given(k, got[k][1])'
    <3>1. PICK d : d = got[k][1]
      OBVIOUS
    <3>2. Given(k, d)'
      BY <1>4, <2>2, <3>1
    <3>3. QED
      BY <3>1, <3>2 DEF Given
  <2>4. k <= thens'
    BY <1>1, <2>2 DEF Handlers
  <2>5. QED
    BY <1>3, <2>2, <2>3, <2>4
<1>6. Calling'
  <2>1. ASSUME Finished(Chained), Hd'.cb = User(thens'), Hd'.out = outcome[Chained] PROVE Calling'
    <3>1. Given(thens, Hd.out)'
      BY <2>1 DEF Given, Chained
    <3>2. QED
      BY <1>1, <1>2, <1>3, <2>1, <3>1 DEF Calling, User, Chained
  <2>2. QED
    BY <2>1
<1>7. Hanging'
  BY <1>1, <1>2 DEF Hanging, Chained, User, None
<1>8. OwnSlot(resolve[Chained])' /\ OwnSlot(reject[Chained])'
  BY <1>1 DEF Handled, OwnSlot, Chained, User, None
<1>9. Valued'
  <2>1. ~Heading("call", Chained)
    BY DEF Heading
  <2>2. QED
    BY <1>1, <1>3, <2>1 DEF Handled, Valued, Chained
<1>10. QED
  BY <1>5, <1>6, <1>7, <1>8, <1>9 DEF Handled

-----------------------------------------------------------------------------
(* finally.                                                                *)

\* What will run the finally handler of the last promise.
Cleans(x) == x.op \in {"end", "final"} /\ x.p = Chained
Cleaning == \E x \in Items : Cleans(x)

\* A handler that was called, and not by catcher.
Heard == \E k \in Handlers \ late : got[k] # <<>>

\* Only the last promise is given a finally handler, which runs once. While it
\* has not, whoever calls a handler of a promise< void > leaves behind what
\* runs it; catcher alone does not.
Finalised ==
  /\ \A p \in Promises \ {Chained} : ~finally[p]
  /\ finals \in {<<0, 0>>, <<1, 0>>, <<1, 1>>}
  /\ finally[Chained] <=> finals = <<1, 0>>
  /\ Heading("call", Chained) /\ isVoid => Hd.cb.id \in late \/ \E x \in Rest : Cleans(x)
  /\ isVoid /\ finally[Chained] /\ Finished(Chained) /\ Heard => Cleaning

\* A step that does not come near the finally handler.
LEMMA FinalisedKept ==
  ASSUME Finalised, UNCHANGED <<isVoid, finally, finals, got, late>>,
         Finished(Chained)' => Finished(Chained), Cleaning => Cleaning', ~Heading("call", Chained)'
  PROVE  Finalised'
<1>1. /\ \A p \in Promises \ {Chained} : ~finally'[p]
      /\ finals' \in {<<0, 0>>, <<1, 0>>, <<1, 1>>}
      /\ finally'[Chained] <=> finals' = <<1, 0>>
  BY DEF Finalised
<1>2. Heard' <=> Heard
  BY DEF Heard, Handlers
<1>3. isVoid' /\ finally'[Chained] /\ Finished(Chained)' /\ Heard' => Cleaning'
  BY <1>2 DEF Finalised
<1>4. QED
  BY <1>1, <1>3 DEF Finalised, Promises, Chained

\* What runs it stays while something else is done.
LEMMA StillCleaning ==
  ASSUME Items = {Hd} \cup Rest, Rest \subseteq Items', ~Cleans(Hd)
  PROVE  Cleaning => Cleaning'
BY DEF Cleaning, Cleans, Chained

\* The last promise is settled.
LEMMA SettleFinalised ==
  ASSUME Base, Handled, Finalised, DoSettle, Hd.p = Chained, ~Finished(Chained)
  PROVE  Finalised'
<1>1. PICK o : o = Hd.out
  OBVIOUS
<1>2. PICK cb : cb = Slot(Chained, o)
  OBVIOUS
<1>3. UNCHANGED <<isVoid, finally, got, late, finals>> /\ Chained \in Promises /\ o \in Outcomes
  BY <1>1, <1>2, SettleCases
<1>4. /\ cb = None => ~Heading("call", Chained)'
      /\ cb # None => End(Chained, o) \in Rest'
  BY <1>1, <1>2, SettleStack
<1>5. ~Heard /\ ~Heard'
  BY <1>3, Uncalled DEF Heard, Handlers
<1>6. Cleans(End(Chained, o))
  BY <1>3, MadeItems DEF Cleans
<1>7. Heading("call", Chained)' => \E x \in Rest' : Cleans(x)
  BY <1>4, <1>6
<1>8. QED
  BY <1>3, <1>5, <1>7 DEF Finalised, Promises, Chained, Cleans

\* A handler is hung on the last promise.
LEMMA ThenFinalised ==
  ASSUME Base, Finalised, DoThen, Hd.p = Chained
  PROVE  Finalised'
<1>2. PICK cb : cb = Selected
  OBVIOUS
<1>3. PICK o : o = Handed
  OBVIOUS
<1>4. UNCHANGED <<isVoid, outcome, finally, got, late, finals>> /\ Chained \in Promises
  BY <1>2, <1>3, ThenCases
<1>5. /\ Void(Chained) /\ Finished(Chained) => Final(Chained) \in Items'
      /\ ~Finished(Chained) \/ cb = None => ~Heading("call", Chained)'
      /\ Finished(Chained) /\ cb # None => (Void(Chained) => Final(Chained) \in Rest')
  BY <1>2, <1>3, ThenStack
<1>6. Cleans(Final(Chained)) /\ (Void(Chained) <=> isVoid)
  BY <1>4, MadeItems DEF Cleans, Void
<1>7. Heading("call", Chained)' /\ isVoid => \E x \in Rest' : Cleans(x)
  BY <1>5, <1>6
<1>8. isVoid /\ Finished(Chained) => Cleaning'
  BY <1>5, <1>6 DEF Cleaning, Cleans, Chained
<1>9. Finished(Chained)' <=> Finished(Chained)
  BY <1>4 DEF Finished, Chained
<1>10. QED
  BY <1>4, <1>7, <1>8, <1>9 DEF Finalised, Promises, Chained, Cleans

\* A handler runs.
LEMMA UserFinalised ==
  ASSUME Base, Finalised, CallUser
  PROVE  Finalised'
<1>0. TypeOK /\ Stack
  BY DEF Base
<1>1. /\ ~Idle /\ Hd = Head(todo) /\ Heading("call", Chained) /\ Hd.op = "call"
      /\ Hd.cb.id \in Handlers
  BY UserHead
<1>2. PICK k : k = Hd.cb.id
  OBVIOUS
<1>3. /\ got' = [got EXCEPT ![k] = Append(@, Hd.out)] /\ todo' = Tail(todo)
      /\ UNCHANGED <<isVoid, outcome, finally, late, finals>>
  BY <1>1, <1>2 DEF CallUser, program, slots
<1>4. Items' = Rest /\ Items = {Hd} \cup Rest /\ ~Heading("call", Chained)'
  BY <1>0, <1>1, <1>3, PopStep, TodoType
<1>5. Cleaning => Cleaning'
  BY <1>1, <1>4, StillCleaning DEF Cleans
<1>6. \A j \in Handlers : j # k => got'[j] = got[j]
  BY <1>0, <1>1, <1>2, <1>3 DEF TypeOK
<1>7. ASSUME isVoid, finally[Chained], Finished(Chained), Heard' PROVE Cleaning'
  <2>1. PICK j \in Handlers \ late : got'[j] # <<>>
    BY <1>3, <1>7 DEF Heard, Handlers
  <2>2. CASE j = k
    <3>1. \E x \in Rest : Cleans(x)
      BY <1>1, <1>2, <1>7, <2>1, <2>2 DEF Finalised
    <3>2. QED
      BY <1>4, <3>1 DEF Cleaning, Cleans, Chained
  <2>3. CASE j # k
    <3>1. Heard
      BY <1>6, <2>1, <2>3 DEF Heard
    <3>2. QED
      BY <1>5, <1>7, <3>1 DEF Finalised
  <2>4. QED
    BY <2>2, <2>3
<1>8. Finished(Chained)' <=> Finished(Chained)
  BY <1>3 DEF Finished, Chained
<1>9. QED
  BY <1>3, <1>4, <1>7, <1>8 DEF Finalised, Promises, Chained

\* The finally handler runs, or there is none.
LEMMA FinalFinalised ==
  ASSUME Base, Finalised, DoFinal
  PROVE  Finalised'
<1>0. TypeOK /\ Stack
  BY DEF Base
<1>1. /\ ~Idle /\ Hd = Head(todo) /\ Hd.op = "final" /\ Hd \in ItemTypes /\ Items = {Hd} \cup Rest
  BY <1>0, DoingHead DEF DoFinal
<1>2. PICK p : p = Hd.p
  OBVIOUS
<1>3. p \in Promises /\ Chained \in Promises
  BY <1>1, <1>2, ItemFacts, PromiseNumbers
<1>4. /\ finally' = [finally EXCEPT ![p] = FALSE] /\ todo' = Tail(todo)
      /\ finals' = IF finally[p] THEN <<finals[1], finals[2] + 1>> ELSE finals
      /\ UNCHANGED <<isVoid, outcome, got, late>>
  BY <1>1, <1>2 DEF DoFinal, program
<1>5. Items' = Rest /\ ~Heading("call", Chained)'
  BY <1>0, <1>1, <1>4, PopStep
<1>6. finally \in [Promises -> BOOLEAN]
  BY <1>0 DEF TypeOK
<1>7. CASE p = Chained
  <2>1. ~finally'[Chained] /\ \A q \in Promises \ {Chained} : ~finally'[q]
    BY <1>3, <1>4, <1>6, <1>7 DEF Finalised
  <2>2. finals' \in {<<0, 0>>, <<1, 1>>}
    <3>1. CASE finals = <<1, 0>>
      <4>1. finally[p]
        BY <1>7, <3>1 DEF Finalised
      <4>2. finals' = <<1, 1>>
        BY <1>4, <3>1, <4>1
      <4>3. QED
        BY <4>2
    <3>2. CASE finals # <<1, 0>>
      <4>1. ~finally[p]
        BY <1>7, <3>2 DEF Finalised
      <4>2. QED
        BY <1>4, <3>2, <4>1 DEF Finalised
    <3>3. QED
      BY <3>1, <3>2
  <2>3. finals' # <<1, 0>>
    BY <2>2
  <2>4. finals' \in {<<0, 0>>, <<1, 0>>, <<1, 1>>}
    BY <2>2
  <2>5. QED
    BY <1>5, <2>1, <2>3, <2>4 DEF Finalised, Promises, Chained
<1>8. CASE p # Chained
  <2>1. ~finally[p]
    BY <1>3, <1>8 DEF Finalised
  <2>2. finals' = finals /\ finally' = finally
    BY <1>3, <1>4, <1>6, <2>1
  <2>3. Cleaning => Cleaning'
    BY <1>1, <1>2, <1>5, <1>8, StillCleaning DEF Cleans
  <2>4. Finished(Chained)' => Finished(Chained)
    BY <1>4 DEF Finished, Chained
  <2>5. QED
    BY <1>4, <1>5, <2>2, <2>3, <2>4, FinalisedKept
<1>9. QED
  BY <1>7, <1>8

\* The program gives the last promise a finally handler.
LEMMA FinallyFinalised ==
  ASSUME Base, Finalised, Finally
  PROVE  Finalised'
<1>0. TypeOK
  BY DEF Base
<1>1. Idle /\ Idle' /\ finals[1] = 0 /\ UNCHANGED <<isVoid, outcome, todo, got, late>> /\ Chained \in Promises
  BY PromiseNumbers DEF Finally, Idle, program
<1>2. ~Heading("call", Chained)'
  BY <1>1 DEF Heading
<1>3. finals = <<0, 0>>
  BY <1>1 DEF Finalised
<1>4. ~finally[Chained]
  BY <1>3 DEF Finalised
<1>5. finally \in [Promises -> BOOLEAN]
  BY <1>0 DEF TypeOK
<1>6. Finished(Chained)' <=> Finished(Chained)
  BY <1>1 DEF Finished, Chained
<1>7. CASE Finished(Chained)
  <2>1. finals' = <<1, 1>> /\ finally' = finally
    BY <1>7 DEF Finally
  <2>2. finals' # <<1, 0>> /\ finals' \in {<<0, 0>>, <<1, 0>>, <<1, 1>>}
    BY <2>1
  <2>3. QED
    BY <1>2, <1>4, <2>1, <2>2 DEF Finalised, Promises, Chained
<1>8. CASE ~Finished(Chained)
  <2>1. finals' = <<1, 0>> /\ finally' = [finally EXCEPT ![Chained] = TRUE]
    BY <1>8 DEF Finally
  <2>2. finally'[Chained] /\ \A q \in Promises \ {Chained} : finally'[q] = finally[q]
    BY <1>1, <1>5, <2>1
  <2>3. QED
    BY <1>2, <1>6, <1>8, <2>1, <2>2 DEF Finalised, Promises, Chained
<1>9. QED
  BY <1>7, <1>8

\* The program makes another call, or catcher calls its handler at once.
LEMMA StartFinalised ==
  ASSUME Base, Finalised, Idle, UNCHANGED <<isVoid, outcome, finally, finals, got>>,
         late' = late \/ \E k \in Handlers : late' = late \cup {k},
         Heading("call", Chained)' => Hd'.cb.id \in late'
  PROVE  Finalised'
<1>1. ~Cleaning
  BY TodoType DEF Base, Cleaning
<1>2. Heard' => Heard
  BY DEF Heard, Handlers
<1>3. Finished(Chained)' <=> Finished(Chained)
  BY DEF Finished, Chained
<1>4. QED
  BY <1>1, <1>2, <1>3 DEF Finalised, Promises, Chained

-----------------------------------------------------------------------------
(* Every step keeps the invariant.                                         *)

\* The inductive invariant.
Inv == Base /\ Combined /\ Linked /\ Handled /\ Finalised

\* A step that settles nothing does not change what the combinator and the
\* chain say.
LEMMA QuietKept ==
  ASSUME Inv, Quiet, UNCHANGED <<kind, count, result>>,
         ~Heading("settle", Ret), ~Heading("settle", Chained),
         Heading("settle", Ret)' \/ Heading("settle", Chained)' => Hd'.out = Expired
  PROVE  Combined' /\ Linked'
<1>1. Fired' = Fired
  BY QuietStages
<1>2. FiredInputs' = FiredInputs
  BY <1>1 DEF FiredInputs, Inputs
<1>3. outcome' = outcome /\ built' = built
  BY DEF Quiet
<1>4. Combined'
  BY <1>2, <1>3, CombinedKept DEF Inv
<1>5. Linked'
  BY <1>1, <1>3, LinkedKept DEF Inv
<1>6. QED
  BY <1>4, <1>5

\* What follows a callback.
LEMMA EndInv ==
  ASSUME Inv, DoEnd
  PROVE  Inv'
<1>0. TypeOK /\ Stack /\ Base
  BY DEF Inv, Base
<1>1. Base' /\ Quiet
  BY <1>0, EndBase
<1>2. PICK p : p = Hd.p
  OBVIOUS
<1>3. /\ ~Idle /\ Hd = Head(todo) /\ Hd.op = "end" /\ Hd \in ItemTypes /\ Items = {Hd} \cup Rest
      /\ \A q, r : Heading(q, r) <=> q = "end" /\ r = p
  BY <1>0, <1>2, DoingHead DEF DoEnd
<1>4. p \in Promises /\ Chained \in Promises
  BY <1>2, <1>3, ItemFacts, PromiseNumbers
<1>5. /\ UNCHANGED <<kind, isVoid, outcome, val, finally, timer, count, result, built,
                     thens, got, late, finals>>
      /\ todo' = <<Final(p)>> \o Tail(todo)
      /\ \/ reject' = [reject EXCEPT ![p] = None] /\ resolve' = resolve
         \/ resolve' = [resolve EXCEPT ![p] = None] /\ reject' = reject
  BY <1>2, <1>3 DEF DoEnd, program, shared, history
<1>6. PICK f : f = Final(p)
  OBVIOUS
<1>7. f \in ItemTypes /\ f.op = "final" /\ f.p = p
  BY <1>4, <1>6, MadeItems
<1>8. /\ Items' = {f} \cup Rest
      /\ \A q, r : Heading(q, r)' <=> f.op = q /\ f.p = r
  BY <1>0, <1>3, <1>5, <1>6, <1>7, ReplaceStep
<1>9. \A q : ~Heading("settle", q)' /\ ~Heading("call", q)' /\ ~Heading("then", q)'
  BY <1>7, <1>8
<1>10. Combined' /\ Linked'
  BY <1>1, <1>3, <1>5, <1>9, QuietKept
<1>11. Handled'
  <2>1. resolve \in [Promises -> Callbacks] /\ reject \in [Promises -> Callbacks]
    BY <1>0 DEF TypeOK
  <2>2. resolve'[Chained] \in {resolve[Chained], None} /\ reject'[Chained] \in {reject[Chained], None}
    <3>1. CASE p = Chained
      BY <1>4, <1>5, <2>1, <3>1
    <3>2. CASE p # Chained
      BY <1>4, <1>5, <2>1, <3>2
    <3>3. QED
      BY <3>1, <3>2
  <2>3. QED
    BY <1>3, <1>5, <1>9, <2>2, HandledKept DEF Inv
<1>12. Finalised'
  <2>1. Cleaning => Cleaning'
    BY <1>2, <1>3, <1>7, <1>8 DEF Cleaning, Cleans, Chained
  <2>2. Finished(Chained)' => Finished(Chained)
    BY <1>5 DEF Finished, Chained
  <2>3. QED
    BY <1>5, <1>9, <2>1, <2>2, FinalisedKept DEF Inv
<1>13. QED
  BY <1>1, <1>10, <1>11, <1>12 DEF Inv

\* The finally handler, if there is one.
LEMMA FinalInv ==
  ASSUME Inv, DoFinal
  PROVE  Inv'
<1>0. TypeOK /\ Stack /\ Base
  BY DEF Inv, Base
<1>1. Base' /\ Quiet
  BY <1>0, FinalBase
<1>2. /\ ~Idle /\ Hd.op = "final"
      /\ \A q, r : Heading(q, r) <=> q = "final" /\ r = Hd.p
  BY <1>0, DoingHead DEF DoFinal
<1>3. /\ UNCHANGED <<kind, isVoid, outcome, val, resolve, reject, count, result, thens, got>>
      /\ todo' = Tail(todo)
  BY DEF DoFinal, program, shared
<1>4. \A q : ~Heading("settle", q)' /\ ~Heading("call", q)' /\ (Heading("then", q)' => q \in Single)
  BY <1>0, <1>2, <1>3, PopStep
<1>5. Combined' /\ Linked'
  BY <1>1, <1>2, <1>3, <1>4, QuietKept
<1>6. Handled'
  BY <1>2, <1>3, <1>4, HandledKept, PromiseNumbers DEF Inv
<1>7. QED
  BY <1>1, <1>5, <1>6, FinalFinalised DEF Inv

\* A handler of the program.
LEMMA UserInv ==
  ASSUME Inv, CallUser
  PROVE  Inv'
<1>0. TypeOK /\ Stack /\ Base
  BY DEF Inv, Base
<1>1. Base' /\ Quiet
  BY <1>0, UserBase
<1>2. ~Idle /\ \A q, r : Heading(q, r) <=> q = "call" /\ r = Chained
  BY <1>0, UserHead
<1>3. UNCHANGED <<kind, count, result>> /\ todo' = Tail(todo)
  BY DEF CallUser, program, shared
<1>4. \A q : ~Heading("settle", q)'
  BY <1>0, <1>2, <1>3, PopStep
<1>5. Combined' /\ Linked'
  BY <1>1, <1>2, <1>3, <1>4, QuietKept
<1>6. QED
  BY <1>1, <1>5, UserHandled, UserFinalised DEF Inv

\* resolve and reject.
LEMMA SettleInv ==
  ASSUME Inv, DoSettle
  PROVE  Inv'
<1>0. TypeOK /\ Stack /\ Base
  BY DEF Inv, Base
<1>1. Base' /\ Fired' = Fired
  BY <1>0, SettleBase
<1>2. PICK p : p = Hd.p
  OBVIOUS
<1>3. PICK o : o = Hd.out
  OBVIOUS
<1>4. PICK cb : cb = Slot(p, o)
  OBVIOUS
<1>5. /\ Hd.op = "settle" /\ Items = {Hd} \cup Rest /\ p \in Promises /\ o \in Outcomes
      /\ \A q, r : Heading(q, r) <=> q = "settle" /\ r = p
      /\ UNCHANGED <<kind, isVoid, finally, timer, count, result, built, thens, got, late, finals>>
      /\ Finished(p) => UNCHANGED <<outcome, val, resolve, reject>>
      /\ ~Finished(p) =>
           /\ outcome' = [outcome EXCEPT ![p] = o]
           /\ val' = IF o.st = "resolved" /\ cb = None THEN [val EXCEPT ![p] = o.val] ELSE val
           /\ resolve' = IF o.st = "resolved" THEN [resolve EXCEPT ![p] = None] ELSE resolve
           /\ reject' = IF o.st = "resolved" THEN reject ELSE [reject EXCEPT ![p] = None]
  BY <1>0, <1>2, <1>3, <1>4, SettleCases
<1>6. /\ Rest \subseteq Items'
      /\ \A q : ~Heading("settle", q)'
      /\ \A q : Heading("then", q)' => q \in Single
      /\ Finished(p) \/ cb = None => \A q : ~Heading("call", q)'
      /\ ~Finished(p) /\ cb # None => \A q, r : Heading(q, r)' <=> q = "call" /\ r = p
  BY <1>0, <1>2, <1>3, <1>4, SettleStack
<1>7. /\ outcome \in [Promises -> Outcomes \cup {Pending}] /\ val \in [Promises -> Data]
      /\ resolve \in [Promises -> Callbacks] /\ reject \in [Promises -> Callbacks]
  BY <1>0 DEF TypeOK
<1>8. \A q \in Promises : /\ q # p \/ Finished(p) => /\ outcome'[q] = outcome[q] /\ val'[q] = val[q]
                                                     /\ resolve'[q] = resolve[q] /\ reject'[q] = reject[q]
                          /\ q = p /\ ~Finished(p) => outcome'[q] = o
  BY <1>5, <1>7
<1>9. /\ \A i \in Inputs : Finished(i) => outcome'[i] = outcome[i]
      /\ \A i \in {Ret, Inner} : Finished(i) => outcome'[i] = outcome[i]
      /\ Ret \in Promises /\ Chained \in Promises
  BY <1>8, PromiseNumbers
<1>10. Combined'
  <2>1. FiredInputs' = FiredInputs
    BY <1>1 DEF FiredInputs, Inputs
  <2>2. \/ outcome'[Ret] = outcome[Ret] /\ (~Heading("settle", Ret) \/ Finished(Ret))
        \/ Heading("settle", Ret) /\ outcome'[Ret] = Hd.out
    BY <1>3, <1>5, <1>8, <1>9
  <2>3. QED
    BY <1>5, <1>6, <1>9, <2>1, <2>2, CombinedKept DEF Inv
<1>11. Linked'
  <2>1. \/ outcome'[Chained] = outcome[Chained] /\ (~Heading("settle", Chained) \/ Finished(Chained))
        \/ Heading("settle", Chained) /\ outcome'[Chained] = Hd.out
    BY <1>3, <1>5, <1>8, <1>9
  <2>2. QED
    BY <1>1, <1>6, <1>9, <2>1, LinkedKept DEF Inv
<1>12. CASE p # Chained \/ Finished(Chained)
  <2>1. /\ outcome'[Chained] = outcome[Chained] /\ val'[Chained] = val[Chained]
        /\ resolve'[Chained] = resolve[Chained] /\ reject'[Chained] = reject[Chained]
    BY <1>8, <1>9, <1>12
  <2>2. ~Heading("call", Chained) /\ ~Heading("call", Chained)' /\ ~Heading("then", Chained)'
    BY <1>5, <1>6, <1>12, PromiseNumbers
  <2>3. Handled'
    BY <1>5, <2>1, <2>2, HandledKept DEF Inv
  <2>4. Cleaning => Cleaning'
    BY <1>5, <1>6, StillCleaning DEF Cleans
  <2>5. Finished(Chained)' => Finished(Chained)
    BY <2>1 DEF Finished, Chained
  <2>6. Finalised'
    BY <1>5, <2>2, <2>4, <2>5, FinalisedKept DEF Inv
  <2>7. QED
    BY <1>1, <1>10, <1>11, <2>3, <2>6 DEF Inv
<1>13. CASE p = Chained /\ ~Finished(Chained)
  <2>1. Handled' /\ Finalised'
    BY <1>0, <1>2, <1>13, SettleHandled, SettleFinalised DEF Inv
  <2>2. QED
    BY <1>1, <1>10, <1>11, <2>1 DEF Inv
<1>14. QED
  BY <1>12, <1>13

\* really_then.
LEMMA ThenInv ==
  ASSUME Inv, DoThen
  PROVE  Inv'
<1>0. TypeOK /\ Stack /\ Base
  BY DEF Inv, Base
<1>1. PICK p : p = Hd.p
  OBVIOUS
<1>2. PICK cb : cb = Selected
  OBVIOUS
<1>3. PICK o : o = Handed
  OBVIOUS
<1>4. /\ Hd.op = "then" /\ Items = {Hd} \cup Rest /\ p \in Promises
      /\ \A q, r : Heading(q, r) <=> q = "then" /\ r = p
      /\ UNCHANGED <<kind, isVoid, outcome, finally, timer, count, result, built, thens,
                     got, late, finals>>
      /\ resolve' = [resolve EXCEPT ![p] = Hd.res] /\ reject' = [reject EXCEPT ![p] = Hd.rej]
      /\ val' = IF outcome[p].st = "resolved" /\ cb # None /\ ~Void(p)
                  THEN [val EXCEPT ![p] = <<Default>>] ELSE val
  BY <1>0, <1>1, <1>2, <1>3, ThenCases
<1>5. /\ Rest \subseteq Items'
      /\ \A q : ~Heading("settle", q)'
      /\ \A q : Heading("then", q)' => q \in Single
      /\ ~Finished(p) \/ cb = None => \A q : ~Heading("call", q)'
      /\ Finished(p) /\ cb # None => \A q, r : Heading(q, r)' <=> q = "call" /\ r = p
  BY <1>0, <1>1, <1>2, <1>3, ThenStack
<1>6. CASE p = Chained
  <2>1. Base' /\ Quiet
    BY <1>0, <1>1, <1>6, ThenChainedBase
  <2>2. Combined' /\ Linked'
    BY <1>4, <1>5, <2>1, QuietKept
  <2>3. Handled' /\ Finalised'
    BY <1>0, <1>1, <1>6, ThenHandled, ThenFinalised DEF Inv
  <2>4. QED
    BY <2>1, <2>2, <2>3 DEF Inv
<1>7. CASE p # Chained
  <2>1. p \in Single
    BY <1>4, <1>7, PromiseNumbers
  <2>2. Base' /\ Fired' = Fired
    BY <1>0, <1>1, <2>1, ThenSingleBase
  <2>3. FiredInputs' = FiredInputs
    BY <2>2 DEF FiredInputs, Inputs
  <2>4. Combined'
    BY <1>4, <1>5, <2>3, CombinedKept DEF Inv
  <2>5. Linked'
    BY <1>4, <1>5, <2>2, LinkedKept DEF Inv
  <2>6. val'[Chained] = val[Chained] /\ resolve'[Chained] = resolve[Chained] /\ reject'[Chained] = reject[Chained]
    <3>1. /\ val \in [Promises -> Data] /\ Chained \in Promises
          /\ resolve \in [Promises -> Callbacks] /\ reject \in [Promises -> Callbacks]
      BY <1>0, PromiseNumbers DEF TypeOK
    <3>2. QED
      BY <1>4, <1>7, <3>1
  <2>7. ~Heading("call", Chained) /\ ~Heading("call", Chained)' /\ ~Heading("then", Chained)'
    BY <1>4, <1>5, <1>7, PromiseNumbers
  <2>8. Handled'
    BY <1>4, <2>6, <2>7, HandledKept DEF Inv
  <2>9. Cleaning => Cleaning'
    BY <1>4, <1>5, StillCleaning DEF Cleans
  <2>10. Finished(Chained)' => Finished(Chained)
    BY <1>4 DEF Finished, Chained
  <2>11. Finalised'
    BY <1>4, <2>7, <2>9, <2>10, FinalisedKept DEF Inv
  <2>12. QED
    BY <2>2, <2>4, <2>5, <2>8, <2>11 DEF Inv
<1>8. QED
  BY <1>6, <1>7

\* A lambda's call does not touch the last promise itself.
LEMMA LambdaKept ==
  ASSUME Inv, Hd.op = "call", ~Heading("call", Chained), Items = {Hd} \cup Rest, Rest \subseteq Items',
         \A q : ~Heading("call", q)', \A q : Heading("then", q)' => q \in Single,
         UNCHANGED <<isVoid, outcome, val, resolve, reject, finally, thens, got, late, finals>>
  PROVE  Handled' /\ Finalised'
<1>1. ~Heading("then", Chained)' /\ ~Heading("call", Chained)'
  BY PromiseNumbers
<1>2. Handled'
  BY <1>1, HandledKept DEF Inv
<1>3. Cleaning => Cleaning'
  BY StillCleaning DEF Cleans
<1>4. Finished(Chained)' => Finished(Chained)
  BY DEF Finished, Chained
<1>5. Finalised'
  BY <1>1, <1>3, <1>4, FinalisedKept DEF Inv
<1>6. QED
  BY <1>2, <1>5

\* The lambdas of all, any and race.
LEMMA CallInputInv ==
  ASSUME Inv, CallInput
  PROVE  Inv'
<1>0. TypeOK /\ Base /\ ByUser
  BY HandledByUser DEF Inv, Base
<1>1. PICK p : p = Hd.p
  OBVIOUS
<1>2. PICK o : o = outcome[p]
  OBVIOUS
<1>3. PICK fin : fin = Answer(p, o)
  OBVIOUS
<1>4. count' \in 0..N
  BY <1>0, InputCount DEF Inv
<1>5. /\ Base' /\ Fired' = Fired \cup {p} /\ p \in Inputs
      /\ \A q, r : Heading(q, r) <=> q = "call" /\ r = p
      /\ \A q : Heading("settle", q)' => q = Ret
      /\ \A q : ~Heading("call", q)'
      /\ \A q : Heading("then", q)' => q \in Single
      /\ Items = {Hd} \cup Rest /\ Rest \subseteq Items' /\ Hd.op = "call"
      /\ UNCHANGED <<kind, isVoid, outcome, val, resolve, reject, finally, timer, built,
                     thens, got, late, finals>>
  BY <1>0, <1>1, <1>2, <1>3, <1>4, CallInputBase
<1>6. Combined'
  BY <1>0, CallInputCombined DEF Inv
<1>7. Linked'
  BY <1>5, LinkedKept, PromiseNumbers DEF Inv
<1>8. Handled' /\ Finalised'
  BY <1>5, LambdaKept, PromiseNumbers
<1>9. QED
  BY <1>5, <1>6, <1>7, <1>8 DEF Inv

\* The lambda of ret.then( f ).
LEMMA CallChainInv ==
  ASSUME Inv, CallChain
  PROVE  Inv'
<1>0. TypeOK /\ Base /\ ByUser
  BY HandledByUser DEF Inv, Base
<1>1. /\ Base' /\ Fired' = Fired \cup {Ret} /\ Heading("call", Ret)
      /\ \A q : Heading("settle", q)' => q \in {Inner, Chained}
      /\ \A q : ~Heading("call", q)'
      /\ \A q : Heading("then", q)' => q \in Single
      /\ Items = {Hd} \cup Rest /\ Rest \subseteq Items' /\ Hd.op = "call"
      /\ UNCHANGED <<kind, isVoid, outcome, val, resolve, reject, finally, timer, count,
                     result, built, thens, got, late, finals>>
  BY <1>0, CallChainBase
<1>2. FiredInputs' = FiredInputs
  BY <1>1, PromiseNumbers DEF FiredInputs, Inputs
<1>3. ~Heading("settle", Ret) /\ ~Heading("settle", Ret)' /\ ~Heading("call", Chained)
  BY <1>1, PromiseNumbers DEF Heading
<1>4. Combined'
  BY <1>1, <1>2, <1>3, CombinedKept DEF Inv
<1>5. Linked'
  BY <1>0, CallChainLinked DEF Inv
<1>6. Handled' /\ Finalised'
  BY <1>1, <1>3, LambdaKept
<1>7. QED
  BY <1>1, <1>4, <1>5, <1>6 DEF Inv

\* The lambdas hung on inner.
LEMMA CallForwardInv ==
  ASSUME Inv, CallForward
  PROVE  Inv'
<1>0. TypeOK /\ Base /\ ByUser
  BY HandledByUser DEF Inv, Base
<1>1. /\ Base' /\ Fired' = Fired \cup {Inner} /\ Heading("call", Inner)
      /\ \A q : Heading("settle", q)' <=> q = Chained
      /\ \A q : ~Heading("call", q)'
      /\ \A q : Heading("then", q)' => q \in Single
      /\ Items = {Hd} \cup Rest /\ Rest \subseteq Items' /\ Hd.op = "call"
      /\ UNCHANGED <<kind, isVoid, outcome, val, resolve, reject, finally, timer, count,
                     result, built, thens, got, late, finals>>
  BY <1>0, CallForwardBase
<1>2. FiredInputs' = FiredInputs
  BY <1>1, PromiseNumbers DEF FiredInputs, Inputs
<1>3. ~Heading("settle", Ret) /\ ~Heading("settle", Ret)' /\ ~Heading("call", Chained)
  BY <1>1, PromiseNumbers DEF Heading
<1>4. Combined'
  BY <1>1, <1>2, <1>3, CombinedKept DEF Inv
<1>5. Linked'
  BY <1>0, CallForwardLinked DEF Inv
<1>6. Handled' /\ Finalised'
  BY <1>1, <1>3, LambdaKept
<1>7. QED
  BY <1>1, <1>4, <1>5, <1>6 DEF Inv

\* A step of the program that hangs no handler and calls none.
LEMMA ProgramKept ==
  ASSUME Inv, Idle, UNCHANGED <<isVoid, outcome, val, resolve, reject, thens, got>>,
         ~Heading("call", Chained)', ~Heading("then", Chained)'
  PROVE  Handled' /\ (UNCHANGED <<finally, finals, late>> => Finalised')
<1>1. ~Heading("call", Chained)
  BY DEF Heading
<1>2. Handled'
  BY <1>1, HandledKept DEF Inv
<1>3. UNCHANGED <<finally, finals, late>> => Finalised'
  BY StartFinalised DEF Inv
<1>4. QED
  BY <1>2, <1>3

\* all, any and race.
LEMMA CombineInv ==
  ASSUME Inv, Combine
  PROVE  Inv'
<1>0. Base
  BY DEF Inv
<1>1. /\ Base' /\ Fired' = Fired /\ Idle
      /\ \A q : Heading("settle", q)' => q = Ret
      /\ \A q : ~Heading("call", q)'
      /\ \A q : Heading("then", q)' => q \in Single
      /\ UNCHANGED <<kind, isVoid, outcome, val, resolve, reject, finally, timer, count,
                     result, thens, got, late, finals>>
  BY <1>0, CombineBase
<1>2. ~Heading("settle", Chained) /\ ~Heading("settle", Chained)' /\ ~Heading("then", Chained)'
  BY <1>1, PromiseNumbers DEF Heading
<1>3. Linked'
  BY <1>1, <1>2, LinkedKept DEF Inv
<1>4. Handled' /\ Finalised'
  BY <1>1, <1>2, ProgramKept
<1>5. QED
  BY <1>1, <1>3, <1>4, CombineCombined DEF Inv

\* next = ret.then( f )
LEMMA ChainThenInv ==
  ASSUME Inv, ChainThen
  PROVE  Inv'
<1>0. Base
  BY DEF Inv
<1>1. /\ Base' /\ Fired' = Fired /\ Idle
      /\ \A q : ~Heading("settle", q)'
      /\ \A q : ~Heading("call", q)'
      /\ \A q : Heading("then", q)' => q \in Single
      /\ built = {"ret"} /\ built' = {"ret", "next"}
      /\ UNCHANGED <<kind, isVoid, outcome, val, resolve, reject, finally, timer, count,
                     result, thens, got, late, finals>>
  BY <1>0, ChainThenBase
<1>2. \A q : ~Heading("settle", q)
  BY <1>1 DEF Heading
<1>3. FiredInputs' = FiredInputs /\ (built = {} <=> built' = {}) /\ ~Heading("then", Chained)'
  BY <1>1, PromiseNumbers DEF FiredInputs, Inputs
<1>4. Combined'
  BY <1>1, <1>2, <1>3, CombinedKept DEF Inv
<1>5. Linked'
  BY <1>1, <1>2, LinkedKept DEF Inv
<1>6. Handled' /\ Finalised'
  BY <1>1, <1>3, ProgramKept
<1>7. QED
  BY <1>1, <1>4, <1>5, <1>6 DEF Inv

\* The owner of an input or of inner settles it.
LEMMA ProgramSettlesInv ==
  ASSUME Inv, NEW p \in Promises, NEW o \in ProgramOutcomes, ProgramSettles(p, o)
  PROVE  Inv'
<1>0. Base
  BY DEF Inv
<1>1. Base' /\ Quiet
  BY <1>0, ProgramSettlesBase
<1>2. PICK a : a = Settle(p, o)
  OBVIOUS
<1>3. a \in ItemTypes /\ a.op = "settle" /\ a.p = p
  BY <1>2, MadeItems, ProgramOutcomeFacts
<1>4. /\ Idle /\ todo' = <<a>> /\ p \in Inputs \cup {Inner}
      /\ UNCHANGED <<kind, isVoid, outcome, val, resolve, reject, finally, count, result,
                     thens, got, late, finals>>
  BY <1>2 DEF ProgramSettles, program, slots, shared, history
<1>5. \A q, r : Heading(q, r)' <=> a.op = q /\ a.p = r
  BY <1>3, <1>4, StartStep
<1>6. \A q, r : ~Heading(q, r)
  BY <1>4 DEF Heading
<1>7. /\ ~Heading("settle", Ret)' /\ ~Heading("settle", Chained)'
      /\ ~Heading("call", Chained)' /\ ~Heading("then", Chained)'
  BY <1>3, <1>4, <1>5, PromiseNumbers
<1>8. Combined' /\ Linked'
  BY <1>1, <1>4, <1>6, <1>7, QuietKept
<1>9. Handled' /\ Finalised'
  BY <1>4, <1>7, ProgramKept
<1>10. QED
  BY <1>1, <1>8, <1>9 DEF Inv

\* Nothing is called.
LEMMA StillHeads ==
  ASSUME todo' = <<>>
  PROVE  \A q, r : ~Heading(q, r)'
BY DEF Heading, Idle

\* timeout.
LEMMA TimeoutInv ==
  ASSUME Inv, NEW p \in Promises, Timeout(p)
  PROVE  Inv'
<1>1. Base' /\ Quiet
  BY TimeoutBase DEF Inv
<1>2. /\ Idle /\ todo' = <<>>
      /\ UNCHANGED <<kind, isVoid, outcome, val, resolve, reject, finally, count, result,
                     thens, got, late, finals>>
  BY DEF Timeout, Idle, program, slots, shared, history
<1>3. \A q, r : ~Heading(q, r) /\ ~Heading(q, r)'
  BY <1>2, StillHeads DEF Heading
<1>4. Combined' /\ Linked'
  BY <1>1, <1>2, <1>3, QuietKept
<1>5. Handled' /\ Finalised'
  BY <1>2, <1>3, ProgramKept
<1>6. QED
  BY <1>1, <1>4, <1>5 DEF Inv

\* A timer fires.
LEMMA TimerFiresInv ==
  ASSUME Inv, NEW p \in Promises, TimerFires(p)
  PROVE  Inv'
<1>1. Base' /\ Quiet
  BY TimerFiresBase DEF Inv
<1>2. PICK a : a = Settle(p, Expired)
  OBVIOUS
<1>3. a \in ItemTypes /\ a.op = "settle" /\ a.p = p /\ a.out = Expired
  BY <1>2, MadeItems, ProgramOutcomeFacts
<1>4. /\ Idle /\ (todo' = <<a>> \/ todo' = <<>>)
      /\ UNCHANGED <<kind, isVoid, outcome, val, resolve, reject, finally, count, result,
                     thens, got, late, finals>>
  BY <1>2 DEF TimerFires, Expired, program, slots, shared, history
<1>5. \A q, r : Heading(q, r)' => a.op = q /\ a.p = r /\ Hd' = a
  BY <1>3, <1>4, StartStep, StillHeads
<1>6. \A q, r : ~Heading(q, r)
  BY <1>4 DEF Heading
<1>7. /\ Heading("settle", Ret)' \/ Heading("settle", Chained)' => Hd'.out = Expired
      /\ ~Heading("call", Chained)' /\ ~Heading("then", Chained)'
  BY <1>3, <1>5
<1>8. Combined' /\ Linked'
  BY <1>1, <1>4, <1>6, <1>7, QuietKept
<1>9. Handled' /\ Finalised'
  BY <1>4, <1>7, ProgramKept
<1>10. QED
  BY <1>1, <1>8, <1>9 DEF Inv

\* finally.
LEMMA FinallyInv ==
  ASSUME Inv, Finally
  PROVE  Inv'
<1>1. Base' /\ Quiet
  BY FinallyBase DEF Inv
<1>2. /\ Idle /\ todo' = <<>>
      /\ UNCHANGED <<kind, isVoid, outcome, val, resolve, reject, count, result, thens, got, late>>
  BY DEF Finally, Idle, program, shared
<1>3. \A q, r : ~Heading(q, r) /\ ~Heading(q, r)'
  BY <1>2, StillHeads DEF Heading
<1>4. Combined' /\ Linked'
  BY <1>1, <1>2, <1>3, QuietKept
<1>5. Handled'
  BY <1>2, <1>3, ProgramKept
<1>6. QED
  BY <1>1, <1>4, <1>5, FinallyFinalised DEF Inv

\* next.then
LEMMA UserThenInv ==
  ASSUME Inv, NEW w \in BOOLEAN, UserThen(w)
  PROVE  Inv'
<1>1. /\ Base' /\ Quiet
      /\ thens' = thens + 1 /\ thens' \in Handlers
      /\ Hd' = Then(Chained, User(thens'), IF w THEN User(thens') ELSE None)
      /\ \A q, p : Heading(q, p)' <=> q = "then" /\ p = Chained
  BY UserThenBase DEF Inv
<1>2. Idle /\ UNCHANGED <<kind, isVoid, outcome, val, resolve, reject, finally, count, result,
                          got, late, finals>>
  BY DEF UserThen, program, slots, shared, history
<1>3. \A q, r : ~Heading(q, r)
  BY <1>2 DEF Heading
<1>4. Combined' /\ Linked'
  BY <1>1, <1>2, <1>3, QuietKept
<1>5. ~Heading("call", Chained)'
  BY <1>1
<1>6. Hd'.res = User(thens') /\ Hd'.rej \in {None, User(thens')}
  BY <1>1 DEF Then
<1>7. Calling'
  BY <1>5 DEF Calling, Chained
<1>8. Handled'
  BY <1>1, <1>2, <1>6, <1>7, MoreHandled DEF Inv
<1>9. Finalised'
  BY <1>2, <1>5, StartFinalised DEF Inv
<1>10. QED
  BY <1>1, <1>4, <1>8, <1>9 DEF Inv

\* catcher.
LEMMA CatcherInv ==
  ASSUME Inv, Catcher
  PROVE  Inv'
<1>0. TypeOK
  BY DEF Inv, Base
<1>1. /\ Base' /\ Quiet
      /\ thens' = thens + 1 /\ thens' \in Handlers
      /\ IF Finished(Chained)
           THEN /\ late' = late \cup {thens'} /\ reject' = reject
                /\ Idle' \/ /\ Hd' = Call(Chained, User(thens'), outcome[Chained]) /\ Hd' \in ItemTypes
                            /\ \A q, p : Heading(q, p)' <=> q = "call" /\ p = Chained
           ELSE /\ late' = late /\ Idle'
                /\ reject' = [reject EXCEPT ![Chained] = User(thens')]
  BY CatcherBase DEF Inv
<1>2. Idle /\ UNCHANGED <<kind, isVoid, outcome, val, resolve, finally, count, result, got, finals>>
  BY DEF Catcher, program, shared
<1>3. \A q, r : ~Heading(q, r)
  BY <1>2 DEF Heading
<1>4. /\ \A q, r : Heading(q, r)' => q = "call" /\ r = Chained
      /\ \/ \A q, r : ~Heading(q, r)'
         \/ Finished(Chained) /\ Hd' = Call(Chained, User(thens'), outcome[Chained])
  BY <1>1 DEF Heading
<1>5. Combined' /\ Linked'
  BY <1>1, <1>2, <1>3, <1>4, QuietKept
<1>6. reject'[Chained] = reject[Chained] \/ reject'[Chained] = User(thens')
  <2>1. reject \in [Promises -> Callbacks] /\ Chained \in Promises
    BY <1>0, PromiseNumbers DEF TypeOK
  <2>2. QED
    BY <1>1, <2>1
<1>7. ~Heading("then", Chained)'
  BY <1>4
<1>8. Calling' \/ (Finished(Chained) /\ Hd'.cb = User(thens') /\ Hd'.out = outcome[Chained])
  BY <1>4 DEF Calling, Call, Chained
<1>9. Handled'
  BY <1>1, <1>2, <1>6, <1>7, <1>8, MoreHandled DEF Inv
<1>10. Heading("call", Chained)' => Hd'.cb.id \in late'
  <2>1. User(thens').id = thens'
    BY <1>1, CbFacts
  <2>2. QED
    BY <1>1, <1>4, <2>1 DEF Call
<1>11. Finalised'
  BY <1>1, <1>2, <1>10, StartFinalised DEF Inv
<1>12. QED
  BY <1>1, <1>5, <1>9, <1>11 DEF Inv

-----------------------------------------------------------------------------
(* The theorems.                                                           *)

\* At first nothing is built.
LEMMA InitInv ==
  ASSUME Init
  PROVE  Inv
<1>1. Base /\ Fired = {} /\ Idle /\ (\A q, p : ~Heading(q, p)) /\ Items = {} /\ Rest = {}
  BY InitBase
<1>2. \A p \in Promises : ~Finished(p) /\ val[p] = <<Default>> /\ resolve[p] = None /\ reject[p] = None /\ ~finally[p]
  BY DEF Init, Finished
<1>3. Ret \in Promises /\ Chained \in Promises
  BY PromiseNumbers
<1>4. Combined
  <2>1. FiredInputs = {} /\ built = {} /\ count = 0
    BY <1>1 DEF FiredInputs, Init
  <2>2. Cardinality(FiredInputs) = 0
    BY <2>1, FS_EmptySet
  <2>3. QED
    BY <1>1, <1>2, <1>3, <2>1, <2>2 DEF Combined
<1>5. Linked
  BY <1>1, <1>2, <1>3 DEF Linked, Reached
<1>6. Handled
  <2>1. \A k \in Handlers : got[k] = <<>>
    BY DEF Init
  <2>2. outcome[Chained].st # "resolved"
    BY <1>2, <1>3 DEF Finished, Pending
  <2>3. QED
    BY <1>1, <1>2, <1>3, <2>1, <2>2 DEF Handled, Called, Calling, Hanging, OwnSlot, Valued
<1>7. Finalised
  <2>1. finals = <<0, 0>> /\ finals # <<1, 0>>
    BY DEF Init
  <2>2. QED
    BY <1>1, <1>2, <1>3, <2>1 DEF Finalised
<1>8. QED
  BY <1>1, <1>4, <1>5, <1>6, <1>7 DEF Inv

\* Nothing changes.
LEMMA StutterInv ==
  ASSUME Inv, UNCHANGED vars
  PROVE  Inv'
<1>1. UNCHANGED <<kind, isVoid, outcome, val, resolve, reject, finally, timer, count,
                 result, built, thens, todo, got, late, finals>>
  BY DEF vars, program, slots, shared, history
<1>2. TypeOK'
  BY <1>1 DEF Inv, Base, TypeOK
<1>3. Hd' = Hd /\ Rest' = Rest /\ Items' = Items /\ (Idle' <=> Idle) /\ (\A p : Finished(p)' <=> Finished(p))
  BY <1>1 DEF Hd, Rest, Items, Idle, Finished
<1>4. \A q, p : Heading(q, p)' <=> Heading(q, p)
  BY <1>3 DEF Heading
<1>5. Hung' = Hung /\ Fired' = Fired /\ \A p \in Single : Begun(p)' <=> Begun(p)
  BY <1>1, <1>3, <1>4, SameStages
<1>6. Stack'
  BY <1>1, <1>3, <1>5 DEF Inv, Base, Stack, Left
<1>7. Owned'
  BY <1>1, <1>3, <1>4, <1>5
  DEF Inv, Base, Owned, Timed, ThenOwn, CallOwn, HungOwn, SettleOwn, Ended, Waits, Kept,
     Cb, Ret, Inner, ProgramOutcomes
<1>8. FiredInputs' = FiredInputs
  BY <1>5 DEF FiredInputs, Inputs
<1>9. Combined'
  BY <1>1, <1>3, <1>4, <1>8 DEF Inv, Combined, Verdict, Undecided, Expired
<1>10. Linked'
  BY <1>1, <1>3, <1>4, <1>5 DEF Inv, Linked, Carried, Reached, Expired
<1>11. Handled'
  BY <1>1, <1>3, <1>4 DEF Inv, Handled, Called, Calling, Hanging, OwnSlot, Valued, Given
<1>12. Finalised'
  BY <1>1, <1>3, <1>4 DEF Inv, Finalised, Cleaning, Cleans, Heard
<1>13. QED
  BY <1>2, <1>6, <1>7, <1>9, <1>10, <1>11, <1>12 DEF Inv, Base

\* One case per action.
LEMMA NextInv ==
  ASSUME Inv, [Next]_vars
  PROVE  Inv'
<1>1. CASE UNCHANGED vars
  BY <1>1, StutterInv
<1>2. CASE Run
  BY <1>2, SettleInv, EndInv, FinalInv, ThenInv, CallInputInv, CallChainInv, CallForwardInv, UserInv DEF Run
<1>3. ASSUME NEW p \in Promises,
             \/ \E v \in Values : ProgramSettles(p, Resolved(<<v>>))
             \/ \E e \in Errors : ProgramSettles(p, Rejected(e))
             \/ Timeout(p)
             \/ TimerFires(p)
      PROVE  Inv'
  <2>1. ASSUME NEW v \in Values, ProgramSettles(p, Resolved(<<v>>)) PROVE Inv'
    BY <2>1, ProgramSettlesInv, ProgramOutcomeFacts
  <2>2. ASSUME NEW e \in Errors, ProgramSettles(p, Rejected(e)) PROVE Inv'
    BY <2>2, ProgramSettlesInv, ProgramOutcomeFacts
  <2>3. QED
    BY <1>3, <2>1, <2>2, TimeoutInv, TimerFiresInv
<1>4. CASE Combine \/ ChainThen \/ Catcher \/ Finally
  BY <1>4, CombineInv, ChainThenInv, CatcherInv, FinallyInv
<1>5. CASE \E w \in BOOLEAN : UserThen(w)
  BY <1>5, UserThenInv
<1>6. QED
  BY <1>1, <1>2, <1>3, <1>4, <1>5 DEF Next

\* The inductive invariant holds.
LEMMA Invariance == Spec => []Inv
<1>1. Init => Inv
  BY InitInv
<1>2. Inv /\ [Next]_vars => Inv'
  BY NextInv
<1>3. QED
  BY <1>1, <1>2, PTL DEF Spec

\* The shared state of the promises, the call stack and the histories keep
\* their types; in particular the count of a combinator never passes the
\* number of inputs, because each input's lambda runs once.
THEOREM TypeCorrect == Spec => []TypeOK
<1>1. Inv => TypeOK
  BY DEF Inv, Base
<1>2. QED
  BY <1>1, Invariance, PTL

\* What is known between calls.
LEMMA BetweenCalls ==
  ASSUME Inv, Idle
  PROVE  /\ \A q, r : ~Heading(q, r)
         /\ built # {} => FiredInputs = {i \in Inputs : Finished(i)}
         /\ "next" \in built => (Ret \in Fired <=> Finished(Ret))
         /\ "next" \in built /\ outcome[Ret].st = "resolved" => (Inner \in Fired <=> Finished(Inner))
<1>0. TypeOK
  BY DEF Inv, Base
<1>1. \A q, r : ~Heading(q, r)
  BY DEF Heading
<1>2. Items = {}
  BY <1>0, TodoType
<1>3. Hung = {p \in Single : Begun(p)}
  BY <1>2 DEF Hung
<1>4. Fired = {p \in Single : Begun(p) /\ Finished(p)}
  BY <1>1, <1>3 DEF Fired
<1>5. ASSUME built # {} PROVE FiredInputs = {i \in Inputs : Finished(i)}
  <2>1. \A i \in Inputs : i \in Single /\ Begun(i)
    BY <1>5, PromiseNumbers DEF Begun
  <2>2. QED
    BY <1>4, <2>1 DEF FiredInputs
<1>6. "next" \in built => (Ret \in Fired <=> Finished(Ret))
  BY <1>4, PromiseNumbers DEF Begun
<1>7. ASSUME "next" \in built, outcome[Ret].st = "resolved" PROVE Inner \in Fired <=> Finished(Inner)
  <2>1. Finished(Ret)
    BY <1>0, <1>7, FinishedFacts, PromiseNumbers
  <2>2. Begun(Inner)
    BY <1>1, <1>2, <1>7, <2>1 DEF Begun
  <2>3. QED
    BY <1>4, <2>2, PromiseNumbers
<1>8. QED
  BY <1>1, <1>5, <1>6, <1>7

\* Between calls every finished input has had its lambda run, so that the
\* verdict is due exactly when the inputs' outcomes ask for it.
LEMMA InvCombineOutcome ==
  ASSUME Inv
  PROVE  CombineOutcome
<1>0. TypeOK /\ Base
  BY DEF Inv, Base
<1>1. SUFFICES ASSUME Idle, "ret" \in built, outcome[Ret] # Rejected(TimedOut)
               PROVE  CombineOutcome
  BY DEF CombineOutcome
<1>2. /\ ~Heading("settle", Ret) /\ FiredInputs = {i \in Inputs : Finished(i)} /\ built # {}
  BY <1>1, BetweenCalls
<1>3. /\ Finished(Ret) => Verdict(outcome[Ret]) /\ outcome[Ret] \in Outcomes
      /\ ~Finished(Ret) => Undecided
  BY <1>0, <1>1, <1>2, FinishedFacts, PromiseNumbers DEF Inv, Combined, Expired
<1>4. /\ \A i \in Inputs : outcome[i].st \in {"resolved", "rejected"} <=> Finished(i)
      /\ outcome[Ret].st \in {"resolved", "rejected"} <=> Finished(Ret)
  <2>1. \A p \in Promises : outcome[p].st \in {"resolved", "rejected"} <=> Finished(p)
    <3>1. SUFFICES ASSUME NEW p \in Promises PROVE outcome[p].st \in {"resolved", "rejected"} <=> Finished(p)
      OBVIOUS
    <3>2. Finished(p) => outcome[p] \in Outcomes
      BY <1>0, FinishedFacts
    <3>3. Finished(p) => outcome[p].st \in {"resolved", "rejected"}
      BY <3>2, OutcomeFacts
    <3>4. QED
      BY <1>0, <3>3, FinishedFacts
  <2>2. QED
    BY <2>1, PromiseNumbers
<1> DEFINE good == {i \in Inputs : outcome[i].st = "resolved"}
           bad == {i \in Inputs : outcome[i].st = "rejected"}
<1>5. PICK o : o = outcome[Ret]
  OBVIOUS
<1>6. o.st = "rejected" => o = Rejected(o.err)
  BY <1>3, <1>4, <1>5, OutcomeFacts
<1>7. kind \in {"all", "any", "race"}
  BY <1>0, PromiseAssumption DEF TypeOK
<1>8. ASSUME kind = "all"
      PROVE  /\ Finished(Ret) <=> (good = Inputs \/ bad # {})
             /\ o.st = "resolved" => good = Inputs /\ \A i \in Inputs : outcome[i].val = <<o.val[i]>>
             /\ o.st = "rejected" => ErrorOfInput(o.err)
  <2>1. ASSUME o.st = "resolved" PROVE good = Inputs /\ \A i \in Inputs : outcome[i].val = <<o.val[i]>>
    <3>1. \A i \in Inputs : outcome[i] = Resolved(<<o.val[i]>>)
      BY <1>3, <1>4, <1>5, <1>8, <2>1 DEF Verdict
    <3>2. \A d : Resolved(d).st = "resolved" /\ Resolved(d).val = d
      BY DEF Resolved
    <3>3. QED
      BY <3>1, <3>2
  <2>2. ASSUME o.st = "rejected" PROVE ErrorOfInput(o.err) /\ bad # {}
    <3>1. PICK i \in Inputs : outcome[i] = o
      BY <1>3, <1>4, <1>5, <1>8, <2>2 DEF Verdict
    <3>2. QED
      BY <1>6, <2>2, <3>1 DEF ErrorOfInput
  <2>3. ASSUME ~Finished(Ret) PROVE good # Inputs /\ bad = {}
    <3>1. FiredInputs # Inputs /\ \A i \in FiredInputs : outcome[i].st = "resolved"
      BY <1>3, <1>8, <2>3 DEF Undecided
    <3>2. QED
      BY <1>2, <1>4, <3>1
  <2>4. QED
    BY <1>4, <1>5, <2>1, <2>2, <2>3
<1>9. ASSUME kind = "any"
      PROVE  /\ Finished(Ret) <=> (good # {} \/ bad = Inputs)
             /\ o.st = "resolved" => \E i \in good : outcome[i] = o
             /\ o.st = "rejected" => bad = Inputs /\ (N = 0 \/ ErrorOfInput(o.err))
  <2>1. ASSUME o.st = "resolved" PROVE \E i \in good : outcome[i] = o
    <3>1. PICK i \in Inputs : outcome[i] = o
      BY <1>3, <1>4, <1>5, <1>9, <2>1 DEF Verdict
    <3>2. QED
      BY <2>1, <3>1
  <2>2. ASSUME o.st = "rejected" PROVE bad = Inputs /\ (N = 0 \/ ErrorOfInput(o.err))
    <3>1. /\ \A i \in Inputs : outcome[i].st = "rejected"
          /\ N = 0 \/ \E i \in Inputs : outcome[i] = o
      BY <1>3, <1>4, <1>5, <1>9, <2>2 DEF Verdict
    <3>2. QED
      BY <1>6, <2>2, <3>1 DEF ErrorOfInput
  <2>3. ASSUME ~Finished(Ret) PROVE good = {} /\ bad # Inputs
    <3>1. FiredInputs # Inputs /\ \A i \in FiredInputs : outcome[i].st = "rejected"
      BY <1>3, <1>9, <2>3 DEF Undecided
    <3>2. QED
      BY <1>2, <1>4, <3>1
  <2>4. QED
    BY <1>4, <1>5, <2>1, <2>2, <2>3
<1>10. ASSUME kind = "race"
       PROVE  /\ Finished(Ret) <=> (good \cup bad # {} \/ N = 0)
              /\ Finished(Ret) /\ N > 0 => \E i \in Inputs : outcome[i] = o
  <2>1. ASSUME Finished(Ret) PROVE N = 0 \/ \E i \in Inputs : outcome[i] = o
    BY <1>3, <1>5, <1>10, <2>1 DEF Verdict
  <2>2. ASSUME ~Finished(Ret) PROVE good \cup bad = {} /\ N # 0
    <3>1. FiredInputs = {} /\ N # 0
      BY <1>3, <1>10, <2>2 DEF Undecided
    <3>2. QED
      BY <1>2, <1>4, <3>1
  <2>3. ASSUME NEW i \in Inputs, outcome[i] = o, Finished(Ret) PROVE good \cup bad # {}
    BY <1>4, <1>5, <2>3
  <2>4. QED
    BY <2>1, <2>2, <2>3, PromiseAssumption
<1>11. CASE kind = "all"
  BY <1>5, <1>8, <1>11 DEF CombineOutcome
<1>12. CASE kind = "any"
  BY <1>5, <1>9, <1>12 DEF CombineOutcome
<1>13. CASE kind = "race"
  BY <1>5, <1>10, <1>13 DEF CombineOutcome
<1>14. QED
  BY <1>7, <1>11, <1>12, <1>13

\* all, any and race settle their promise when, and as, the outcomes of any
\* number of inputs ask for, in whatever order these are settled.
THEOREM CombinatorOutcome == Spec => []CombineOutcome
<1>1. Inv => CombineOutcome
  BY InvCombineOutcome
<1>2. QED
  BY <1>1, Invariance, PTL

\* ret.then( f ) ends with the error of ret or with the outcome of the promise
\* f returns, as soon as it is known.
THEOREM ChainEnd == Spec => []ChainOutcome
<1>1. ASSUME Inv PROVE ChainOutcome
  <2>1. SUFFICES ASSUME Idle, "next" \in built, outcome[Chained] # Rejected(TimedOut)
                 PROVE  ChainOutcome
    BY DEF ChainOutcome
  <2>2. /\ ~Heading("settle", Chained) /\ (Ret \in Fired <=> Finished(Ret))
        /\ outcome[Ret].st = "resolved" => (Inner \in Fired <=> Finished(Inner))
    BY <1>1, <2>1, BetweenCalls
  <2>3. /\ Finished(Chained) => Carried(outcome[Chained])
        /\ ~Finished(Chained) => ~Reached
    BY <1>1, <2>1, <2>2 DEF Inv, Linked, Expired
  <2>4. Finished(Ret) <=> outcome[Ret].st = "resolved" \/ outcome[Ret].st = "rejected"
    BY <1>1, FinishedFacts, OutcomeFacts, PromiseNumbers DEF Inv, Base
  <2>5. ASSUME ~Finished(Ret) PROVE ~Finished(Chained)
    BY <2>2, <2>3, <2>5 DEF Carried
  <2>6. ASSUME outcome[Ret].st = "rejected" PROVE outcome[Chained] = outcome[Ret]
    BY <2>2, <2>3, <2>4, <2>6 DEF Carried, Reached
  <2>7. ASSUME outcome[Ret].st = "resolved" PROVE outcome[Chained] = outcome[Inner]
    <3>1. CASE Finished(Chained)
      BY <2>3, <2>7, <3>1 DEF Carried
    <3>2. CASE ~Finished(Chained)
      <4>1. ~Finished(Inner)
        BY <2>2, <2>3, <2>4, <2>7, <3>2 DEF Reached
      <4>2. QED
        BY <3>2, <4>1 DEF Finished
    <3>3. QED
      BY <3>1, <3>2
  <2>8. CASE ~Finished(Ret)
    BY <2>4, <2>5, <2>8 DEF ChainOutcome
  <2>9. CASE outcome[Ret].st = "rejected"
    BY <2>4, <2>6, <2>9 DEF ChainOutcome
  <2>10. CASE outcome[Ret].st = "resolved"
    BY <2>4, <2>7, <2>10 DEF ChainOutcome
  <2>11. QED
    BY <2>4, <2>8, <2>9, <2>10
<1>2. QED
  BY <1>1, Invariance, PTL

\* A handler of the program is called once at most, with the outcome of the
\* promise or, when another handler has taken the value before, with a value
\* that was moved from.
THEOREM HandlersOutcome == Spec => []HandlerOutcome
<1>1. ASSUME Inv PROVE HandlerOutcome
  <2>1. SUFFICES ASSUME NEW k \in Handlers
                 PROVE  /\ Len(got[k]) <= 1
                        /\ Len(got[k]) = 1 => Given(k, got[k][1])
    BY DEF HandlerOutcome, Given
  <2>2. CASE got[k] = <<>>
    BY <2>2
  <2>3. CASE got[k] # <<>>
    <3>1. Called
      BY <1>1 DEF Inv, Handled
    <3>2. Len(got[k]) = 1 /\ Given(k, got[k][1])
      BY <2>3, <3>1 DEF Called
    <3>3. QED
      BY <3>2
  <2>4. QED
    BY <2>2, <2>3
<1>2. QED
  BY <1>1, Invariance, PTL

\* The finally handler of a promise< void > has run once when the promise is
\* finished and a handler has been called, other than by catcher.
THEOREM FinallyOnce == Spec => []FinallyRuns
<1>1. ASSUME Inv PROVE FinallyRuns
  <2>1. SUFFICES ASSUME isVoid, Idle, finals[1] = 1, Finished(Chained),
                        \E k \in Handlers \ late : got[k] # <<>>
                 PROVE  finals[2] = 1
    BY DEF FinallyRuns
  <2>2. Heard /\ ~Cleaning
    BY <1>1, <2>1, TodoType DEF Heard, Cleaning, Inv, Base
  <2>3. ~finally[Chained]
    BY <1>1, <2>1, <2>2 DEF Inv, Finalised
  <2>4. finals \in {<<0, 0>>, <<1, 1>>}
    BY <1>1, <2>3 DEF Inv, Finalised
  <2>5. QED
    BY <2>1, <2>4
<1>2. QED
  BY <1>1, Invariance, PTL
=============================================================================

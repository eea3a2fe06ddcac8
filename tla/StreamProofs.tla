---------------------------- MODULE StreamProofs ----------------------------
(***************************************************************************)
(* For any number of sources, buffers and writes, and calls nested to any  *)
(* depth: the sink is given one buffer at a time and in order, the queue   *)
(* is bounded for piped sources, a callback is called once and after its   *)
(* buffer, and "finish" follows what was written before end().             *)
(***************************************************************************)
EXTENDS Stream, SequenceTheorems, FiniteSetTheorems, TLAPS

-----------------------------------------------------------------------------
(* Frames on a stack.  The proofs below see a stack only through these     *)
(* operators and what a push and a pop make of them.                       *)

Push(f, s) == <<f>> \o s

HasOp(s, op) == \E i \in 1 .. Len(s) : s[i].op = op

\* Exactly one completion of a write is under way.
OneFinally(s) == \E i \in 1 .. Len(s) : \A j \in 1 .. Len(s) : (s[j].op = "finally") <=> (j = i)

\* The test for the end of the stream is next, or behind an emission.
EndedBehind(s) == \A i \in 1 .. Len(s) : s[i].op = "ended" => i = 1 \/ s[i - 1].op = "emit"
NotEndedTop(s) == s = <<>> \/ s[1].op # "ended"

Cb(c) == [kind |-> "cb", of |-> c]
Resume(s) == [kind |-> "resume", of |-> s]

\* The callback of the buffer c is in the list, in the frame, on the stack.
Listed(ls, c) == \E i \in 1 .. Len(ls) : ls[i] = Cb(c)
Holds(f, c) == \/ f.op = "once" /\ f.of = c
               \/ f.op = "emit" /\ Listed(f.ls, c)
Held(s, c) == \E i \in 1 .. Len(s) : Holds(s[i], c)

\* No callback is in two places.
Single(ls) == \A i, j \in 1 .. Len(ls) : ls[i] = ls[j] /\ ls[i].kind = "cb" => i = j
Distinct(s) == \A c : \A i, j \in 1 .. Len(s) : Holds(s[i], c) /\ Holds(s[j], c) => i = j

\* The callbacks of an emission are those of buffers up to n.
FrameOK(f, n) == f.op = "emit" => Single(f.ls) /\ \A c : Listed(f.ls, c) => c \in 1 .. n
AllOK(s, n) == \A i \in 1 .. Len(s) : FrameOK(s[i], n)

\* The callback of the buffer c has been called.
Among(cs, c) == \E i \in 1 .. Len(cs) : cs[i] = c

LEMMA PushSeq ==
  ASSUME NEW f \in Frames, NEW s \in Seq(Frames)
  PROVE  /\ Push(f, s) \in Seq(Frames) /\ Push(f, s) # <<>> /\ Len(Push(f, s)) = Len(s) + 1 /\ Len(s) \in Nat
         /\ Push(f, s)[1] = f /\ \A i \in 1 .. Len(s) : Push(f, s)[i + 1] = s[i]
         /\ \A j \in 1 .. Len(Push(f, s)) : j = 1 \/ (j - 1 \in 1 .. Len(s) /\ Push(f, s)[j] = s[j - 1])
         /\ Tail(Push(f, s)) = s
<1>1. <<f>> \in Seq(Frames) /\ Len(<<f>>) = 1 /\ <<f>>[1] = f
  OBVIOUS
<1>2. /\ Push(f, s) \in Seq(Frames) /\ Len(Push(f, s)) = 1 + Len(s) /\ Len(s) \in Nat
      /\ \A i \in 1 .. 1 + Len(s) : Push(f, s)[i] = IF i <= 1 THEN <<f>>[i] ELSE s[i - 1]
  BY <1>1, ConcatProperties DEF Push
<1> HIDE DEF Push
<1>3. Push(f, s)[1] = f /\ \A i \in 1 .. Len(s) : Push(f, s)[i + 1] = s[i]
  BY <1>1, <1>2
<1>4. \A j \in 1 .. Len(Push(f, s)) : j = 1 \/ (j - 1 \in 1 .. Len(s) /\ Push(f, s)[j] = s[j - 1])
  BY <1>2
<1>5. Push(f, s) # <<>>
  BY <1>2, EmptySeq
<1>6. Tail(Push(f, s)) = s
  <2>1. /\ Tail(Push(f, s)) \in Seq(Frames) /\ Len(Tail(Push(f, s))) = Len(s)
        /\ \A i \in 1 .. Len(s) : Tail(Push(f, s))[i] = Push(f, s)[i + 1]
    BY <1>2, <1>5
  <2>2. QED
    BY <1>3, <2>1, SeqEqual
<1>7. QED
  BY <1>2, <1>3, <1>4, <1>5, <1>6

LEMMA PopSeq ==
  ASSUME NEW s \in Seq(Frames), s # <<>>
  PROVE  /\ s[1] \in Frames /\ Tail(s) \in Seq(Frames) /\ s = Push(s[1], Tail(s))
<1>1. /\ s[1] \in Frames /\ Tail(s) \in Seq(Frames) /\ Len(s) \in Nat /\ Len(s) = Len(Tail(s)) + 1
      /\ \A i \in 1 .. Len(Tail(s)) : Tail(s)[i] = s[i + 1]
  BY EmptySeq
<1>2. PICK f, t : f = s[1] /\ t = Tail(s)
  OBVIOUS
<1> f \in Frames /\ t \in Seq(Frames)
  BY <1>1, <1>2
<1>3. /\ Push(f, t) \in Seq(Frames) /\ Len(Push(f, t)) = Len(t) + 1 /\ Len(t) \in Nat
      /\ Push(f, t)[1] = f /\ \A j \in 1 .. Len(Push(f, t)) : j = 1 \/ (j - 1 \in 1 .. Len(t) /\ Push(f, t)[j] = t[j - 1])
  BY PushSeq, Zenon
<1>4. \A j \in 1 .. Len(s) : s[j] = Push(f, t)[j]
  BY <1>1, <1>2, <1>3
<1>5. s = Push(f, t)
  BY <1>1, <1>2, <1>3, <1>4, SeqEqual
<1>6. QED
  BY <1>1, <1>2, <1>5

\* Frames pushed together.
LEMMA PushTwo ==
  ASSUME NEW f \in Frames, NEW g \in Frames, NEW s \in Seq(Frames)
  PROVE  <<f, g>> \o s = Push(f, Push(g, s))
<1>0. <<f>> \in Seq(Frames) /\ <<g>> \in Seq(Frames) /\ <<f, g>> \in Seq(Frames)
  OBVIOUS
<1>1. <<f, g>> = <<f>> \o <<g>> /\ <<f>> \in Seq(Frames) /\ <<g>> \in Seq(Frames)
  <2>1. /\ <<f>> \o <<g>> \in Seq(Frames) /\ Len(<<f>> \o <<g>>) = 2
        /\ (<<f>> \o <<g>>)[1] = f /\ (<<f>> \o <<g>>)[2] = g
    BY <1>0, ConcatProperties
  <2>2. Len(<<f, g>>) = 2 /\ <<f, g>>[1] = f /\ <<f, g>>[2] = g
    OBVIOUS
  <2>3. PICK u, v : u = <<f, g>> /\ v = <<f>> \o <<g>>
    OBVIOUS
  <2>4. \A i \in 1 .. 2 : u[i] = v[i]
    <3>1. u[1] = v[1] /\ u[2] = v[2]
      BY <2>1, <2>2, <2>3
    <3>2. QED
      BY <3>1
  <2>5. u \in Seq(Frames) /\ v \in Seq(Frames) /\ Len(u) = 2 /\ Len(v) = 2
    BY <1>0, <2>1, <2>2, <2>3
  <2>6. u = v
    BY <2>4, <2>5, SeqEqual
  <2>7. QED
    BY <1>0, <2>3, <2>6
<1>2. (<<f>> \o <<g>>) \o s = <<f>> \o (<<g>> \o s)
  BY <1>1, ConcatAssociative
<1>3. QED
  BY <1>1, <1>2 DEF Push

LEMMA PushOntoEmpty ==
  ASSUME NEW f \in Frames
  PROVE  <<f>> = Push(f, <<>>)
BY DEF Push

LEMMA EmptyStack ==
  /\ <<>> \in Seq(Frames) /\ \A op : ~HasOp(<<>>, op) /\ EndedBehind(<<>>) /\ NotEndedTop(<<>>)
  /\ Distinct(<<>>) /\ \A c : ~Held(<<>>, c) /\ \A n : AllOK(<<>>, n)
  /\ Single(<<>>) /\ \A c : ~Listed(<<>>, c)
BY EmptySeq DEF HasOp, EndedBehind, NotEndedTop, Distinct, Held, AllOK, Single, Listed

\* What holds of a stack in terms of its top and the rest.
LEMMA PushFacts ==
  ASSUME NEW f \in Frames, NEW s \in Seq(Frames)
  PROVE  /\ \A op : HasOp(Push(f, s), op) <=> (f.op = op \/ HasOp(s, op))
         /\ OneFinally(Push(f, s)) <=> \/ f.op = "finally" /\ ~HasOp(s, "finally")
                                       \/ f.op # "finally" /\ OneFinally(s)
         /\ NotEndedTop(Push(f, s)) <=> f.op # "ended"
         /\ EndedBehind(Push(f, s)) <=> EndedBehind(s) /\ (NotEndedTop(s) \/ f.op = "emit")
         /\ \A c : Held(Push(f, s), c) <=> (Holds(f, c) \/ Held(s, c))
         /\ Distinct(Push(f, s)) <=> Distinct(s) /\ \A c : ~(Holds(f, c) /\ Held(s, c))
         /\ \A n : AllOK(Push(f, s), n) <=> FrameOK(f, n) /\ AllOK(s, n)
<1>0. /\ Push(f, s) \in Seq(Frames) /\ Push(f, s) # <<>> /\ Len(Push(f, s)) = Len(s) + 1 /\ Len(s) \in Nat
      /\ Push(f, s)[1] = f /\ \A i \in 1 .. Len(s) : Push(f, s)[i + 1] = s[i]
      /\ \A j \in 1 .. Len(Push(f, s)) : j = 1 \/ (j - 1 \in 1 .. Len(s) /\ Push(f, s)[j] = s[j - 1])
  BY PushSeq, Zenon
<1>1. PICK t : t = Push(f, s)
  OBVIOUS
<1>2. /\ t \in Seq(Frames) /\ t # <<>> /\ Len(t) = Len(s) + 1 /\ Len(s) \in Nat
      /\ t[1] = f /\ \A i \in 1 .. Len(s) : t[i + 1] = s[i]
      /\ \A j \in 1 .. Len(t) : j = 1 \/ (j - 1 \in 1 .. Len(s) /\ t[j] = s[j - 1])
  BY <1>0, <1>1
<1>3. \A i \in 1 .. Len(s) : i + 1 \in 1 .. Len(t) /\ i + 1 # 1 /\ (i + 1) - 1 = i
  BY <1>2
<1>4. 1 \in 1 .. Len(t)
  BY <1>2
<1>5. \A op : HasOp(t, op) <=> (f.op = op \/ HasOp(s, op))
  <2>1. ASSUME NEW op, HasOp(t, op), f.op # op PROVE HasOp(s, op)
    BY <1>2, <2>1 DEF HasOp
  <2>2. ASSUME NEW op, HasOp(s, op) PROVE HasOp(t, op)
    <3>1. PICK i \in 1 .. Len(s) : s[i].op = op
      BY <2>2 DEF HasOp
    <3>2. i + 1 \in 1 .. Len(t) /\ t[i + 1].op = op
      BY <1>2, <1>3, <3>1
    <3>3. QED
      BY <3>2 DEF HasOp
  <2>3. ASSUME NEW op, f.op = op PROVE HasOp(t, op)
    BY <1>2, <1>4, <2>3 DEF HasOp
  <2>4. QED
    BY <2>1, <2>2, <2>3
<1>6. \A c : Held(t, c) <=> (Holds(f, c) \/ Held(s, c))
  BY <1>2, <1>3, <1>4 DEF Held
<1>7. \A n : AllOK(t, n) <=> FrameOK(f, n) /\ AllOK(s, n)
  BY <1>2, <1>3, <1>4 DEF AllOK
<1>8. NotEndedTop(t) <=> f.op # "ended"
  BY <1>2 DEF NotEndedTop
<1>9. OneFinally(t) <=> \/ f.op = "finally" /\ ~HasOp(s, "finally")
                        \/ f.op # "finally" /\ OneFinally(s)
  <2>1. ASSUME f.op = "finally", ~HasOp(s, "finally") PROVE OneFinally(t)
    <3>1. ASSUME NEW j \in 1 .. Len(t) PROVE (t[j].op = "finally") <=> (j = 1)
      <4>1. CASE j = 1
        BY <1>2, <2>1, <4>1
      <4>2. CASE j # 1
        <5>1. j - 1 \in 1 .. Len(s) /\ t[j] = s[j - 1]
          BY <1>2, <4>2
        <5>2. s[j - 1].op # "finally"
          BY <2>1, <5>1 DEF HasOp
        <5>3. QED
          BY <4>2, <5>1, <5>2
      <4>3. QED
        BY <4>1, <4>2
    <3>2. QED
      BY <1>4, <3>1 DEF OneFinally
  <2>2. ASSUME f.op # "finally", OneFinally(s) PROVE OneFinally(t)
    <3>1. PICK i \in 1 .. Len(s) : \A j \in 1 .. Len(s) : (s[j].op = "finally") <=> (j = i)
      BY <2>2 DEF OneFinally
    <3>2. ASSUME NEW j \in 1 .. Len(t) PROVE (t[j].op = "finally") <=> (j = i + 1)
      <4>1. CASE j = 1
        BY <1>2, <2>2, <4>1
      <4>2. CASE j # 1
        <5>1. j - 1 \in 1 .. Len(s) /\ t[j] = s[j - 1]
          BY <1>2, <4>2
        <5>2. (s[j - 1].op = "finally") <=> (j - 1 = i)
          BY <3>1, <5>1
        <5>3. QED
          BY <5>1, <5>2
      <4>3. QED
        BY <4>1, <4>2
    <3>3. QED
      BY <1>3, <3>2 DEF OneFinally
  <2>3. ASSUME OneFinally(t), f.op = "finally" PROVE ~HasOp(s, "finally")
    BY <1>2, <1>3, <1>4, <2>3 DEF HasOp, OneFinally
  <2>4. ASSUME OneFinally(t), f.op # "finally" PROVE OneFinally(s)
    <3>1. PICK i \in 1 .. Len(t) : \A j \in 1 .. Len(t) : (t[j].op = "finally") <=> (j = i)
      BY <2>4 DEF OneFinally
    <3>2. i # 1 /\ i - 1 \in 1 .. Len(s)
      BY <1>2, <1>4, <2>4, <3>1
    <3>3. \A j \in 1 .. Len(s) : (s[j].op = "finally") <=> (j = i - 1)
      BY <1>2, <1>3, <3>1, <3>2
    <3>4. QED
      BY <3>2, <3>3 DEF OneFinally
  <2>5. QED
    BY <2>1, <2>2, <2>3, <2>4
<1>10. EndedBehind(t) <=> EndedBehind(s) /\ (NotEndedTop(s) \/ f.op = "emit")
  <2>1. ASSUME EndedBehind(t), NEW i \in 1 .. Len(s), s[i].op = "ended" PROVE i = 1 \/ s[i - 1].op = "emit"
    <3>1. t[i + 1].op = "ended" /\ i + 1 # 1
      BY <1>2, <1>3, <2>1
    <3>2. t[i].op = "emit"
      BY <1>3, <2>1, <3>1 DEF EndedBehind
    <3>3. QED
      BY <1>2, <1>3, <3>2
  <2>2. ASSUME EndedBehind(t), ~NotEndedTop(s) PROVE f.op = "emit"
    <3>1. s # <<>> /\ s[1].op = "ended"
      BY <2>2 DEF NotEndedTop
    <3>2. 1 \in 1 .. Len(s)
      BY <3>1, EmptySeq
    <3>3. t[2].op = "ended" /\ 2 \in 1 .. Len(t)
      BY <1>2, <1>3, <3>1, <3>2
    <3>4. QED
      BY <1>2, <2>2, <3>3 DEF EndedBehind
  <2>3. ASSUME EndedBehind(s), NotEndedTop(s) \/ f.op = "emit", NEW j \in 1 .. Len(t), t[j].op = "ended", j # 1
        PROVE  t[j - 1].op = "emit"
    <3>1. j - 1 \in 1 .. Len(s) /\ s[j - 1].op = "ended"
      BY <1>2, <2>3
    <3>2. CASE j - 1 = 1
      <4>1. s # <<>>
        BY <3>1, EmptySeq
      <4>2. QED
        BY <1>2, <2>3, <3>1, <3>2, <4>1 DEF NotEndedTop
    <3>3. CASE j - 1 # 1
      <4>1. s[(j - 1) - 1].op = "emit"
        BY <2>3, <3>1, <3>3 DEF EndedBehind
      <4>2. j - 1 \in 1 .. Len(t) /\ t[j - 1] = s[(j - 1) - 1]
        BY <1>2, <3>1, <3>3
      <4>3. QED
        BY <4>1, <4>2
    <3>4. QED
      BY <3>2, <3>3
  <2>4. QED
    BY <2>1, <2>2, <2>3 DEF EndedBehind
<1>11. Distinct(t) <=> Distinct(s) /\ \A c : ~(Holds(f, c) /\ Held(s, c))
  <2>1. ASSUME Distinct(t), NEW c, NEW i \in 1 .. Len(s), NEW j \in 1 .. Len(s), Holds(s[i], c), Holds(s[j], c) PROVE i = j
    <3>1. i + 1 = j + 1
      BY <1>2, <1>3, <2>1 DEF Distinct
    <3>2. QED
      BY <1>3, <3>1
  <2>2. ASSUME Distinct(t), NEW c PROVE ~(Holds(f, c) /\ Held(s, c))
    BY <1>2, <1>3, <1>4, <2>2 DEF Distinct, Held
  <2>3. ASSUME Distinct(s), \A c : ~(Holds(f, c) /\ Held(s, c)),
               NEW c, NEW i \in 1 .. Len(t), NEW j \in 1 .. Len(t), Holds(t[i], c), Holds(t[j], c)
        PROVE  i = j
    <3>1. CASE i = 1 /\ j = 1
      BY <3>1
    <3>2. CASE i # 1 /\ j # 1
      <4>1. i - 1 = j - 1
        BY <1>2, <2>3, <3>2 DEF Distinct
      <4>2. QED
        BY <4>1
    <3>3. CASE (i = 1) # (j = 1)
      BY <1>2, <2>3, <3>3 DEF Held
    <3>4. QED
      BY <3>1, <3>2, <3>3
  <2>4. QED
    BY <2>1, <2>2, <2>3 DEF Distinct
<1>12. QED
  BY <1>1, <1>5, <1>6, <1>7, <1>8, <1>9, <1>10, <1>11

-----------------------------------------------------------------------------
(* The invariant.                                                          *)

\* Buffers under way: none or one.
Under == IF inflight = {} THEN 0 ELSE 1

\* The buffers settled, the one under way and those queued are numbered on
\* from each other.
Started == Len(settled) + Under

Ordered ==
  /\ \A i \in 1 .. Len(settled) : settled[i] = i
  /\ inflight \subseteq {Len(settled) + 1}
  /\ \A i \in 1 .. Len(queue) : queue[i] = Started + i
  /\ Len(accepted) = Started + Len(queue)

\* A stream is writing exactly while libuv has a buffer or the completion of
\* one is still to choose what comes next, and never both.
Completing ==
  /\ ~writing => inflight = {} /\ queue = <<>> /\ ~HasOp(stack, "finally")
  /\ writing => \/ inflight # {} /\ ~HasOp(stack, "finally")
                \/ inflight = {} /\ OneFinally(stack)

\* The test for the end of the stream finds written what was accepted before
\* an end() that no listener of "drain" has called, and so does "finish".
Ends ==
  /\ EndedBehind(stack)
  /\ (endedAt = -1) <=> ~ended
  /\ endedAt <= Len(accepted)
  /\ finished <= Len(settled)
  /\ finished # -1 => ended
  /\ HasOp(stack, "ended") /\ ended /\ ~endedIn => endedAt <= Len(settled)
  /\ finished # -1 /\ ~endedIn => endedAt <= finished

\* The callback of a buffer is in one place: it waits to be registered, is
\* registered, is in the snapshot of one emission, or has been called.
Tokens ==
  /\ Distinct(stack) /\ AllOK(stack, Len(settled)) /\ Single(drainers)
  /\ \A c : Held(stack, c) => ~Listed(drainers, c) /\ ~Among(called, c) /\ c \in 1 .. Len(accepted)
  /\ \A c : Listed(drainers, c) => ~Among(called, c) /\ c \in 1 .. Len(accepted)
  /\ \A c : Among(called, c) => c \in 1 .. Len(settled)
  /\ \A i, j \in 1 .. Len(called) : called[i] = called[j] => i = j

\* The sources that wait for the next "drain".
WaitingIn(ls) == {s \in Sources : \E i \in 1 .. Len(ls) : ls[i] = Resume(s)}
Waiting == WaitingIn(drainers)

\* The queued buffers of the readables.
PipedFrom(ws, n) == {c \in (n + 1) .. Len(ws) : ws[c] = "pipe"}
Piped == PipedFrom(accepted, Started)

\* A source that waits is paused, none has waited since the emission under
\* way began, and what is queued beyond the mark is owed by those that wait.
Bounded ==
  /\ HasOp(stack, "emit") => Waiting = {}
  /\ \A s \in Waiting : phase[s] = "paused"
  /\ Cardinality(Piped) <= HighWater + Cardinality(Waiting)

\* What the readables and the application have written, by writer.
By(ws, w) == {i \in DOMAIN ws : ws[i] = w}
Counted == Cardinality(By(accepted, "pipe")) <= MaxChunks /\ Cardinality(By(accepted, "app")) <= MaxWrites

Inv == TypeOK /\ Counted /\ Ordered /\ Completing /\ Ends /\ Tokens /\ Bounded

-----------------------------------------------------------------------------
(* What a step makes of the stack.                                         *)

\* From s to t no callback, emission or test for the end has been added.
Quiet(s, t) ==
  /\ t \in Seq(Frames) /\ EndedBehind(t)
  /\ HasOp(t, "ended") => HasOp(s, "ended")
  /\ HasOp(t, "emit") => HasOp(s, "emit")
  /\ Distinct(s) => Distinct(t)
  /\ \A c : Held(t, c) => Held(s, c)
  /\ \A n : AllOK(s, n) => AllOK(t, n)

SameFinally(s, t) == /\ HasOp(s, "finally") <=> HasOp(t, "finally")
                     /\ OneFinally(s) <=> OneFinally(t)

\* The frames and what they hold.
LEMMA FrameFacts ==
  /\ User \in Frames /\ User.op = "user" /\ \A c : ~Holds(User, c) /\ \A n : FrameOK(User, n)
  /\ Finally \in Frames /\ Finally.op = "finally" /\ \A c : ~Holds(Finally, c) /\ \A n : FrameOK(Finally, n)
  /\ Ended \in Frames /\ Ended.op = "ended" /\ \A c : ~Holds(Ended, c) /\ \A n : FrameOK(Ended, n)
<1>1. User.op = "user" /\ Finally.op = "finally" /\ Ended.op = "ended"
  BY DEF User, Finally, Ended
<1>2. User \in Frames /\ Finally \in Frames /\ Ended \in Frames
  BY DEF Frames
<1>3. QED
  BY <1>1, <1>2 DEF Holds, FrameOK

LEMMA EmissionFacts ==
  ASSUME NEW ls \in Seq(Listeners)
  PROVE  /\ Emission(ls) \in Frames /\ Emission(ls).op = "emit" /\ Emission(ls).ls = ls
         /\ \A c : Holds(Emission(ls), c) <=> Listed(ls, c)
         /\ \A n : FrameOK(Emission(ls), n) <=> Single(ls) /\ \A c : Listed(ls, c) => c \in 1 .. n
<1>1. Emission(ls).op = "emit" /\ Emission(ls).ls = ls
  BY DEF Emission
<1>2. Emission(ls) \in Frames
  BY DEF Emission, Frames
<1>3. QED
  BY <1>1, <1>2 DEF Holds, FrameOK

LEMMA OnceFacts ==
  ASSUME NEW b \in Chunks
  PROVE  /\ Once(b) \in Frames /\ Once(b).op = "once"
         /\ \A c : Holds(Once(b), c) <=> c = b
         /\ \A n : FrameOK(Once(b), n)
<1>1. Once(b).op = "once" /\ Once(b).of = b
  BY DEF Once
<1>2. Once(b) \in Frames
  BY DEF Once, Frames
<1>3. QED
  BY <1>1, <1>2 DEF Holds, FrameOK

\* The frame a step finds on top.
LEMMA FrameShape ==
  ASSUME NEW f \in Frames
  PROVE  /\ f.op = "emit" => f.ls \in Seq(Listeners) /\ f = Emission(f.ls)
         /\ f.op = "once" => f.of \in Chunks /\ f = Once(f.of)
         /\ f.op = "user" => f = User
         /\ f.op = "finally" => f = Finally
         /\ f.op = "ended" => f = Ended
BY DEF Frames, Emission, Once, User, Finally, Ended

LEMMA QuietRefl ==
  ASSUME NEW s \in Seq(Frames), EndedBehind(s)
  PROVE  Quiet(s, s) /\ SameFinally(s, s)
BY DEF Quiet, SameFinally

LEMMA QuietTrans ==
  ASSUME NEW s, NEW t, NEW u, Quiet(s, t), Quiet(t, u)
  PROVE  Quiet(s, u)
BY DEF Quiet

LEMMA QuietPop ==
  ASSUME NEW f \in Frames, NEW s \in Seq(Frames), EndedBehind(Push(f, s))
  PROVE  /\ Quiet(Push(f, s), s)
         /\ f.op # "finally" => SameFinally(Push(f, s), s)
         /\ f.op # "emit" => NotEndedTop(s)
         /\ f.op = "finally" /\ OneFinally(Push(f, s)) => ~HasOp(s, "finally")
<1>1. /\ \A op : HasOp(Push(f, s), op) <=> (f.op = op \/ HasOp(s, op))
      /\ OneFinally(Push(f, s)) <=> \/ f.op = "finally" /\ ~HasOp(s, "finally")
                                    \/ f.op # "finally" /\ OneFinally(s)
      /\ EndedBehind(Push(f, s)) <=> EndedBehind(s) /\ (NotEndedTop(s) \/ f.op = "emit")
      /\ \A c : Held(Push(f, s), c) <=> (Holds(f, c) \/ Held(s, c))
      /\ Distinct(Push(f, s)) <=> Distinct(s) /\ \A c : ~(Holds(f, c) /\ Held(s, c))
      /\ \A n : AllOK(Push(f, s), n) <=> FrameOK(f, n) /\ AllOK(s, n)
  BY PushFacts, Zenon
<1>2. QED
  BY <1>1, Zenon DEF Quiet, SameFinally

LEMMA QuietPush ==
  ASSUME NEW f \in {User, Finally}, NEW s \in Seq(Frames), EndedBehind(s), NotEndedTop(s)
  PROVE  /\ Quiet(s, Push(f, s)) /\ NotEndedTop(Push(f, s))
         /\ f = User => SameFinally(s, Push(f, s))
         /\ f = Finally /\ ~HasOp(s, "finally") => OneFinally(Push(f, s))
<1>0. f \in Frames /\ f.op # "ended" /\ f.op # "emit" /\ (f = User => f.op # "finally") /\ (f = Finally => f.op = "finally")
  BY FrameFacts
<1>1. (\A c : ~Holds(f, c)) /\ (\A n : FrameOK(f, n))
  BY FrameFacts
<1>2. /\ Push(f, s) \in Seq(Frames)
      /\ \A op : HasOp(Push(f, s), op) <=> (f.op = op \/ HasOp(s, op))
      /\ OneFinally(Push(f, s)) <=> \/ f.op = "finally" /\ ~HasOp(s, "finally")
                                    \/ f.op # "finally" /\ OneFinally(s)
      /\ NotEndedTop(Push(f, s)) <=> f.op # "ended"
      /\ EndedBehind(Push(f, s)) <=> EndedBehind(s) /\ (NotEndedTop(s) \/ f.op = "emit")
      /\ \A c : Held(Push(f, s), c) <=> (Holds(f, c) \/ Held(s, c))
      /\ Distinct(Push(f, s)) <=> Distinct(s) /\ \A c : ~(Holds(f, c) /\ Held(s, c))
      /\ \A n : AllOK(Push(f, s), n) <=> FrameOK(f, n) /\ AllOK(s, n)
  BY <1>0, PushFacts, PushSeq, Zenon
<1>3. QED
  BY <1>0, <1>1, <1>2, Zenon DEF Quiet, SameFinally

\* A test for the end under a listener of the application has an emission
\* above it.
LEMMA EmissionAbove ==
  ASSUME NEW s \in Seq(Frames), EndedBehind(s), NotEndedTop(s), HasOp(s, "ended")
  PROVE  HasOp(s, "emit")
<1>1. PICK i \in 1 .. Len(s) : s[i].op = "ended"
  BY DEF HasOp
<1>2. i # 1
  BY <1>1, EmptySeq DEF NotEndedTop
<1>3. s[i - 1].op = "emit" /\ i - 1 \in 1 .. Len(s)
  BY <1>1, <1>2 DEF EndedBehind
<1>4. QED
  BY <1>3 DEF HasOp

\* A write is started: libuv has its buffer, or it has completed and its
\* completion is the only one under way.
Begins(c) ==
  /\ writing' = TRUE
  /\ \/ inflight' = inflight \cup {c} /\ settled' = settled /\ ~HasOp(stack', "finally")
     \/ inflight' = inflight /\ settled' = Append(settled, c) /\ OneFinally(stack')

LEMMA StartStack ==
  ASSUME NEW c, NEW rest \in Seq(Frames), EndedBehind(rest), NotEndedTop(rest), ~HasOp(rest, "finally"),
         StartWrite(c, rest)
  PROVE  Begins(c) /\ Quiet(rest, stack')
<1>1. User \in Frames /\ Finally \in Frames
  BY FrameFacts
<1>2. PICK fin : fin = Push(Finally, rest)
  OBVIOUS
<1>3. Quiet(rest, fin) /\ NotEndedTop(fin) /\ OneFinally(fin)
  BY <1>2, QuietPush
<1>4. fin \in Seq(Frames) /\ EndedBehind(fin)
  BY <1>3 DEF Quiet
<1>5. Quiet(fin, Push(User, fin)) /\ SameFinally(fin, Push(User, fin))
  BY <1>3, <1>4, QuietPush
<1>6. <<Finally>> \o rest = fin /\ <<User, Finally>> \o rest = Push(User, fin)
  BY <1>1, <1>2, PushTwo DEF Push
<1>7. CASE stack' = rest /\ inflight' = inflight \cup {c} /\ settled' = settled
  BY <1>7, QuietRefl DEF Begins, StartWrite
<1>8. CASE stack' = fin /\ inflight' = inflight /\ settled' = Append(settled, c)
  BY <1>3, <1>8 DEF Begins, StartWrite
<1>9. CASE stack' = Push(User, fin) /\ inflight' = inflight /\ settled' = Append(settled, c)
  <2>1. OneFinally(stack') /\ Quiet(rest, stack')
    BY <1>3, <1>5, <1>9, QuietTrans DEF SameFinally
  <2>2. QED
    BY <1>9, <2>1 DEF Begins, StartWrite
<1>10. QED
  BY <1>6, <1>7, <1>8, <1>9 DEF StartWrite

\* The frame on top and the rest, at a step of the call under way.
LEMMA TopOf ==
  ASSUME TypeOK, NEW op, At(op)
  PROVE  /\ stack \in Seq(Frames) /\ stack # <<>> /\ stack[1] \in Frames /\ stack[1].op = op
         /\ Rest \in Seq(Frames) /\ stack = Push(stack[1], Rest)
<1>1. stack \in Seq(Frames) /\ stack # <<>> /\ stack[1].op = op
  BY DEF TypeOK, At
<1>2. QED
  BY <1>1, PopSeq DEF Rest

\* Whoever may call write and end: the test for the end is not next.
LEMMA RunningStack ==
  ASSUME TypeOK, Running
  PROVE  stack \in Seq(Frames) /\ NotEndedTop(stack)
BY DEF TypeOK, Running, Idle, At, NotEndedTop

\* write() of an idle stream.
LEMMA NowStack ==
  ASSUME TypeOK, Completing, Ends, Running, NEW w, NEW cb \in BOOLEAN, NextChunk \in Chunks,
         WriteNow(w, cb, stack)
  PROVE  /\ Begins(NextChunk)
         /\ ~cb => Quiet(stack, stack')
         /\ cb => Quiet(Push(Once(NextChunk), stack), stack')
<1>1. stack \in Seq(Frames) /\ NotEndedTop(stack) /\ EndedBehind(stack) /\ ~HasOp(stack, "finally")
  BY RunningStack DEF Completing, Ends, WriteNow
<1>2. PICK f : f = Once(NextChunk)
  OBVIOUS
<1>3. f \in Frames /\ f.op = "once"
  BY <1>2, OnceFacts
<1>4. PICK s : s = Push(f, stack)
  OBVIOUS
<1>5. s \in Seq(Frames) /\ NotEndedTop(s) /\ EndedBehind(s) /\ ~HasOp(s, "finally")
  <2>1. /\ Push(f, stack) \in Seq(Frames)
        /\ HasOp(Push(f, stack), "finally") <=> (f.op = "finally" \/ HasOp(stack, "finally"))
        /\ NotEndedTop(Push(f, stack)) <=> f.op # "ended"
        /\ EndedBehind(Push(f, stack)) <=> EndedBehind(stack) /\ (NotEndedTop(stack) \/ f.op = "emit")
    BY <1>1, <1>3, PushFacts, PushSeq, Zenon
  <2>2. QED
    BY <1>1, <1>3, <1>4, <2>1
<1>6. CASE cb
  <2>1. StartWrite(NextChunk, s)
    BY <1>2, <1>4, <1>6 DEF WriteNow, Push
  <2>2. QED
    BY <1>2, <1>4, <1>5, <1>6, <2>1, StartStack
<1>7. CASE ~cb
  <2>1. StartWrite(NextChunk, stack)
    BY <1>7 DEF WriteNow
  <2>2. QED
    BY <1>1, <1>7, <2>1, StartStack
<1>8. QED
  BY <1>6, <1>7

\* The completion of a write starts the next of the queue.
LEMMA NextStack ==
  ASSUME TypeOK, Completing, Ends, At("finally"), NEW c, StartWrite(c, Rest)
  PROVE  /\ Begins(c) /\ Quiet(stack, stack')
         /\ writing = TRUE /\ inflight = {}
<1>1. PICK f, r : f = stack[1] /\ r = Rest
  OBVIOUS
<1>2. r \in Seq(Frames) /\ f \in Frames /\ f.op = "finally" /\ stack = Push(f, r)
  BY <1>1, TopOf
<1>3. HasOp(Push(f, r), "finally")
  BY <1>2, PushFacts, Zenon
<1>4. writing = TRUE /\ inflight = {} /\ OneFinally(stack)
  BY <1>2, <1>3 DEF Completing, TypeOK
<1>5. EndedBehind(Push(f, r)) /\ OneFinally(Push(f, r))
  BY <1>2, <1>4 DEF Ends
<1>6. Quiet(Push(f, r), r) /\ NotEndedTop(r) /\ ~HasOp(r, "finally")
  BY <1>2, <1>5, QuietPop
<1>7. EndedBehind(r)
  BY <1>6 DEF Quiet
<1>8. Begins(c) /\ Quiet(r, stack')
  BY <1>1, <1>2, <1>6, <1>7, StartStack
<1>9. QED
  BY <1>2, <1>4, <1>6, <1>8, QuietTrans

\* The completion of the last write emits "drain".
LEMMA DrainStack ==
  ASSUME TypeOK, Completing, Ends, At("finally"), stack' = <<Emission(drainers), Ended>> \o Rest
  PROVE  /\ writing = TRUE /\ inflight = {}
         /\ stack' \in Seq(Frames) /\ EndedBehind(stack') /\ ~HasOp(stack', "finally")
         /\ \A c : Held(stack', c) <=> Held(stack, c) \/ Listed(drainers, c)
         /\ Distinct(stack) /\ (\A c : ~(Held(stack, c) /\ Listed(drainers, c))) => Distinct(stack')
         /\ \A n : AllOK(stack, n) /\ Single(drainers) /\ (\A c : Listed(drainers, c) => c \in 1 .. n)
                     => AllOK(stack', n)
<1>1. PICK f, r, e : f = stack[1] /\ r = Rest /\ e = Emission(drainers)
  OBVIOUS
<1>2. r \in Seq(Frames) /\ f \in Frames /\ f.op = "finally" /\ stack = Push(f, r)
  BY <1>1, TopOf
<1>3. f = Finally
  BY <1>2, FrameShape
<1>4. /\ \A op : HasOp(Push(f, r), op) <=> (f.op = op \/ HasOp(r, op))
      /\ OneFinally(Push(f, r)) <=> \/ f.op = "finally" /\ ~HasOp(r, "finally")
                                    \/ f.op # "finally" /\ OneFinally(r)
      /\ EndedBehind(Push(f, r)) <=> EndedBehind(r) /\ (NotEndedTop(r) \/ f.op = "emit")
      /\ \A c : Held(Push(f, r), c) <=> (Holds(f, c) \/ Held(r, c))
      /\ Distinct(Push(f, r)) <=> Distinct(r) /\ \A c : ~(Holds(f, c) /\ Held(r, c))
      /\ \A n : AllOK(Push(f, r), n) <=> FrameOK(f, n) /\ AllOK(r, n)
  BY <1>2, PushFacts, Zenon
<1>5. (\A c : ~Holds(f, c)) /\ (\A n : FrameOK(f, n))
  BY <1>3, FrameFacts
<1>6. writing = TRUE /\ inflight = {} /\ OneFinally(stack)
  BY <1>2, <1>4 DEF Completing, TypeOK
<1>7. EndedBehind(r) /\ NotEndedTop(r) /\ ~HasOp(r, "finally")
  BY <1>2, <1>4, <1>6 DEF Ends
<1>8. drainers \in Seq(Listeners)
  BY DEF TypeOK
<1>9. Ended \in Frames /\ Ended.op = "ended" /\ (\A c : ~Holds(Ended, c)) /\ (\A n : FrameOK(Ended, n))
  BY FrameFacts
<1>10. e \in Frames /\ e.op = "emit"
  BY <1>1, <1>8, EmissionFacts
<1>11. \A c : Holds(e, c) <=> Listed(drainers, c)
  BY <1>1, <1>8, EmissionFacts
<1>12. \A n : FrameOK(e, n) <=> Single(drainers) /\ \A c : Listed(drainers, c) => c \in 1 .. n
  BY <1>1, <1>8, EmissionFacts
<1>13. PICK q : q = Push(Ended, r)
  OBVIOUS
<1>14. /\ q \in Seq(Frames) /\ EndedBehind(q) /\ ~HasOp(q, "finally")
       /\ \A c : Held(q, c) <=> Held(r, c)
       /\ Distinct(q) <=> Distinct(r)
       /\ \A n : AllOK(q, n) <=> AllOK(r, n)
  <2>1. /\ Push(Ended, r) \in Seq(Frames)
        /\ HasOp(Push(Ended, r), "finally") <=> (Ended.op = "finally" \/ HasOp(r, "finally"))
        /\ EndedBehind(Push(Ended, r)) <=> EndedBehind(r) /\ (NotEndedTop(r) \/ Ended.op = "emit")
        /\ \A c : Held(Push(Ended, r), c) <=> (Holds(Ended, c) \/ Held(r, c))
        /\ Distinct(Push(Ended, r)) <=> Distinct(r) /\ \A c : ~(Holds(Ended, c) /\ Held(r, c))
        /\ \A n : AllOK(Push(Ended, r), n) <=> FrameOK(Ended, n) /\ AllOK(r, n)
    BY <1>2, <1>9, PushFacts, PushSeq, Zenon
  <2>2. QED
    BY <1>7, <1>9, <1>13, <2>1
<1>15. /\ Push(e, q) \in Seq(Frames)
       /\ HasOp(Push(e, q), "finally") <=> (e.op = "finally" \/ HasOp(q, "finally"))
       /\ EndedBehind(Push(e, q)) <=> EndedBehind(q) /\ (NotEndedTop(q) \/ e.op = "emit")
       /\ \A c : Held(Push(e, q), c) <=> (Holds(e, c) \/ Held(q, c))
       /\ Distinct(Push(e, q)) <=> Distinct(q) /\ \A c : ~(Holds(e, c) /\ Held(q, c))
       /\ \A n : AllOK(Push(e, q), n) <=> FrameOK(e, n) /\ AllOK(q, n)
  BY <1>10, <1>14, PushFacts, PushSeq, Zenon
<1>16. stack' = Push(e, q)
  BY <1>1, <1>2, <1>9, <1>10, <1>13, PushTwo
<1>17. stack' \in Seq(Frames) /\ EndedBehind(stack') /\ ~HasOp(stack', "finally")
  BY <1>10, <1>14, <1>15, <1>16
<1>18. \A c : Held(stack', c) <=> Held(stack, c) \/ Listed(drainers, c)
  BY <1>2, <1>4, <1>5, <1>11, <1>14, <1>15, <1>16
<1>19. Distinct(stack) /\ (\A c : ~(Held(stack, c) /\ Listed(drainers, c))) => Distinct(stack')
  BY <1>2, <1>4, <1>5, <1>11, <1>14, <1>15, <1>16
<1>20. \A n : AllOK(stack, n) /\ Single(drainers) /\ (\A c : Listed(drainers, c) => c \in 1 .. n)
                => AllOK(stack', n)
  BY <1>2, <1>4, <1>5, <1>12, <1>14, <1>15, <1>16
<1>21. QED
  BY <1>6, <1>17, <1>18, <1>19, <1>20

\* libuv reports a write.
LEMMA SendStack ==
  ASSUME TypeOK, Idle, stack' = <<Finally>> \/ stack' = <<User, Finally, User>>
  PROVE  Quiet(stack, stack') /\ OneFinally(stack')
<1>1. PICK e : e = <<>>
  OBVIOUS
<1>2. e \in Seq(Frames) /\ EndedBehind(e) /\ NotEndedTop(e) /\ ~HasOp(e, "finally") /\ stack = e
  BY <1>1, EmptyStack DEF Idle
<1>3. CASE stack' = <<Finally>>
  <2>1. stack' = Push(Finally, e)
    BY <1>1, <1>3, FrameFacts, PushOntoEmpty
  <2>2. QED
    BY <1>2, <2>1, QuietPush
<1>4. CASE stack' = <<User, Finally, User>>
  <2>1. PICK u : u = Push(User, e)
    OBVIOUS
  <2>2. Quiet(e, u) /\ NotEndedTop(u) /\ SameFinally(e, u)
    BY <1>2, <2>1, QuietPush
  <2>3. u \in Seq(Frames) /\ EndedBehind(u) /\ ~HasOp(u, "finally")
    BY <1>2, <2>2 DEF Quiet, SameFinally
  <2>4. PICK v : v = Push(Finally, u)
    OBVIOUS
  <2>5. Quiet(u, v) /\ NotEndedTop(v) /\ OneFinally(v)
    BY <2>2, <2>3, <2>4, QuietPush
  <2>6. v \in Seq(Frames) /\ EndedBehind(v)
    BY <2>5 DEF Quiet
  <2>7. Quiet(v, Push(User, v)) /\ SameFinally(v, Push(User, v))
    BY <2>5, <2>6, QuietPush
  <2>8. stack' = Push(User, v)
    <3>1. User \in Frames /\ Finally \in Frames
      BY FrameFacts
    <3>2. u = <<User>>
      BY <1>1, <2>1, <3>1, PushOntoEmpty
    <3>3. <<User, Finally>> \o u = Push(User, v)
      BY <2>3, <2>4, <3>1, PushTwo
    <3>4. <<User, Finally>> \o <<User>> = <<User, Finally, User>>
      <4>1. PICK x, y : x = User /\ y = Finally
        OBVIOUS
      <4>2. x \in Frames /\ y \in Frames
        BY <3>1, <4>1
      <4>3. <<x, y>> \in Seq(Frames) /\ <<x>> \in Seq(Frames) /\ Len(<<x, y>>) = 2 /\ Len(<<x>>) = 1
        BY <4>2
      <4>4. PICK p, q : p = <<x, y>> \o <<x>> /\ q = <<x, y, x>>
        OBVIOUS
      <4>5. p \in Seq(Frames) /\ Len(p) = 3 /\ p[1] = x /\ p[2] = y /\ p[3] = x
        BY <4>3, <4>4, ConcatProperties
      <4>6. q \in Seq(Frames) /\ Len(q) = 3 /\ q[1] = x /\ q[2] = y /\ q[3] = x
        BY <4>2, <4>4
      <4>7. \A i \in 1 .. 3 : p[i] = q[i]
        BY <4>5, <4>6
      <4>8. p = q
        BY <4>5, <4>6, <4>7, SeqEqual
      <4>9. QED
        BY <4>1, <4>4, <4>8
    <3>5. QED
      BY <1>4, <3>2, <3>3, <3>4
  <2>9. QED
    BY <1>2, <2>2, <2>5, <2>7, <2>8, QuietTrans DEF SameFinally
<1>5. QED
  BY <1>3, <1>4

\* end(), and "finish" when no write is under way.
LEMMA EndStack ==
  ASSUME TypeOK, Ends, Running, End(stack)
  PROVE  Quiet(stack, stack') /\ SameFinally(stack, stack')
<1>1. stack \in Seq(Frames) /\ EndedBehind(stack) /\ NotEndedTop(stack)
  BY RunningStack DEF Ends
<1>2. CASE stack' = stack
  BY <1>1, <1>2, QuietRefl
<1>3. CASE stack' = <<User>> \o stack
  <2>1. stack' = Push(User, stack)
    BY <1>3 DEF Push
  <2>2. QED
    BY <1>1, <2>1, QuietPush
<1>4. QED
  BY <1>2, <1>3 DEF End

\* A frame is left.
LEMMA PopStack ==
  ASSUME TypeOK, Ends, NEW op, op # "finally", At(op), stack' = Rest
  PROVE  Quiet(stack, stack') /\ SameFinally(stack, stack')
<1>1. PICK f, r : f = stack[1] /\ r = Rest
  OBVIOUS
<1>2. r \in Seq(Frames) /\ f \in Frames /\ f.op = op /\ stack = Push(f, r)
  BY <1>1, TopOf
<1>3. EndedBehind(Push(f, r))
  BY <1>2 DEF Ends
<1>4. Quiet(Push(f, r), r) /\ SameFinally(Push(f, r), r)
  BY <1>2, <1>3, QuietPop
<1>5. QED
  BY <1>1, <1>2, <1>4

LEMMA TestStack ==
  ASSUME TypeOK, Ends, TestEnded
  PROVE  Quiet(stack, stack') /\ SameFinally(stack, stack') /\ HasOp(stack, "ended")
<1>1. PICK f, r : f = stack[1] /\ r = Rest
  OBVIOUS
<1>2. r \in Seq(Frames) /\ f \in Frames /\ f.op = "ended" /\ stack = Push(f, r)
  BY <1>1, TopOf DEF TestEnded
<1>3. HasOp(Push(f, r), "ended")
  BY <1>2, PushFacts, Zenon
<1>4. EndedBehind(Push(f, r))
  BY <1>2 DEF Ends
<1>5. Quiet(Push(f, r), r) /\ SameFinally(Push(f, r), r) /\ NotEndedTop(r)
  BY <1>2, <1>4, QuietPop
<1>6. EndedBehind(r)
  BY <1>5 DEF Quiet
<1>7. Quiet(r, Push(User, r)) /\ SameFinally(r, Push(User, r))
  BY <1>2, <1>5, <1>6, QuietPush
<1>8. CASE stack' = r
  BY <1>2, <1>3, <1>5, <1>8
<1>9. CASE stack' = Push(User, r)
  BY <1>2, <1>3, <1>5, <1>7, <1>9, QuietTrans DEF SameFinally
<1>10. QED
  BY <1>1, <1>8, <1>9 DEF TestEnded, Push

\* The callback of a write leaves its frame for the listeners of "drain".
LEMMA RegisterStack ==
  ASSUME TypeOK, Ends, At("once"), stack' = Rest
  PROVE  /\ Quiet(stack, stack') /\ SameFinally(stack, stack')
         /\ stack[1].of \in Chunks /\ Held(stack, stack[1].of)
         /\ Distinct(stack) => ~Held(stack', stack[1].of)
<1>1. PICK f, r : f = stack[1] /\ r = Rest
  OBVIOUS
<1>2. r \in Seq(Frames) /\ f \in Frames /\ f.op = "once" /\ stack = Push(f, r)
  BY <1>1, TopOf
<1>3. PICK b : b = f.of
  OBVIOUS
<1>4. b \in Chunks /\ Holds(f, b)
  BY <1>2, <1>3, FrameShape DEF Holds
<1>5. /\ Held(Push(f, r), b) <=> (Holds(f, b) \/ Held(r, b))
      /\ Distinct(Push(f, r)) <=> Distinct(r) /\ \A c : ~(Holds(f, c) /\ Held(r, c))
  BY <1>2, PushFacts, Zenon
<1>6. Quiet(stack, stack') /\ SameFinally(stack, stack')
  BY PopStack
<1>7. Held(stack, b) /\ (Distinct(stack) => ~Held(stack', b))
  BY <1>1, <1>2, <1>4, <1>5
<1>8. QED
  BY <1>1, <1>3, <1>4, <1>6, <1>7

\* The tail of a list of listeners.
LEMMA TailFacts ==
  ASSUME NEW ls \in Seq(Listeners), ls # <<>>
  PROVE  /\ Head(ls) \in Listeners /\ Tail(ls) \in Seq(Listeners)
         /\ \A c : Listed(Tail(ls), c) => Listed(ls, c)
         /\ Single(ls) => Single(Tail(ls))
         /\ \A c : Head(ls) = Cb(c) => Listed(ls, c) /\ (Single(ls) => ~Listed(Tail(ls), c))
<1>1. /\ Head(ls) \in Listeners /\ Tail(ls) \in Seq(Listeners) /\ Head(ls) = ls[1]
      /\ Len(ls) \in Nat /\ Len(ls) = Len(Tail(ls)) + 1 /\ Len(Tail(ls)) \in Nat
      /\ \A i \in 1 .. Len(Tail(ls)) : Tail(ls)[i] = ls[i + 1]
  BY EmptySeq
<1>2. PICK t : t = Tail(ls)
  OBVIOUS
<1>3. 1 \in 1 .. Len(ls) /\ \A i \in 1 .. Len(t) : i + 1 \in 1 .. Len(ls) /\ t[i] = ls[i + 1] /\ i + 1 # 1
  BY <1>1, <1>2
<1>4. \A c : Listed(t, c) => Listed(ls, c)
  BY <1>3 DEF Listed
<1>5. ASSUME Single(ls) PROVE Single(t)
  <2>1. ASSUME NEW i \in 1 .. Len(t), NEW j \in 1 .. Len(t), t[i] = t[j], t[i].kind = "cb" PROVE i = j
    <3>1. i + 1 = j + 1
      BY <1>3, <1>5, <2>1 DEF Single
    <3>2. QED
      BY <1>1, <1>2, <3>1
  <2>2. QED
    BY <2>1 DEF Single
<1>6. ASSUME NEW c, Head(ls) = Cb(c) PROVE Listed(ls, c) /\ (Single(ls) => ~Listed(t, c))
  <2>1. Cb(c).kind = "cb"
    BY DEF Cb
  <2>2. Listed(ls, c)
    BY <1>1, <1>3, <1>6 DEF Listed
  <2>3. ASSUME Single(ls), Listed(t, c) PROVE FALSE
    <3>1. PICK i \in 1 .. Len(t) : t[i] = Cb(c)
      BY <2>3 DEF Listed
    <3>2. ls[i + 1] = ls[1] /\ ls[i + 1].kind = "cb"
      BY <1>1, <1>3, <1>6, <2>1, <3>1
    <3>3. i + 1 = 1
      BY <1>3, <2>3, <3>2 DEF Single
    <3>4. QED
      BY <1>3, <3>3
  <2>4. QED
    BY <2>2, <2>3
<1>7. QED
  BY <1>1, <1>2, <1>4, <1>5, <1>6

\* The emission of "drain" calls its next listener.
LEMMA CallStack ==
  ASSUME TypeOK, Ends, CallListener
  PROVE  /\ Quiet(stack, stack') /\ SameFinally(stack, stack') /\ HasOp(stack, "emit")
         /\ \/ \E c \in Chunks : /\ called' = Append(called, c) /\ phase' = phase /\ Held(stack, c)
                                 /\ \A n : Distinct(stack) /\ AllOK(stack, n) => ~Held(stack', c) /\ c \in 1 .. n
            \/ \E s \in Sources : phase' = [phase EXCEPT ![s] = "reading"] /\ called' = called
<1>1. PICK f, r, ls : f = stack[1] /\ r = Rest /\ ls = f.ls
  OBVIOUS
<1>2. r \in Seq(Frames) /\ f \in Frames /\ f.op = "emit" /\ stack = Push(f, r)
  BY <1>1, TopOf DEF CallListener
<1>3. ls \in Seq(Listeners) /\ f = Emission(ls) /\ ls # <<>>
  BY <1>1, <1>2, FrameShape DEF CallListener
<1>4. PICK l, tl, g : l = Head(ls) /\ tl = Tail(ls) /\ g = Emission(tl)
  OBVIOUS
<1>5. /\ l \in Listeners /\ tl \in Seq(Listeners)
      /\ \A c : Listed(tl, c) => Listed(ls, c)
      /\ Single(ls) => Single(tl)
      /\ \A c : l = Cb(c) => Listed(ls, c) /\ (Single(ls) => ~Listed(tl, c))
  BY <1>3, <1>4, TailFacts
<1>6. /\ \A c : Holds(f, c) <=> Listed(ls, c)
      /\ \A n : FrameOK(f, n) <=> Single(ls) /\ \A c : Listed(ls, c) => c \in 1 .. n
  BY <1>3, EmissionFacts
<1>7. /\ g \in Frames /\ g.op = "emit"
      /\ \A c : Holds(g, c) <=> Listed(tl, c)
      /\ \A n : FrameOK(g, n) <=> Single(tl) /\ \A c : Listed(tl, c) => c \in 1 .. n
  BY <1>4, <1>5, EmissionFacts
<1>8. (\A c : Holds(g, c) => Holds(f, c)) /\ (\A n : FrameOK(f, n) => FrameOK(g, n))
  BY <1>5, <1>6, <1>7
<1>9. PICK t : t = Push(g, r)
  OBVIOUS
<1>10. /\ \A op : HasOp(Push(f, r), op) <=> (f.op = op \/ HasOp(r, op))
       /\ OneFinally(Push(f, r)) <=> \/ f.op = "finally" /\ ~HasOp(r, "finally")
                                     \/ f.op # "finally" /\ OneFinally(r)
       /\ EndedBehind(Push(f, r)) <=> EndedBehind(r) /\ (NotEndedTop(r) \/ f.op = "emit")
       /\ \A c : Held(Push(f, r), c) <=> (Holds(f, c) \/ Held(r, c))
       /\ Distinct(Push(f, r)) <=> Distinct(r) /\ \A c : ~(Holds(f, c) /\ Held(r, c))
       /\ \A n : AllOK(Push(f, r), n) <=> FrameOK(f, n) /\ AllOK(r, n)
  BY <1>2, PushFacts, Zenon
<1>11. /\ Push(g, r) \in Seq(Frames)
       /\ \A op : HasOp(Push(g, r), op) <=> (g.op = op \/ HasOp(r, op))
       /\ OneFinally(Push(g, r)) <=> \/ g.op = "finally" /\ ~HasOp(r, "finally")
                                     \/ g.op # "finally" /\ OneFinally(r)
       /\ NotEndedTop(Push(g, r)) <=> g.op # "ended"
       /\ EndedBehind(Push(g, r)) <=> EndedBehind(r) /\ (NotEndedTop(r) \/ g.op = "emit")
       /\ \A c : Held(Push(g, r), c) <=> (Holds(g, c) \/ Held(r, c))
       /\ Distinct(Push(g, r)) <=> Distinct(r) /\ \A c : ~(Holds(g, c) /\ Held(r, c))
       /\ \A n : AllOK(Push(g, r), n) <=> FrameOK(g, n) /\ AllOK(r, n)
  BY <1>2, <1>7, PushFacts, PushSeq, Zenon
<1>12. EndedBehind(stack)
  BY DEF Ends
<1>13. Quiet(stack, t) /\ SameFinally(stack, t) /\ NotEndedTop(t) /\ t \in Seq(Frames) /\ EndedBehind(t)
  <2>1. t \in Seq(Frames) /\ EndedBehind(t) /\ NotEndedTop(t)
    BY <1>2, <1>7, <1>9, <1>10, <1>11, <1>12
  <2>2. SameFinally(stack, t) /\ (HasOp(t, "ended") => HasOp(stack, "ended")) /\ (HasOp(t, "emit") => HasOp(stack, "emit"))
    BY <1>2, <1>7, <1>9, <1>10, <1>11 DEF SameFinally
  <2>3. (Distinct(stack) => Distinct(t)) /\ \A c : Held(t, c) => Held(stack, c)
    BY <1>2, <1>8, <1>9, <1>10, <1>11
  <2>4. \A n : AllOK(stack, n) => AllOK(t, n)
    BY <1>2, <1>8, <1>9, <1>10, <1>11
  <2>5. QED
    BY <2>1, <2>2, <2>3, <2>4 DEF Quiet
<1>14. PICK u : u = Push(User, t)
  OBVIOUS
<1>15. Quiet(t, u) /\ SameFinally(t, u)
  BY <1>13, <1>14, QuietPush
<1>16. HasOp(stack, "emit")
  BY <1>2, <1>10
<1>17. <<Emission(Tail(stack[1].ls))>> \o Rest = t /\ <<User>> \o t = u /\ Head(stack[1].ls) = l
  BY <1>1, <1>4, <1>9, <1>14 DEF Push
<1>18. CASE l.kind = "cb" /\ called' = Append(called, l.of) /\ stack' = u /\ phase' = phase
  <2>1. PICK c \in Chunks : l = Cb(c) /\ l.of = c
    BY <1>5, <1>18 DEF Listeners, Cb
  <2>2. Listed(ls, c) /\ (Single(ls) => ~Listed(tl, c))
    BY <1>5, <2>1
  <2>3. Holds(f, c)
    BY <1>6, <2>2
  <2>4. Held(stack, c)
    BY <1>2, <1>10, <2>3
  <2>5. ASSUME NEW n, Distinct(stack), AllOK(stack, n) PROVE ~Held(stack', c) /\ c \in 1 .. n
    <3>1. FrameOK(f, n) /\ ~Held(r, c)
      BY <1>2, <1>10, <2>3, <2>5
    <3>2. Single(ls) /\ c \in 1 .. n
      BY <1>6, <2>2, <3>1
    <3>3. ~Holds(g, c)
      BY <1>7, <2>2, <3>2
    <3>4. ~Held(t, c)
      BY <1>9, <1>11, <3>1, <3>3
    <3>5. QED
      BY <1>15, <1>18, <3>2, <3>4 DEF Quiet
  <2>6. Quiet(stack, stack') /\ SameFinally(stack, stack')
    BY <1>13, <1>15, <1>18, QuietTrans DEF SameFinally
  <2>7. QED
    BY <1>16, <1>18, <2>1, <2>4, <2>5, <2>6
<1>19. CASE l.kind = "resume" /\ phase' = [phase EXCEPT ![l.of] = "reading"] /\ stack' = t /\ called' = called
  <2>1. l.of \in Sources
    BY <1>5, <1>19 DEF Listeners
  <2>2. QED
    BY <1>13, <1>16, <1>19, <2>1
<1>20. QED
  BY <1>17, <1>18, <1>19 DEF CallListener

-----------------------------------------------------------------------------
(* Types and counts.                                                       *)

LEMMA Types ==
  ASSUME TypeOK
  PROVE  /\ MaxChunks \in Nat /\ MaxWrites \in Nat /\ HighWater \in Nat /\ IsFiniteSet(Sources)
         /\ accepted \in Seq(Writers) /\ Len(accepted) \in Nat
         /\ settled \in Seq(Chunks) /\ Len(settled) \in Nat
         /\ queue \in Seq(Chunks) /\ Len(queue) \in Nat
         /\ drainers \in Seq(Listeners) /\ Len(drainers) \in Nat
         /\ called \in Seq(Chunks) /\ Len(called) \in Nat
         /\ stack \in Seq(Frames) /\ endedAt \in Int /\ finished \in Int /\ Under \in Nat
<1>1. MaxChunks \in Nat /\ MaxWrites \in Nat /\ HighWater \in Nat /\ IsFiniteSet(Sources)
  BY StreamAssumption
<1>2. /\ accepted \in Seq(Writers) /\ settled \in Seq(Chunks) /\ queue \in Seq(Chunks)
      /\ drainers \in Seq(Listeners) /\ called \in Seq(Chunks) /\ stack \in Seq(Frames)
      /\ endedAt \in Marks /\ finished \in Marks
  BY DEF TypeOK
<1>3. Under \in Nat
  BY DEF Under
<1>4. endedAt \in Int /\ finished \in Int
  BY <1>1, <1>2 DEF Marks
<1>5. /\ Len(accepted) \in Nat /\ Len(settled) \in Nat /\ Len(queue) \in Nat
      /\ Len(drainers) \in Nat /\ Len(called) \in Nat
  BY <1>2
<1>6. QED
  BY <1>1, <1>2, <1>3, <1>4, <1>5

\* Every buffer is of one of the two writers.
LEMMA WriterCounts ==
  ASSUME NEW ws \in Seq(Writers)
  PROVE  /\ Cardinality(By(ws, "pipe")) \in Nat /\ Cardinality(By(ws, "app")) \in Nat
         /\ Len(ws) = Cardinality(By(ws, "pipe")) + Cardinality(By(ws, "app"))
         /\ IsFiniteSet(By(ws, "pipe")) /\ IsFiniteSet(By(ws, "app"))
<1>1. PICK n \in Nat : n = Len(ws)
  OBVIOUS
<1>2. DOMAIN ws = 1 .. n
  BY <1>1
<1>3. IsFiniteSet(1 .. n) /\ Cardinality(1 .. n) = n
  BY FS_Interval
<1>4. PICK P, Q : P = By(ws, "pipe") /\ Q = By(ws, "app")
  OBVIOUS
<1>5. P \in SUBSET (1 .. n) /\ Q \in SUBSET (1 .. n)
  BY <1>2, <1>4 DEF By
<1>6. P \cup Q = 1 .. n
  <2>1. \A i \in 1 .. n : ws[i] \in Writers
    BY <1>1
  <2>2. QED
    BY <1>2, <1>4, <2>1 DEF By, Writers
<1>7. P \cap Q = {}
  BY <1>4 DEF By
<1>8. IsFiniteSet(P) /\ IsFiniteSet(Q)
  BY <1>3, <1>5, FS_Subset
<1>9. Cardinality(P) \in Nat /\ Cardinality(Q) \in Nat
  BY <1>8, FS_CardinalityType
<1>10. Cardinality(P \cup Q) = Cardinality(P) + Cardinality(Q) - Cardinality(P \cap Q)
  BY <1>8, FS_Union
<1>11. Cardinality(P \cap Q) = 0
  BY <1>7, FS_EmptySet
<1>12. n = Cardinality(P) + Cardinality(Q)
  <2>1. PICK a, b, u, v : a = Cardinality(P) /\ b = Cardinality(Q) /\ u = Cardinality(P \cup Q) /\ v = Cardinality(P \cap Q)
    OBVIOUS
  <2>2. u = n
    BY <1>3, <1>6, <2>1
  <2>3. a \in Nat /\ b \in Nat /\ u = a + b - v /\ v = 0
    BY <1>9, <1>10, <1>11, <2>1
  <2>4. n = a + b
    BY <2>2, <2>3
  <2>5. QED
    BY <2>1, <2>4
<1>13. QED
  BY <1>1, <1>4, <1>8, <1>9, <1>12

\* One more buffer counts for its writer.
LEMMA WriterAppend ==
  ASSUME NEW ws \in Seq(Writers), NEW v \in Writers, NEW w \in Writers
  PROVE  /\ Append(ws, v) \in Seq(Writers) /\ Len(Append(ws, v)) = Len(ws) + 1
         /\ Cardinality(By(Append(ws, v), w)) = IF v = w THEN Cardinality(By(ws, w)) + 1 ELSE Cardinality(By(ws, w))
<1>1. PICK n \in Nat : n = Len(ws)
  OBVIOUS
<1>2. PICK vs : vs = Append(ws, v)
  OBVIOUS
<1>3. /\ vs \in Seq(Writers) /\ Len(vs) = n + 1 /\ vs[n + 1] = v
      /\ \A i \in 1 .. n : vs[i] = ws[i]
  BY <1>1, <1>2, AppendProperties
<1>4. DOMAIN ws = 1 .. n /\ DOMAIN vs = 1 .. n + 1
  BY <1>1, <1>3
<1>5. By(vs, w) = IF v = w THEN By(ws, w) \cup {n + 1} ELSE By(ws, w)
  BY <1>3, <1>4 DEF By
<1>6. n + 1 \notin By(ws, w)
  BY <1>4 DEF By
<1>7. IsFiniteSet(By(ws, w))
  BY WriterCounts DEF Writers
<1>8. Cardinality(By(ws, w) \cup {n + 1}) = Cardinality(By(ws, w)) + 1
  BY <1>6, <1>7, FS_AddElement
<1>9. QED
  BY <1>1, <1>2, <1>3, <1>5, <1>8

\* Room for one more buffer, and what accepting it makes of the counts.
LEMMA Accepting ==
  ASSUME TypeOK, Counted, NEW w \in Writers,
         Cardinality(By(accepted, w)) < (IF w = "pipe" THEN MaxChunks ELSE MaxWrites),
         accepted' = Append(accepted, w)
  PROVE  /\ NextChunk \in Chunks /\ accepted' \in Seq(Writers) /\ Len(accepted') = Len(accepted) + 1
         /\ Counted'
<1>1. PICK ws : ws = accepted
  OBVIOUS
<1>2. ws \in Seq(Writers) /\ MaxChunks \in Nat /\ MaxWrites \in Nat
  BY <1>1, Types
<1>3. PICK p, a : p = Cardinality(By(ws, "pipe")) /\ a = Cardinality(By(ws, "app"))
  OBVIOUS
<1>4. p \in Nat /\ a \in Nat /\ Len(ws) = p + a
  BY <1>2, <1>3, WriterCounts
<1>5. p <= MaxChunks /\ a <= MaxWrites
  BY <1>1, <1>3 DEF Counted
<1>6. (w = "pipe" => p < MaxChunks) /\ (w = "app" => a < MaxWrites) /\ (w = "pipe" \/ w = "app")
  BY <1>1, <1>3 DEF Writers
<1>7. PICK vs : vs = Append(ws, w)
  OBVIOUS
<1>8. /\ vs \in Seq(Writers) /\ Len(vs) = Len(ws) + 1
      /\ Cardinality(By(vs, "pipe")) = IF w = "pipe" THEN p + 1 ELSE p
      /\ Cardinality(By(vs, "app")) = IF w = "app" THEN a + 1 ELSE a
  BY <1>2, <1>3, <1>7, WriterAppend DEF Writers
<1>9. Cardinality(By(vs, "pipe")) <= MaxChunks /\ Cardinality(By(vs, "app")) <= MaxWrites
  BY <1>2, <1>4, <1>5, <1>6, <1>8
<1>10. accepted' = vs
  BY <1>1, <1>7
<1>11. Counted'
  BY <1>9, <1>10 DEF Counted
<1>12. Len(ws) + 1 \in 1 .. (MaxChunks + MaxWrites)
  BY <1>2, <1>4, <1>5, <1>6
<1>13. QED
  BY <1>1, <1>8, <1>10, <1>11, <1>12 DEF NextChunk, Chunks

\* No more buffers are settled than accepted, nor than there may be.
LEMMA Limits ==
  ASSUME TypeOK, Counted, Ordered
  PROVE  /\ Len(settled) <= Len(accepted) /\ Len(accepted) <= MaxChunks + MaxWrites
         /\ Len(settled) \in Marks /\ Len(accepted) \in Marks
<1>1. PICK ws : ws = accepted
  OBVIOUS
<1>2. ws \in Seq(Writers)
  BY <1>1, Types
<1>3. PICK p, a : p = Cardinality(By(ws, "pipe")) /\ a = Cardinality(By(ws, "app"))
  OBVIOUS
<1>4. p \in Nat /\ a \in Nat /\ Len(ws) = p + a
  BY <1>2, <1>3, WriterCounts
<1>5. p <= MaxChunks /\ a <= MaxWrites
  BY <1>1, <1>3 DEF Counted
<1>6. Len(accepted) <= MaxChunks + MaxWrites
  BY <1>1, <1>4, <1>5, Types
<1>7. Len(settled) <= Len(accepted)
  BY Types DEF Ordered, Started
<1>8. QED
  BY <1>6, <1>7, Types DEF Marks

-----------------------------------------------------------------------------
(* Buffers go to the sink in order.                                        *)

\* The next buffer completes.
LEMMA Settling ==
  ASSUME TypeOK, Ordered, Len(settled) + 1 \in Chunks, settled' = Append(settled, Len(settled) + 1)
  PROVE  /\ settled' \in Seq(Chunks) /\ Len(settled') = Len(settled) + 1
         /\ \A i \in 1 .. Len(settled') : settled'[i] = i
<1>1. PICK n \in Nat : n = Len(settled)
  BY Types
<1>2. /\ settled' \in Seq(Chunks) /\ Len(settled') = n + 1 /\ settled'[n + 1] = n + 1
      /\ \A i \in 1 .. n : settled'[i] = settled[i]
  BY <1>1, Types, AppendProperties
<1>3. \A i \in 1 .. n : settled[i] = i
  BY <1>1 DEF Ordered
<1>4. \A i \in 1 .. n + 1 : settled'[i] = i
  BY <1>2, <1>3
<1>5. QED
  BY <1>1, <1>2, <1>4

\* A stream with nothing under way starts the buffer after those settled.
LEMMA BeginFacts ==
  ASSUME TypeOK, Ordered, inflight = {}, Len(settled) + 1 \in Chunks, Begins(Len(settled) + 1)
  PROVE  /\ settled' \in Seq(Chunks) /\ inflight' \in SUBSET Chunks /\ writing' \in BOOLEAN
         /\ \A i \in 1 .. Len(settled') : settled'[i] = i
         /\ inflight' \subseteq {Len(settled') + 1}
         /\ Started' = Started + 1 /\ Len(settled) <= Len(settled') /\ Len(settled') \in Nat
         /\ (inflight' # {} /\ ~HasOp(stack', "finally")) \/ (inflight' = {} /\ OneFinally(stack'))
<1>1. PICK n \in Nat : n = Len(settled)
  BY Types
<1>2. Under = 0 /\ writing' = TRUE
  BY DEF Under, Begins
<1>3. CASE inflight' = inflight \cup {n + 1} /\ settled' = settled /\ ~HasOp(stack', "finally")
  <2>1. inflight' = {n + 1} /\ inflight' # {}
    BY <1>3
  <2>2. Under' = 1
    BY <2>1 DEF Under
  <2>3. Started = n /\ Started' = n + 1
    BY <1>1, <1>2, <1>3, <2>2 DEF Started
  <2>4. \A i \in 1 .. Len(settled) : settled[i] = i
    BY DEF Ordered
  <2>5. QED
    BY <1>1, <1>2, <1>3, <2>1, <2>3, <2>4, Types
<1>4. CASE inflight' = inflight /\ settled' = Append(settled, n + 1) /\ OneFinally(stack')
  <2>1. settled' \in Seq(Chunks) /\ Len(settled') = n + 1 /\ \A i \in 1 .. Len(settled') : settled'[i] = i
    BY <1>1, <1>4, Settling
  <2>2. inflight' = {} /\ Under' = 0
    BY <1>4 DEF Under
  <2>3. Started = n /\ Started' = n + 1
    BY <1>1, <1>2, <2>1, <2>2 DEF Started
  <2>4. QED
    BY <1>1, <1>2, <1>4, <2>1, <2>2, <2>3, Types
<1>5. QED
  BY <1>1, <1>3, <1>4 DEF Begins

\* write() of an idle stream.
LEMMA SinkNow ==
  ASSUME TypeOK, Ordered, Completing, ~writing, NextChunk \in Chunks, Begins(NextChunk),
         queue' = queue, Len(accepted') = Len(accepted) + 1
  PROVE  /\ Ordered' /\ Completing' /\ settled' \in Seq(Chunks) /\ inflight' \in SUBSET Chunks /\ writing' \in BOOLEAN
         /\ Started' = Len(accepted') /\ Len(settled) <= Len(settled')
<1>1. inflight = {} /\ queue = <<>>
  BY DEF Completing
<1>2. Under = 0 /\ Len(queue) = 0
  BY <1>1 DEF Under
<1>3. Len(accepted) = Len(settled) /\ Started = Len(settled)
  BY <1>2, Types DEF Ordered, Started
<1>4. NextChunk = Len(settled) + 1
  BY <1>3 DEF NextChunk
<1>5. /\ settled' \in Seq(Chunks) /\ inflight' \in SUBSET Chunks /\ writing' \in BOOLEAN
      /\ \A i \in 1 .. Len(settled') : settled'[i] = i
      /\ inflight' \subseteq {Len(settled') + 1}
      /\ Started' = Started + 1 /\ Len(settled) <= Len(settled')
      /\ (inflight' # {} /\ ~HasOp(stack', "finally")) \/ (inflight' = {} /\ OneFinally(stack'))
  BY <1>1, <1>4, BeginFacts
<1>6. queue' = <<>> /\ Len(queue') = 0
  BY <1>1
<1>7. Ordered'
  BY <1>3, <1>5, <1>6, Types DEF Ordered
<1>8. Completing'
  BY <1>5 DEF Completing, Begins
<1>9. QED
  BY <1>3, <1>5, <1>7, <1>8

\* write() of a busy stream.
LEMMA SinkLater ==
  ASSUME TypeOK, Ordered, Completing, NextChunk \in Chunks, writing, queue' = Append(queue, NextChunk),
         UNCHANGED <<writing, inflight, settled, stack>>, Len(accepted') = Len(accepted) + 1
  PROVE  Ordered' /\ Completing' /\ queue' \in Seq(Chunks) /\ Started' = Started
<1>1. /\ queue' \in Seq(Chunks) /\ Len(queue') = Len(queue) + 1 /\ queue'[Len(queue) + 1] = NextChunk
      /\ \A i \in 1 .. Len(queue) : queue'[i] = queue[i]
  BY Types, AppendProperties
<1>2. Started' = Started
  BY DEF Started, Under
<1>3. NextChunk = Started + (Len(queue) + 1)
  BY Types DEF Ordered, NextChunk, Started
<1>4. \A i \in 1 .. Len(queue') : queue'[i] = Started + i
  <2>1. PICK m \in Nat : m = Len(queue)
    BY Types
  <2>2. \A i \in 1 .. m : queue[i] = Started + i
    BY <2>1 DEF Ordered
  <2>3. ASSUME NEW i \in 1 .. m + 1 PROVE queue'[i] = Started + i
    <3>1. CASE i \in 1 .. m
      BY <1>1, <2>1, <2>2, <3>1
    <3>2. CASE i = m + 1
      BY <1>1, <1>3, <2>1, <3>2
    <3>3. i \in 1 .. m \/ i = m + 1
      BY <2>1
    <3>4. QED
      BY <3>1, <3>2, <3>3
  <2>4. QED
    BY <1>1, <2>1, <2>3
<1>5. Len(accepted') = Started + Len(queue')
  BY <1>1, Types DEF Ordered, Started
<1>6. Ordered'
  BY <1>2, <1>4, <1>5 DEF Ordered
<1>7. Completing'
  BY DEF Completing
<1>8. QED
  BY <1>1, <1>2, <1>6, <1>7

\* The completion of a write starts the next of the queue.
LEMMA SinkNext ==
  ASSUME TypeOK, Ordered, Completing, queue # <<>>, inflight = {}, Begins(Head(queue)), queue' = Tail(queue),
         accepted' = accepted
  PROVE  /\ Ordered' /\ Completing' /\ settled' \in Seq(Chunks) /\ inflight' \in SUBSET Chunks
         /\ queue' \in Seq(Chunks) /\ writing' \in BOOLEAN
         /\ Started' = Started + 1 /\ Len(settled) <= Len(settled')
<1>1. /\ Head(queue) = queue[1] /\ Head(queue) \in Chunks /\ 1 \in 1 .. Len(queue)
      /\ queue' \in Seq(Chunks) /\ Len(queue') = Len(queue) - 1
      /\ \A i \in 1 .. Len(queue') : queue'[i] = queue[i + 1]
  BY Types, EmptySeq
<1>2. Under = 0 /\ Started = Len(settled)
  BY Types DEF Under, Started
<1>3. Head(queue) = Len(settled) + 1
  BY <1>1, <1>2 DEF Ordered
<1>4. /\ settled' \in Seq(Chunks) /\ inflight' \in SUBSET Chunks /\ writing' \in BOOLEAN
      /\ \A i \in 1 .. Len(settled') : settled'[i] = i
      /\ inflight' \subseteq {Len(settled') + 1}
      /\ Started' = Started + 1 /\ Len(settled) <= Len(settled')
      /\ (inflight' # {} /\ ~HasOp(stack', "finally")) \/ (inflight' = {} /\ OneFinally(stack'))
  BY <1>1, <1>3, BeginFacts
<1>5. \A i \in 1 .. Len(queue') : queue'[i] = Started' + i
  BY <1>1, <1>2, <1>4, Types DEF Ordered
<1>6. Len(accepted') = Started' + Len(queue')
  <2>1. Len(accepted) = Started + Len(queue) /\ accepted' = accepted
    BY DEF Ordered
  <2>2. Started \in Nat /\ Len(queue) \in Nat
    BY <1>2, Types
  <2>3. Started + Len(queue) = (Started + 1) + (Len(queue) - 1)
    BY <2>2
  <2>4. QED
    BY <1>1, <1>4, <2>1, <2>3
<1>7. Ordered'
  BY <1>4, <1>5, <1>6 DEF Ordered
<1>8. Completing'
  BY <1>4 DEF Completing, Begins
<1>9. QED
  BY <1>1, <1>4, <1>7, <1>8

\* libuv reports the write under way.
LEMMA SinkSend ==
  ASSUME TypeOK, Ordered, Completing, NEW c \in inflight, inflight' = inflight \ {c}, settled' = Append(settled, c),
         UNCHANGED <<writing, queue, accepted>>, OneFinally(stack')
  PROVE  /\ Ordered' /\ Completing' /\ settled' \in Seq(Chunks) /\ inflight' \in SUBSET Chunks
         /\ Started' = Started /\ Len(settled) <= Len(settled')
<1>1. c = Len(settled) + 1 /\ inflight = {c} /\ c \in Chunks
  BY DEF Ordered, TypeOK
<1>2. settled' \in Seq(Chunks) /\ Len(settled') = Len(settled) + 1 /\ \A i \in 1 .. Len(settled') : settled'[i] = i
  BY <1>1, Settling
<1>3. inflight' = {} /\ Under = 1 /\ Under' = 0
  BY <1>1 DEF Under
<1>4. Started' = Started
  BY <1>2, <1>3, Types DEF Started
<1>5. Ordered'
  BY <1>2, <1>3, <1>4 DEF Ordered
<1>6. writing /\ writing'
  BY <1>1 DEF Completing, TypeOK
<1>7. Completing'
  BY <1>3, <1>6 DEF Completing
<1>8. QED
  BY <1>2, <1>3, <1>4, <1>5, <1>7, Types

\* A step that writes nothing.
LEMMA SinkSame ==
  ASSUME TypeOK, Ordered, Completing, UNCHANGED <<writing, queue, inflight, settled, accepted>>, SameFinally(stack, stack')
  PROVE  Ordered' /\ Completing' /\ Started' = Started
<1>1. Started' = Started
  BY DEF Started, Under
<1>2. Ordered'
  BY <1>1 DEF Ordered
<1>3. Completing'
  BY DEF Completing, SameFinally
<1>4. QED
  BY <1>1, <1>2, <1>3

-----------------------------------------------------------------------------
(* The end of the stream.                                                  *)

\* A step that neither ends the stream nor says "finish".
LEMMA EndsKept ==
  ASSUME TypeOK, Ends, EndedBehind(stack'), HasOp(stack', "ended") => HasOp(stack, "ended"),
         UNCHANGED <<ended, endedAt, endedIn, finished>>,
         Len(settled') \in Nat, Len(accepted') \in Nat,
         Len(settled) <= Len(settled'), Len(accepted) <= Len(accepted')
  PROVE  Ends'
<1>1. PICK n, m, a, b, e, f : n = Len(settled) /\ m = Len(settled') /\ a = Len(accepted) /\ b = Len(accepted') /\ e = endedAt /\ f = finished
  OBVIOUS
<1>2. n \in Nat /\ m \in Nat /\ a \in Nat /\ b \in Nat /\ e \in Int /\ f \in Int /\ n <= m /\ a <= b
  BY <1>1, Types
<1>3. e <= b /\ f <= m
  BY <1>1, <1>2 DEF Ends
<1>4. HasOp(stack, "ended") /\ ended /\ ~endedIn => e <= m
  BY <1>1, <1>2 DEF Ends
<1>5. QED
  BY <1>1, <1>3, <1>4 DEF Ends

\* Nothing is left to write: the stream is idle, or its queue has run out.
LEMMA AllWritten ==
  ASSUME TypeOK, Ordered, inflight = {}, queue = <<>>
  PROVE  Len(accepted) = Len(settled) /\ Started = Len(accepted)
<1>1. Under = 0 /\ Len(queue) = 0
  BY DEF Under
<1>2. QED
  BY <1>1, Types DEF Ordered, Started

LEMMA EndsEnd ==
  ASSUME TypeOK, Counted, Ordered, Completing, Ends, Running, End(stack), UNCHANGED <<accepted, settled>>
  PROVE  Ends' /\ ended' \in BOOLEAN /\ endedIn' \in BOOLEAN /\ endedAt' \in Marks /\ finished' \in Marks
<1>1. Quiet(stack, stack')
  BY EndStack
<1>2. EndedBehind(stack') /\ (HasOp(stack', "ended") => HasOp(stack, "ended"))
  BY <1>1 DEF Quiet
<1>3. HasOp(stack, "ended") => Draining
  <2>1. stack \in Seq(Frames) /\ NotEndedTop(stack) /\ EndedBehind(stack)
    BY RunningStack DEF Ends
  <2>2. HasOp(stack, "ended") => HasOp(stack, "emit")
    BY <2>1, EmissionAbove
  <2>3. DOMAIN stack = 1 .. Len(stack)
    BY <2>1
  <2>4. QED
    BY <2>2, <2>3 DEF Draining, HasOp
<1>4. PICK n, a, e, f, g, h : n = Len(settled) /\ a = Len(accepted) /\ e = endedAt /\ f = finished /\ g = endedAt' /\ h = finished'
  OBVIOUS
<1>5. n \in Nat /\ a \in Nat /\ e \in Int /\ f \in Int /\ n <= a
  BY <1>4, Types, Limits
<1>6. g = IF e = -1 THEN a ELSE e
  BY <1>4 DEF End
<1>7. h = f \/ (~writing /\ h = IF f = -1 THEN n ELSE f)
  BY <1>4 DEF End, EmitFinish
<1>8. ~writing => a = n
  BY <1>4, AllWritten DEF Completing
<1>9. ended' = TRUE /\ g # -1
  BY <1>4, <1>5, <1>6 DEF End
<1>10. g <= a /\ h <= n
  BY <1>4, <1>5, <1>6, <1>7 DEF Ends
<1>11. endedIn' = IF e = -1 THEN Draining ELSE endedIn
  BY <1>4 DEF End
<1>12. ASSUME HasOp(stack', "ended"), ~endedIn' PROVE g <= n
  <2>1. CASE e = -1
    BY <1>2, <1>3, <1>11, <1>12, <2>1
  <2>2. CASE e # -1
    <3>1. ended /\ ~endedIn /\ HasOp(stack, "ended") /\ g = e
      BY <1>2, <1>4, <1>6, <1>11, <1>12, <2>2 DEF Ends, TypeOK
    <3>2. QED
      BY <1>4, <3>1 DEF Ends
  <2>3. QED
    BY <2>1, <2>2
<1>13. ASSUME h # -1, ~endedIn' PROVE g <= h
  <2>1. CASE f # -1
    <3>1. ended /\ e # -1 /\ ~endedIn /\ g = e
      BY <1>4, <1>6, <1>11, <1>13, <2>1 DEF Ends, TypeOK
    <3>2. e <= f /\ h = f
      BY <1>4, <1>7, <2>1, <3>1 DEF Ends
    <3>3. QED
      BY <3>1, <3>2
  <2>2. CASE f = -1
    <3>1. ~writing /\ h = n /\ a = n
      BY <1>7, <1>8, <1>13, <2>2
    <3>2. QED
      BY <1>10, <3>1
  <2>3. QED
    BY <2>1, <2>2
<1>14. Ends'
  BY <1>2, <1>4, <1>9, <1>10, <1>12, <1>13 DEF Ends
<1>15. endedIn' \in BOOLEAN
  BY <1>11 DEF TypeOK, Draining
<1>16. endedAt' \in Marks /\ finished' \in Marks
  <2>1. endedAt \in Marks /\ finished \in Marks /\ Len(settled) \in Marks /\ Len(accepted) \in Marks
    BY Limits DEF TypeOK
  <2>2. QED
    BY <1>4, <1>6, <1>7, <2>1
<1>17. QED
  BY <1>9, <1>14, <1>15, <1>16

LEMMA EndsTest ==
  ASSUME TypeOK, Counted, Ordered, Ends, TestEnded
  PROVE  Ends' /\ finished' \in Marks
<1>1. Quiet(stack, stack') /\ HasOp(stack, "ended")
  BY TestStack
<1>2. EndedBehind(stack') /\ (HasOp(stack', "ended") => HasOp(stack, "ended"))
  BY <1>1 DEF Quiet
<1>3. UNCHANGED <<ended, endedAt, endedIn, settled, accepted>>
  BY DEF TestEnded, sinkVars
<1>4. PICK n, a, e, f, h : n = Len(settled) /\ a = Len(accepted) /\ e = endedAt /\ f = finished /\ h = finished'
  OBVIOUS
<1>5. n \in Nat /\ a \in Nat /\ e \in Int /\ f \in Int /\ n \in Marks
  BY <1>4, Types, Limits
<1>6. h = f \/ (ended /\ f = -1 /\ h = n)
  BY <1>4 DEF TestEnded, EmitFinish
<1>7. h <= n /\ (h # -1 => ended)
  BY <1>4, <1>5, <1>6 DEF Ends
<1>8. h # -1 /\ ~endedIn => e <= h
  BY <1>1, <1>4, <1>6 DEF Ends
<1>9. HasOp(stack', "ended") /\ ended /\ ~endedIn => e <= n
  BY <1>1, <1>4 DEF Ends
<1>10. (e = -1 <=> ~ended) /\ e <= a
  BY <1>4 DEF Ends
<1>11. Ends'
  BY <1>2, <1>3, <1>4, <1>7, <1>8, <1>9, <1>10 DEF Ends
<1>12. finished' \in Marks
  BY <1>4, <1>5, <1>6 DEF TypeOK
<1>13. QED
  BY <1>11, <1>12

LEMMA EndsDrain ==
  ASSUME TypeOK, Ordered, Ends, inflight = {}, queue = <<>>, EndedBehind(stack'),
         UNCHANGED <<ended, endedAt, endedIn, finished, settled, accepted>>
  PROVE  Ends'
<1>1. Len(accepted) = Len(settled)
  BY AllWritten
<1>2. endedAt <= Len(settled)
  BY <1>1 DEF Ends
<1>3. QED
  BY <1>2 DEF Ends

-----------------------------------------------------------------------------
(* Callbacks.                                                              *)

LEMMA AllOKMonotone ==
  ASSUME NEW s, NEW m \in Nat, NEW n \in Nat, m <= n, AllOK(s, m)
  PROVE  AllOK(s, n)
<1>1. \A c : c \in 1 .. m => c \in 1 .. n
  OBVIOUS
<1>2. QED
  BY <1>1, Zenon DEF AllOK, FrameOK

\* A listener is added to those of "drain".
LEMMA AddFacts ==
  ASSUME NEW ls \in Seq(Listeners), NEW l \in Listeners
  PROVE  /\ Append(ls, l) \in Seq(Listeners)
         /\ \A c : Listed(Append(ls, l), c) <=> Listed(ls, c) \/ l = Cb(c)
         /\ Single(ls) /\ (\A c : l = Cb(c) => ~Listed(ls, c)) => Single(Append(ls, l))
<1>1. PICK t, n : t = Append(ls, l) /\ n = Len(ls)
  OBVIOUS
<1>2. /\ t \in Seq(Listeners) /\ n \in Nat /\ Len(t) = n + 1 /\ t[n + 1] = l
      /\ \A i \in 1 .. n : t[i] = ls[i]
  BY <1>1, AppendProperties
<1>3. \A i \in 1 .. n : i \in 1 .. Len(t)
  BY <1>2
<1>4. n + 1 \in 1 .. Len(t) /\ \A i \in 1 .. Len(t) : i = n + 1 \/ i \in 1 .. n
  BY <1>2
<1>5. ASSUME NEW c PROVE Listed(t, c) <=> Listed(ls, c) \/ l = Cb(c)
  <2>1. Listed(t, c) => Listed(ls, c) \/ l = Cb(c)
    BY <1>1, <1>2, <1>4 DEF Listed
  <2>2. Listed(ls, c) => Listed(t, c)
    BY <1>1, <1>2, <1>3 DEF Listed
  <2>3. l = Cb(c) => Listed(t, c)
    BY <1>2, <1>4 DEF Listed
  <2>4. QED
    BY <2>1, <2>2, <2>3
<1>6. ASSUME Single(ls), \A c : l = Cb(c) => ~Listed(ls, c) PROVE Single(t)
  <2>1. ASSUME NEW i \in 1 .. n, ls[i] = l, l.kind = "cb" PROVE FALSE
    <3>1. PICK c : l = Cb(c)
      BY <2>1 DEF Listeners, Cb
    <3>2. Listed(ls, c)
      BY <1>1, <2>1, <3>1 DEF Listed
    <3>3. QED
      BY <1>6, <3>1, <3>2
  <2>2. ASSUME NEW i \in 1 .. Len(t), NEW j \in 1 .. Len(t), t[i] = t[j], t[i].kind = "cb" PROVE i = j
    <3>1. CASE i \in 1 .. n /\ j \in 1 .. n
      BY <1>1, <1>2, <1>6, <2>2, <3>1 DEF Single
    <3>2. CASE i \in 1 .. n /\ j = n + 1
      BY <1>2, <2>1, <2>2, <3>2
    <3>3. CASE i = n + 1 /\ j \in 1 .. n
      BY <1>2, <2>1, <2>2, <3>3
    <3>4. QED
      BY <1>4, <3>1, <3>2, <3>3
  <2>3. QED
    BY <2>2 DEF Single
<1>7. QED
  BY <1>1, <1>2, <1>5, <1>6

\* A callback is called.
LEMMA CalledFacts ==
  ASSUME NEW cs \in Seq(Chunks), NEW b \in Chunks, ~Among(cs, b),
         \A i, j \in 1 .. Len(cs) : cs[i] = cs[j] => i = j
  PROVE  /\ Append(cs, b) \in Seq(Chunks)
         /\ \A c : Among(Append(cs, b), c) <=> Among(cs, c) \/ c = b
         /\ \A i, j \in 1 .. Len(Append(cs, b)) : Append(cs, b)[i] = Append(cs, b)[j] => i = j
<1>1. PICK t, n : t = Append(cs, b) /\ n = Len(cs)
  OBVIOUS
<1>2. /\ t \in Seq(Chunks) /\ n \in Nat /\ Len(t) = n + 1 /\ t[n + 1] = b
      /\ \A i \in 1 .. n : t[i] = cs[i]
  BY <1>1, AppendProperties
<1>3. n + 1 \in 1 .. Len(t) /\ \A i \in 1 .. Len(t) : i = n + 1 \/ i \in 1 .. n
  BY <1>2
<1>4. \A i \in 1 .. n : i \in 1 .. Len(t)
  BY <1>2
<1>5. ASSUME NEW c PROVE Among(t, c) <=> Among(cs, c) \/ c = b
  <2>1. Among(t, c) => Among(cs, c) \/ c = b
    BY <1>1, <1>2, <1>3 DEF Among
  <2>2. Among(cs, c) => Among(t, c)
    BY <1>1, <1>2, <1>4 DEF Among
  <2>3. c = b => Among(t, c)
    BY <1>2, <1>3 DEF Among
  <2>4. QED
    BY <2>1, <2>2, <2>3
<1>6. ASSUME NEW i \in 1 .. Len(t), NEW j \in 1 .. Len(t), t[i] = t[j] PROVE i = j
  <2>1. \A k \in 1 .. n : cs[k] # b
    BY <1>1 DEF Among
  <2>2. CASE i \in 1 .. n /\ j \in 1 .. n
    BY <1>1, <1>2, <1>6, <2>2
  <2>3. CASE i \in 1 .. n /\ j = n + 1
    BY <1>2, <1>6, <2>1, <2>3
  <2>4. CASE i = n + 1 /\ j \in 1 .. n
    BY <1>2, <1>6, <2>1, <2>4
  <2>5. QED
    BY <1>3, <2>2, <2>3, <2>4
<1>7. QED
  BY <1>1, <1>2, <1>5, <1>6

\* A step that moves no callback.
LEMMA TokensKept ==
  ASSUME TypeOK, Tokens, Quiet(stack, stack'), called' = called,
         \A c : Listed(drainers', c) <=> Listed(drainers, c), Single(drainers) => Single(drainers'),
         Len(settled') \in Nat, Len(accepted') \in Nat,
         Len(settled) <= Len(settled'), Len(accepted) <= Len(accepted')
  PROVE  Tokens'
<1>1. PICK n, m, a, b : n = Len(settled) /\ m = Len(settled') /\ a = Len(accepted) /\ b = Len(accepted')
  OBVIOUS
<1>2. n \in Nat /\ m \in Nat /\ a \in Nat /\ b \in Nat /\ n <= m /\ a <= b
  BY <1>1, Types
<1>3. \A c : (c \in 1 .. n => c \in 1 .. m) /\ (c \in 1 .. a => c \in 1 .. b)
  BY <1>2
<1>4. AllOK(stack, n)
  BY <1>1 DEF Tokens
<1>5. AllOK(stack', n)
  BY <1>4 DEF Quiet
<1>6. AllOK(stack', m)
  BY <1>2, <1>5, AllOKMonotone
<1>7. Distinct(stack') /\ Single(drainers')
  BY DEF Tokens, Quiet
<1>8. \A c : Held(stack', c) => ~Listed(drainers', c) /\ ~Among(called, c) /\ c \in 1 .. b
  BY <1>1, <1>3 DEF Tokens, Quiet
<1>9. \A c : Listed(drainers', c) => ~Among(called, c) /\ c \in 1 .. b
  BY <1>1, <1>3 DEF Tokens
<1>10. \A c : Among(called, c) => c \in 1 .. m
  BY <1>1, <1>3 DEF Tokens
<1>11. \A i, j \in 1 .. Len(called) : called[i] = called[j] => i = j
  BY DEF Tokens
<1>12. QED
  BY <1>1, <1>6, <1>7, <1>8, <1>9, <1>10, <1>11 DEF Tokens

\* A write whose callback waits to be registered.
LEMMA TokensOnce ==
  ASSUME TypeOK, Tokens, NextChunk \in Chunks, Quiet(Push(Once(NextChunk), stack), stack'),
         UNCHANGED <<called, drainers>>, Len(accepted') = Len(accepted) + 1,
         Len(settled') \in Nat, Len(settled) <= Len(settled'), Len(settled) <= Len(accepted)
  PROVE  Tokens'
<1>1. PICK n, m, a, k : n = Len(settled) /\ m = Len(settled') /\ a = Len(accepted) /\ k = NextChunk
  OBVIOUS
<1>2. n \in Nat /\ m \in Nat /\ a \in Nat /\ n <= m /\ k = a + 1 /\ k \in Chunks /\ Len(accepted') = k /\ n <= a
  BY <1>1, Types DEF NextChunk
<1>3. \A c : (c \in 1 .. n => c \in 1 .. m) /\ (c \in 1 .. a => c \in 1 .. k /\ c # k) /\ k \in 1 .. k /\ k \notin 1 .. n
  BY <1>2
<1>4. ~Held(stack, k) /\ ~Listed(drainers, k) /\ ~Among(called, k)
  BY <1>1, <1>3 DEF Tokens
<1>5. PICK f, s : f = Once(k) /\ s = stack
  OBVIOUS
<1>6. /\ f \in Frames
      /\ \A c : Holds(f, c) <=> c = k
      /\ \A i : FrameOK(f, i)
  BY <1>2, <1>5, OnceFacts
<1>7. s \in Seq(Frames)
  BY <1>5, Types
<1>8. /\ \A c : Held(Push(f, s), c) <=> (Holds(f, c) \/ Held(s, c))
      /\ Distinct(Push(f, s)) <=> Distinct(s) /\ \A c : ~(Holds(f, c) /\ Held(s, c))
      /\ \A i : AllOK(Push(f, s), i) <=> FrameOK(f, i) /\ AllOK(s, i)
  BY <1>6, <1>7, PushFacts, Zenon
<1>9. Quiet(Push(f, s), stack')
  BY <1>1, <1>5
<1>10. Distinct(s) /\ AllOK(s, n)
  BY <1>1, <1>5 DEF Tokens
<1>11. Distinct(Push(f, s)) /\ AllOK(Push(f, s), n)
  BY <1>4, <1>5, <1>6, <1>8, <1>10
<1>12. Distinct(stack') /\ AllOK(stack', n)
  BY <1>9, <1>11 DEF Quiet
<1>13. AllOK(stack', m)
  BY <1>2, <1>12, AllOKMonotone
<1>14. \A c : Held(stack', c) => c = k \/ Held(stack, c)
  BY <1>5, <1>6, <1>8, <1>9 DEF Quiet
<1>15. \A c : Held(stack', c) => ~Listed(drainers, c) /\ ~Among(called, c) /\ c \in 1 .. k
  BY <1>1, <1>3, <1>4, <1>14 DEF Tokens
<1>16. \A c : Listed(drainers, c) => ~Among(called, c) /\ c \in 1 .. k
  BY <1>1, <1>3 DEF Tokens
<1>17. \A c : Among(called, c) => c \in 1 .. m
  BY <1>1, <1>3 DEF Tokens
<1>18. Single(drainers) /\ \A i, j \in 1 .. Len(called) : called[i] = called[j] => i = j
  BY DEF Tokens
<1>19. QED
  BY <1>1, <1>2, <1>12, <1>13, <1>15, <1>16, <1>17, <1>18 DEF Tokens

\* The callback of a write is registered for "drain".
LEMMA TokensRegister ==
  ASSUME TypeOK, Ends, Tokens, RegisterCallback
  PROVE  Tokens' /\ drainers' \in Seq(Listeners)
<1>1. PICK b : b = stack[1].of
  OBVIOUS
<1>2. Quiet(stack, stack') /\ b \in Chunks /\ Held(stack, b) /\ (Distinct(stack) => ~Held(stack', b))
  BY <1>1, RegisterStack DEF RegisterCallback
<1>3. PICK l : l = Cb(b)
  OBVIOUS
<1>4. l \in Listeners /\ \A c : l = Cb(c) <=> c = b
  BY <1>2, <1>3 DEF Listeners, Cb
<1>5. drainers' = Append(drainers, l)
  BY <1>1, <1>3 DEF RegisterCallback, AddOnce, Cb
<1>6. /\ drainers' \in Seq(Listeners)
      /\ \A c : Listed(drainers', c) <=> Listed(drainers, c) \/ l = Cb(c)
      /\ Single(drainers) /\ (\A c : l = Cb(c) => ~Listed(drainers, c)) => Single(drainers')
  BY <1>4, <1>5, Types, AddFacts
<1>7. Distinct(stack) /\ ~Listed(drainers, b) /\ ~Among(called, b) /\ b \in 1 .. Len(accepted) /\ Single(drainers)
  BY <1>2 DEF Tokens
<1>8. \A c : Listed(drainers', c) <=> Listed(drainers, c) \/ c = b
  BY <1>4, <1>6
<1>9. Single(drainers')
  BY <1>4, <1>6, <1>7
<1>10. ~Held(stack', b) /\ Distinct(stack') /\ AllOK(stack', Len(settled)) /\ \A c : Held(stack', c) => Held(stack, c)
  BY <1>2, <1>7 DEF Quiet, Tokens
<1>11. \A c : Held(stack', c) => ~Listed(drainers', c) /\ ~Among(called, c) /\ c \in 1 .. Len(accepted)
  BY <1>8, <1>10 DEF Tokens
<1>12. \A c : Listed(drainers', c) => ~Among(called, c) /\ c \in 1 .. Len(accepted)
  BY <1>7, <1>8 DEF Tokens
<1>13. UNCHANGED <<called, accepted, settled>>
  BY DEF RegisterCallback, histVars
<1>14. QED
  BY <1>6, <1>9, <1>10, <1>11, <1>12, <1>13 DEF Tokens

\* "drain" takes the listeners it will call.
LEMMA TokensDrain ==
  ASSUME TypeOK, Ordered, Completing, Ends, Tokens, At("finally"), queue = <<>>, drainers' = <<>>,
         stack' = <<Emission(drainers), Ended>> \o Rest, UNCHANGED <<called, accepted, settled>>
  PROVE  Tokens'
<1>1. /\ inflight = {}
      /\ \A c : Held(stack', c) <=> Held(stack, c) \/ Listed(drainers, c)
      /\ Distinct(stack) /\ (\A c : ~(Held(stack, c) /\ Listed(drainers, c))) => Distinct(stack')
      /\ \A n : AllOK(stack, n) /\ Single(drainers) /\ (\A c : Listed(drainers, c) => c \in 1 .. n)
                  => AllOK(stack', n)
  BY DrainStack
<1>2. Len(accepted) = Len(settled)
  BY <1>1, AllWritten
<1>3. Single(drainers') /\ \A c : ~Listed(drainers', c)
  BY EmptyStack
<1>4. Distinct(stack')
  BY <1>1 DEF Tokens
<1>5. AllOK(stack', Len(settled))
  BY <1>1, <1>2 DEF Tokens
<1>6. \A c : Held(stack', c) => ~Among(called, c) /\ c \in 1 .. Len(accepted)
  BY <1>1 DEF Tokens
<1>7. QED
  BY <1>3, <1>4, <1>5, <1>6 DEF Tokens

\* The emission of "drain" calls its next listener.
LEMMA TokensCall ==
  ASSUME TypeOK, Ends, Tokens, CallListener
  PROVE  Tokens' /\ called' \in Seq(Chunks)
<1>1. UNCHANGED <<drainers, accepted, settled>>
  BY DEF CallListener, sinkVars
<1>2. Quiet(stack, stack')
  BY CallStack
<1>3. CASE called' = called
  BY <1>1, <1>2, <1>3, Types, TokensKept
<1>4. ASSUME NEW b \in Chunks, called' = Append(called, b), Held(stack, b),
             \A n : Distinct(stack) /\ AllOK(stack, n) => ~Held(stack', b) /\ b \in 1 .. n
      PROVE  Tokens' /\ called' \in Seq(Chunks)
  <2>1. /\ ~Held(stack', b) /\ b \in 1 .. Len(settled)
        /\ ~Listed(drainers, b) /\ ~Among(called, b)
    BY <1>4 DEF Tokens
  <2>2. called \in Seq(Chunks) /\ \A i, j \in 1 .. Len(called) : called[i] = called[j] => i = j
    BY Types DEF Tokens
  <2>3. /\ called' \in Seq(Chunks)
        /\ \A c : Among(called', c) <=> Among(called, c) \/ c = b
        /\ \A i, j \in 1 .. Len(called') : called'[i] = called'[j] => i = j
    BY <1>4, <2>1, <2>2, CalledFacts
  <2>4. Distinct(stack') /\ AllOK(stack', Len(settled)) /\ Single(drainers) /\ \A c : Held(stack', c) => Held(stack, c)
    BY <1>2 DEF Tokens, Quiet
  <2>5. \A c : Held(stack', c) => ~Listed(drainers, c) /\ ~Among(called', c) /\ c \in 1 .. Len(accepted)
    BY <2>1, <2>3, <2>4 DEF Tokens
  <2>6. \A c : Listed(drainers, c) => ~Among(called', c) /\ c \in 1 .. Len(accepted)
    BY <2>1, <2>3 DEF Tokens
  <2>7. \A c : Among(called', c) => c \in 1 .. Len(settled)
    BY <2>1, <2>3 DEF Tokens
  <2>8. QED
    BY <1>1, <2>3, <2>4, <2>5, <2>6, <2>7 DEF Tokens
<1>5. QED
  BY <1>3, <1>4, CallStack, Types

-----------------------------------------------------------------------------
(* The queue.                                                              *)

LEMMA WaitingFacts ==
  ASSUME NEW ls \in Seq(Listeners), NEW l \in Listeners
  PROVE  /\ IsFiniteSet(WaitingIn(ls)) /\ Cardinality(WaitingIn(ls)) \in Nat
         /\ WaitingIn(Append(ls, l)) = WaitingIn(ls) \cup {s \in Sources : l = Resume(s)}
<1>1. WaitingIn(ls) \in SUBSET Sources
  BY DEF WaitingIn
<1>2. IsFiniteSet(WaitingIn(ls)) /\ Cardinality(WaitingIn(ls)) \in Nat
  BY <1>1, StreamAssumption, FS_Subset, FS_CardinalityType
<1>3. PICK t, n : t = Append(ls, l) /\ n = Len(ls)
  OBVIOUS
<1>4. /\ n \in Nat /\ Len(t) = n + 1 /\ t[n + 1] = l
      /\ \A i \in 1 .. n : t[i] = ls[i] /\ i \in 1 .. n + 1
      /\ n + 1 \in 1 .. n + 1
      /\ \A i \in 1 .. n + 1 : i = n + 1 \/ i \in 1 .. n
  BY <1>3, AppendProperties
<1>5. ASSUME NEW s \in Sources
      PROVE  (\E i \in 1 .. n + 1 : t[i] = Resume(s)) <=> (\E i \in 1 .. n : ls[i] = Resume(s)) \/ l = Resume(s)
  BY <1>4
<1>6. WaitingIn(t) = WaitingIn(ls) \cup {s \in Sources : l = Resume(s)}
  BY <1>3, <1>4, <1>5 DEF WaitingIn
<1>7. QED
  BY <1>2, <1>3, <1>6

\* The piped buffers behind the n-th.
LEMMA PipedFacts ==
  ASSUME NEW ws \in Seq(Writers), NEW n \in Nat, n <= Len(ws)
  PROVE  /\ IsFiniteSet(PipedFrom(ws, n)) /\ Cardinality(PipedFrom(ws, n)) \in Nat
         /\ Cardinality(PipedFrom(ws, n)) <= Len(ws) - n
         /\ \A m \in Nat : n <= m => Cardinality(PipedFrom(ws, m)) <= Cardinality(PipedFrom(ws, n))
         /\ Cardinality(PipedFrom(Append(ws, "app"), n)) = Cardinality(PipedFrom(ws, n))
         /\ Cardinality(PipedFrom(Append(ws, "pipe"), n)) = Cardinality(PipedFrom(ws, n)) + 1
<1>1. PICK a \in Nat : a = Len(ws)
  OBVIOUS
<1>2. PICK P : P = PipedFrom(ws, n)
  OBVIOUS
<1>3. P \in SUBSET ((n + 1) .. a)
  BY <1>1, <1>2 DEF PipedFrom
<1>4. IsFiniteSet((n + 1) .. a) /\ Cardinality((n + 1) .. a) = a - n
  <2>1. IsFiniteSet((n + 1) .. a) /\ Cardinality((n + 1) .. a) = IF n + 1 > a THEN 0 ELSE a - (n + 1) + 1
    BY FS_Interval
  <2>2. QED
    BY <1>1, <2>1
<1>5. IsFiniteSet(P) /\ Cardinality(P) <= a - n
  BY <1>3, <1>4, FS_Subset
<1>6. Cardinality(P) \in Nat
  BY <1>5, FS_CardinalityType
<1>7. ASSUME NEW m \in Nat, n <= m PROVE Cardinality(PipedFrom(ws, m)) <= Cardinality(P)
  <2>1. PipedFrom(ws, m) \in SUBSET P
    BY <1>1, <1>2, <1>7 DEF PipedFrom
  <2>2. QED
    BY <1>5, <2>1, FS_Subset
<1>8. ASSUME NEW w \in Writers
      PROVE  PipedFrom(Append(ws, w), n) = IF w = "pipe" THEN P \cup {a + 1} ELSE P
  <2>1. PICK t : t = Append(ws, w)
    OBVIOUS
  <2>2. Len(t) = a + 1 /\ t[a + 1] = w /\ \A i \in 1 .. a : t[i] = ws[i]
    BY <1>1, <2>1, AppendProperties
  <2>3. PipedFrom(t, n) = IF w = "pipe" THEN P \cup {a + 1} ELSE P
    BY <1>1, <1>2, <2>2 DEF PipedFrom
  <2>4. QED
    BY <2>1, <2>3
<1>9. PipedFrom(Append(ws, "app"), n) = P /\ PipedFrom(Append(ws, "pipe"), n) = P \cup {a + 1}
  BY <1>8 DEF Writers
<1>10. a + 1 \notin P
  BY <1>3
<1>11. Cardinality(P \cup {a + 1}) = Cardinality(P) + 1
  BY <1>5, <1>10, FS_AddElement
<1>12. QED
  BY <1>1, <1>2, <1>5, <1>6, <1>7, <1>9, <1>11

\* The state of the queue in numbers.
LEMMA QueueNumbers ==
  ASSUME TypeOK, Ordered
  PROVE  /\ Started \in Nat /\ Started <= Len(accepted) /\ Len(queue) = Len(accepted) - Started
         /\ Cardinality(Piped) \in Nat /\ Cardinality(Piped) <= Len(queue)
         /\ IsFiniteSet(Waiting) /\ Cardinality(Waiting) \in Nat /\ HighWater \in Nat
<1>1. Started \in Nat /\ Started <= Len(accepted) /\ Len(queue) = Len(accepted) - Started
  <2>1. Started \in Nat
    BY Types DEF Started
  <2>2. Len(accepted) = Started + Len(queue) /\ Len(queue) \in Nat
    BY Types DEF Ordered
  <2>3. QED
    BY <2>1, <2>2
<1>2. accepted \in Seq(Writers) /\ HighWater \in Nat
  BY Types
<1>3. Cardinality(Piped) \in Nat /\ Cardinality(Piped) <= Len(accepted) - Started
  BY <1>1, <1>2, PipedFacts DEF Piped
<1>4. Waiting \in SUBSET Sources /\ IsFiniteSet(Sources)
  BY StreamAssumption DEF Waiting, WaitingIn
<1>5. IsFiniteSet(Waiting)
  BY <1>4, FS_Subset
<1>6. Cardinality(Waiting) \in Nat
  BY <1>5, FS_CardinalityType
<1>7. QED
  BY <1>1, <1>2, <1>3, <1>5, <1>6

\* A step that queues no piped buffer and makes no source wait.
LEMMA BoundedKept ==
  ASSUME TypeOK, Ordered, Bounded, Waiting' = Waiting, HasOp(stack', "emit") => HasOp(stack, "emit"),
         \A s \in Waiting : phase'[s] = phase[s],
         Cardinality(Piped') \in Nat, Cardinality(Piped') <= Cardinality(Piped)
  PROVE  Bounded'
<1>1. PICK p, q, k : p = Cardinality(Piped) /\ q = Cardinality(Piped') /\ k = Cardinality(Waiting)
  OBVIOUS
<1>2. p \in Nat /\ q \in Nat /\ k \in Nat /\ q <= p /\ HighWater \in Nat /\ p <= HighWater + k
  BY <1>1, QueueNumbers DEF Bounded
<1>3. q <= HighWater + k
  BY <1>2
<1>4. QED
  BY <1>1, <1>3 DEF Bounded

\* write() of an idle stream leaves nothing queued.
LEMMA BoundedNow ==
  ASSUME TypeOK, Ordered, Bounded, UNCHANGED <<drainers, phase>>, HasOp(stack', "emit") => HasOp(stack, "emit"),
         accepted' \in Seq(Writers), Started' = Len(accepted')
  PROVE  Bounded'
<1>1. PICK ws : ws = accepted'
  OBVIOUS
<1>2. Len(ws) \in Nat /\ ws \in Seq(Writers)
  BY <1>1
<1>3. Cardinality(PipedFrom(ws, Len(ws))) \in Nat /\ Cardinality(PipedFrom(ws, Len(ws))) <= Len(ws) - Len(ws)
  BY <1>2, PipedFacts
<1>4. Piped' = PipedFrom(ws, Len(ws))
  BY <1>1 DEF Piped
<1>5. Cardinality(Piped') = 0
  BY <1>2, <1>3, <1>4
<1>6. Waiting' = Waiting
  BY DEF Waiting
<1>7. QED
  BY <1>5, <1>6, QueueNumbers, BoundedKept

\* write() of a busy stream by the application.
LEMMA BoundedApp ==
  ASSUME TypeOK, Ordered, Bounded, UNCHANGED <<drainers, phase, stack>>,
         accepted' = Append(accepted, "app"), Started' = Started
  PROVE  Bounded'
<1>1. PICK ws, n : ws = accepted /\ n = Started
  OBVIOUS
<1>2. ws \in Seq(Writers) /\ n \in Nat /\ n <= Len(ws)
  BY <1>1, Types, QueueNumbers
<1>3. Cardinality(PipedFrom(Append(ws, "app"), n)) = Cardinality(PipedFrom(ws, n))
  BY <1>2, PipedFacts
<1>4. Piped = PipedFrom(ws, n) /\ Piped' = PipedFrom(Append(ws, "app"), n)
  BY <1>1 DEF Piped
<1>5. Cardinality(Piped') = Cardinality(Piped)
  BY <1>3, <1>4
<1>6. Waiting' = Waiting
  BY DEF Waiting
<1>7. QED
  BY <1>5, <1>6, QueueNumbers, BoundedKept

\* A piped buffer is queued, and its source waits when the queue is full.
LEMMA BoundedPipe ==
  ASSUME TypeOK, Ordered, Bounded, Idle, stack' = stack, accepted' = Append(accepted, "pipe"), Started' = Started,
         NEW s \in Sources, phase[s] = "reading",
         IF Full THEN /\ phase' = [phase EXCEPT ![s] = "paused"]
                      /\ drainers' = AddOnce([kind |-> "resume", of |-> s])
                 ELSE UNCHANGED <<phase, drainers>>
  PROVE  Bounded' /\ drainers' \in Seq(Listeners) /\ phase' \in [Sources -> Phases]
<1>1. PICK ws, n : ws = accepted /\ n = Started
  OBVIOUS
<1>2. ws \in Seq(Writers) /\ n \in Nat /\ n <= Len(ws)
  BY <1>1, Types, QueueNumbers
<1>3. Cardinality(PipedFrom(Append(ws, "pipe"), n)) = Cardinality(PipedFrom(ws, n)) + 1
  BY <1>2, PipedFacts
<1>4. Piped = PipedFrom(ws, n) /\ Piped' = PipedFrom(Append(ws, "pipe"), n)
  BY <1>1 DEF Piped
<1>5. PICK p, q, k, h : p = Cardinality(Piped) /\ q = Cardinality(Piped') /\ k = Cardinality(Waiting) /\ h = Len(queue)
  OBVIOUS
<1>6. p \in Nat /\ q = p + 1 /\ k \in Nat /\ h \in Nat /\ p <= h /\ HighWater \in Nat /\ p <= HighWater + k
  BY <1>3, <1>4, <1>5, QueueNumbers, Types DEF Bounded
<1>7. ~HasOp(stack', "emit")
  BY EmptyStack DEF Idle
<1>8. phase \in [Sources -> Phases] /\ drainers \in Seq(Listeners)
  BY DEF TypeOK
<1>9. CASE ~Full
  <2>1. h + 1 <= HighWater
    BY <1>5, <1>6, <1>9 DEF Full
  <2>2. q <= HighWater + k
    BY <1>6, <2>1
  <2>3. Waiting' = Waiting /\ phase' = phase
    BY <1>9 DEF Waiting
  <2>4. QED
    BY <1>5, <1>7, <1>8, <1>9, <2>2, <2>3 DEF Bounded
<1>10. CASE Full
  <2>1. PICK l : l = Resume(s)
    OBVIOUS
  <2>2. l \in Listeners /\ {x \in Sources : l = Resume(x)} = {s}
    BY <2>1 DEF Listeners, Resume
  <2>3. drainers' = Append(drainers, l)
    BY <1>10, <2>1 DEF AddOnce, Resume
  <2>4. drainers' \in Seq(Listeners)
    BY <1>8, <2>2, <2>3, AddFacts
  <2>5. WaitingIn(Append(drainers, l)) = WaitingIn(drainers) \cup {s}
    BY <1>8, <2>2, WaitingFacts
  <2>6. Waiting' = Waiting \cup {s}
    BY <2>3, <2>5 DEF Waiting
  <2>7. s \notin Waiting
    BY DEF Bounded
  <2>8. Cardinality(Waiting') = k + 1
    BY <1>5, <2>6, <2>7, QueueNumbers, FS_AddElement
  <2>9. q <= HighWater + (k + 1)
    BY <1>6
  <2>10. phase' \in [Sources -> Phases] /\ phase' = [phase EXCEPT ![s] = "paused"]
    BY <1>8, <1>10 DEF Phases
  <2>11. \A x \in Waiting' : phase'[x] = "paused"
    BY <1>8, <2>6, <2>10 DEF Bounded, Waiting, WaitingIn
  <2>12. QED
    BY <1>5, <1>7, <2>4, <2>8, <2>9, <2>10, <2>11 DEF Bounded
<1>11. QED
  BY <1>9, <1>10

\* Buffers that leave the queue, and steps that leave it alone.
LEMMA BoundedLess ==
  ASSUME TypeOK, Ordered, Bounded, Waiting' = Waiting, HasOp(stack', "emit") => HasOp(stack, "emit"),
         \A s \in Waiting : phase'[s] = phase[s],
         accepted' = accepted, Started' = Started \/ (Started' = Started + 1 /\ queue # <<>>)
  PROVE  Bounded'
<1>1. PICK ws, n, m : ws = accepted /\ n = Started /\ m = Started'
  OBVIOUS
<1>2. ws \in Seq(Writers) /\ n \in Nat /\ n <= Len(ws) /\ Len(ws) \in Nat
  BY <1>1, Types, QueueNumbers
<1>3. m \in Nat /\ n <= m /\ m <= Len(ws)
  <2>1. queue # <<>> => Len(queue) # 0
    BY Types, EmptySeq
  <2>2. QED
    BY <1>1, <1>2, <2>1, Types, QueueNumbers
<1>4. Cardinality(PipedFrom(ws, m)) \in Nat /\ Cardinality(PipedFrom(ws, m)) <= Cardinality(PipedFrom(ws, n))
  BY <1>2, <1>3, PipedFacts
<1>5. Piped = PipedFrom(ws, n) /\ Piped' = PipedFrom(ws, m)
  BY <1>1 DEF Piped
<1>6. QED
  BY <1>4, <1>5, BoundedKept

\* "drain" is emitted over an empty queue, and no source is left waiting.
LEMMA BoundedDrain ==
  ASSUME TypeOK, Ordered, inflight = {}, queue = <<>>, drainers' = <<>>,
         UNCHANGED <<accepted, settled, inflight>>
  PROVE  Bounded'
<1>1. Waiting' = {}
  BY DEF Waiting, WaitingIn
<1>2. Started' = Started
  BY DEF Started, Under
<1>3. Piped' = Piped
  BY <1>2 DEF Piped
<1>4. Len(queue) = 0
  OBVIOUS
<1>5. Cardinality(Piped) = 0
  BY <1>4, QueueNumbers
<1>6. Cardinality(Waiting') = 0
  BY <1>1, FS_EmptySet
<1>7. 0 <= HighWater + 0
  BY QueueNumbers
<1>8. QED
  BY <1>1, <1>3, <1>5, <1>6, <1>7 DEF Bounded

-----------------------------------------------------------------------------
(* Every step.                                                             *)

LEMMA InitInv == Init => Inv
<1> SUFFICES ASSUME Init PROVE Inv
  OBVIOUS
<1>1. /\ Len(settled) = 0 /\ Len(queue) = 0 /\ Len(accepted) = 0 /\ Len(called) = 0 /\ Len(drainers) = 0
      /\ Under = 0 /\ Started = 0
  BY DEF Init, Under, Started
<1>2. TypeOK
  <2>1. MaxChunks \in Nat /\ MaxWrites \in Nat
    BY StreamAssumption
  <2>2. phase \in [Sources -> Phases]
    BY DEF Init, Phases
  <2>3. endedAt \in Marks /\ finished \in Marks
    BY <2>1 DEF Init, Marks
  <2>4. /\ queue \in Seq(Chunks) /\ drainers \in Seq(Listeners) /\ stack \in Seq(Frames)
        /\ accepted \in Seq(Writers) /\ settled \in Seq(Chunks) /\ called \in Seq(Chunks)
    BY EmptySeq DEF Init
  <2>5. inflight \in SUBSET Chunks /\ writing \in BOOLEAN /\ ended \in BOOLEAN /\ endedIn \in BOOLEAN
    BY DEF Init
  <2>6. QED
    BY <2>2, <2>3, <2>4, <2>5 DEF TypeOK
<1>3. Counted
  <2>1. By(accepted, "pipe") = {} /\ By(accepted, "app") = {}
    BY DEF Init, By
  <2>2. QED
    BY <2>1, FS_EmptySet, StreamAssumption DEF Counted
<1>4. Ordered
  BY <1>1 DEF Init, Ordered
<1>5. Completing
  BY EmptyStack DEF Init, Completing
<1>6. Ends
  BY <1>1, EmptyStack DEF Init, Ends
<1>7. Tokens
  <2>1. stack = <<>> /\ drainers = <<>> /\ \A c : ~Among(called, c)
    BY <1>1 DEF Init, Among
  <2>2. QED
    BY <1>1, <2>1, EmptyStack DEF Tokens
<1>8. Bounded
  <2>1. Waiting = {} /\ Piped = {}
    BY <1>1 DEF Waiting, WaitingIn, Piped, PipedFrom
  <2>2. ~HasOp(stack, "emit")
    BY EmptyStack DEF Init
  <2>3. QED
    BY <2>1, <2>2, FS_EmptySet, StreamAssumption DEF Bounded
<1>9. QED
  BY <1>2, <1>3, <1>4, <1>5, <1>6, <1>7, <1>8 DEF Inv

\* write() of an idle stream, by a readable or by the application.
LEMMA NowInv ==
  ASSUME Inv, Running, NEW w \in Writers, NEW cb \in BOOLEAN, WriteNow(w, cb, stack),
         Cardinality(By(accepted, w)) < (IF w = "pipe" THEN MaxChunks ELSE MaxWrites),
         UNCHANGED <<phase, drainers, ended, called, endedAt, endedIn, finished>>
  PROVE  Inv'
<1> USE DEF Inv
<1>1. /\ NextChunk \in Chunks /\ accepted' \in Seq(Writers) /\ Len(accepted') = Len(accepted) + 1
      /\ Counted'
  BY Accepting DEF WriteNow
<1>2. /\ Begins(NextChunk)
      /\ ~cb => Quiet(stack, stack')
      /\ cb => Quiet(Push(Once(NextChunk), stack), stack')
  BY <1>1, NowStack
<1>3. /\ Ordered' /\ Completing' /\ settled' \in Seq(Chunks) /\ inflight' \in SUBSET Chunks /\ writing' \in BOOLEAN
      /\ Started' = Len(accepted') /\ Len(settled) <= Len(settled')
  BY <1>1, <1>2, SinkNow DEF WriteNow
<1>4. Len(settled') \in Nat /\ Len(accepted') \in Nat /\ Len(accepted) <= Len(accepted')
  BY <1>1, <1>3, Types
<1>5. /\ stack' \in Seq(Frames) /\ EndedBehind(stack')
      /\ HasOp(stack', "ended") => HasOp(stack, "ended")
      /\ HasOp(stack', "emit") => HasOp(stack, "emit")
  <2>1. CASE ~cb
    BY <1>2, <2>1 DEF Quiet
  <2>2. CASE cb
    <3>1. PICK f, s : f = Once(NextChunk) /\ s = stack
      OBVIOUS
    <3>2. f \in Frames /\ f.op = "once" /\ s \in Seq(Frames)
      BY <1>1, <3>1, OnceFacts, Types
    <3>3. \A op : HasOp(Push(f, s), op) <=> (f.op = op \/ HasOp(s, op))
      BY <3>2, PushFacts, Zenon
    <3>4. Quiet(Push(f, s), stack')
      BY <1>2, <2>2, <3>1
    <3>5. QED
      BY <3>1, <3>2, <3>3, <3>4 DEF Quiet
  <2>3. QED
    BY <2>1, <2>2
<1>6. TypeOK'
  BY <1>1, <1>3, <1>5 DEF TypeOK, WriteNow
<1>7. Ends'
  BY <1>3, <1>4, <1>5, EndsKept
<1>8. Tokens'
  <2>1. CASE ~cb
    BY <1>2, <1>3, <1>4, <2>1, TokensKept
  <2>2. CASE cb
    BY <1>1, <1>2, <1>3, <1>4, <2>2, Limits, TokensOnce
  <2>3. QED
    BY <2>1, <2>2
<1>9. Bounded'
  BY <1>1, <1>3, <1>5, BoundedNow
<1>10. QED
  BY <1>1, <1>3, <1>6, <1>7, <1>8, <1>9

\* A step that leaves the buffers alone and moves no callback.
LEMMA QuietInv ==
  ASSUME Inv, Quiet(stack, stack'), SameFinally(stack, stack'),
         UNCHANGED <<writing, queue, inflight, settled, accepted, drainers, called>>,
         phase' \in [Sources -> Phases], \A s \in Waiting : phase'[s] = phase[s]
  PROVE  /\ Counted' /\ Ordered' /\ Completing' /\ Tokens' /\ Bounded'
         /\ UNCHANGED <<ended, endedAt, endedIn, finished>> => TypeOK' /\ Ends'
<1> USE DEF Inv
<1>1. Ordered' /\ Completing' /\ Started' = Started
  BY SinkSame
<1>2. Counted'
  BY DEF Counted
<1>3. Tokens'
  BY Types, TokensKept
<1>4. Waiting' = Waiting
  BY DEF Waiting
<1>5. stack' \in Seq(Frames) /\ EndedBehind(stack') /\ (HasOp(stack', "emit") => HasOp(stack, "emit"))
      /\ (HasOp(stack', "ended") => HasOp(stack, "ended"))
  BY DEF Quiet
<1>6. Bounded'
  <2>1. TypeOK /\ Ordered /\ Bounded /\ accepted' = accepted
    OBVIOUS
  <2>2. QED
    BY <1>1, <1>4, <1>5, <2>1, BoundedLess
<1>7. ASSUME UNCHANGED <<ended, endedAt, endedIn, finished>> PROVE TypeOK' /\ Ends'
  BY <1>5, <1>7, Types, EndsKept DEF TypeOK
<1>8. QED
  BY <1>1, <1>2, <1>3, <1>6, <1>7

LEMMA PipeInv ==
  ASSUME Inv, NEW s \in Sources, Pipe(s)
  PROVE  Inv'
<1> USE DEF Inv
<1>1. phase \in [Sources -> Phases] /\ stack \in Seq(Frames) /\ EndedBehind(stack)
  BY DEF TypeOK, Ends
<1>2. Quiet(stack, stack') /\ SameFinally(stack, stack')
  BY <1>1, QuietRefl DEF Pipe
<1>3. phase' \in [Sources -> Phases]
  BY <1>1 DEF Pipe, Phases
<1>4. \A x \in Waiting : phase'[x] = phase[x]
  BY <1>1 DEF Pipe, Bounded, Waiting, WaitingIn
<1>5. QED
  BY <1>2, <1>3, <1>4, QuietInv DEF Pipe, sinkVars, histVars

\* write() of a busy stream, by the application.
LEMMA AppLaterInv ==
  ASSUME Inv, WriteLater("app"), Cardinality(By(accepted, "app")) < MaxWrites,
         UNCHANGED <<stack, phase, drainers, ended, called, endedAt, endedIn, finished>>
  PROVE  Inv'
<1> USE DEF Inv
<1>1. /\ NextChunk \in Chunks /\ accepted' \in Seq(Writers) /\ Len(accepted') = Len(accepted) + 1
      /\ Counted'
  BY Accepting DEF WriteLater, Writers
<1>2. Ordered' /\ Completing' /\ queue' \in Seq(Chunks) /\ Started' = Started
  BY <1>1, SinkLater DEF WriteLater
<1>3. stack \in Seq(Frames) /\ EndedBehind(stack)
  BY DEF TypeOK, Ends
<1>4. Quiet(stack, stack')
  BY <1>3, QuietRefl
<1>5. /\ Len(settled') \in Nat /\ Len(accepted') \in Nat
      /\ Len(settled) <= Len(settled') /\ Len(accepted) <= Len(accepted')
  BY <1>1, Types DEF WriteLater
<1>6. TypeOK'
  BY <1>1, <1>2 DEF TypeOK, WriteLater
<1>7. Ends'
  BY <1>3, <1>5, EndsKept
<1>8. Tokens'
  BY <1>4, <1>5, TokensKept
<1>9. Bounded'
  BY <1>2, BoundedApp DEF WriteLater
<1>10. QED
  BY <1>1, <1>2, <1>6, <1>7, <1>8, <1>9

\* A buffer of a readable is queued.
LEMMA PipeLaterInv ==
  ASSUME Inv, Idle, NEW s \in Sources, phase[s] = "reading", WriteLater("pipe"),
         Cardinality(By(accepted, "pipe")) < MaxChunks,
         IF Full THEN /\ phase' = [phase EXCEPT ![s] = "paused"]
                      /\ drainers' = AddOnce([kind |-> "resume", of |-> s])
                 ELSE UNCHANGED <<phase, drainers>>,
         UNCHANGED <<stack, ended, called, endedAt, endedIn, finished>>
  PROVE  Inv'
<1> USE DEF Inv
<1>1. /\ NextChunk \in Chunks /\ accepted' \in Seq(Writers) /\ Len(accepted') = Len(accepted) + 1
      /\ Counted'
  BY Accepting DEF WriteLater, Writers
<1>2. Ordered' /\ Completing' /\ queue' \in Seq(Chunks) /\ Started' = Started
  BY <1>1, SinkLater DEF WriteLater
<1>3. stack \in Seq(Frames) /\ EndedBehind(stack)
  BY DEF TypeOK, Ends
<1>4. Quiet(stack, stack')
  BY <1>3, QuietRefl
<1>5. /\ Len(settled') \in Nat /\ Len(accepted') \in Nat
      /\ Len(settled) <= Len(settled') /\ Len(accepted) <= Len(accepted')
  BY <1>1, Types DEF WriteLater
<1>6. Bounded' /\ drainers' \in Seq(Listeners) /\ phase' \in [Sources -> Phases]
  BY <1>2, BoundedPipe DEF WriteLater
<1>7. TypeOK'
  BY <1>1, <1>2, <1>6 DEF TypeOK, WriteLater
<1>8. Ends'
  BY <1>3, <1>5, EndsKept
<1>9. (\A c : Listed(drainers', c) <=> Listed(drainers, c)) /\ (Single(drainers) => Single(drainers'))
  <2>1. CASE drainers' = drainers
    BY <2>1
  <2>2. CASE drainers' = Append(drainers, Resume(s))
    <3>1. Resume(s) \in Listeners /\ \A c : Resume(s) # Cb(c)
      BY DEF Listeners, Resume, Cb
    <3>2. QED
      BY <2>2, <3>1, Types, AddFacts
  <2>3. QED
    BY <2>1, <2>2 DEF AddOnce, Resume
<1>10. Tokens'
  BY <1>4, <1>5, <1>9, TokensKept
<1>11. QED
  BY <1>1, <1>2, <1>6, <1>7, <1>8, <1>10

\* end(), by the application or behind a source that is over.
LEMMA EndInv ==
  ASSUME Inv, Running, End(stack), UNCHANGED <<writing, queue, inflight, drainers, accepted, settled, called>>,
         phase' \in [Sources -> Phases], \A s \in Waiting : phase'[s] = phase[s]
  PROVE  Inv'
<1> USE DEF Inv
<1>1. Quiet(stack, stack') /\ SameFinally(stack, stack')
  BY EndStack
<1>2. Counted' /\ Ordered' /\ Completing' /\ Tokens' /\ Bounded'
  BY <1>1, QuietInv
<1>3. Ends' /\ ended' \in BOOLEAN /\ endedIn' \in BOOLEAN /\ endedAt' \in Marks /\ finished' \in Marks
  BY EndsEnd
<1>4. TypeOK'
  BY <1>1, <1>3 DEF TypeOK, Quiet
<1>5. QED
  BY <1>2, <1>3, <1>4

LEMMA OnEndInv ==
  ASSUME Inv, NEW s \in Sources, OnEnd(s)
  PROVE  Inv'
<1>1. phase \in [Sources -> Phases]
  BY DEF Inv, TypeOK
<1>2. phase' \in [Sources -> Phases]
  BY <1>1 DEF OnEnd, Phases
<1>3. \A x \in Waiting : phase'[x] = phase[x]
  BY <1>1 DEF OnEnd, Inv, Bounded, Waiting, WaitingIn
<1>4. Running /\ End(stack)
  BY DEF OnEnd, Running, Idle
<1>5. QED
  BY <1>2, <1>3, <1>4, EndInv DEF OnEnd

LEMMA OnRecvInv ==
  ASSUME Inv, NEW s \in Sources, OnRecv(s)
  PROVE  Inv'
<1>1. Idle /\ Running /\ stack = <<>> /\ phase[s] = "reading"
  BY DEF OnRecv, Running, Idle
<1>2. Cardinality(By(accepted, "pipe")) < MaxChunks
  BY DEF OnRecv, By
<1>3. CASE WriteNow("pipe", FALSE, <<>>) /\ UNCHANGED <<phase, drainers>>
  <2>1. WriteNow("pipe", FALSE, stack)
    BY <1>1, <1>3
  <2>2. QED
    BY <1>1, <1>2, <1>3, <2>1, NowInv DEF OnRecv, Writers
<1>4. CASE /\ WriteLater("pipe")
           /\ IF Full
                THEN /\ phase' = [phase EXCEPT ![s] = "paused"]
                     /\ drainers' = AddOnce([kind |-> "resume", of |-> s])
                ELSE UNCHANGED <<phase, drainers>>
           /\ UNCHANGED stack
  BY <1>1, <1>2, <1>4, PipeLaterInv DEF OnRecv
<1>5. QED
  BY <1>3, <1>4 DEF OnRecv

LEMMA AppWriteInv ==
  ASSUME Inv, NEW cb \in BOOLEAN, AppWrite(cb)
  PROVE  Inv'
<1>1. Cardinality(By(accepted, "app")) < MaxWrites
  BY DEF AppWrite, By
<1>2. CASE WriteNow("app", cb, stack)
  BY <1>1, <1>2, NowInv DEF AppWrite, Writers
<1>3. CASE WriteLater("app") /\ UNCHANGED stack
  BY <1>1, <1>3, AppLaterInv DEF AppWrite
<1>4. QED
  BY <1>2, <1>3 DEF AppWrite

LEMMA OnSendInv ==
  ASSUME Inv, OnSend
  PROVE  Inv'
<1> USE DEF Inv
<1>1. Quiet(stack, stack') /\ OneFinally(stack')
  BY SendStack DEF OnSend
<1>2. PICK c \in inflight : inflight' = inflight \ {c} /\ settled' = Append(settled, c)
  BY DEF OnSend
<1>3. UNCHANGED <<phase, writing, queue, ended, drainers, accepted, called, endedAt, endedIn, finished>>
  BY DEF OnSend
<1>4. /\ Ordered' /\ Completing' /\ settled' \in Seq(Chunks) /\ inflight' \in SUBSET Chunks
      /\ Started' = Started /\ Len(settled) <= Len(settled')
  BY <1>1, <1>2, <1>3, SinkSend
<1>5. /\ Len(settled') \in Nat /\ Len(accepted') \in Nat /\ Len(accepted) <= Len(accepted')
  BY <1>3, <1>4, Types
<1>6. /\ stack' \in Seq(Frames) /\ EndedBehind(stack')
      /\ HasOp(stack', "ended") => HasOp(stack, "ended")
      /\ HasOp(stack', "emit") => HasOp(stack, "emit")
  BY <1>1 DEF Quiet
<1>7. TypeOK'
  BY <1>3, <1>4, <1>6 DEF TypeOK
<1>8. Counted'
  BY <1>3 DEF Counted
<1>9. Ends'
  BY <1>3, <1>4, <1>5, <1>6, EndsKept
<1>10. Tokens'
  BY <1>1, <1>3, <1>4, <1>5, TokensKept
<1>11. Bounded'
  <2>1. Waiting' = Waiting /\ \A s \in Waiting : phase'[s] = phase[s]
    BY <1>3 DEF Waiting
  <2>2. QED
    BY <1>3, <1>4, <1>6, <2>1, BoundedLess
<1>12. QED
  BY <1>4, <1>7, <1>8, <1>9, <1>10, <1>11

\* The completion of a write.
LEMMA RunFinallyInv ==
  ASSUME Inv, RunFinally
  PROVE  Inv'
<1> USE DEF Inv
<1>1. At("finally") /\ UNCHANGED <<phase, ended, accepted, called, endedAt, endedIn, finished>>
  BY DEF RunFinally
<1>2. Counted'
  BY <1>1 DEF Counted
<1>3. CASE queue # <<>> /\ queue' = Tail(queue) /\ StartWrite(Head(queue), Rest) /\ UNCHANGED drainers
  <2>1. Begins(Head(queue)) /\ Quiet(stack, stack') /\ inflight = {}
    BY <1>1, <1>3, NextStack
  <2>2. /\ Ordered' /\ Completing' /\ settled' \in Seq(Chunks) /\ inflight' \in SUBSET Chunks
        /\ queue' \in Seq(Chunks) /\ writing' \in BOOLEAN
        /\ Started' = Started + 1 /\ Len(settled) <= Len(settled')
    BY <1>1, <1>3, <2>1, SinkNext
  <2>3. /\ Len(settled') \in Nat /\ Len(accepted') \in Nat /\ Len(accepted) <= Len(accepted')
    BY <1>1, <2>2, Types
  <2>4. /\ stack' \in Seq(Frames) /\ EndedBehind(stack')
        /\ HasOp(stack', "ended") => HasOp(stack, "ended")
        /\ HasOp(stack', "emit") => HasOp(stack, "emit")
    BY <2>1 DEF Quiet
  <2>5. TypeOK'
    BY <1>1, <1>3, <2>2, <2>4 DEF TypeOK
  <2>6. Ends'
    BY <1>1, <2>2, <2>3, <2>4, EndsKept
  <2>7. Tokens'
    BY <1>1, <1>3, <2>1, <2>2, <2>3, TokensKept
  <2>8. Bounded'
    <3>1. Waiting' = Waiting /\ \A s \in Waiting : phase'[s] = phase[s]
      BY <1>1, <1>3 DEF Waiting
    <3>2. QED
      BY <1>1, <1>3, <2>2, <2>4, <3>1, BoundedLess
  <2>9. QED
    BY <1>2, <2>2, <2>5, <2>6, <2>7, <2>8
<1>4. CASE /\ queue = <<>> /\ writing' = FALSE /\ stack' = <<Emission(drainers), Ended>> \o Rest
           /\ drainers' = AfterEmit /\ UNCHANGED <<queue, inflight, settled>>
  <2>1. drainers' = <<>>
    BY <1>4 DEF AfterEmit
  <2>2. inflight = {} /\ stack' \in Seq(Frames) /\ EndedBehind(stack') /\ ~HasOp(stack', "finally")
    BY <1>1, <1>4, DrainStack
  <2>3. Ordered'
    BY <1>1, <1>4 DEF Ordered, Started, Under
  <2>4. Completing'
    BY <1>4, <2>2 DEF Completing
  <2>5. TypeOK'
    <3>1. drainers' \in Seq(Listeners) /\ writing' \in BOOLEAN
      BY <1>4, <2>1, EmptySeq
    <3>2. QED
      BY <1>1, <1>4, <2>2, <3>1 DEF TypeOK
  <2>6. Ends'
    BY <1>1, <1>4, <2>2, EndsDrain
  <2>7. Tokens'
    BY <1>1, <1>4, <2>1, TokensDrain
  <2>8. Bounded'
    BY <1>1, <1>4, <2>1, <2>2, BoundedDrain
  <2>9. QED
    BY <1>2, <2>3, <2>4, <2>5, <2>6, <2>7, <2>8
<1>5. QED
  BY <1>3, <1>4 DEF RunFinally

LEMMA TestEndedInv ==
  ASSUME Inv, TestEnded
  PROVE  Inv'
<1> USE DEF Inv
<1>1. UNCHANGED <<phase, writing, queue, inflight, settled, accepted, drainers, called, ended, endedAt, endedIn>>
  BY DEF TestEnded, sinkVars
<1>2. Quiet(stack, stack') /\ SameFinally(stack, stack')
  BY TestStack
<1>3. phase' \in [Sources -> Phases] /\ \A s \in Waiting : phase'[s] = phase[s]
  BY <1>1 DEF TypeOK
<1>4. Counted' /\ Ordered' /\ Completing' /\ Tokens' /\ Bounded'
  BY <1>1, <1>2, <1>3, QuietInv
<1>5. Ends' /\ finished' \in Marks
  BY EndsTest
<1>6. TypeOK'
  BY <1>1, <1>2, <1>5 DEF TypeOK, Quiet
<1>7. QED
  BY <1>4, <1>5, <1>6

LEMMA RegisterInv ==
  ASSUME Inv, RegisterCallback
  PROVE  Inv'
<1> USE DEF Inv
<1>1. UNCHANGED <<phase, writing, queue, inflight, settled, accepted, called, ended, endedAt, endedIn, finished>>
  BY DEF RegisterCallback, histVars
<1>2. /\ Quiet(stack, stack') /\ SameFinally(stack, stack') /\ stack[1].of \in Chunks
  BY RegisterStack DEF RegisterCallback
<1>3. Tokens' /\ drainers' \in Seq(Listeners)
  BY TokensRegister
<1>4. Ordered' /\ Completing' /\ Started' = Started
  BY <1>1, <1>2, SinkSame
<1>5. Counted'
  BY <1>1 DEF Counted
<1>6. /\ stack' \in Seq(Frames) /\ EndedBehind(stack')
      /\ HasOp(stack', "ended") => HasOp(stack, "ended")
      /\ HasOp(stack', "emit") => HasOp(stack, "emit")
  BY <1>2 DEF Quiet
<1>7. TypeOK'
  BY <1>1, <1>3, <1>6 DEF TypeOK
<1>8. Ends'
  BY <1>1, <1>6, Types, EndsKept
<1>9. Bounded'
  <2>1. PICK l : l = Cb(stack[1].of)
    OBVIOUS
  <2>2. l \in Listeners /\ {s \in Sources : l = Resume(s)} = {}
    BY <1>2, <2>1 DEF Listeners, Cb, Resume
  <2>3. drainers' = Append(drainers, l)
    BY <2>1 DEF RegisterCallback, AddOnce, Cb
  <2>4. WaitingIn(Append(drainers, l)) = WaitingIn(drainers)
    BY <2>2, Types, WaitingFacts
  <2>5. Waiting' = Waiting
    BY <2>3, <2>4 DEF Waiting
  <2>6. \A s \in Waiting : phase'[s] = phase[s]
    BY <1>1
  <2>7. QED
    BY <1>1, <1>4, <1>6, <2>5, <2>6, BoundedLess
<1>10. QED
  BY <1>3, <1>4, <1>5, <1>7, <1>8, <1>9

\* A frame is left: a listener returns, or an emission has called them all.
LEMMA ReturnInv ==
  ASSUME Inv, UserReturns \/ EmitReturns
  PROVE  Inv'
<1> USE DEF Inv
<1>1. UNCHANGED <<phase, writing, queue, inflight, settled, accepted, drainers, called, ended, endedAt, endedIn, finished>>
  BY DEF UserReturns, EmitReturns, sinkVars, histVars
<1>2. Quiet(stack, stack') /\ SameFinally(stack, stack')
  BY PopStack DEF UserReturns, EmitReturns
<1>3. phase' \in [Sources -> Phases] /\ \A s \in Waiting : phase'[s] = phase[s]
  BY <1>1 DEF TypeOK
<1>4. QED
  BY <1>1, <1>2, <1>3, QuietInv

LEMMA CallInv ==
  ASSUME Inv, CallListener
  PROVE  Inv'
<1> USE DEF Inv
<1>1. UNCHANGED <<writing, queue, inflight, settled, accepted, drainers, ended, endedAt, endedIn, finished>>
  BY DEF CallListener, sinkVars
<1>2. Quiet(stack, stack') /\ SameFinally(stack, stack') /\ HasOp(stack, "emit")
  BY CallStack
<1>3. Tokens' /\ called' \in Seq(Chunks)
  BY TokensCall
<1>4. Ordered' /\ Completing' /\ Started' = Started
  BY <1>1, <1>2, SinkSame
<1>5. Counted'
  BY <1>1 DEF Counted
<1>6. /\ stack' \in Seq(Frames) /\ EndedBehind(stack')
      /\ HasOp(stack', "ended") => HasOp(stack, "ended")
      /\ HasOp(stack', "emit") => HasOp(stack, "emit")
  BY <1>2 DEF Quiet
<1>7. phase' \in [Sources -> Phases]
  <2>1. phase \in [Sources -> Phases]
    BY DEF TypeOK
  <2>2. phase' = phase \/ \E s \in Sources : phase' = [phase EXCEPT ![s] = "reading"]
    BY CallStack
  <2>3. QED
    BY <2>1, <2>2 DEF Phases
<1>8. TypeOK'
  BY <1>1, <1>3, <1>6, <1>7 DEF TypeOK
<1>9. Ends'
  BY <1>1, <1>6, Types, EndsKept
<1>10. Bounded'
  <2>1. Waiting = {} /\ Waiting' = Waiting
    BY <1>1, <1>2 DEF Bounded, Waiting
  <2>2. \A s \in Waiting : phase'[s] = phase[s]
    BY <2>1
  <2>3. QED
    BY <1>1, <1>4, <1>6, <2>1, <2>2, BoundedLess
<1>11. QED
  BY <1>3, <1>4, <1>5, <1>8, <1>9, <1>10

\* Every step keeps the invariant.
LEMMA StepInv == Inv /\ [Next]_vars => Inv'
<1> SUFFICES ASSUME Inv, [Next]_vars PROVE Inv'
  OBVIOUS
<1>1. CASE \E s \in Sources : Pipe(s) \/ OnRecv(s) \/ OnEnd(s)
  BY <1>1, PipeInv, OnRecvInv, OnEndInv
<1>2. CASE OnSend
  BY <1>2, OnSendInv
<1>3. CASE AppEnd
  <2>1. phase' \in [Sources -> Phases] /\ \A s \in Waiting : phase'[s] = phase[s]
    BY <1>3 DEF AppEnd, Inv, TypeOK
  <2>2. QED
    BY <1>3, <2>1, EndInv DEF AppEnd
<1>4. CASE Continue
  BY <1>4, RunFinallyInv, TestEndedInv, RegisterInv, ReturnInv, CallInv DEF Continue
<1>5. CASE \E cb \in BOOLEAN : AppWrite(cb)
  BY <1>5, AppWriteInv
<1>6. CASE UNCHANGED vars
  <2>1. UNCHANGED <<phase, writing, queue, inflight, settled, accepted, drainers, called, ended, endedAt, endedIn, finished, stack>>
    BY <1>6 DEF vars, sinkVars, histVars
  <2>2. stack \in Seq(Frames) /\ EndedBehind(stack) /\ phase \in [Sources -> Phases]
    BY DEF Inv, TypeOK, Ends
  <2>3. Quiet(stack, stack') /\ SameFinally(stack, stack')
    BY <2>1, <2>2, QuietRefl
  <2>4. QED
    BY <2>1, <2>2, <2>3, QuietInv DEF Inv
<1>7. QED
  BY <1>1, <1>2, <1>3, <1>4, <1>5, <1>6 DEF Next

\* The invariant holds of every behaviour: the buffers are numbered on from
\* each other, one completion at most is under way, callbacks are in one
\* place, and what is queued beyond the mark is owed by sources that wait.
THEOREM Invariance == Spec => []Inv
<1>1. Init => Inv
  BY InitInv
<1>2. Inv /\ [Next]_vars => Inv'
  BY StepInv
<1>3. QED
  BY <1>1, <1>2, PTL DEF Spec

\* The streams and the calls nested in each other keep their types.
THEOREM TypeCorrect == Spec => []TypeOK
<1>1. Inv => TypeOK
  BY DEF Inv
<1>2. QED
  BY <1>1, Invariance, PTL

\* The buffer under way, as a sequence.
LEMMA UnderWay ==
  ASSUME TypeOK, Ordered
  PROVE  /\ SetToSeq(inflight) \in Seq(Chunks) /\ Len(SetToSeq(inflight)) = Under
         /\ inflight # {} => SetToSeq(inflight)[1] = Len(settled) + 1
<1>1. CASE inflight = {}
  <2>1. Cardinality({}) = 0 /\ 1 .. 0 = {}
    BY FS_EmptySet
  <2>2. PICK e : e = [i \in 1 .. 0 |-> i]
    OBVIOUS
  <2>3. e \in [1 .. 0 -> {}] /\ IsInjective(e)
    BY <2>1, <2>2 DEF IsInjective
  <2>4. SetToSeq({}) \in [1 .. 0 -> {}]
    BY <2>1, <2>3 DEF SetToSeq
  <2>5. PICK f : f = SetToSeq({})
    OBVIOUS
  <2>6. f \in [1 .. 0 -> Chunks]
    BY <2>1, <2>4, <2>5
  <2>7. f \in Seq(Chunks) /\ Len(f) = 0
    BY <2>6
  <2>8. QED
    BY <1>1, <2>5, <2>7 DEF Under
<1>2. CASE inflight # {}
  <2>1. PICK c \in Chunks : c = Len(settled) + 1 /\ inflight = {c}
    BY <1>2 DEF Ordered, TypeOK
  <2>2. Cardinality({c}) = 1
    BY FS_Singleton
  <2>3. PICK e : e = [i \in 1 .. 1 |-> c]
    OBVIOUS
  <2>4. e \in [1 .. 1 -> {c}] /\ IsInjective(e)
    BY <2>3 DEF IsInjective
  <2>5. SetToSeq({c}) \in [1 .. 1 -> {c}]
    BY <2>2, <2>4 DEF SetToSeq
  <2>6. PICK f : f = SetToSeq({c})
    OBVIOUS
  <2>7. f \in [1 .. 1 -> Chunks] /\ f[1] = c
    BY <2>5, <2>6
  <2>8. f \in Seq(Chunks) /\ Len(f) = 1
    BY <2>7
  <2>9. QED
    BY <1>2, <2>1, <2>6, <2>7, <2>8 DEF Under
<1>3. QED
  BY <1>1, <1>2

\* The sink is given one buffer at a time and in the order of the calls to
\* write, and none is lost, repeated or queued behind nothing: start_write,
\* the finally handler and on_send hand over to each other, at any depth.
THEOREM SinkIsInOrder == Spec => []SinkInOrder
<1>1. ASSUME Inv PROVE SinkInOrder
  <2>1. TypeOK /\ Ordered /\ Completing
    BY <1>1 DEF Inv
  <2>2. Cardinality(inflight) <= 1
    <3>1. inflight = {} \/ inflight = {Len(settled) + 1}
      BY <2>1 DEF Ordered
    <3>2. Cardinality({}) = 0 /\ Cardinality({Len(settled) + 1}) = 1
      BY FS_EmptySet, FS_Singleton
    <3>3. Cardinality(inflight) = 0 \/ Cardinality(inflight) = 1
      BY <3>1, <3>2
    <3>4. QED
      BY <3>3
  <2>3. queue # <<>> => writing
    BY <2>1 DEF Completing
  <2>4. PICK s, u, q, a : s = settled /\ u = SetToSeq(inflight) /\ q = queue /\ a = accepted
    OBVIOUS
  <2>5. PICK n, k, m : n = Len(settled) /\ k = Under /\ m = Len(queue)
    OBVIOUS
  <2>6. /\ s \in Seq(Chunks) /\ Len(s) = n /\ n \in Nat
        /\ u \in Seq(Chunks) /\ Len(u) = k /\ k \in {0, 1} /\ (k = 1 => u[1] = n + 1)
        /\ q \in Seq(Chunks) /\ Len(q) = m /\ m \in Nat
    BY <2>1, <2>4, <2>5, Types, UnderWay DEF Under
  <2>7. /\ \A i \in 1 .. n : s[i] = i
        /\ \A i \in 1 .. m : q[i] = n + k + i
        /\ Len(a) = n + k + m
    BY <2>1, <2>4, <2>5 DEF Ordered, Started
  <2>8. PICK su : su = s \o u
    OBVIOUS
  <2>9. /\ su \in Seq(Chunks) /\ Len(su) = n + k
        /\ \A i \in 1 .. n + k : su[i] = IF i <= n THEN s[i] ELSE u[i - n]
    BY <2>6, <2>8, ConcatProperties
  <2>10. \A i \in 1 .. n + k : su[i] = i
    BY <2>6, <2>7, <2>9
  <2>11. PICK w : w = su \o q
    OBVIOUS
  <2>12. /\ w \in Seq(Chunks) /\ Len(w) = (n + k) + m
         /\ \A i \in 1 .. (n + k) + m : w[i] = IF i <= n + k THEN su[i] ELSE q[i - (n + k)]
    <3>1. PICK h : h = Len(su)
      OBVIOUS
    <3>2. h \in Nat /\ h = n + k
      BY <2>6, <2>9, <3>1
    <3>3. /\ w \in Seq(Chunks) /\ Len(w) = h + m
          /\ \A i \in 1 .. h + m : w[i] = IF i <= h THEN su[i] ELSE q[i - h]
      <4>1. su \in Seq(Chunks) /\ q \in Seq(Chunks)
        BY <2>6, <2>9
      <4>2. /\ su \o q \in Seq(Chunks) /\ Len(su \o q) = Len(su) + Len(q)
            /\ \A i \in 1 .. Len(su) + Len(q) : (su \o q)[i] = IF i <= Len(su) THEN su[i] ELSE q[i - Len(su)]
        BY <4>1, ConcatProperties, Zenon
      <4>3. Len(su) = h /\ Len(q) = m
        BY <2>6, <3>1
      <4>4. QED
        BY <2>11, <4>2, <4>3
    <3>4. QED
      BY <3>2, <3>3
  <2>13. \A i \in 1 .. (n + k) + m : w[i] = i
    <3>1. ASSUME NEW i \in 1 .. (n + k) + m, ~(i <= n + k) PROVE q[i - (n + k)] = i
      <4>1. i - (n + k) \in 1 .. m
        BY <2>6, <3>1
      <4>2. q[i - (n + k)] = n + k + (i - (n + k))
        BY <2>7, <4>1
      <4>3. QED
        BY <2>6, <4>2
    <3>2. ASSUME NEW i \in 1 .. (n + k) + m, i <= n + k PROVE su[i] = i
      <4>1. i \in 1 .. n + k
        BY <2>6, <3>2
      <4>2. QED
        BY <2>10, <4>1
    <3>3. QED
      BY <2>12, <3>1, <3>2
  <2>14. DOMAIN a = 1 .. (n + k) + m
    BY <2>1, <2>4, <2>7, Types
  <2>15. w = [i \in 1 .. (n + k) + m |-> i]
    BY <2>12, <2>13
  <2>16. settled \o SetToSeq(inflight) \o queue = [i \in DOMAIN accepted |-> i]
    BY <2>4, <2>8, <2>11, <2>14, <2>15
  <2>17. QED
    BY <2>2, <2>3, <2>16 DEF SinkInOrder
<1>2. QED
  BY <1>1, Invariance, PTL

\* Of the buffers of the readables the queue holds no more than the high
\* water mark and one for each source: a source told that the queue is full
\* stops until "drain", and "drain" is emitted over an empty queue.
THEOREM QueueIsBounded == Spec => []QueueBound
<1>1. ASSUME Inv PROVE QueueBound
  <2>1. TypeOK /\ Ordered /\ Bounded
    BY <1>1 DEF Inv
  <2>2. PICK S, T : S = {i \in DOMAIN queue : accepted[queue[i]] = "pipe"} /\ T = Piped
    OBVIOUS
  <2>3. PICK n : n = Started
    OBVIOUS
  <2>4. n \in Nat /\ Len(queue) \in Nat /\ Len(accepted) = n + Len(queue) /\ DOMAIN queue = 1 .. Len(queue)
    BY <2>1, <2>3, QueueNumbers, Types DEF Ordered
  <2>5. \A i \in 1 .. Len(queue) : queue[i] = n + i
    BY <2>1, <2>3 DEF Ordered
  <2>6. \A i \in S : i \in 1 .. Len(queue) /\ n + i \in T
    BY <2>2, <2>3, <2>4, <2>5 DEF Piped, PipedFrom
  <2>7. PICK f : f = [i \in S |-> n + i]
    OBVIOUS
  <2>8. f \in Injection(S, T)
    <3>1. f \in [S -> T] /\ DOMAIN f = S
      BY <2>6, <2>7
    <3>2. \A i, j \in S : f[i] = f[j] => i = j
      BY <2>4, <2>6, <2>7
    <3>3. QED
      BY <3>1, <3>2 DEF Injection, IsInjective
  <2>9. IsFiniteSet(T)
    <3>1. accepted \in Seq(Writers) /\ n <= Len(accepted)
      BY <2>1, <2>3, Types, QueueNumbers
    <3>2. QED
      BY <2>2, <2>3, <2>4, <3>1, PipedFacts DEF Piped
  <2>10. IsFiniteSet(S) /\ Cardinality(S) <= Cardinality(T)
    BY <2>8, <2>9, FS_Injection
  <2>11. Cardinality(Waiting) <= Cardinality(Sources)
    <3>1. Waiting \in SUBSET Sources /\ IsFiniteSet(Sources)
      BY StreamAssumption DEF Waiting, WaitingIn
    <3>2. QED
      BY <3>1, FS_Subset
  <2>12. PICK x, y, k, z : x = Cardinality(S) /\ y = Cardinality(T) /\ k = Cardinality(Waiting) /\ z = Cardinality(Sources)
    OBVIOUS
  <2>13. x \in Nat /\ y \in Nat /\ k \in Nat /\ z \in Nat /\ HighWater \in Nat
    BY <2>1, <2>2, <2>10, <2>12, QueueNumbers, StreamAssumption, FS_CardinalityType
  <2>14. x <= y /\ y <= HighWater + k /\ k <= z
    BY <2>1, <2>2, <2>10, <2>11, <2>12 DEF Bounded
  <2>15. x <= HighWater + z
    BY <2>13, <2>14
  <2>16. QED
    BY <2>2, <2>12, <2>15 DEF QueueBound
<1>2. QED
  BY <1>1, Invariance, PTL

\* The callback of a write is called at most once and after its buffer was
\* settled: emit erases the listeners it will call before it calls the first.
THEOREM CallbacksAreCalledOnce == Spec => []CallbackOnce
<1>1. ASSUME Inv PROVE CallbackOnce
  <2>1. TypeOK /\ Ordered /\ Tokens
    BY <1>1 DEF Inv
  <2>2. DOMAIN called = 1 .. Len(called) /\ DOMAIN settled = 1 .. Len(settled)
    BY <2>1, Types
  <2>3. IsInjective(called)
    BY <2>1, <2>2 DEF Tokens, IsInjective
  <2>4. ASSUME NEW i \in 1 .. Len(called) PROVE called[i] \in ToSet(settled)
    <3>1. called[i] \in 1 .. Len(settled)
      BY <2>1 DEF Tokens, Among
    <3>2. settled[called[i]] = called[i]
      BY <2>1, <3>1 DEF Ordered
    <3>3. QED
      BY <2>2, <3>1, <3>2 DEF ToSet
  <2>5. ToSet(called) \subseteq ToSet(settled)
    BY <2>2, <2>4 DEF ToSet
  <2>6. QED
    BY <2>3, <2>5 DEF CallbackOnce
<1>2. QED
  BY <1>1, Invariance, PTL

\* "finish" follows the writes made before end(), unless end() was called by
\* a listener of "drain".
THEOREM FinishFollowsWrites == Spec => []FinishMeansWritten
<1>1. ASSUME Inv PROVE FinishMeansWritten
  <2> SUFFICES ASSUME finished # -1, ~endedIn, NEW i \in 1 .. endedAt
               PROVE  i \in ToSet(SubSeq(settled, 1, finished))
    BY DEF FinishMeansWritten
  <2>1. TypeOK /\ Ordered /\ Ends
    BY <1>1 DEF Inv
  <2>2. PICK s, n, f, e : s = settled /\ n = Len(settled) /\ f = finished /\ e = endedAt
    OBVIOUS
  <2>3. s \in Seq(Chunks) /\ n \in Nat /\ f \in Int /\ e \in Int
    BY <2>1, <2>2, Types
  <2>4. e <= f /\ f <= n
    BY <2>1, <2>2 DEF Ends
  <2>5. i \in 1 .. f /\ i \in 1 .. n /\ f \in Nat
    BY <2>2, <2>3, <2>4
  <2>6. s[i] = i
    BY <2>1, <2>2, <2>5 DEF Ordered
  <2>7. PICK t : t = SubSeq(s, 1, f)
    OBVIOUS
  <2>8. DOMAIN t = 1 .. f /\ t[i] = s[i]
    BY <2>2, <2>3, <2>4, <2>5, <2>7
  <2>9. i \in ToSet(t)
    BY <2>5, <2>6, <2>8 DEF ToSet
  <2>10. QED
    BY <2>2, <2>7, <2>9
<1>2. QED
  BY <1>1, Invariance, PTL
=============================================================================

----------------------------- MODULE TaskQueue -----------------------------
(***************************************************************************)
(* What runloop::dispatch promises: closures handed over from any thread   *)
(* run one after the other, in the order they were handed over, each once, *)
(* and none is left waiting for ever.                                      *)
(***************************************************************************)
EXTENDS Integers, Sequences

VARIABLES
  waiting,  \* the closures handed over and not yet started, numbered from 1
  started   \* the closures started, in order

vars == <<waiting, started>>

Init == waiting = <<>> /\ started = <<>>

Submit ==
  /\ waiting' = Append(waiting, Len(started) + Len(waiting) + 1)
  /\ UNCHANGED started

Start ==
  /\ waiting # <<>>
  /\ started' = Append(started, Head(waiting))
  /\ waiting' = Tail(waiting)

Next == Submit \/ Start

Spec == Init /\ [][Next]_vars /\ WF_vars(Start)
=============================================================================

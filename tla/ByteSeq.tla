------------------------------ MODULE ByteSeq ------------------------------
(* Sequences of bytes that are written at a position. *)
EXTENDS Integers, Sequences

CONSTANT Zero   \* the byte holes are filled with

Larger(m, n) == IF m > n THEN m ELSE n
Smaller(m, n) == IF m < n THEN m ELSE n

\* The sequence f with bs written over it at position off. Writing no bytes
\* leaves no hole.
Overlay(f, off, bs) ==
  IF bs = <<>> THEN f
  ELSE [i \in 1..Larger(Len(f), off + Len(bs)) |->
          IF i > off /\ i <= off + Len(bs) THEN bs[i - off]
          ELSE IF i <= Len(f) THEN f[i]
          ELSE Zero]

\* The sequence f with its length set to n.
Resized(f, n) == [i \in 1..n |-> IF i <= Len(f) THEN f[i] ELSE Zero]
=============================================================================

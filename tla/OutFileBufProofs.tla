-------------------------- MODULE OutFileBufProofs --------------------------
(***************************************************************************)
(* obfilebuf implements the output sequence, for buffers, files and writes *)
(* of any size and a careful client that puts at least one byte: the bytes *)
(* not yet flushed go to the place in the file they were put at, although  *)
(* the buffer only tracks where its descriptor stands.                     *)
(***************************************************************************)
EXTENDS OutFileBuf, SequenceTheorems, TLAPS

-----------------------------------------------------------------------------
(* Sequences written over one another.                                     *)

\* What Overlay returns, byte by byte.
LEMMA OverlayFacts ==
  ASSUME NEW f \in Seq(Bytes), NEW off \in Nat, NEW bs \in Seq(Bytes)
  PROVE  /\ Overlay(f, off, bs) \in Seq(Bytes)
         /\ bs = <<>> => Overlay(f, off, bs) = f
         /\ bs # <<>> => Len(Overlay(f, off, bs)) = Larger(Len(f), off + Len(bs))
         /\ \A i \in 1..Len(Overlay(f, off, bs)) :
              Overlay(f, off, bs)[i] = IF i > off /\ i <= off + Len(bs) THEN bs[i - off]
                                       ELSE IF i <= Len(f) THEN f[i] ELSE Zero
<1>1. CASE bs = <<>>
  <2>1. Overlay(f, off, bs) = f /\ Len(bs) = 0
    BY <1>1, EmptySeq DEF Overlay
  <2>2. \A i \in 1..Len(f) : ~(i > off /\ i <= off + Len(bs))
    BY <2>1
  <2>3. QED
    BY <1>1, <2>1, <2>2
<1>2. CASE bs # <<>>
  <2> DEFINE n == Larger(Len(f), off + Len(bs))
             e(i) == IF i > off /\ i <= off + Len(bs) THEN bs[i - off]
                     ELSE IF i <= Len(f) THEN f[i] ELSE Zero
             g == [i \in 1..n |-> e(i)]
  <2>1. Overlay(f, off, bs) = g
    BY <1>2 DEF Overlay
  <2>2. n \in Nat /\ Len(f) \in Nat /\ Len(bs) \in Nat
    BY DEF Larger
  <2>3. ASSUME NEW i \in 1..n PROVE e(i) \in Bytes
    <3>1. CASE i > off /\ i <= off + Len(bs)
      <4>1. i - off \in 1..Len(bs)
        BY <2>2, <3>1
      <4>2. QED
        BY <3>1, <4>1
    <3>2. CASE ~(i > off /\ i <= off + Len(bs)) /\ i <= Len(f)
      <4>1. i \in 1..Len(f)
        BY <2>2, <3>2
      <4>2. QED
        BY <3>2, <4>1
    <3>3. QED
      BY <3>1, <3>2 DEF Bytes
  <2> HIDE DEF n, e
  <2>4. g \in Seq(Bytes)
    BY <2>2, <2>3, IsASeq
  <2>5. DOMAIN g = 1..Len(g) /\ Len(g) \in Nat
    BY <2>4, LenProperties
  <2>6. Len(g) = n
    BY <2>2, <2>5
  <2>7. \A i \in 1..n : g[i] = e(i)
    OBVIOUS
  <2>8. QED
    BY <1>2, <2>1, <2>4, <2>6, <2>7 DEF n, e
<1>3. QED
  BY <1>1, <1>2

\* A write behind a write is one write.
LEMMA OverlayTwice ==
  ASSUME NEW f \in Seq(Bytes), NEW off \in Nat, NEW xs \in Seq(Bytes), NEW bs \in Seq(Bytes), bs # <<>>
  PROVE  Overlay(Overlay(f, off, xs), off + Len(xs), bs) = Overlay(f, off, xs \o bs)
<1> DEFINE g == Overlay(f, off, xs)
           h == Overlay(g, off + Len(xs), bs)
           cs == xs \o bs
           k == Overlay(f, off, cs)
<1>0. (xs = <<>>) <=> (Len(xs) = 0)
  BY EmptySeq
<1>1. Len(xs) \in Nat /\ Len(bs) \in Nat \ {0} /\ Len(f) \in Nat
  BY EmptySeq
<1>2. /\ cs \in Seq(Bytes) /\ Len(cs) = Len(xs) + Len(bs)
      /\ \A i \in 1..Len(cs) : cs[i] = IF i <= Len(xs) THEN xs[i] ELSE bs[i - Len(xs)]
  BY ConcatProperties
<1>3. cs # <<>>
  BY <1>1, <1>2, EmptySeq
<1>4. /\ g \in Seq(Bytes) /\ Len(g) \in Nat
      /\ Len(g) = IF Len(xs) = 0 THEN Len(f) ELSE Larger(Len(f), off + Len(xs))
      /\ \A i \in 1..Len(g) : g[i] = IF i > off /\ i <= off + Len(xs) THEN xs[i - off]
                                     ELSE IF i <= Len(f) THEN f[i] ELSE Zero
  BY <1>0, <1>1, OverlayFacts DEF Larger
<1>5. off + Len(xs) \in Nat
  BY <1>1
<1> HIDE DEF g, cs
<1>6. /\ h \in Seq(Bytes) /\ Len(h) = Larger(Len(g), off + Len(xs) + Len(bs))
      /\ \A i \in 1..Len(h) : h[i] = IF i > off + Len(xs) /\ i <= off + Len(xs) + Len(bs)
                                       THEN bs[i - (off + Len(xs))]
                                     ELSE IF i <= Len(g) THEN g[i] ELSE Zero
  BY <1>4, <1>5, OverlayFacts
<1>7. /\ k \in Seq(Bytes) /\ Len(k) = Larger(Len(f), off + Len(cs))
      /\ \A i \in 1..Len(k) : k[i] = IF i > off /\ i <= off + Len(cs) THEN cs[i - off]
                                     ELSE IF i <= Len(f) THEN f[i] ELSE Zero
  BY <1>2, <1>3, OverlayFacts
<1> HIDE DEF h, k
<1>8. Len(h) = Len(k) /\ Len(h) \in Nat
  BY <1>1, <1>2, <1>4, <1>6, <1>7 DEF Larger
<1>9. ASSUME NEW i \in 1..Len(h) PROVE h[i] = k[i]
  <2>1. i \in Nat /\ i >= 1 /\ i \in 1..Len(k)
    BY <1>8
  <2>2. CASE i > off + Len(xs) /\ i <= off + Len(xs) + Len(bs)
    <3>1. i - off \in 1..Len(cs) /\ ~(i - off <= Len(xs)) /\ i - (off + Len(xs)) = (i - off) - Len(xs)
      BY <1>1, <1>2, <2>1, <2>2
    <3>2. i > off /\ i <= off + Len(cs)
      BY <1>1, <1>2, <2>1, <2>2
    <3>3. QED
      BY <1>2, <1>6, <1>7, <2>1, <2>2, <3>1, <3>2
  <2>3. CASE i > off /\ i <= off + Len(xs)
    <3>1. i - off \in 1..Len(cs) /\ i - off <= Len(xs) /\ i > off /\ i <= off + Len(cs)
      BY <1>1, <1>2, <2>1, <2>3
    <3>2. i <= Len(g) /\ i \in 1..Len(g) /\ ~(i > off + Len(xs))
      BY <1>1, <1>4, <2>1, <2>3 DEF Larger
    <3>3. h[i] = g[i] /\ g[i] = xs[i - off]
      BY <1>4, <1>6, <2>3, <3>2
    <3>4. k[i] = cs[i - off] /\ cs[i - off] = xs[i - off]
      BY <1>2, <1>7, <2>1, <3>1
    <3>5. QED
      BY <3>3, <3>4
  <2>4. CASE ~(i > off /\ i <= off + Len(xs) + Len(bs))
    <3>1. /\ ~(i > off + Len(xs) /\ i <= off + Len(xs) + Len(bs)) /\ ~(i > off /\ i <= off + Len(cs))
          /\ ~(i > off /\ i <= off + Len(xs))
      BY <1>1, <1>2, <2>1, <2>4
    <3>2. k[i] = IF i <= Len(f) THEN f[i] ELSE Zero
      BY <1>7, <2>1, <3>1
    <3>3. h[i] = IF i <= Len(g) THEN g[i] ELSE Zero
      BY <1>6, <3>1
    <3>4. i <= Len(g) => g[i] = IF i <= Len(f) THEN f[i] ELSE Zero
      BY <1>4, <2>1, <3>1
    <3>5. i <= Len(f) => i <= Len(g)
      BY <1>1, <1>4, <2>1 DEF Larger
    <3>6. QED
      BY <3>2, <3>3, <3>4, <3>5
  <2>5. QED
    BY <1>1, <2>1, <2>2, <2>3, <2>4
<1>10. h = k
  BY <1>6, <1>7, <1>8, <1>9, SeqEqual
<1>11. QED
  BY <1>10 DEF h, k, g, cs

\* What was written is there.
LEMMA OverlayRead ==
  ASSUME NEW f \in Seq(Bytes), NEW off \in Nat, NEW bs \in Seq(Bytes), bs # <<>>
  PROVE  /\ off + Len(bs) <= Len(Overlay(f, off, bs))
         /\ SubSeq(Overlay(f, off, bs), off + 1, off + Len(bs)) = bs
<1> DEFINE g == Overlay(f, off, bs)
           m == off + 1
           n == off + Len(bs)
           t == SubSeq(g, m, n)
<1>1. Len(bs) \in Nat \ {0} /\ Len(f) \in Nat
  BY EmptySeq
<1>2. /\ g \in Seq(Bytes) /\ Len(g) = Larger(Len(f), off + Len(bs))
      /\ \A i \in 1..Len(g) : i > off /\ i <= off + Len(bs) => g[i] = bs[i - off]
  BY OverlayFacts
<1> HIDE DEF g
<1>3. off + Len(bs) <= Len(g) /\ Len(g) \in Nat
  BY <1>1, <1>2 DEF Larger
<1>4. m \in Nat /\ n \in Nat /\ m <= n /\ n - m + 1 = Len(bs) /\ \A i \in m..n : i \in 1..Len(g)
  BY <1>1, <1>3
<1>5. \A i \in m..n : g[i] \in Bytes
  BY <1>2, <1>4
<1>6. /\ t \in Seq(Bytes) /\ Len(t) = Len(bs)
      /\ \A i \in 1..Len(bs) : t[i] = g[m + i - 1]
  <2> HIDE DEF m, n
  <2>1. m \in Int /\ n \in Int
    BY <1>4
  <2>2. /\ t \in Seq(Bytes) /\ Len(t) = IF m <= n THEN n - m + 1 ELSE 0
        /\ \A i \in 1..n - m + 1 : t[i] = g[m + i - 1]
    BY <1>2, <1>5, <2>1, SubSeqProperties
  <2>3. QED
    BY <1>4, <2>2
<1>7. ASSUME NEW i \in 1..Len(bs) PROVE t[i] = bs[i]
  <2>1. m + i - 1 = off + i /\ off + i \in 1..Len(g) /\ off + i > off /\ off + i <= off + Len(bs) /\ (off + i) - off = i
    BY <1>1, <1>3
  <2>2. QED
    BY <1>2, <1>6, <2>1
<1>8. t = bs
  BY <1>6, <1>7, SeqEqual
<1>9. QED
  BY <1>3, <1>8 DEF g

-----------------------------------------------------------------------------
(* The inductive invariant.                                                *)

\* Positions stay within the bound, those of bytes still to be put too.
Sized == Len(file) <= MaxSize /\ ppos + Len(rest) <= MaxSize

\* The buffer holds bytes exactly when it is dirty, and no call is under way
\* on a closed one.
Holds ==
  /\ m_dirty => buf # <<>>
  /\ ~m_dirty => buf = <<>>
  /\ ~m_is_open => ~m_dirty /\ rest = <<>>

\* last_touched is where the descriptor stands, or, with O_APPEND, what is
\* written belongs to the end of the file.
Placed ==
  m_is_open =>
    /\ append => (m_dirty \/ rest # <<>> => m_pbase_offset = Len(file))
    /\ ~append => fd = m_last_touched

\* The high watermark is the size of the file, or has already been raised to
\* count bytes in the buffer.
Watermark ==
  m_is_open =>
    /\ m_high_watermark >= Len(file)
    /\ m_dirty => m_high_watermark <= Larger(Len(file), ppos)
    /\ ~m_dirty => m_high_watermark = Len(file)

Inv == TypeOK /\ Sized /\ Holds /\ Placed /\ Watermark

\* What the types say of the numbers.
LEMMA Numbers ==
  ASSUME Inv
  PROVE  /\ Len(file) \in Nat /\ Len(buf) \in Nat /\ Len(rest) \in Nat
         /\ m_pbase_offset \in Nat /\ ppos \in 0..MaxSize /\ MaxSize \in Nat
         /\ m_pbase_offset + Len(buf) = ppos
         /\ m_dirty => Len(buf) > 0
         /\ ~m_dirty => Len(buf) = 0 /\ ppos = m_pbase_offset
         /\ fd \in Nat /\ m_last_touched \in Nat /\ m_high_watermark \in Nat
         /\ file \in Seq(Bytes) /\ buf \in Seq(Bytes) /\ buf \in Seq(Values) /\ rest \in Seq(Values)
<1>1. Len(file) \in Nat /\ Len(buf) \in Nat /\ Len(rest) \in Nat
  BY DEF Inv, TypeOK
<1>2. (buf = <<>>) <=> (Len(buf) = 0)
  BY EmptySeq DEF Inv, TypeOK
<1>3. buf \in Seq(Bytes)
  BY DEF Inv, TypeOK, Bytes
<1>4. ppos \in Nat /\ ppos <= MaxSize /\ m_pbase_offset \in Nat /\ MaxSize \in Nat
  BY <1>1, OutFileBufAssumption DEF Inv, TypeOK, Sized, ppos
<1>5. QED
  BY <1>1, <1>2, <1>3, <1>4 DEF Inv, TypeOK, Holds, ppos

\* What a flush makes of the file is the sequence the buffer stands for.
LEMMA Flushed ==
  ASSUME Inv, m_is_open
  PROVE  /\ FlushAsserts
         /\ FlushedFile = content /\ content \in Seq(Bytes)
         /\ Len(content) = SetHighWatermark /\ Len(content) \in 0..MaxSize
         /\ FlushedFd \in 0..MaxSize /\ FlushedTouched \in 0..MaxSize
         /\ ~append => FlushedFd = FlushedTouched
         /\ append /\ m_dirty => Len(content) = ppos
         /\ ~m_dirty => content = file
<1> USE DEF Inv
<1>1. FlushAsserts
  BY DEF Holds, FlushAsserts
<1>2. m_dirty => WriteAt = m_pbase_offset
  BY DEF Placed, WriteAt
<1>3. FlushedFile = content /\ content \in Seq(Bytes)
  <2>1. CASE m_dirty
    BY <1>2, <2>1, Numbers, OverlayFacts DEF FlushedFile, content
  <2>2. CASE ~m_dirty
    BY <2>2, Numbers, OverlayFacts DEF FlushedFile, content, Holds
  <2>3. QED
    BY <2>1, <2>2
<1>4. m_dirty => Len(content) = Larger(Len(file), ppos)
  BY Numbers, OverlayFacts DEF content, Holds
<1>5. ~m_dirty => content = file
  BY Numbers, OverlayFacts DEF content, Holds
<1>6. Len(content) = SetHighWatermark
  BY <1>4, <1>5, Numbers DEF Watermark, SetHighWatermark, Larger
<1>7. Len(content) \in 0..MaxSize
  BY <1>4, <1>5, Numbers DEF Sized, Larger
<1>8. /\ FlushedFd \in 0..MaxSize /\ FlushedTouched \in 0..MaxSize
      /\ ~append => FlushedFd = FlushedTouched
  <2>1. CASE m_dirty
    BY <1>2, <2>1, Numbers DEF FlushedFd, FlushedTouched
  <2>2. CASE ~m_dirty
    BY <2>2 DEF FlushedFd, FlushedTouched, Placed, TypeOK
  <2>3. QED
    BY <2>1, <2>2
<1>9. append /\ m_dirty => Len(content) = ppos
  BY <1>4, Numbers DEF Placed, Larger
<1>10. QED
  BY <1>1, <1>3, <1>5, <1>6, <1>7, <1>8, <1>9

\* A flush that leaves the position at p, with what may follow it in a putn.
LEMMA FlushInv ==
  ASSUME Inv, m_is_open, NEW p \in 0..MaxSize, p + Len(rest) <= MaxSize,
         rest # <<>> => m_dirty /\ p = ppos,
         FlushWith(p, FlushedFile, SetHighWatermark, FlushedTouched),
         UNCHANGED rest, m_is_open' \in BOOLEAN, m_is_open' \/ rest = <<>>
  PROVE  Inv' /\ content' = content /\ file' = content /\ ppos' = p
<1> USE DEF Inv
<1>1. /\ file' = content /\ fd' = FlushedFd /\ m_pbase_offset' = p /\ buf' = <<>> /\ m_dirty' = FALSE
      /\ m_high_watermark' = Len(content) /\ m_last_touched' = FlushedTouched /\ append' = append
  BY Flushed DEF FlushWith
<1>2. buf' \in Seq(Values) /\ buf' \in Seq(Bytes) /\ Len(buf') = 0
  BY <1>1, EmptySeq
<1>3. ppos' = p
  BY <1>1, <1>2 DEF ppos
<1>4. file' \in Seq(Bytes)
  BY <1>1, Flushed
<1>5. content' = file'
  <2>1. m_pbase_offset' \in Nat
    BY <1>1, OutFileBufAssumption
  <2>2. Overlay(file', m_pbase_offset', buf') = file'
    BY <1>1, <1>2, <1>4, <2>1, OverlayFacts
  <2>3. QED
    BY <2>2 DEF content
<1>6. TypeOK'
  <2>1. m_dirty' \in BOOLEAN /\ append' \in BOOLEAN /\ rest' \in Seq(Values)
    BY <1>1 DEF TypeOK
  <2>2. Len(buf') <= Cap
    BY <1>2, OutFileBufAssumption
  <2>3. fd' \in 0..MaxSize /\ m_pbase_offset' \in 0..MaxSize /\ m_high_watermark' \in 0..MaxSize /\ m_last_touched' \in 0..MaxSize
    BY <1>1, Flushed
  <2>4. QED
    BY <1>2, <1>4, <2>1, <2>2, <2>3 DEF TypeOK
<1>7. Sized'
  BY <1>1, <1>3, Flushed DEF Sized
<1>8. Holds'
  BY <1>1 DEF Holds
<1>9. Placed'
  BY <1>1, Flushed DEF Placed
<1>10. Watermark'
  BY <1>1, Flushed DEF Watermark
<1>11. QED
  BY <1>1, <1>3, <1>5, <1>6, <1>7, <1>8, <1>9, <1>10

\* What the client puts is at least one byte.
LEMMA PutsFacts ==
  ASSUME ~EmptyPuts, NEW bs \in Puts
  PROVE  bs \in Seq(Values) /\ bs \in Seq(Bytes) /\ Len(bs) \in Nat \ {0} /\ bs # <<>>
<1>1. PICK n \in 1..MaxPut : bs \in [1..n -> Values]
  BY DEF Puts
<1>2. bs \in Seq(Values) /\ Len(bs) = n /\ n \in Nat \ {0}
  BY <1>1, OutFileBufAssumption
<1>3. QED
  BY <1>2, EmptySeq DEF Bytes

\* OutputSequence speaks of the same operators on bytes.
LEMMA SameOperators ==
  /\ \A f, off, bs : Sequence!Overlay(f, off, bs) = Overlay(f, off, bs)
  /\ \A f, n : Sequence!Resized(f, n) = Resized(f, n)
BY DEF Sequence!Overlay, Overlay, Sequence!Larger, Larger, Sequence!Resized, Resized

\* Bytes go into the buffer behind those it holds: the invariant's part on
\* the sequence, and the write of the output sequence.
LEMMA BufferWrite ==
  ASSUME Inv, NEW bs \in Seq(Values), bs # <<>>, buf' = buf \o bs, UNCHANGED <<file, m_pbase_offset>>
  PROVE  /\ buf' \in Seq(Values) /\ Len(buf') = Len(buf) + Len(bs) /\ Len(bs) \in Nat \ {0} /\ buf' # <<>>
         /\ ppos' = ppos + Len(bs)
         /\ Sequence!Write
<1>1. Len(bs) \in Nat \ {0} /\ bs \in Seq(Bytes)
  BY EmptySeq DEF Bytes
<1>2. buf' \in Seq(Values) /\ Len(buf') = Len(buf) + Len(bs)
  BY Numbers, ConcatProperties
<1>3. buf' # <<>>
  BY <1>1, <1>2, Numbers, EmptySeq
<1>4. ppos' = ppos + Len(bs)
  BY <1>1, <1>2, Numbers DEF ppos
<1>5. content' = Overlay(content, ppos, bs)
  <2>1. Overlay(Overlay(file, m_pbase_offset, buf), m_pbase_offset + Len(buf), bs)
          = Overlay(file, m_pbase_offset, buf \o bs)
    BY <1>1, Numbers, OverlayTwice
  <2>2. QED
    BY <2>1 DEF content, ppos
<1>6. content \in Seq(Bytes) /\ ppos \in Nat
  BY Numbers, OverlayFacts DEF content
<1>7. ppos + Len(bs) <= Len(content') /\ SubSeq(content', ppos + 1, ppos + Len(bs)) = bs
  BY <1>1, <1>5, <1>6, OverlayRead
<1>8. ppos' > ppos /\ ppos' <= Len(content')
  BY <1>1, <1>4, <1>6, <1>7
<1>9. content' = Overlay(content, ppos, SubSeq(content', ppos + 1, ppos'))
  BY <1>4, <1>5, <1>7
<1>10. QED
  BY <1>1, <1>2, <1>3, <1>4, <1>8, <1>9, SameOperators DEF Sequence!Write

\* A file cut or extended at the position.
LEMMA ResizedFacts ==
  ASSUME NEW f \in Seq(Bytes), NEW n \in Nat
  PROVE  Resized(f, n) \in Seq(Bytes) /\ Len(Resized(f, n)) = n
<1> DEFINE e(i) == IF i <= Len(f) THEN f[i] ELSE Zero
           g == [i \in 1..n |-> e(i)]
<1>1. \A i \in 1..n : e(i) \in Bytes
  BY DEF Bytes
<1> HIDE DEF e
<1>2. g \in Seq(Bytes)
  BY <1>1, IsASeq
<1>3. DOMAIN g = 1..Len(g) /\ Len(g) \in Nat
  BY <1>2, LenProperties
<1>4. Len(g) = n
  BY <1>3
<1>5. QED
  BY <1>2, <1>4 DEF Resized, e

\* A buffer that holds nothing stands for the file.
LEMMA CleanContent ==
  ASSUME NEW f \in Seq(Bytes), NEW off \in Nat
  PROVE  Overlay(f, off, <<>>) = f
BY DEF Overlay

-----------------------------------------------------------------------------
(* Every step of a careful client keeps the invariant, and is a step of    *)
(* the output sequence or changes nothing of it.                           *)

Step == Inv' /\ (Sequence!Next \/ UNCHANGED <<content, file, ppos>>)

LEMMA PutFitsStep ==
  ASSUME Careful, ~EmptyPuts, Inv, NEW bs \in Puts, PutFits(bs)
  PROVE  Step
<1> USE DEF Inv
<1>1. bs \in Seq(Values) /\ bs # <<>> /\ Len(bs) \in Nat
  BY PutsFacts
<1>2. /\ m_is_open /\ rest = <<>> /\ CarefulPut /\ Room(Len(bs)) /\ Len(bs) <= Cap - Len(buf)
      /\ buf' = buf \o bs /\ m_dirty' = TRUE /\ fd' = TouchedFd /\ m_last_touched' = TouchedTouched
      /\ UNCHANGED <<file, append, m_is_open, m_pbase_offset, m_high_watermark, rest>>
  BY DEF PutFits, Ready, Fits
<1>3. /\ buf' \in Seq(Values) /\ Len(buf') = Len(buf) + Len(bs) /\ buf' # <<>>
      /\ ppos' = ppos + Len(bs) /\ Sequence!Write
  BY <1>1, <1>2, BufferWrite
<1>4. Len(rest) = 0 /\ Len(rest') = 0
  BY <1>2, EmptySeq
<1>5. fd' \in 0..MaxSize /\ m_last_touched' \in 0..MaxSize
  BY <1>2, Numbers DEF TouchedFd, TouchedTouched, TypeOK
<1>6. TypeOK'
  BY <1>1, <1>2, <1>3, <1>5, Numbers, OutFileBufAssumption DEF TypeOK
<1>7. Sized'
  BY <1>1, <1>2, <1>3, <1>4, Numbers DEF Sized, Room
<1>8. Holds'
  BY <1>2, <1>3 DEF Holds
<1>9. Placed'
  <2>1. ASSUME append PROVE m_pbase_offset = Len(file)
    BY <1>2, <2>1, Numbers DEF Placed, CarefulPut, Watermark
  <2>2. ~append => fd' = m_last_touched'
    BY <1>2, Numbers DEF Placed, TouchedFd, TouchedTouched
  <2>3. QED
    BY <1>2, <2>1, <2>2 DEF Placed
<1>10. Watermark'
  BY <1>1, <1>2, <1>3, Numbers DEF Watermark, Larger
<1>11. QED
  BY <1>3, <1>6, <1>7, <1>8, <1>9, <1>10 DEF Step, Sequence!Next

LEMMA PutOverflowsStep ==
  ASSUME Careful, ~EmptyPuts, Inv, NEW bs \in Puts, PutOverflows(bs)
  PROVE  Step
<1> USE DEF Inv
<1>1. bs \in Seq(Values) /\ bs # <<>> /\ Len(bs) \in Nat
  BY PutsFacts
<1>2. /\ m_is_open /\ CarefulPut /\ Room(Len(bs))
      /\ rest' = bs /\ file' = FlushedFile /\ fd' = IF m_dirty THEN FlushedFd ELSE TouchedFd
      /\ m_high_watermark' = SetHighWatermark /\ m_last_touched' = ppos /\ m_pbase_offset' = ppos
      /\ buf' = <<>> /\ m_dirty' = FALSE /\ UNCHANGED <<append, m_is_open>>
  BY DEF PutOverflows, Ready
<1>3. buf' \in Seq(Values) /\ Len(buf') = 0
  BY <1>2, EmptySeq
<1>4. file' = content /\ file' \in Seq(Bytes) /\ m_high_watermark' = Len(content) /\ Len(content) \in 0..MaxSize
  BY <1>2, Flushed
<1>5. ppos' = ppos /\ ppos \in 0..MaxSize
  BY <1>2, <1>3, Numbers DEF ppos
<1>6. fd' \in 0..MaxSize /\ (~append => fd' = ppos)
  <2>1. CASE m_dirty
    BY <1>2, <2>1, Flushed DEF FlushedTouched
  <2>2. CASE ~m_dirty
    BY <1>2, <1>5, <2>2 DEF TouchedFd, TypeOK, Placed
  <2>3. QED
    BY <2>1, <2>2
<1>7. append => ppos = Len(content)
  <2>1. CASE m_dirty
    BY <1>2, <2>1, Flushed
  <2>2. CASE ~m_dirty
    BY <1>2, <2>2, Flushed DEF CarefulPut, Watermark
  <2>3. QED
    BY <2>1, <2>2
<1>8. content' = content
  BY <1>2, <1>4, <1>5, CleanContent DEF content
<1>9. TypeOK'
  <2>1. m_dirty' \in BOOLEAN /\ append' \in BOOLEAN /\ m_is_open' \in BOOLEAN
    BY <1>2 DEF TypeOK
  <2>2. Len(buf') <= Cap
    BY <1>3, OutFileBufAssumption
  <2>3. m_pbase_offset' \in 0..MaxSize /\ m_high_watermark' \in 0..MaxSize /\ m_last_touched' \in 0..MaxSize
    BY <1>2, <1>4, <1>5
  <2>4. QED
    BY <1>1, <1>2, <1>3, <1>4, <1>6, <2>1, <2>2, <2>3 DEF TypeOK
<1>10. Sized'
  BY <1>1, <1>2, <1>4, <1>5 DEF Sized, Room
<1>11. Holds'
  BY <1>2 DEF Holds
<1>12. Placed'
  BY <1>2, <1>4, <1>6, <1>7 DEF Placed
<1>13. Watermark'
  BY <1>2, <1>4 DEF Watermark
<1>14. Sequence!Sync
  BY <1>4, <1>5, <1>8 DEF Sequence!Sync
<1>15. QED
  BY <1>9, <1>10, <1>11, <1>12, <1>13, <1>14 DEF Step, Sequence!Next

\* Where the bytes of a putn come apart.
LEMMA Chunk ==
  ASSUME NEW n \in Nat, NEW q \in Seq(Values), n <= Len(q)
  PROVE  /\ SubSeq(q, 1, n) \in Seq(Values) /\ Len(SubSeq(q, 1, n)) = n
         /\ SubSeq(q, n + 1, Len(q)) \in Seq(Values) /\ Len(SubSeq(q, n + 1, Len(q))) = Len(q) - n
<1>1. \A i \in 1..n : q[i] \in Values
  OBVIOUS
<1>2. SubSeq(q, 1, n) \in Seq(Values) /\ Len(SubSeq(q, 1, n)) = IF 1 <= n THEN n - 1 + 1 ELSE 0
  BY <1>1, SubSeqProperties
<1>3. PICK m, l : m = n + 1 /\ l = Len(q)
  OBVIOUS
<1>4. m \in Nat /\ l \in Nat /\ \A i \in m..l : q[i] \in Values
  BY <1>3
<1>5. SubSeq(q, m, l) \in Seq(Values) /\ Len(SubSeq(q, m, l)) = IF m <= l THEN l - m + 1 ELSE 0
  BY <1>4, SubSeqProperties
<1>6. QED
  BY <1>2, <1>3, <1>5

LEMMA PutChunkStep ==
  ASSUME Inv, PutChunk
  PROVE  Step
<1> USE DEF Inv
<1>1. PICK n : n = Smaller(Len(rest), Cap - Len(buf))
  OBVIOUS
<1>2. /\ rest # <<>> /\ Len(buf) < Cap /\ m_is_open
      /\ buf' = buf \o SubSeq(rest, 1, n) /\ rest' = SubSeq(rest, n + 1, Len(rest)) /\ m_dirty' = TRUE
      /\ UNCHANGED <<file, fd, append, m_is_open, m_pbase_offset, m_high_watermark, m_last_touched>>
  BY <1>1 DEF PutChunk, Holds
<1>3. Len(rest) \in Nat \ {0}
  BY <1>2, Numbers, EmptySeq
<1>4. n \in Nat \ {0} /\ n <= Len(rest) /\ n <= Cap - Len(buf)
  BY <1>1, <1>2, <1>3, Numbers, OutFileBufAssumption DEF Smaller
<1>5. PICK bs : bs = SubSeq(rest, 1, n)
  OBVIOUS
<1>6. bs \in Seq(Values) /\ Len(bs) = n /\ rest' \in Seq(Values) /\ Len(rest') = Len(rest) - n
  BY <1>2, <1>4, <1>5, Numbers, Chunk
<1>7. bs # <<>>
  BY <1>4, <1>6, EmptySeq
<1>8. /\ buf' \in Seq(Values) /\ Len(buf') = Len(buf) + n /\ buf' # <<>>
      /\ ppos' = ppos + n /\ Sequence!Write
  BY <1>2, <1>5, <1>6, <1>7, BufferWrite
<1>9. TypeOK'
  <2>1. Len(buf') <= Cap
    <3>1. Len(buf) \in Nat /\ Cap \in Nat
      BY Numbers, OutFileBufAssumption
    <3>2. QED
      BY <1>4, <1>8, <3>1
  <2>2. m_dirty' \in BOOLEAN
    BY <1>2
  <2>3. QED
    BY <1>2, <1>6, <1>8, <2>1, <2>2 DEF TypeOK
<1>10. Sized'
  <2>1. ppos \in Nat /\ Len(rest) \in Nat /\ ppos + Len(rest) <= MaxSize /\ MaxSize \in Nat
    BY Numbers DEF Sized
  <2>2. ppos' + Len(rest') <= MaxSize
    BY <1>4, <1>6, <1>8, <2>1
  <2>3. QED
    BY <1>2, <2>2 DEF Sized
<1>11. Holds'
  BY <1>2, <1>8 DEF Holds
<1>12. Placed'
  BY <1>2 DEF Placed
<1>13. Watermark'
  BY <1>2, <1>4, <1>8, Numbers DEF Watermark, Larger
<1>14. QED
  BY <1>8, <1>9, <1>10, <1>11, <1>12, <1>13 DEF Step, Sequence!Next

LEMMA TruncateStep ==
  ASSUME Careful, Inv, Truncate
  PROVE  Step
<1> USE DEF Inv
<1>1. /\ m_is_open /\ rest = <<>> /\ CarefulTruncate /\ file' = Resized(content, ppos) /\ fd' = FlushedFd
      /\ m_pbase_offset' = ppos /\ buf' = <<>> /\ m_dirty' = FALSE /\ m_high_watermark' = ppos
      /\ m_last_touched' = ppos /\ UNCHANGED <<append, m_is_open, rest>>
  BY Flushed DEF Truncate, FlushWith, Ready
<1>2. content \in Seq(Bytes) /\ ppos \in Nat /\ ppos \in 0..MaxSize /\ fd' \in 0..MaxSize
  BY <1>1, Numbers, Flushed
<1>3. file' \in Seq(Bytes) /\ Len(file') = ppos
  BY <1>1, <1>2, ResizedFacts
<1>4. buf' \in Seq(Values) /\ Len(buf') = 0 /\ Len(rest') = 0
  BY <1>1, EmptySeq
<1>5. ppos' = ppos
  BY <1>1, <1>2, <1>4 DEF ppos
<1>6. content' = file'
  BY <1>1, <1>2, <1>3, CleanContent DEF content
<1>7. TypeOK'
  <2>1. m_dirty' \in BOOLEAN /\ append' \in BOOLEAN /\ m_is_open' \in BOOLEAN /\ rest' \in Seq(Values)
    BY <1>1 DEF TypeOK
  <2>2. Len(buf') <= Cap
    BY <1>4, OutFileBufAssumption
  <2>3. QED
    BY <1>1, <1>2, <1>3, <1>4, <2>1, <2>2 DEF TypeOK
<1>8. Sized'
  BY <1>2, <1>3, <1>4, <1>5 DEF Sized
<1>9. Holds'
  BY <1>1 DEF Holds
<1>10. Placed'
  BY <1>1 DEF Placed, CarefulTruncate
<1>11. Watermark'
  BY <1>1, <1>2, <1>3 DEF Watermark
<1>12. Sequence!Truncate
  BY <1>1, <1>5, <1>6, SameOperators DEF Sequence!Truncate
<1>13. QED
  BY <1>7, <1>8, <1>9, <1>10, <1>11, <1>12 DEF Step, Sequence!Next

\* A closed buffer: the part of the invariant on an open one says nothing.
LEMMA OpenStep ==
  ASSUME Inv, NEW mode \in Modes, Open(mode)
  PROVE  Step
<1> USE DEF Inv
<1>1. PICK found, start : /\ found = IF mode = "truncate" THEN <<>> ELSE file
                          /\ start = IF mode \in {"at_end", "append"} THEN Len(found) ELSE 0
  OBVIOUS
<1>2. /\ ~m_is_open /\ m_is_open' = TRUE /\ append' = (mode = "append") /\ file' = found /\ fd' = start
      /\ m_high_watermark' = Len(found) /\ m_pbase_offset' = start /\ m_last_touched' = start
      /\ buf' = <<>> /\ m_dirty' = FALSE /\ rest' = rest
  BY <1>1 DEF Open
<1>3. rest' = <<>> /\ Len(rest') = 0 /\ rest' \in Seq(Values)
  BY <1>2, EmptySeq DEF Holds
<1>4. found \in Seq(Bytes) /\ Len(found) \in 0..MaxSize /\ start \in 0..MaxSize /\ start \in {0, Len(found)}
  BY <1>1, Numbers, EmptySeq DEF Sized
<1>5. buf' \in Seq(Values) /\ Len(buf') = 0
  BY <1>2, EmptySeq
<1>6. ppos' = start
  BY <1>2, <1>4, <1>5 DEF ppos
<1>7. content' = found
  BY <1>2, <1>4, CleanContent DEF content
<1>8. TypeOK'
  <2>1. m_dirty' \in BOOLEAN /\ append' \in BOOLEAN /\ m_is_open' \in BOOLEAN
    BY <1>2
  <2>2. Len(buf') <= Cap
    BY <1>5, OutFileBufAssumption
  <2>3. QED
    BY <1>2, <1>3, <1>4, <1>5, <2>1, <2>2 DEF TypeOK
<1>9. Sized'
  BY <1>2, <1>3, <1>4, <1>6 DEF Sized
<1>10. Holds'
  BY <1>2 DEF Holds
<1>11. Placed'
  BY <1>2, <1>3 DEF Placed
<1>12. Watermark'
  BY <1>2, <1>4 DEF Watermark
<1>13. Sequence!Open
  <2>1. content' \in {file, <<>>}
    BY <1>1, <1>7
  <2>2. file' = content'
    BY <1>2, <1>7
  <2>3. ppos' \in {0, Len(content')}
    BY <1>4, <1>6, <1>7
  <2>4. QED
    BY <2>1, <2>2, <2>3 DEF Sequence!Open
<1>14. QED
  BY <1>8, <1>9, <1>10, <1>11, <1>12, <1>13 DEF Step, Sequence!Next

LEMMA DropStep ==
  ASSUME Inv, Drop
  PROVE  Step
<1> USE DEF Inv
<1>1. /\ m_is_open' = FALSE /\ m_pbase_offset' = 0 /\ buf' = <<>> /\ m_dirty' = FALSE
      /\ m_high_watermark' = 0 /\ m_last_touched' = 0 /\ rest' = <<>> /\ UNCHANGED <<file, fd, append>>
  BY DEF Drop
<1>2. buf' \in Seq(Values) /\ Len(buf') = 0 /\ rest' \in Seq(Values) /\ Len(rest') = 0
  BY <1>1, EmptySeq
<1>3. ppos' = 0
  BY <1>1, <1>2 DEF ppos
<1>4. content' = file /\ file' = file
  BY <1>1, Numbers, CleanContent DEF content
<1>5. TypeOK'
  <2>1. m_dirty' \in BOOLEAN /\ append' \in BOOLEAN /\ m_is_open' \in BOOLEAN /\ file' \in Seq(Bytes) /\ fd' \in 0..MaxSize
    BY <1>1 DEF TypeOK
  <2>2. Len(buf') <= Cap /\ 0 \in 0..MaxSize
    BY <1>2, OutFileBufAssumption
  <2>3. QED
    BY <1>1, <1>2, <2>1, <2>2 DEF TypeOK
<1>6. Sized'
  BY <1>2, <1>3, <1>4, OutFileBufAssumption DEF Sized
<1>7. Holds' /\ Placed' /\ Watermark'
  BY <1>1 DEF Holds, Placed, Watermark
<1>8. Sequence!Open
  BY <1>3, <1>4 DEF Sequence!Open
<1>9. QED
  BY <1>5, <1>6, <1>7, <1>8 DEF Step, Sequence!Next

LEMMA EveryStep ==
  ASSUME Careful, ~EmptyPuts, Inv, [Next]_vars
  PROVE  Step
<1>1. ASSUME NEW bs \in Puts, PutFits(bs) PROVE Step
  BY <1>1, PutFitsStep
<1>2. ASSUME NEW bs \in Puts, PutOverflows(bs) PROVE Step
  BY <1>2, PutOverflowsStep
<1>3. CASE PutChunk
  BY <1>3, PutChunkStep
<1>4. CASE PutFlush
  <2>1. /\ rest # <<>> /\ Len(buf) = Cap /\ UNCHANGED <<m_is_open, rest>>
        /\ FlushWith(ppos, FlushedFile, SetHighWatermark, FlushedTouched)
    BY <1>4 DEF PutFlush
  <2>2. m_is_open /\ m_is_open' \in BOOLEAN
    BY <2>1 DEF Inv, Holds, TypeOK
  <2>3. m_dirty /\ ppos \in 0..MaxSize /\ ppos + Len(rest) <= MaxSize
    BY <2>1, Numbers, OutFileBufAssumption DEF Inv, Sized
  <2>4. Inv' /\ content' = content /\ file' = content /\ ppos' = ppos
    BY <2>1, <2>2, <2>3, FlushInv
  <2>5. QED
    BY <2>4 DEF Step, Sequence!Next, Sequence!Sync
<1>5. CASE PutFails
  <2>1. /\ rest # <<>> /\ Len(buf) = Cap /\ rest' = <<>>
        /\ UNCHANGED <<file, fd, append, m_is_open, m_pbase_offset, buf, m_dirty, m_high_watermark, m_last_touched>>
    BY <1>5 DEF PutFails
  <2>2. rest' \in Seq(Values) /\ Len(rest') = 0
    BY <2>1, EmptySeq
  <2>3. ppos' = ppos /\ content' = content
    BY <2>1 DEF ppos, content
  <2>4. TypeOK' /\ Holds' /\ Placed' /\ Watermark'
    BY <2>1, <2>2, <2>3 DEF Inv, TypeOK, Holds, Placed, Watermark
  <2>5. Sized'
    BY <2>1, <2>2, <2>3, Numbers DEF Inv, Sized
  <2>6. QED
    BY <2>1, <2>3, <2>4, <2>5 DEF Step, Inv
<1>6. CASE Flush
  <2>1. /\ m_is_open /\ rest = <<>> /\ UNCHANGED <<m_is_open, rest>>
        /\ FlushWith(ppos, FlushedFile, SetHighWatermark, FlushedTouched)
    BY <1>6 DEF Flush, Ready
  <2>2. m_is_open' \in BOOLEAN /\ ppos \in 0..MaxSize /\ ppos + Len(rest) <= MaxSize
    BY <2>1, Numbers DEF Inv, Sized, TypeOK
  <2>3. Inv' /\ content' = content /\ file' = content /\ ppos' = ppos
    BY <2>1, <2>2, FlushInv
  <2>4. QED
    BY <2>3 DEF Step, Sequence!Next, Sequence!Sync
<1>7. ASSUME NEW where \in {"begin", "current", "end"}, NEW offset \in -MaxSize..MaxSize, Seek(where, offset)
      PROVE  Step
  <2>1. PICK result : result = offset + CASE where = "begin" -> 0
                                          [] where = "current" -> ppos
                                          [] where = "end" -> SetHighWatermark
    OBVIOUS
  <2>2. PICK p : p = IF result < 0 THEN ppos ELSE result
    OBVIOUS
  <2>3. /\ m_is_open /\ rest = <<>> /\ result <= MaxSize /\ UNCHANGED <<m_is_open, rest>>
        /\ FlushWith(p, FlushedFile, SetHighWatermark, FlushedTouched)
    BY <1>7, <2>1, <2>2 DEF Seek, Ready
  <2>4. SetHighWatermark \in Nat /\ ppos \in 0..MaxSize /\ MaxSize \in Nat
    BY <2>3, Flushed, Numbers
  <2>5. result \in Int
    BY <1>7, <2>1, <2>4
  <2>6. p \in 0..MaxSize /\ Len(rest) = 0
    BY <2>2, <2>3, <2>4, <2>5, EmptySeq
  <2>7. m_is_open' \in BOOLEAN /\ p + Len(rest) <= MaxSize
    BY <2>3, <2>4, <2>6 DEF Inv, TypeOK
  <2>8. Inv' /\ content' = content /\ file' = content /\ ppos' = p
    BY <2>3, <2>6, <2>7, FlushInv
  <2>9. QED
    BY <2>6, <2>8 DEF Step, Sequence!Next, Sequence!Seek
<1>8. CASE TellEnd
  <2>1. /\ m_is_open /\ m_high_watermark' = SetHighWatermark
        /\ UNCHANGED <<file, fd, append, m_is_open, m_pbase_offset, buf, m_dirty, m_last_touched, rest>>
    BY <1>8 DEF TellEnd, Ready
  <2>2. ppos' = ppos /\ content' = content
    BY <2>1 DEF ppos, content
  <2>3. SetHighWatermark \in 0..MaxSize
    BY <2>1, Flushed
  <2>4. Watermark'
    BY <2>1, <2>2, Numbers DEF Inv, Watermark, SetHighWatermark, Larger
  <2>5. TypeOK' /\ Sized' /\ Holds' /\ Placed'
    BY <2>1, <2>2, <2>3 DEF Inv, TypeOK, Sized, Holds, Placed
  <2>6. QED
    BY <2>1, <2>2, <2>4, <2>5 DEF Step, Inv
<1>9. CASE Truncate
  BY <1>9, TruncateStep
<1>10. CASE Close
  <2>1. /\ m_is_open /\ rest = <<>> /\ m_is_open' = FALSE /\ UNCHANGED rest
        /\ FlushWith(ppos, FlushedFile, SetHighWatermark, FlushedTouched)
    BY <1>10 DEF Close, Ready
  <2>2. m_is_open' \in BOOLEAN /\ ppos \in 0..MaxSize /\ ppos + Len(rest) <= MaxSize
    BY <2>1, Numbers DEF Inv, Sized
  <2>3. Inv' /\ content' = content /\ file' = content /\ ppos' = ppos
    BY <2>1, <2>2, FlushInv
  <2>4. QED
    BY <2>3 DEF Step, Sequence!Next, Sequence!Sync
<1>11. CASE Drop
  BY <1>11, DropStep
<1>12. ASSUME NEW mode \in Modes, Open(mode) PROVE Step
  BY <1>12, OpenStep
<1>13. CASE UNCHANGED vars
  BY <1>13 DEF vars, Step, Inv, TypeOK, Sized, Holds, Placed, Watermark, ppos, content
<1>14. QED
  BY <1>1, <1>2, <1>3, <1>4, <1>5, <1>6, <1>7, <1>8, <1>9, <1>10, <1>11, <1>12, <1>13 DEF Next

-----------------------------------------------------------------------------

LEMMA InitInv == Init => Inv /\ Sequence!Init
<1> SUFFICES ASSUME Init PROVE Inv /\ Sequence!Init
  OBVIOUS
<1>1. /\ file \in Seq(Bytes) /\ buf \in Seq(Values) /\ rest \in Seq(Values)
      /\ Len(file) = 0 /\ Len(buf) = 0 /\ Len(rest) = 0
  BY EmptySeq DEF Init
<1>2. /\ append \in BOOLEAN /\ m_is_open \in BOOLEAN /\ m_dirty \in BOOLEAN
      /\ fd = 0 /\ m_pbase_offset = 0 /\ m_high_watermark = 0 /\ m_last_touched = 0
      /\ m_is_open = FALSE /\ m_dirty = FALSE /\ buf = <<>> /\ rest = <<>>
  BY DEF Init
<1>3. ppos = 0 /\ content = file
  <2>1. Overlay(file, m_pbase_offset, buf) = file
    BY <1>2 DEF Overlay
  <2>2. QED
    BY <1>1, <1>2, <2>1 DEF ppos, content
<1>4. TypeOK
  BY <1>1, <1>2, OutFileBufAssumption DEF TypeOK
<1>5. Sized /\ Holds /\ Placed /\ Watermark
  BY <1>1, <1>2, <1>3, OutFileBufAssumption DEF Sized, Holds, Placed, Watermark
<1>6. QED
  BY <1>3, <1>4, <1>5 DEF Inv, Sequence!Init

\* The invariant behind the theorems.
THEOREM Invariance ==
  ASSUME Careful, ~EmptyPuts
  PROVE  Spec => []Inv
<1>1. Inv /\ [Next]_vars => Inv'
  BY EveryStep DEF Step
<1>2. QED
  BY InitInv, <1>1, PTL DEF Spec

\* Every variable has its type.
THEOREM TypeCorrect ==
  ASSUME Careful, ~EmptyPuts
  PROVE  Spec => []TypeOK
<1>1. Inv => TypeOK
  BY DEF Inv
<1>2. QED
  BY Invariance, <1>1, PTL

\* What tell( end ) returns and seek counts from is the size of the sequence.
THEOREM EndIsSize ==
  ASSUME Careful, ~EmptyPuts
  PROVE  Spec => []HighWatermarkIsSize
<1>1. Inv => HighWatermarkIsSize
  BY Flushed DEF HighWatermarkIsSize
<1>2. QED
  BY Invariance, <1>1, PTL

\* The assertion of really_flush holds whenever flush is called.
THEOREM FlushIsSafe ==
  ASSUME Careful, ~EmptyPuts
  PROVE  Spec => []FlushNeverAborts
<1>1. Inv => FlushNeverAborts
  BY DEF Inv, Holds, FlushNeverAborts, FlushAsserts
<1>2. QED
  BY Invariance, <1>1, PTL

\* obfilebuf implements the output sequence: every byte ends up where it was
\* put, and what is lost with the buffer is what was not flushed.
THEOREM Implementation ==
  ASSUME Careful, ~EmptyPuts
  PROVE  Spec => ImplementsOutputSequence
<1>1. Inv /\ [Next]_vars => Inv'
  BY EveryStep DEF Step
<1>2. Init => Inv /\ Sequence!Init
  BY InitInv
<1>3. Inv /\ [Next]_vars => [Sequence!Next]_(Sequence!seqvars)
  BY EveryStep DEF Step, Sequence!seqvars
<1>4. QED
  BY <1>1, <1>2, <1>3, PTL DEF Spec, ImplementsOutputSequence, Sequence!Spec
=============================================================================

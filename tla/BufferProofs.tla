---------------------------- MODULE BufferProofs ----------------------------
(***************************************************************************)
(* obmembuf implements the output sequence and keeps the slices it lends,  *)
(* and ibfilebuf implements the input sequence, for buffers, files and     *)
(* writes of any size and a careful client.                                *)
(***************************************************************************)
EXTENDS OutMemBuf, InFileBuf, SequenceTheorems, TLAPS

-----------------------------------------------------------------------------
(* obmembuf: the same sequence, kept in memory that is lent out.           *)

\* The place that was touched last is not behind the end, so that a put there has
\* no hole to fill; and a block that is lent is not taken for writable, so that
\* a put leaves it to the slice and goes on with a copy.
MemInv ==
  /\ TypeOK
  /\ next <= MaxSize
  /\ m_last_touched <= SetHighWatermark
  /\ lent => ~m_writable
  /\ slice = given

\* A function over 1..n is a sequence of length n.
LEMMA FunctionIsSeq ==
  ASSUME NEW S, NEW n \in Nat, NEW g, g \in [1..n -> S]
  PROVE  g \in Seq(S) /\ Len(g) = n /\ DOMAIN g = 1..n
OBVIOUS

\* A prefix.
LEMMA PrefixFacts ==
  ASSUME NEW S, NEW f \in Seq(S), NEW n \in 0..Len(f)
  PROVE  /\ SubSeq(f, 1, n) \in Seq(S) /\ Len(SubSeq(f, 1, n)) = n
         /\ \A i \in 1..n : SubSeq(f, 1, n)[i] = f[i]
<1>1. n \in Nat /\ Len(f) \in Nat /\ \A i \in 1..n : f[i] \in S
  BY LenProperties
<1>2. SubSeq(f, 1, n) = [i \in 1..n |-> f[i]]
  BY <1>1
<1>3. QED
  BY <1>1, <1>2

\* The memory after it has grown to hold size bytes.
LEMMA GrownFacts ==
  ASSUME NEW m \in Seq(Bytes), NEW size \in Nat, Len(m) <= size
  PROVE  /\ Grown(m, size) \in Seq(Bytes) /\ Len(Grown(m, size)) \in Nat
         /\ Len(Grown(m, size)) >= size
         /\ \A i \in 1..Len(m) : Grown(m, size)[i] = m[i]
<1>1. PICK n : n = Larger(MinSize, (size * 3) \div 2)
  OBVIOUS
<1>2. n \in Nat /\ n >= size
  <2>1. (size * 3) \div 2 \in Nat /\ (size * 3) \div 2 >= size
    OBVIOUS
  <2>2. MinSize \in Nat
    BY OutMemBufAssumption
  <2>3. QED
    BY <1>1, <2>1, <2>2 DEF Larger
<1>3. PICK g : g = [i \in 1..n |-> IF i <= Len(m) THEN m[i] ELSE Garbage]
  OBVIOUS
<1>4. Grown(m, size) = g
  BY <1>1, <1>3 DEF Grown
<1>5. g \in [1..n -> Bytes]
  <2>1. Len(m) \in Nat /\ \A i \in 1..Len(m) : m[i] \in Bytes
    BY LenProperties
  <2>2. Garbage \in Bytes
    BY DEF Bytes
  <2>3. QED
    BY <1>2, <1>3, <2>1, <2>2
<1>6. g \in Seq(Bytes) /\ Len(g) = n
  BY <1>2, <1>5, FunctionIsSeq
<1>7. \A i \in 1..Len(m) : g[i] = m[i]
  BY <1>2, <1>3, LenProperties
<1>8. QED
  BY <1>2, <1>4, <1>6, <1>7

\* The numbers.
LEMMA MemNumbers ==
  ASSUME MemInv
  PROVE  /\ Len(mem) \in Nat /\ next \in Nat /\ next <= Len(mem) /\ MaxSize \in Nat /\ next <= MaxSize
         /\ m_high_watermark \in Nat /\ m_high_watermark <= Len(mem)
         /\ m_last_touched \in Nat /\ m_last_touched <= MaxSize
         /\ SetHighWatermark \in Nat /\ SetHighWatermark <= Len(mem)
         /\ m_dirty => next <= SetHighWatermark
         /\ m_high_watermark <= SetHighWatermark
         /\ ~m_dirty => SetHighWatermark = m_high_watermark
<1>1. Len(mem) \in Nat
  BY LenProperties DEF MemInv, TypeOK
<1>2. QED
  BY <1>1, OutMemBufAssumption DEF MemInv, TypeOK, SetHighWatermark, Larger

\* What the client sees of the memory.
LEMMA MemContent ==
  ASSUME MemInv
  PROVE  /\ content \in Seq(Bytes) /\ Len(content) = SetHighWatermark
         /\ \A i \in 1..SetHighWatermark : content[i] = mem[i]
<1>1. mem \in Seq(Bytes) /\ SetHighWatermark \in 0..Len(mem)
  BY MemNumbers DEF MemInv, TypeOK
<1>2. QED
  BY <1>1, PrefixFacts DEF content

\* The memory a put starts from: a copy if it is shared, with the hole below the
\* position filled. Only bytes behind both the position and the end are lost.
LEMMA TouchedFacts ==
  ASSUME MemInv, NEW m, m = Touched(Unshared)
  PROVE  /\ m \in Seq(Bytes) /\ Len(m) = Len(mem)
         /\ CarefulPut =>
              /\ \A i \in 1..SetHighWatermark : m[i] = mem[i]
              /\ \A i \in 1..next : i > SetHighWatermark => m[i] = Zero
<1>1. PICK n : n = Len(mem)
  OBVIOUS
<1>2. n \in Nat /\ mem \in [1..n -> Bytes] /\ mem \in Seq(Bytes)
  BY <1>1, LenProperties DEF MemInv, TypeOK
<1>3. Garbage \in Bytes /\ Zero \in Bytes
  BY DEF Bytes
<1>4. PICK u : u = Unshared
  OBVIOUS
<1>5. u \in [1..n -> Bytes]
  BY <1>1, <1>2, <1>3, <1>4 DEF Unshared
<1>6. u \in Seq(Bytes) /\ Len(u) = n
  BY <1>2, <1>5, FunctionIsSeq
<1>7. m = IF ~m_dirty /\ m_last_touched # next
            THEN [i \in 1..n |-> IF i > m_high_watermark /\ i <= next THEN Zero ELSE u[i]] ELSE u
  BY <1>4, <1>6 DEF Touched
<1>8. m \in [1..n -> Bytes]
  BY <1>3, <1>5, <1>7
<1>9. m \in Seq(Bytes) /\ Len(m) = n
  BY <1>2, <1>8, FunctionIsSeq
<1>10. ASSUME CarefulPut, NEW i \in 1..SetHighWatermark PROVE m[i] = mem[i]
  <2>1. i \in 1..n
    BY <1>1, MemNumbers
  <2>2. u[i] = mem[i]
    <3>1. CASE m_writable \/ ~lent
      BY <1>4, <3>1 DEF Unshared, IsUnique
    <3>2. CASE ~m_writable /\ lent
      <4>1. i <= next
        BY <1>10, <3>2, MemNumbers DEF CarefulPut
      <4>2. QED
        BY <1>1, <1>4, <2>1, <3>2, <4>1 DEF Unshared, IsUnique
    <3>3. QED
      BY <3>1, <3>2
  <2>3. ~m_dirty => ~(i > m_high_watermark)
    BY MemNumbers
  <2>4. QED
    BY <1>7, <2>1, <2>2, <2>3
<1>11. ASSUME NEW i \in 1..next, i > SetHighWatermark PROVE m[i] = Zero
  <2>1. i \in 1..n
    BY <1>1, MemNumbers
  <2>2. ~m_dirty /\ m_last_touched # next /\ i > m_high_watermark /\ i <= next
    BY <1>11, MemNumbers DEF MemInv
  <2>3. QED
    BY <1>7, <2>1, <2>2
<1>12. QED
  BY <1>1, <1>9, <1>10, <1>11

\* A put of bs: the memory, and where the sequence ends.
LEMMA PutMemory ==
  ASSUME MemInv, NEW bs \in Puts, Put(bs)
  PROVE  /\ Len(bs) \in Nat \ {0}
         /\ mem' \in Seq(Bytes) /\ Len(mem') \in Nat /\ next + Len(bs) <= Len(mem') /\ Len(mem) <= Len(mem')
         /\ SetHighWatermark' = Larger(SetHighWatermark, next + Len(bs))
         /\ m_high_watermark' \in Nat /\ m_high_watermark' <= SetHighWatermark'
         /\ \A i \in 1..Len(mem') : i > next /\ i <= next + Len(bs) => mem'[i] = bs[i - next]
         /\ \A i \in 1..Len(mem) : ~(i > next /\ i <= next + Len(bs)) => mem'[i] = Touched(Unshared)[i]
<1>1. PICK l \in 1..MaxPut : bs \in [1..l -> Values]
  BY DEF Puts
<1>2. l \in Nat \ {0} /\ Len(bs) = l /\ \A k \in 1..l : bs[k] \in Values
  BY <1>1, OutMemBufAssumption
<1>3. PICK old : old = Touched(Unshared)
  OBVIOUS
<1>4. old \in Seq(Bytes) /\ Len(old) = Len(mem)
  BY <1>3, TouchedFacts
<1>5. PICK room : room = IF Fits(l) THEN old ELSE Grown(old, next + l)
  OBVIOUS
<1>6. /\ room \in Seq(Bytes) /\ Len(room) \in Nat /\ next + l <= Len(room) /\ Len(mem) <= Len(room)
      /\ \A i \in 1..Len(mem) : room[i] = old[i]
  <2>1. CASE Fits(l)
    BY <1>2, <1>4, <1>5, <2>1, MemNumbers DEF Fits
  <2>2. CASE ~Fits(l)
    <3>1. next + l \in Nat /\ Len(old) <= next + l
      BY <1>2, <1>4, <2>2, MemNumbers DEF Fits
    <3>2. /\ Grown(old, next + l) \in Seq(Bytes) /\ Len(Grown(old, next + l)) \in Nat
          /\ Len(Grown(old, next + l)) >= next + l
          /\ \A i \in 1..Len(old) : Grown(old, next + l)[i] = old[i]
      BY <1>4, <3>1, GrownFacts
    <3>3. QED
      BY <1>4, <1>5, <2>2, <3>1, <3>2, MemNumbers
  <2>3. QED
    BY <2>1, <2>2
<1>7. mem' = [i \in 1..Len(room) |-> IF i > next /\ i <= next + l THEN bs[i - next] ELSE room[i]]
  BY <1>2, <1>3, <1>5 DEF Put
<1>8. mem' \in [1..Len(room) -> Bytes]
  <2>1. ASSUME NEW i \in 1..Len(room) PROVE (IF i > next /\ i <= next + l THEN bs[i - next] ELSE room[i]) \in Bytes
    <3>1. CASE i > next /\ i <= next + l
      <4>1. i - next \in 1..l
        BY <1>2, <1>6, <3>1, MemNumbers
      <4>2. QED
        BY <1>2, <3>1, <4>1 DEF Bytes
    <3>2. CASE ~(i > next /\ i <= next + l)
      BY <1>6, <3>2, LenProperties
    <3>3. QED
      BY <3>1, <3>2
  <2>2. QED
    BY <1>7, <2>1
<1>9. mem' \in Seq(Bytes) /\ Len(mem') = Len(room)
  BY <1>6, <1>8, FunctionIsSeq
<1>10. \A i \in 1..Len(mem') : i > next /\ i <= next + l => mem'[i] = bs[i - next]
  BY <1>7, <1>9
<1>11. \A i \in 1..Len(mem) : ~(i > next /\ i <= next + l) => mem'[i] = old[i]
  BY <1>6, <1>7, MemNumbers
<1>12. /\ SetHighWatermark' = Larger(SetHighWatermark, next + l)
       /\ m_high_watermark' \in Nat /\ m_high_watermark' <= SetHighWatermark'
  <2>1. /\ next' = next + l /\ m_dirty' = TRUE
        /\ \/ m_dirty /\ m_high_watermark' = m_high_watermark
           \/ m_dirty /\ m_high_watermark' = SetHighWatermark
           \/ ~m_dirty /\ m_high_watermark' = Larger(m_high_watermark, next)
           \/ ~m_dirty /\ m_high_watermark' = m_high_watermark
    BY <1>2 DEF Put
  <2>2. SetHighWatermark' = Larger(m_high_watermark', next + l)
    BY <2>1 DEF SetHighWatermark, Larger
  <2>3. SetHighWatermark = IF m_dirty THEN Larger(m_high_watermark, next) ELSE m_high_watermark
    BY DEF SetHighWatermark
  <2>4. QED
    BY <1>2, <2>1, <2>2, <2>3, MemNumbers DEF Larger
<1>13. QED
  BY <1>2, <1>3, <1>6, <1>9, <1>10, <1>11, <1>12

\* The operators that the sequence shares with the buffer.
LEMMA MemSameOperators ==
  \A f, off, bs : Sequence!Overlay(f, off, bs) = Overlay(f, off, bs)
BY DEF Sequence!Overlay, Overlay, Sequence!Larger, Larger

\* A step keeps the numbers right.
LEMMA PutInv ==
  ASSUME MemInv, NEW bs \in Puts, Put(bs)
  PROVE  MemInv'
<1>1. PICK l : l = Len(bs)
  OBVIOUS
<1>2. /\ l \in Nat \ {0} /\ mem' \in Seq(Bytes) /\ Len(mem') \in Nat /\ next + l <= Len(mem') /\ Len(mem) <= Len(mem')
      /\ SetHighWatermark' = Larger(SetHighWatermark, next + l)
      /\ m_high_watermark' \in Nat /\ m_high_watermark' <= SetHighWatermark'
  BY <1>1, PutMemory
<1>3. /\ next' = next + l /\ next + l <= MaxSize /\ m_dirty' = TRUE /\ m_writable' = TRUE
      /\ (m_last_touched' = m_last_touched \/ m_last_touched' = next)
      /\ UNCHANGED given
  BY <1>1 DEF Put
<1>4. lent' = FALSE
  BY DEF Put, StillLent, IsUnique, MemInv
<1>5. slice' \in Seq(Bytes) /\ given' \in Seq(Bytes) /\ slice' = given'
  <2>1. slice \in Seq(Bytes) /\ given \in Seq(Bytes) /\ slice = given
    BY DEF MemInv, TypeOK
  <2>2. slice' = slice
    BY DEF Put, StillLent, IsUnique, MemInv
  <2>3. QED
    BY <1>3, <2>1, <2>2
<1>6. lent' \in BOOLEAN /\ (lent' => ~m_writable') /\ m_writable' \in BOOLEAN /\ m_dirty' \in BOOLEAN
  BY <1>3, <1>4
<1>7. /\ next' \in 0..Len(mem') /\ next' <= MaxSize /\ m_high_watermark' \in 0..Len(mem')
      /\ m_last_touched' \in 0..MaxSize /\ m_last_touched' <= SetHighWatermark'
  BY <1>2, <1>3, MemNumbers DEF MemInv, Larger
<1>8. m_dirty_start' \in {Stale} \cup 0..MaxSize
  <2>1. m_dirty_start' = DirtyStart(Fits(Len(bs)))
    BY DEF Put
  <2>2. m_dirty_start \in {Stale} \cup 0..MaxSize
    BY DEF MemInv, TypeOK
  <2>3. QED
    BY <2>1, <2>2, MemNumbers DEF DirtyStart
<1>9. QED
  BY <1>2, <1>5, <1>6, <1>7, <1>8 DEF MemInv, TypeOK

\* A put of a careful client is a write of the sequence.
LEMMA PutWrites ==
  ASSUME Careful, MemInv, NEW bs \in Puts, Put(bs)
  PROVE  Sequence!Write
<1>1. PICK l, H, K, old : l = Len(bs) /\ H = SetHighWatermark /\ K = SetHighWatermark'
                          /\ old = Touched(Unshared)
  OBVIOUS
<1>2. /\ l \in Nat \ {0} /\ mem' \in Seq(Bytes) /\ Len(mem') \in Nat /\ next + l <= Len(mem') /\ Len(mem) <= Len(mem')
      /\ K = Larger(H, next + l)
      /\ \A i \in 1..Len(mem') : i > next /\ i <= next + l => mem'[i] = bs[i - next]
      /\ \A i \in 1..Len(mem) : ~(i > next /\ i <= next + l) => mem'[i] = old[i]
  BY <1>1, PutMemory
<1>3. /\ \A i \in 1..H : old[i] = mem[i]
      /\ \A i \in 1..next : i > H => old[i] = Zero
  BY <1>1, TouchedFacts DEF Put
<1>4. /\ H \in Nat /\ next \in Nat /\ H <= Len(mem) /\ next <= Len(mem) /\ Len(mem) \in Nat
  BY <1>1, MemNumbers
<1>5. K \in Nat /\ K <= Len(mem') /\ next + l <= K /\ H <= K /\ (K = H \/ K = next + l)
  BY <1>2, <1>4 DEF Larger
<1>6. PICK c, d : c = content /\ d = content'
  OBVIOUS
<1>7. c \in Seq(Bytes) /\ Len(c) = H /\ \A i \in 1..H : c[i] = mem[i]
  BY <1>1, <1>6, MemContent
<1>8. d \in Seq(Bytes) /\ Len(d) = K /\ \A i \in 1..K : d[i] = mem'[i]
  <2>1. d = SubSeq(mem', 1, K)
    BY <1>1, <1>6 DEF content
  <2>2. QED
    BY <1>2, <1>5, <2>1, PrefixFacts
<1>9. PICK ws : ws = SubSeq(d, next + 1, next + l)
  OBVIOUS
<1>10. ws \in Seq(Bytes) /\ Len(ws) = l /\ \A i \in 1..l : ws[i] = d[next + i]
  <2>1. \A i \in (next + 1)..(next + l) : i \in 1..Len(d)
    BY <1>2, <1>4, <1>5, <1>8
  <2>2. \A i \in (next + 1)..(next + l) : d[i] \in Bytes
    BY <1>8, <2>1, LenProperties
  <2>3. PICK m \in Int, n \in Int : m = next + 1 /\ n = next + l /\ m <= n /\ n - m + 1 = l
    BY <1>2, <1>4
  <2>4. /\ SubSeq(d, m, n) \in Seq(Bytes) /\ Len(SubSeq(d, m, n)) = IF m <= n THEN n - m + 1 ELSE 0
        /\ \A i \in 1..(n - m + 1) : SubSeq(d, m, n)[i] = d[m + i - 1]
    BY <2>2, <2>3, SubSeqProperties
  <2>5. \A i \in 1..l : m + i - 1 = next + i
    BY <1>2, <1>4, <2>3
  <2>6. QED
    BY <1>9, <2>3, <2>4, <2>5
<1>11. ASSUME NEW i \in 1..K
       PROVE  d[i] = IF i > next /\ i <= next + l THEN ws[i - next] ELSE IF i <= H THEN c[i] ELSE Zero
  <2>1. CASE i > next /\ i <= next + l
    <3>1. i - next \in 1..l /\ next + (i - next) = i
      BY <1>2, <1>4, <1>5, <2>1
    <3>2. QED
      BY <1>10, <2>1, <3>1
  <2>2. CASE ~(i > next /\ i <= next + l) /\ i <= H
    <3>1. i \in 1..H /\ i \in 1..Len(mem)
      BY <1>4, <1>5, <2>2
    <3>2. QED
      BY <1>2, <1>3, <1>7, <1>8, <2>2, <3>1
  <2>3. CASE ~(i > next /\ i <= next + l) /\ ~(i <= H)
    <3>1. i \in 1..next /\ i > H /\ i \in 1..Len(mem)
      BY <1>2, <1>4, <1>5, <2>3
    <3>2. QED
      BY <1>2, <1>3, <1>8, <2>3, <3>1
  <2>4. QED
    BY <2>1, <2>2, <2>3
<1>12. d = Overlay(c, next, ws)
  <2>1. ws # <<>>
    BY <1>2, <1>10, EmptySeq
  <2>2. Overlay(c, next, ws) =
          [i \in 1..K |-> IF i > next /\ i <= next + l THEN ws[i - next] ELSE IF i <= H THEN c[i] ELSE Zero]
    BY <1>2, <1>7, <1>10, <2>1 DEF Overlay
  <2>3. d = [i \in 1..K |-> d[i]]
    BY <1>5, <1>8, LenProperties
  <2>4. QED
    BY <1>11, <2>2, <2>3
<1>13. next' = next + l /\ next' > next /\ next' <= Len(d)
  BY <1>1, <1>2, <1>4, <1>5, <1>8 DEF Put
<1>14. d = Sequence!Overlay(c, next, SubSeq(d, next + 1, next'))
  BY <1>9, <1>12, <1>13, MemSameOperators
<1>15. QED
  BY <1>6, <1>13, <1>14 DEF Sequence!Write

\* A step that changes neither the bytes below the end nor the end.
LEMMA SameContent ==
  ASSUME MemInv, MemInv', SetHighWatermark' = SetHighWatermark,
         \A i \in 1..Len(mem) : mem'[i] = mem[i]
  PROVE  content' = content
<1>1. /\ content \in Seq(Bytes) /\ Len(content) = SetHighWatermark
      /\ \A i \in 1..SetHighWatermark : content[i] = mem[i]
  BY MemContent
<1>2. /\ content' \in Seq(Bytes) /\ Len(content') = SetHighWatermark'
      /\ \A i \in 1..SetHighWatermark' : content'[i] = mem'[i]
  <2>1. mem' \in Seq(Bytes) /\ SetHighWatermark' \in 0..Len(mem')
    <3>1. mem' \in Seq(Bytes) /\ m_high_watermark' \in 0..Len(mem') /\ next' \in 0..Len(mem') /\ m_dirty' \in BOOLEAN
      BY DEF MemInv, TypeOK
    <3>2. QED
      BY <3>1 DEF SetHighWatermark, Larger
  <2>2. QED
    BY <2>1, PrefixFacts DEF content
<1>3. \A i \in 1..SetHighWatermark : i \in 1..Len(mem)
  BY MemNumbers
<1>4. QED
  BY <1>1, <1>2, <1>3, SeqEqual

\* seek: the numbers, and the bytes.
LEMMA SeekStep ==
  ASSUME MemInv, NEW where \in {"begin", "current", "end"},
         NEW offset \in -MaxSize..MaxSize, Seek(where, offset)
  PROVE  MemInv' /\ Sequence!Seek
<1>1. PICK result : result = offset + CASE where = "begin" -> 0 [] where = "current" -> next [] where = "end" -> SetHighWatermark
  OBVIOUS
<1>2. result \in Int
  <2>1. CASE where = "begin"
    BY <1>1, <2>1, MemNumbers
  <2>2. CASE where = "current"
    BY <1>1, <2>2, MemNumbers
  <2>3. CASE where = "end"
    BY <1>1, <2>3, MemNumbers
  <2>4. QED
    BY <2>1, <2>2, <2>3
<1>3. /\ result <= MaxSize /\ m_dirty' = FALSE /\ m_high_watermark' = SetHighWatermark
      /\ m_last_touched' = FlushedTouched /\ m_dirty_start' = 0 /\ next' = IF result < 0 THEN next ELSE result
      /\ IF result >= Len(mem) THEN mem' = Grown(mem, result) /\ lent' = FALSE ELSE UNCHANGED <<mem, lent>>
      /\ UNCHANGED <<m_writable, slice, given>>
  BY <1>1, Zenon DEF Seek
<1>4. /\ mem' \in Seq(Bytes) /\ Len(mem') \in Nat /\ Len(mem) <= Len(mem') /\ next' \in 0..Len(mem')
      /\ \A i \in 1..Len(mem) : mem'[i] = mem[i]
  <2>1. mem \in Seq(Bytes)
    BY DEF MemInv, TypeOK
  <2>2. CASE result >= Len(mem)
    <3>1. result \in Nat /\ Len(mem) <= result
      BY <1>2, <2>2, MemNumbers
    <3>2. QED
      BY <1>3, <2>1, <2>2, <3>1, GrownFacts, MemNumbers
  <2>3. CASE ~(result >= Len(mem))
    BY <1>2, <1>3, <2>1, <2>3, MemNumbers
  <2>4. QED
    BY <2>2, <2>3
<1>5. SetHighWatermark' = SetHighWatermark
  BY <1>3 DEF SetHighWatermark
<1>6. MemInv'
  <2>1. m_last_touched' \in 0..MaxSize /\ m_last_touched' <= SetHighWatermark
    BY <1>3, MemNumbers DEF FlushedTouched, MemInv
  <2>2. next' <= MaxSize
    BY <1>2, <1>3, MemNumbers
  <2>3. lent' \in BOOLEAN /\ (lent' => ~m_writable') /\ slice' = given' /\ m_writable' \in BOOLEAN
        /\ slice' \in Seq(Bytes) /\ given' \in Seq(Bytes) /\ m_dirty' \in BOOLEAN
    BY <1>3 DEF MemInv, TypeOK
  <2>4. m_high_watermark' \in 0..Len(mem')
    BY <1>3, <1>4, MemNumbers
  <2>5. QED
    BY <1>3, <1>4, <1>5, <2>1, <2>2, <2>3, <2>4, MemNumbers DEF MemInv, TypeOK
<1>7. content' = content
  BY <1>4, <1>5, <1>6, SameContent
<1>8. next' \in Nat
  BY <1>4
<1>9. QED
  BY <1>6, <1>7, <1>8 DEF Sequence!Seek

\* The steps that only move the end up to the position, or concern the slice.
LEMMA QuietStep ==
  ASSUME MemInv,
         Flush \/ TellEnd \/ GetBuffer \/ DropSlice \/ UNCHANGED vars
  PROVE  MemInv' /\ UNCHANGED <<content, next>>
<1>1. /\ UNCHANGED <<mem, next>>
      /\ m_dirty' \in BOOLEAN
      /\ \/ m_high_watermark' = SetHighWatermark /\ (m_dirty' = m_dirty \/ m_dirty' = FALSE)
         \/ m_high_watermark' = m_high_watermark /\ m_dirty' = m_dirty
      /\ m_last_touched' = m_last_touched \/ (m_last_touched' = next /\ m_dirty)
      /\ m_dirty_start' = m_dirty_start \/ m_dirty_start' = 0
  BY DEF Flush, TellEnd, GetBuffer, DropSlice, vars, MemInv, TypeOK
<1>2. SetHighWatermark' = SetHighWatermark
  BY <1>1, MemNumbers DEF SetHighWatermark, Larger
<1>3. /\ m_writable' \in BOOLEAN /\ lent' \in BOOLEAN /\ (lent' => ~m_writable')
      /\ slice' \in Seq(Bytes) /\ given' \in Seq(Bytes) /\ slice' = given'
  <2>1. /\ m_writable \in BOOLEAN /\ lent \in BOOLEAN /\ (lent => ~m_writable)
        /\ slice \in Seq(Bytes) /\ given \in Seq(Bytes) /\ slice = given
    BY DEF MemInv, TypeOK
  <2>2. CASE Flush \/ TellEnd \/ UNCHANGED vars
    BY <2>1, <2>2 DEF Flush, TellEnd, vars, lending
  <2>3. CASE GetBuffer
    <3>1. slice' = content /\ given' = content /\ m_writable' = FALSE /\ lent' \in BOOLEAN
      BY <2>3 DEF GetBuffer, content
    <3>2. QED
      BY <3>1, MemContent
  <2>4. CASE DropSlice
    <3>1. <<>> \in Seq(Bytes)
      BY EmptySeq
    <3>2. QED
      BY <2>1, <2>4, <3>1 DEF DropSlice
  <2>5. QED
    BY <2>2, <2>3, <2>4
<1>4. MemInv'
  BY <1>1, <1>2, <1>3, MemNumbers DEF MemInv, TypeOK
<1>5. QED
  BY <1>1, <1>2, <1>4, SameContent

\* clear leaves an empty sequence.
LEMMA ClearStep ==
  ASSUME MemInv, Clear
  PROVE  MemInv' /\ Sequence!Open
<1>1. /\ next' = 0 /\ m_high_watermark' = 0 /\ m_last_touched' = 0 /\ m_dirty_start' = 0 /\ m_dirty' = FALSE
      /\ UNCHANGED <<mem, m_writable, slice, lent, given>>
  BY DEF Clear, lending
<1>2. SetHighWatermark' = 0
  BY <1>1 DEF SetHighWatermark
<1>3. MemInv'
  <2>1. /\ mem' \in Seq(Bytes) /\ slice' \in Seq(Bytes) /\ given' \in Seq(Bytes) /\ slice' = given'
        /\ m_writable' \in BOOLEAN /\ lent' \in BOOLEAN /\ (lent' => ~m_writable') /\ m_dirty' \in BOOLEAN
    BY <1>1 DEF MemInv, TypeOK
  <2>2. /\ next' \in 0..Len(mem') /\ next' <= MaxSize /\ m_high_watermark' \in 0..Len(mem')
        /\ m_last_touched' \in 0..MaxSize /\ m_last_touched' <= SetHighWatermark'
        /\ m_dirty_start' \in 0..MaxSize
    BY <1>1, <1>2, MemNumbers
  <2>3. QED
    BY <2>1, <2>2 DEF MemInv, TypeOK
<1>4. content' = <<>>
  <2>1. content' = SubSeq(mem, 1, 0)
    BY <1>1, <1>2 DEF content
  <2>2. mem \in Seq(Bytes) /\ 0 \in 0..Len(mem)
    BY MemNumbers DEF MemInv, TypeOK
  <2>3. content' \in Seq(Bytes) /\ Len(content') = 0
    BY <2>1, <2>2, PrefixFacts
  <2>4. QED
    BY <2>3, EmptySeq
<1>5. QED
  BY <1>1, <1>3, <1>4 DEF Sequence!Open

\* The memory nobody has written.
LEMMA MemInitial ==
  ASSUME Init
  PROVE  MemInv /\ Sequence!Init
<1>1. InitSize \in Nat /\ MaxSize \in Nat
  BY OutMemBufAssumption
<1>2. mem \in Seq(Bytes) /\ Len(mem) = InitSize
  <2>1. mem \in [1..InitSize -> Bytes]
    BY DEF Init, Bytes
  <2>2. QED
    BY <1>1, <2>1, FunctionIsSeq
<1>3. /\ next = 0 /\ m_dirty = FALSE /\ m_high_watermark = 0 /\ m_last_touched = 0 /\ m_writable = TRUE
      /\ m_dirty_start = 0
      /\ slice = <<>> /\ lent = FALSE /\ given = <<>>
  BY DEF Init
<1>4. SetHighWatermark = 0 /\ <<>> \in Seq(Bytes)
  BY <1>3, EmptySeq DEF SetHighWatermark
<1>5. MemInv
  <2>1. /\ slice \in Seq(Bytes) /\ given \in Seq(Bytes) /\ slice = given
        /\ m_writable \in BOOLEAN /\ lent \in BOOLEAN /\ (lent => ~m_writable) /\ m_dirty \in BOOLEAN
    BY <1>3, <1>4
  <2>2. /\ next \in 0..Len(mem) /\ next <= MaxSize /\ m_high_watermark \in 0..Len(mem)
        /\ m_last_touched \in 0..MaxSize /\ m_last_touched <= SetHighWatermark
        /\ m_dirty_start \in 0..MaxSize
    BY <1>1, <1>2, <1>3, <1>4
  <2>3. QED
    BY <1>2, <2>1, <2>2 DEF MemInv, TypeOK
<1>6. QED
  BY <1>3, <1>5 DEF Sequence!Init

\* Every step keeps the invariant.
LEMMA MemInvStep ==
  ASSUME MemInv, [Next]_vars
  PROVE  MemInv'
<1>1. ASSUME NEW bs \in Puts, Put(bs) PROVE MemInv'
  BY <1>1, PutInv
<1>2. ASSUME NEW where \in {"begin", "current", "end"}, NEW offset \in -MaxSize..MaxSize, Seek(where, offset)
      PROVE  MemInv'
  BY <1>2, SeekStep
<1>3. CASE Flush \/ TellEnd \/ GetBuffer \/ DropSlice \/ UNCHANGED vars
  BY <1>3, QuietStep
<1>4. CASE Clear
  BY <1>4, ClearStep
<1>5. QED
  BY <1>1, <1>2, <1>3, <1>4 DEF Next

\* Every step of a careful client is one of the sequence.
LEMMA MemSequenceStep ==
  ASSUME Careful, MemInv, [Next]_vars
  PROVE  Sequence!Next \/ UNCHANGED Sequence!seqvars
<1>1. ASSUME NEW bs \in Puts, Put(bs) PROVE Sequence!Write
  BY <1>1, PutWrites
<1>2. ASSUME NEW where \in {"begin", "current", "end"}, NEW offset \in -MaxSize..MaxSize, Seek(where, offset)
      PROVE  Sequence!Seek
  BY <1>2, SeekStep
<1>3. CASE Flush \/ TellEnd \/ GetBuffer \/ DropSlice \/ UNCHANGED vars
  <2>1. UNCHANGED <<content, next>>
    BY <1>3, QuietStep
  <2>2. QED
    BY <2>1 DEF Sequence!seqvars
<1>4. CASE Clear
  BY <1>4, ClearStep DEF Sequence!Next
<1>5. QED
  BY <1>1, <1>2, <1>3, <1>4 DEF Next, Sequence!Next

\* The invariant behind the theorems, careful client or not.
THEOREM MemInvariance == Spec => []MemInv
<1>1. Init => MemInv
  BY MemInitial
<1>2. MemInv /\ [Next]_vars => MemInv'
  BY MemInvStep
<1>3. QED
  BY <1>1, <1>2, PTL DEF Spec

\* Every variable of obmembuf has its type: position and end stay inside the
\* memory however it grows.
THEOREM MemTypeCorrect == Spec => []TypeOK
<1>1. MemInv => TypeOK
  BY DEF MemInv
<1>2. QED
  BY <1>1, MemInvariance, PTL

\* The slice that get_buffer returned never changes under the client, whatever
\* is put, sought and cleared afterwards.
THEOREM SliceIsStable == Spec => []SliceStable
<1>1. MemInv => SliceStable
  BY DEF MemInv, SliceStable
<1>2. QED
  BY <1>1, MemInvariance, PTL

\* obmembuf implements the output sequence: growth, copies of a block that is
\* lent and seeks behind the end change no byte and leave only zeros in holes.
THEOREM MemImplementation ==
  ASSUME Careful
  PROVE  Spec => ImplementsOutputSequence
<1>1. Init => MemInv /\ Sequence!Init
  BY MemInitial
<1>2. MemInv /\ [Next]_vars => MemInv'
  BY MemInvStep
<1>3. MemInv /\ [Next]_vars => [Sequence!Next]_(Sequence!seqvars)
  BY MemSequenceStep
<1>4. QED
  BY <1>1, <1>2, <1>3, PTL DEF Spec, ImplementsOutputSequence, Sequence!Spec

-----------------------------------------------------------------------------
(* ibfilebuf: its buffer is a true copy of the part of the file it says it *)
(* is and the descriptor stands behind it, so every answer the reader gets *)
(* is the one InputSequence promises.                                      *)

\* The buffer holds the bytes of the file at its offset, and the descriptor
\* stands at its end. After a failed refill the bytes are stale and the
\* descriptor stands where the reader does.
Window ==
  IF failed
    THEN gnext = 0 /\ fd = m_gbase_offset
    ELSE /\ fd = m_gbase_offset + Len(buf)
         /\ \A i \in 1..Len(buf) : m_gbase_offset + i <= Len(file) /\ buf[i] = file[m_gbase_offset + i]

ReaderInv == ReaderTypeOK /\ Window

\* An empty buffer at the descriptor's offset.
LEMMA EmptyBuf ==
  ASSUME NEW s, s = <<>>
  PROVE  s \in Seq(FileBytes) /\ Len(s) = 0
  BY EmptySeq

\* What a refill reads.
LEMMA Refill ==
  ASSUME ReaderTypeOK
  PROVE  /\ LoadSize \in Nat
         /\ \A i \in 1..LoadSize : fd + i \in 1..Len(file)
         /\ ReadBytes(LoadSize) \in Seq(FileBytes) /\ Len(ReadBytes(LoadSize)) = LoadSize
         /\ \A i \in 1..LoadSize : ReadBytes(LoadSize)[i] = file[fd + i]
         /\ LoadSize = 0 => fd >= Len(file)
<1> USE InFileBufAssumption DEF ReaderTypeOK
<1>1. LoadSize \in Nat /\ \A i \in 1..LoadSize : fd + i \in 1..Len(file)
  BY DEF LoadSize, Least
<1>2. LoadSize = 0 => fd >= Len(file)
  BY DEF LoadSize, Least
<1>3. ReadBytes(LoadSize) = [i \in 1..LoadSize |-> file[fd + i]]
  BY DEF ReadBytes
<1>4. \A i \in 1..LoadSize : file[fd + i] \in FileBytes
  BY <1>1, LenProperties
<1>5. ReadBytes(LoadSize) \in Seq(FileBytes) /\ Len(ReadBytes(LoadSize)) = LoadSize
  <2> DEFINE n == LoadSize
             f == [i \in 1..n |-> file[fd + i]]
  <2>1. n \in Nat /\ \A i \in 1..n : file[fd + i] \in FileBytes
    BY <1>1, <1>4
  <2> HIDE DEF n
  <2>2. f \in Seq(FileBytes)
    BY <2>1, IsASeq
  <2>3. DOMAIN f = 1..Len(f) /\ Len(f) \in Nat
    BY <2>2, LenProperties
  <2>4. Len(f) = n
    BY <2>1, <2>3
  <2>5. QED
    BY <1>3, <2>2, <2>4 DEF n
<1>6. QED
  BY <1>1, <1>2, <1>3, <1>5

\* At the beginning.
LEMMA ReaderInitial == ReaderInit => ReaderInv
<1> SUFFICES ASSUME ReaderInit PROVE ReaderInv
  OBVIOUS
<1>1. file \in Seq(FileBytes) /\ buf \in Seq(FileBytes) /\ Len(buf) = 0
  BY EmptyBuf DEF ReaderInit
<1>2. fd = 0 /\ m_is_open \in BOOLEAN /\ m_gbase_offset = 0 /\ gnext = 0 /\ failed \in BOOLEAN /\ ~failed
  BY DEF ReaderInit
<1>3. QED
  BY <1>1, <1>2 DEF ReaderInv, ReaderTypeOK, Window

\* A refill keeps the invariant.
LEMMA UnderflowReaderInv ==
  ASSUME ReaderInv, gnext = Len(buf), ~failed,
         m_gbase_offset' = BaseAfter, buf' = ReadBytes(LoadSize), fd' = fd + LoadSize,
         gnext' \in 0..LoadSize, UNCHANGED <<file, m_is_open, failed>>
  PROVE  ReaderInv'
<1> USE DEF ReaderInv
<1>1. m_gbase_offset' = fd
  BY DEF BaseAfter, gpos, Window
<1>2. Len(buf') = LoadSize /\ buf' \in Seq(FileBytes)
  BY Refill
<1>3. \A i \in 1..Len(buf') : m_gbase_offset' + i <= Len(file') /\ buf'[i] = file'[m_gbase_offset' + i]
  BY <1>1, <1>2, Refill
<1>4. Window'
  BY <1>1, <1>2, <1>3 DEF Window
<1>5. ReaderTypeOK'
  BY <1>1, <1>2, Refill DEF ReaderTypeOK
<1>6. QED
  BY <1>4, <1>5

\* Every step of a careful client, and of the writer, keeps the invariant.
LEMMA ReaderStepInv ==
  ASSUME CarefulReader, ReaderInv, [ReaderNext]_readervars
  PROVE  ReaderInv'
<1> USE InFileBufAssumption DEF ReaderInv
<1>1. ASSUME NEW n \in 1..MaxPos, GetLoaded(n) PROVE ReaderInv'
  BY <1>1 DEF GetLoaded, CarefulGet, Least, ReaderTypeOK, Window
<1>2. ASSUME NEW n \in 1..MaxPos, GetUnderflow(n) PROVE ReaderInv'
  <2>1. gnext' \in 0..LoadSize
    BY <1>2, Refill DEF GetUnderflow, Least
  <2>2. QED
    BY <1>2, <2>1, UnderflowReaderInv DEF GetUnderflow, CarefulGet
<1>3. CASE PeekLoaded
  BY <1>3 DEF PeekLoaded, ReaderTypeOK, Window
<1>4. CASE PeekUnderflow
  <2>1. gnext' \in 0..LoadSize
    BY <1>4, Refill DEF PeekUnderflow
  <2>2. QED
    BY <1>4, <2>1, UnderflowReaderInv DEF PeekUnderflow, CarefulGet
<1>5. CASE UnderflowFails
  BY <1>5 DEF UnderflowFails, CarefulGet, BaseAfter, gpos, ReaderTypeOK, Window
<1>6. ASSUME NEW where \in Anchors, Tell(where) PROVE ReaderInv'
  <2>1. fd' = fd
    BY <1>6 DEF Tell, CarefulTell
  <2>2. QED
    BY <1>6, <2>1 DEF Tell, ReaderTypeOK, Window
<1>7. ASSUME NEW where \in Anchors, NEW offset \in -MaxPos..MaxPos, ReallySeek(where, offset) PROVE ReaderInv'
  <2>1. fd' \in Nat /\ m_gbase_offset' = fd' /\ gnext' = 0 /\ UNCHANGED file
    BY <1>7 DEF ReallySeek
  <2>0. failed' \in BOOLEAN /\ ~failed' /\ m_is_open' \in BOOLEAN
    BY <1>7, Zenon DEF ReallySeek, ReaderTypeOK
  <2>2. buf' \in Seq(FileBytes) /\ Len(buf') = 0
    BY <1>7, EmptyBuf DEF ReallySeek
  <2>3. ReaderTypeOK'
    BY <2>0, <2>1, <2>2 DEF ReaderTypeOK
  <2>4. fd' = m_gbase_offset' + Len(buf')
    <3>1. \A x \in Nat : x + 0 = x
      OBVIOUS
    <3>2. QED
      BY <2>1, <2>2, <3>1, Zenon
  <2>5. Window'
    BY <2>0, <2>2, <2>4 DEF Window
  <2>6. QED
    BY <2>3, <2>5
<1>8. CASE Close
  BY <1>8 DEF Close, ReaderTypeOK, Window
<1>9. CASE Open
  <2>1. /\ fd' = 0 /\ m_gbase_offset' = 0 /\ gnext' = 0
        /\ failed' \in BOOLEAN /\ ~failed' /\ m_is_open' \in BOOLEAN /\ UNCHANGED file
    BY <1>9 DEF Open, CarefulOpen
  <2>2. buf' \in Seq(FileBytes) /\ Len(buf') = 0
    BY <1>9, EmptyBuf DEF Open
  <2>3. QED
    BY <2>1, <2>2 DEF ReaderTypeOK, Window
<1>10. CASE Fresh
  <2>1. /\ fd' = 0 /\ m_gbase_offset' = 0 /\ gnext' = 0
        /\ failed' \in BOOLEAN /\ ~failed' /\ m_is_open' \in BOOLEAN /\ UNCHANGED file
    BY <1>10 DEF Fresh
  <2>2. buf' \in Seq(FileBytes) /\ Len(buf') = 0
    BY <1>10, EmptyBuf DEF Fresh
  <2>3. QED
    BY <2>1, <2>2 DEF ReaderTypeOK, Window
<1>11. ASSUME NEW b \in FileBytes, Grow(b) PROVE ReaderInv'
  <2>1. file' \in Seq(FileBytes) /\ Len(file') = Len(file) + 1 /\ \A i \in 1..Len(file) : file'[i] = file[i]
    BY <1>11 DEF Grow, ReaderTypeOK
  <2>2. ReaderTypeOK'
    BY <1>11, <2>1 DEF Grow, ReaderTypeOK
  <2>3. Window'
    BY <1>11, <2>1 DEF Grow, ReaderTypeOK, Window
  <2>4. QED
    BY <2>2, <2>3
<1>12. CASE UNCHANGED readervars
  BY <1>12 DEF readervars, ReaderTypeOK, Window
<1>13. QED
  BY <1>1, <1>2, <1>3, <1>4, <1>5, <1>6, <1>7, <1>8, <1>9, <1>10, <1>11, <1>12 DEF ReaderNext

\* A refill that finds bytes, or none, is what the sequence promises.
LEMMA UnderflowAt ==
  ASSUME ReaderInv, gnext = Len(buf), ~failed
  PROVE  gpos = fd /\ gpos \in Nat /\ BaseAfter = fd
  BY DEF ReaderInv, ReaderTypeOK, Window, gpos, BaseAfter

\* Every step is a step of the sequence, or changes nothing the reader sees.
LEMMA ReaderStepImplements ==
  ASSUME CarefulReader, ReaderInv, [ReaderNext]_readervars
  PROVE  Reading!Next \/ UNCHANGED <<file, gpos, said>>
<1> USE InFileBufAssumption DEF ReaderInv
<1>1. ASSUME NEW n \in 1..MaxPos, GetLoaded(n) PROVE \E k \in 1..Len(file) : Reading!Get(k)
  <2> DEFINE k == Least(n, Len(buf) - gnext)
  <2>1. k \in 1..Len(buf) /\ gnext + k <= Len(buf) /\ k \in Nat
    BY <1>1 DEF GetLoaded, Least, ReaderTypeOK
  <2>2. ~failed
    BY <1>1 DEF GetLoaded, CarefulGet
  <2>3. \A i \in 1..k : gnext + i \in 1..Len(buf)
    BY <2>1 DEF ReaderTypeOK
  <2>4. \A i \in 1..k : buf[gnext + i] = file[gpos + i]
    BY <2>2, <2>3 DEF Window, ReaderTypeOK, gpos
  <2>5. m_gbase_offset + (gnext + k) <= Len(file)
    BY <2>1, <2>2, <2>3 DEF Window, ReaderTypeOK
  <2>6. [i \in 1..k |-> buf[gnext + i]] = [i \in 1..k |-> file[gpos + i]]
    BY <2>4
  <2>7. gpos + k <= Len(file) /\ gpos' = gpos + k /\ k \in 1..Len(file)
    BY <1>1, <2>1, <2>5 DEF GetLoaded, ReaderTypeOK, gpos
  <2>8. said' = <<"got", [i \in 1..k |-> file[gpos + i]]>>
    BY <1>1, <2>6 DEF GetLoaded
  <2>9. Reading!Get(k)
    BY <1>1, <2>7, <2>8 DEF GetLoaded, Reading!Get
  <2>10. QED
    BY <2>7, <2>9
<1>2. ASSUME NEW n \in 1..MaxPos, GetUnderflow(n)
      PROVE  Reading!EndOfFile \/ \E k \in 1..Len(file) : Reading!Get(k)
  <2>1. gpos = fd /\ m_gbase_offset' = fd /\ fd \in Nat
    BY <1>2, UnderflowAt DEF GetUnderflow, CarefulGet
  <2>2. CASE LoadSize = 0
    <3>1. gnext' = 0 /\ said' = <<"eof">> /\ fd >= Len(file)
      BY <1>2, <2>2, Refill DEF GetUnderflow, Least
    <3>2. gpos' = gpos
      BY <2>1, <3>1 DEF gpos
    <3>3. QED
      BY <1>2, <2>1, <3>1, <3>2 DEF GetUnderflow, Reading!EndOfFile
  <2>3. CASE LoadSize # 0
    <3> DEFINE k == Least(n, LoadSize)
    <3>1. k \in 1..LoadSize /\ k \in Nat /\ gnext' = k
      BY <1>2, <2>3, Refill DEF GetUnderflow, Least
    <3>2. fd + k \in 1..Len(file)
      BY <3>1, Refill
    <3>3. gpos' = gpos + k /\ gpos + k <= Len(file) /\ k \in 1..Len(file)
      BY <2>1, <3>1, <3>2 DEF gpos, ReaderTypeOK
    <3>4. said' = <<"got", [i \in 1..k |-> file[gpos + i]]>>
      BY <1>2, <2>1, <2>3, <3>1 DEF GetUnderflow
    <3>5. Reading!Get(k)
      BY <1>2, <3>3, <3>4 DEF GetUnderflow, Reading!Get
    <3>6. QED
      BY <3>3, <3>5
  <2>4. QED
    BY <2>2, <2>3
<1>3. CASE PeekLoaded
  <2>1. ~failed /\ gnext + 1 \in 1..Len(buf)
    BY <1>3 DEF PeekLoaded, CarefulGet, ReaderTypeOK
  <2>2. gpos < Len(file) /\ buf[gnext + 1] = file[gpos + 1]
    BY <2>1 DEF Window, ReaderTypeOK, gpos
  <2>3. gpos' = gpos
    BY <1>3 DEF PeekLoaded, gpos
  <2>4. Reading!Peek
    BY <1>3, <2>2, <2>3 DEF PeekLoaded, Reading!Peek
  <2>5. QED
    BY <2>4 DEF Reading!Next
<1>4. CASE PeekUnderflow
  <2>1. gpos = fd /\ m_gbase_offset' = fd /\ fd \in Nat /\ gnext' = 0
    BY <1>4, UnderflowAt DEF PeekUnderflow, CarefulGet
  <2>2. gpos' = gpos
    BY <2>1 DEF gpos
  <2>3. CASE LoadSize = 0
    BY <1>4, <2>1, <2>2, <2>3, Refill DEF PeekUnderflow, Reading!EndOfFile, Reading!Next
  <2>4. CASE LoadSize # 0
    <3>1. fd + 1 \in 1..Len(file)
      BY <2>4, Refill
    <3>2. fd < Len(file)
      BY <2>1, <3>1 DEF ReaderTypeOK
    <3>3. Reading!Peek
      BY <1>4, <2>1, <2>2, <2>4, <3>2 DEF PeekUnderflow, Reading!Peek
    <3>4. QED
      BY <3>3 DEF Reading!Next
  <2>5. QED
    BY <2>3, <2>4
<1>5. CASE UnderflowFails
  <2>1. gpos' = gpos
    BY <1>5 DEF UnderflowFails, BaseAfter, gpos, ReaderTypeOK
  <2>2. QED
    BY <1>5, <2>1 DEF UnderflowFails, Reading!Error, Reading!Next
<1>6. ASSUME NEW where \in Anchors, Tell(where) PROVE Reading!Tell(where)
  <2>1. gpos' = gpos
    BY <1>6 DEF Tell, gpos
  <2>2. QED
    BY <1>6, <2>1 DEF Tell, Anchors, Reading!Tell, Reading!Anchor
<1>7. ASSUME NEW where \in Anchors, NEW offset \in -MaxPos..MaxPos, ReallySeek(where, offset)
      PROVE  Reading!Seek(where)
  <2>1. gpos' = fd' /\ fd' \in Nat /\ fd' = SeekTarget(where, offset)
    BY <1>7 DEF ReallySeek, gpos
  <2>2. fd' = Reading!Anchor(where) + offset /\ Reading!Anchor(where) \in Int
    BY <1>7, <2>1 DEF ReallySeek, SeekTarget, CarefulSeek, Anchors, Reading!Anchor, ReaderTypeOK, gpos
  <2>3. offset = gpos' - Reading!Anchor(where)
    BY <2>1, <2>2
  <2>4. said' = <<"seek", where, gpos' - Reading!Anchor(where), gpos'>>
    BY <1>7, <2>1, <2>3 DEF ReallySeek
  <2>5. QED
    BY <1>7, <2>1, <2>4 DEF ReallySeek, Reading!Seek
<1>8. CASE Close
  BY <1>8 DEF Close, gpos, Reading!Close, Reading!Next
<1>9. CASE Open
  BY <1>9 DEF Open, CarefulOpen, gpos, Reading!Open, Reading!Next
<1>10. CASE Fresh
  BY <1>10 DEF Fresh, gpos, Reading!Open, Reading!Next
<1>11. ASSUME NEW b \in FileBytes, Grow(b) PROVE Reading!Grow
  BY <1>11 DEF Grow, gpos, Reading!Grow
<1>12. CASE UNCHANGED readervars
  BY <1>12 DEF readervars, gpos
<1>13. QED
  BY <1>1, <1>2, <1>3, <1>4, <1>5, <1>6, <1>7, <1>8, <1>9, <1>10, <1>11, <1>12
    DEF ReaderNext, Anchors, Reading!Next

\* Every variable has its type and the reader stands in the buffer.
THEOREM ReaderTypeCorrect ==
  ASSUME CarefulReader
  PROVE  ReaderSpec => []ReaderTypeOK
<1>1. ReaderInv /\ [ReaderNext]_readervars => ReaderInv'
  BY ReaderStepInv
<1>2. ReaderInv => ReaderTypeOK
  BY DEF ReaderInv
<1>3. QED
  BY ReaderInitial, <1>1, <1>2, PTL DEF ReaderSpec

\* ibfilebuf implements the input sequence: whatever is buffered when the
\* file grows, and wherever a refill fails, the reader is told the truth.
THEOREM ReaderImplementation ==
  ASSUME CarefulReader
  PROVE  ReaderSpec => ImplementsInputSequence
<1>1. ReaderInv /\ [ReaderNext]_readervars => ReaderInv'
  BY ReaderStepInv
<1>2. ReaderInit => Reading!Init
  BY DEF ReaderInit, gpos, Reading!Init
<1>3. ReaderInv /\ [ReaderNext]_readervars => [Reading!Next]_(Reading!vars)
  BY ReaderStepImplements DEF Reading!vars
<1>4. QED
  BY ReaderInitial, <1>1, <1>2, <1>3, PTL DEF ReaderSpec, ImplementsInputSequence, Reading!Spec
=============================================================================

--------------------------- MODULE RaftLogProofs ---------------------------
(***************************************************************************)
(* Theorems about RaftLog, for every value of its constants.               *)
(***************************************************************************)
EXTENDS RaftLog, SequenceTheorems, TLAPS

-----------------------------------------------------------------------------
(* Lemmas on the operators. *)

\* A concatenation holds its parts one behind the other.
LEMMA Concat ==
  ASSUME NEW f \in Seq(Frame), NEW g \in Seq(Frame)
  PROVE  /\ f \o g \in Seq(Frame)
         /\ Len(f \o g) = Len(f) + Len(g)
         /\ \A k \in 1 .. Len(f) : (f \o g)[k] = f[k]
         /\ \A k \in (Len(f) + 1) .. (Len(f) + Len(g)) : (f \o g)[k] = g[k - Len(f)]
         /\ DOMAIN f = 1 .. Len(f) /\ DOMAIN g = 1 .. Len(g)
         /\ DOMAIN (f \o g) = 1 .. (Len(f) + Len(g))
BY ConcatProperties, LenProperties

\* A fragment has no other field than its type: it is neither kind of frame.
LEMMA FrameKinds ==
  ASSUME NEW f \in Frame
  PROVE  /\ f.type \in {"state", "entry", "torn"}
         /\ f.type = "state" => f \in StateFrame /\ f.term \in Terms /\ f.vote \in Votes /\ f.pos \in Nat
         /\ f.type = "entry" => f \in EntryFrame /\ f.pos \in Nat /\ f.index \in Indices /\ f.data \in Payloads
         /\ f.type = "torn" <=> f = Torn
BY DEF Frame, StateFrame, EntryFrame, Torn

\* Positions of a concatenation: the second part counts only when no fragment
\* precedes it.
LEMMA PositionsConcat ==
  ASSUME NEW f \in Seq(Frame), NEW g \in Seq(Frame),
         PositionsFrom(f, 0), HasTorn(f) \/ PositionsFrom(g, Len(f))
  PROVE  PositionsFrom(f \o g, 0)
<1> SUFFICES ASSUME NEW k \in DOMAIN (f \o g), \A j \in 1 .. k : (f \o g)[j] # Torn
             PROVE  (f \o g)[k].pos = 0 + k - 1
  BY DEF PositionsFrom
<1>0. Len(f) \in Nat /\ Len(g) \in Nat /\ k \in 1 .. (Len(f) + Len(g))
  BY Concat, LenProperties
<1>1. CASE k <= Len(f)
  <2>1. k \in DOMAIN f /\ (f \o g)[k] = f[k] /\ \A j \in 1 .. k : f[j] # Torn
    BY <1>0, <1>1, Concat
  <2>2. QED
    BY <2>1 DEF PositionsFrom
<1>2. CASE k > Len(f)
  <2>1. \A j \in 1 .. Len(f) : f[j] # Torn
    BY <1>0, <1>2, Concat
  <2>2. PositionsFrom(g, Len(f))
    BY <2>1, Concat DEF HasTorn
  <2>3. k - Len(f) \in DOMAIN g /\ (f \o g)[k] = g[k - Len(f)]
    BY <1>0, <1>2, Concat
  <2>4. ASSUME NEW j \in 1 .. (k - Len(f)) PROVE g[j] # Torn
    <3>1. Len(f) + j \in 1 .. k /\ Len(f) + j \in (Len(f) + 1) .. (Len(f) + Len(g))
      BY <1>0, <1>2
    <3>2. (f \o g)[Len(f) + j] = g[(Len(f) + j) - Len(f)]
      BY <3>1, Concat
    <3>3. (Len(f) + j) - Len(f) = j
      BY <1>0
    <3>4. QED
      BY <3>1, <3>2, <3>3
  <2>5. g[k - Len(f)].pos = Len(f) + (k - Len(f)) - 1
    BY <2>2, <2>3, <2>4 DEF PositionsFrom
  <2>6. QED
    BY <1>0, <2>3, <2>5
<1>3. QED
  BY <1>0, <1>1, <1>2

\* Term order of a concatenation.
LEMMA AscendingConcat ==
  ASSUME NEW f \in Seq(Frame), NEW g \in Seq(Frame),
         Ascending(f), Ascending(g),
         \A j \in DOMAIN f, k \in DOMAIN g :
           f[j].type = "state" /\ g[k].type = "state" => f[j].term <= g[k].term
  PROVE  Ascending(f \o g)
<1> SUFFICES ASSUME NEW j \in DOMAIN (f \o g), NEW k \in DOMAIN (f \o g), j < k,
                    (f \o g)[j].type = "state", (f \o g)[k].type = "state"
             PROVE  (f \o g)[j].term <= (f \o g)[k].term
  BY DEF Ascending
<1>0. Len(f) \in Nat /\ Len(g) \in Nat
  BY LenProperties
<1>1. CASE k <= Len(f)
  BY <1>0, <1>1, Concat DEF Ascending
<1>2. CASE j > Len(f)
  BY <1>0, <1>2, Concat DEF Ascending
<1>3. CASE j <= Len(f) /\ k > Len(f)
  <2>1. j \in DOMAIN f /\ (f \o g)[j] = f[j]
    BY <1>0, <1>3, Concat
  <2>2. k - Len(f) \in DOMAIN g /\ (f \o g)[k] = g[k - Len(f)]
    BY <1>0, <1>3, Concat
  <2>3. QED
    BY <2>1, <2>2
<1>4. QED
  BY <1>0, <1>1, <1>2, <1>3, Concat

\* A bound on the terms of both parts bounds the concatenation.
LEMMA AtMostConcat ==
  ASSUME NEW f \in Seq(Frame), NEW g \in Seq(Frame), NEW t,
         AtMost(f, t), AtMost(g, t)
  PROVE  AtMost(f \o g, t)
<1> SUFFICES ASSUME NEW k \in DOMAIN (f \o g), (f \o g)[k].type = "state"
             PROVE  (f \o g)[k].term <= t
  BY DEF AtMost
<1>1. CASE k <= Len(f)
  BY <1>1, Concat, LenProperties DEF AtMost
<1>2. CASE k > Len(f)
  BY <1>2, Concat, LenProperties DEF AtMost
<1>3. QED
  BY <1>1, <1>2, Concat, LenProperties

\* A prefix of a file keeps its frames.
LEMMA Prefix ==
  ASSUME NEW S, NEW f \in Seq(S), NEW n \in 0 .. Len(f)
  PROVE  /\ SubSeq(f, 1, n) \in Seq(S)
         /\ Len(SubSeq(f, 1, n)) = n
         /\ DOMAIN SubSeq(f, 1, n) = 1 .. n
         /\ \A k \in 1 .. n : SubSeq(f, 1, n)[k] = f[k] /\ k \in DOMAIN f
<1>1. n \in Nat /\ Len(f) \in Nat /\ DOMAIN f = 1 .. Len(f)
  BY LenProperties
<1>2. SubSeq(f, 1, n) = [k \in 1 .. n |-> f[k]]
  BY <1>1
<1>3. QED
  BY <1>1, <1>2

-----------------------------------------------------------------------------
(* What a write leaves in a file. *)

\* A hole is a sequence of fragments.
LEMMA HoleFacts ==
  ASSUME NEW n \in Nat
  PROVE  /\ Hole(n) \in Seq(Frame) /\ Len(Hole(n)) = n /\ DOMAIN Hole(n) = 1 .. n
         /\ \A k \in 1 .. n : Hole(n)[k] = Torn
         /\ NoState(Hole(n))
<1>1. Torn \in Frame /\ Torn.type = "torn"
  BY DEF Frame, Torn
<1>2. Hole(n) \in Seq(Frame) /\ Len(Hole(n)) = n /\ DOMAIN Hole(n) = 1 .. n
      /\ \A k \in 1 .. n : Hole(n)[k] = Torn
  BY <1>1 DEF Hole
<1>3. QED
  BY <1>1, <1>2 DEF NoState

\* Whatever the descriptor's offset, the file stays a sequence of frames.
LEMMA WrittenType ==
  ASSUME NEW f \in Seq(Frame), NEW at \in Nat, NEW data \in Seq(Frame), NEW app \in BOOLEAN
  PROVE  Written(f, at, data, app) \in Seq(Frame)
<1>0. Len(f) \in Nat /\ Len(data) \in Nat
  BY LenProperties
<1>1. f \o data \in Seq(Frame)
  BY Concat
<1>2. CASE at >= Len(f)
  <2>1. Hole(at - Len(f)) \in Seq(Frame)
    BY <1>0, <1>2, HoleFacts
  <2>2. f \o (Hole(at - Len(f)) \o data) \in Seq(Frame)
    BY <2>1, Concat
  <2>3. QED
    BY <1>1, <1>2, <2>2 DEF Written
<1>3. CASE ~(at >= Len(f))
  <2>1. at \in 0 .. Len(f)
    BY <1>0, <1>3
  <2>2. SubSeq(f, 1, at) \in Seq(Frame)
    BY <2>1, Prefix
  <2>3. SubSeq(f, at + Len(data) + 1, Len(f)) \in Seq(Frame)
    BY <1>0, SubSeqProperties
  <2>4. SubSeq(f, 1, at) \o data \o SubSeq(f, at + Len(data) + 1, Len(f)) \in Seq(Frame)
    BY <2>2, <2>3, Concat
  <2>5. QED
    BY <1>1, <1>3, <2>4 DEF Written
<1>4. QED
  BY <1>2, <1>3

\* A descriptor at the end, or behind it, only adds to the file: nothing, the
\* data, or a hole and the data.
LEMMA WrittenBehind ==
  ASSUME NEW f \in Seq(Frame), NEW at \in Nat, NEW data \in Seq(Frame), NEW app \in BOOLEAN,
         app \/ Len(f) <= at
  PROVE  \E n \in Nat : /\ Written(f, at, data, app) = f \o (Hole(n) \o data)
                        /\ app \/ at = Len(f) \/ data = <<>> => n = 0
                        /\ ~app => Len(f) + n <= at
<1>0. Len(f) \in Nat /\ Len(data) \in Nat
  BY LenProperties
<1>1. Hole(0) = <<>>
  BY HoleFacts, EmptySeq
<1>2. Hole(0) \o data = data
  BY <1>1, ConcatEmptySeq
<1>3. CASE data = <<>>
  <2>1. f \o (Hole(0) \o data) = f
    BY <1>2, <1>3, ConcatEmptySeq
  <2>2. Written(f, at, data, app) = f
    BY <1>3 DEF Written
  <2>3. QED
    BY <1>0, <2>1, <2>2
<1>4. CASE data # <<>> /\ app
  <2>1. Written(f, at, data, app) = f \o (Hole(0) \o data)
    BY <1>2, <1>4 DEF Written
  <2>2. QED
    BY <1>4, <2>1
<1>5. CASE data # <<>> /\ ~app
  <2>1. at - Len(f) \in Nat /\ at >= Len(f)
    BY <1>0, <1>5
  <2>2. Written(f, at, data, app) = f \o (Hole(at - Len(f)) \o data)
    BY <1>5, <2>1 DEF Written
  <2>3. Len(f) + (at - Len(f)) = at /\ (at = Len(f) => at - Len(f) = 0)
    BY <1>0
  <2>4. WITNESS at - Len(f) \in Nat
  <2>5. QED
    BY <1>0, <1>5, <2>1, <2>2, <2>3
<1>6. QED
  BY <1>3, <1>4, <1>5

\* At the end of the file a write appends.
LEMMA WrittenAtEnd ==
  ASSUME NEW f \in Seq(Frame), NEW data \in Seq(Frame), NEW app \in BOOLEAN
  PROVE  Written(f, Len(f), data, app) = f \o data
<1>0. Len(f) \in Nat /\ Len(f) <= Len(f)
  BY LenProperties
<1>1. Hole(0) \o data = data
  BY HoleFacts, EmptySeq, ConcatEmptySeq
<1>2. PICK n \in Nat : Written(f, Len(f), data, app) = f \o (Hole(n) \o data) /\ n = 0
  BY <1>0, WrittenBehind
<1>3. QED
  BY <1>1, <1>2

\* Such a write makes the file at least as long as its parts.
LEMMA WrittenLength ==
  ASSUME NEW f \in Seq(Frame), NEW at \in Nat, NEW data \in Seq(Frame), NEW app \in BOOLEAN,
         app \/ Len(f) <= at
  PROVE  /\ Len(Written(f, at, data, app)) \in Nat
         /\ Len(f) + Len(data) <= Len(Written(f, at, data, app))
<1>0. Len(f) \in Nat /\ Len(data) \in Nat
  BY LenProperties
<1>1. PICK h \in Nat : Written(f, at, data, app) = f \o (Hole(h) \o data)
  BY WrittenBehind
<1>2. Hole(h) \in Seq(Frame) /\ Len(Hole(h)) = h
  BY HoleFacts
<1>3. Hole(h) \o data \in Seq(Frame) /\ Len(Hole(h) \o data) = h + Len(data)
  BY <1>2, Concat
<1>4. Len(f \o (Hole(h) \o data)) = Len(f) + (h + Len(data))
  BY <1>3, Concat
<1>5. QED
  BY <1>0, <1>1, <1>4

\* A flush through the stream: types, and what it leaves alone.
LEMMA FlushFacts ==
  ASSUME TypeOK, NEW data \in Seq(Frame), FlushWith(data)
  PROVE  /\ m_buf \o data \in Seq(Frame)
         /\ Len(m_buf \o data) = Len(m_buf) + Len(data)
         /\ files' \in [{"main", "tmp"} -> Seq(Frame)]
         /\ files'[m_file] = Written(files[m_file], m_at, m_buf \o data, m_append)
         /\ m_base' \in Nat /\ m_at' \in Nat
         /\ m_base' = m_base + Len(m_buf) + Len(data)
         /\ m_at' = Advanced(Len(m_buf) + Len(data))
         /\ m_buf' = <<>> /\ m_open' = m_open /\ m_file' = m_file
         /\ m_append' = m_append /\ dir' = dir
<1>1. m_buf \o data \in Seq(Frame) /\ Len(m_buf \o data) = Len(m_buf) + Len(data)
  BY Concat DEF TypeOK
<1>2. m_file \in {"main", "tmp"} /\ files \in [{"main", "tmp"} -> Seq(Frame)]
      /\ m_at \in Nat /\ m_base \in Nat /\ m_append \in BOOLEAN
  BY DEF TypeOK
<1>3. Written(files[m_file], m_at, m_buf \o data, m_append) \in Seq(Frame)
  BY <1>1, <1>2, WrittenType
<1>4. files' = [files EXCEPT ![m_file] = Written(files[m_file], m_at, m_buf \o data, m_append)]
  BY DEF FlushWith
<1>5. /\ files' \in [{"main", "tmp"} -> Seq(Frame)]
      /\ files'[m_file] = Written(files[m_file], m_at, m_buf \o data, m_append)
  BY <1>2, <1>3, <1>4
<1>6. Len(m_buf) \in Nat /\ Len(data) \in Nat
  BY LenProperties DEF TypeOK
<1>7. m_base' = m_base + Len(m_buf \o data) /\ m_at' = Advanced(Len(m_buf \o data))
  BY DEF FlushWith
<1>8. m_base' = m_base + Len(m_buf) + Len(data) /\ m_at' = Advanced(Len(m_buf) + Len(data))
  BY <1>1, <1>2, <1>6, <1>7
<1>9. m_base' \in Nat /\ m_at' \in Nat
  BY <1>2, <1>6, <1>8 DEF Advanced
<1>10. /\ m_buf' = <<>> /\ m_open' = m_open /\ m_file' = m_file
       /\ m_append' = m_append /\ dir' = dir
  BY DEF FlushWith
<1>11. QED
  BY <1>1, <1>5, <1>8, <1>9, <1>10

\* Giving the object up resets it and leaves the files alone.
LEMMA DropType ==
  ASSUME Drop
  PROVE  /\ m_open' \in BOOLEAN /\ m_file' \in {"main", "tmp"} /\ m_append' \in BOOLEAN
         /\ m_base' \in Nat /\ m_at' \in Nat /\ m_buf' \in Seq(Frame) /\ m_log' \in Seq(EntryFrame)
         /\ m_term' \in Terms /\ m_vote' \in Votes /\ m_dirty' \in BOOLEAN
         /\ pc' \in Phases /\ rpos' \in Nat
<1>1. m_buf' \in Seq(Frame) /\ m_log' \in Seq(EntryFrame)
  BY DEF Drop
<1>2. m_term' \in Terms
  BY ConstantsAssumption DEF Drop, Terms
<1>3. m_vote' \in Votes
  BY ConstantsAssumption DEF Drop
<1>4. pc' \in Phases /\ rpos' \in Nat /\ m_base' \in Nat /\ m_at' \in Nat
  BY DEF Drop, Phases
<1>5. m_open' \in BOOLEAN /\ m_file' \in {"main", "tmp"} /\ m_append' \in BOOLEAN
      /\ m_dirty' \in BOOLEAN
  BY DEF Drop
<1>6. QED
  BY <1>1, <1>2, <1>3, <1>4, <1>5

\* The frames that write_frame makes are frames.
LEMMA FrameAtType ==
  ASSUME TypeOK
  PROVE  /\ Position \in Nat
         /\ \A t \in Terms, v \in Votes : StateFrameAt(t, v, Position) \in Frame
         /\ \A i \in Indices, d \in Payloads :
              EntryFrameAt(i, d, Position) \in EntryFrame /\ EntryFrameAt(i, d, Position) \in Frame
         /\ Torn \in Frame
<1>1. Position \in Nat
  BY LenProperties DEF TypeOK, Position
<1>2. QED
  BY <1>1 DEF StateFrameAt, EntryFrameAt, StateFrame, EntryFrame, Frame

\* Every action keeps the state well typed.
LEMMA TypeStep == NoAbortInv /\ [Next]_vars => TypeOK'
<1> SUFFICES ASSUME NoAbortInv, [Next]_vars
             PROVE  TypeOK'
  OBVIOUS
<1> USE ConstantsAssumption
<1>a. TypeOK /\ StreamInPhase /\ LogBelow
  BY DEF NoAbortInv
<1>b. Position \in Nat /\ m_buf \in Seq(Frame) /\ Len(m_buf) \in Nat
      /\ files["main"] \in Seq(Frame) /\ files["tmp"] \in Seq(Frame)
      /\ Len(files["main"]) \in Nat /\ Len(files["tmp"]) \in Nat
      /\ m_log \in Seq(EntryFrame) /\ Len(m_log) \in Nat /\ DOMAIN m_log = 1 .. Len(m_log)
  BY <1>a, FrameAtType, LenProperties DEF TypeOK
<1>c. Torn \in Frame
  BY DEF Frame
<1>d. m_at \in Nat /\ m_append \in BOOLEAN
  BY <1>a DEF TypeOK
<1>e. \A n \in Nat : Advanced(n) \in Nat
  BY <1>d DEF Advanced
<1>1. ASSUME NEW t \in Terms, NEW v \in Votes, Initialize(t, v) PROVE TypeOK'
  <2>1. <<>> \in Seq(Frame) /\ <<>> \in Seq(EntryFrame)
    OBVIOUS
  <2>2. m_dirty' \in BOOLEAN
    BY <1>1, <1>a DEF Initialize, Dirtied, TypeOK
  <2>3. files' \in [{"main", "tmp"} -> Seq(Frame)]
    BY <1>1 DEF Initialize
  <2>4. maybe' \subseteq Terms \X Votes
    BY <1>1 DEF Initialize, Terms
  <2>5. pc' \in Phases
    BY <1>1 DEF Initialize, Phases
  <2>6. QED
    BY <1>1, <1>a, <2>1, <2>2, <2>3, <2>4, <2>5 DEF Initialize, TypeOK
<1>2. ASSUME Restart PROVE TypeOK'
  <2>1. m_term' \in Terms
    BY <1>2 DEF Restart, Terms
  <2>2. files' \in [{"main", "tmp"} -> Seq(Frame)]
    BY <1>2, <1>a DEF Restart, TypeOK
  <2>3. pc' \in Phases
    BY <1>2 DEF Restart, Phases
  <2>4. m_log' \in Seq(EntryFrame)
    BY <1>2 DEF Restart
  <2>5. QED
    BY <1>2, <1>a, <2>1, <2>2, <2>3, <2>4 DEF Restart, TypeOK, osvars, histvars
<1>3. ASSUME RecoverFrame PROVE TypeOK'
  <2> DEFINE f == files["main"][rpos + 1]
  <2>1. f \in Frame
    BY <1>3, <1>a, <1>b DEF RecoverFrame, TypeOK
  <2>2. f.type = "state" => f.term \in Terms /\ f.vote \in Votes
    BY <2>1, FrameKinds
  <2>3. f.type = "entry" => f \in EntryFrame
    BY <2>1, FrameKinds
  <2>4. m_dirty' \in BOOLEAN
    BY <1>3, <1>a DEF RecoverFrame, Dirtied, TypeOK, statevars
  <2>5. m_term' \in Terms /\ m_vote' \in Votes
    BY <1>3, <1>a, <2>2 DEF RecoverFrame, TypeOK, statevars
  <2>6. m_log' \in Seq(EntryFrame)
    BY <1>3, <1>b, <2>3 DEF RecoverFrame
  <2>7. rpos' \in Nat /\ pc' \in Phases
    BY <1>3, <1>a DEF RecoverFrame, TypeOK, Phases
  <2>8. QED
    BY <1>3, <1>a, <2>4, <2>5, <2>6, <2>7 DEF RecoverFrame, TypeOK, osvars, histvars
<1>4. ASSUME RecoverFails PROVE TypeOK'
  BY <1>4, <1>a, DropType DEF RecoverFails, TypeOK, histvars
<1>5. ASSUME RecoverDone PROVE TypeOK'
  BY <1>5, <1>a, <1>b DEF RecoverDone, TypeOK, Phases, statevars, histvars
<1>6. ASSUME StartWrite PROVE TypeOK'
  <2>1. <<StateFrameAt(m_term, m_vote, Position)>> \in Seq(Frame)
    BY <1>a, FrameAtType DEF TypeOK
  <2>2. m_open /\ FlushWith(<<StateFrameAt(m_term, m_vote, Position)>>)
    BY <1>6, <1>a DEF StartWrite, StreamInPhase
  <2>3. /\ files' \in [{"main", "tmp"} -> Seq(Frame)] /\ m_base' \in Nat /\ m_at' \in Nat
        /\ m_buf' = <<>> /\ UNCHANGED <<m_open, m_file, m_append, dir>>
    BY <1>a, <2>1, <2>2, FlushFacts
  <2>4. pc' \in Phases
    BY <1>6 DEF StartWrite, Phases
  <2>5. m_buf' \in Seq(Frame)
    BY <2>3
  <2>6. maybe' \subseteq Terms \X Votes
    BY <1>6, <1>a DEF StartWrite, TypeOK
  <2>7. QED
    BY <1>6, <1>a, <2>3, <2>4, <2>5, <2>6 DEF StartWrite, TypeOK, statevars
<1>7. ASSUME StartWriteFails PROVE TypeOK'
  BY <1>7, <1>a, DropType DEF StartWriteFails, TypeOK, histvars
<1>8. ASSUME NEW d \in Payloads, AppendEntry(d) PROVE TypeOK'
  <2> DEFINE e == EntryFrameAt(NextIndex, d, Position)
  <2>1. e \in EntryFrame /\ e \in Frame /\ <<e>> \in Seq(Frame)
    BY <1>8, <1>a, FrameAtType DEF AppendEntry
  <2>2. m_log' \in Seq(EntryFrame)
    BY <1>8, <1>b, <2>1, AppendProperties DEF AppendEntry
  <2>3. Key(e) \in Indices \X Payloads
    BY <1>8 DEF AppendEntry, Key, EntryFrameAt
  <2>4. CASE m_open /\ FlushWith(<<e>>) /\ acked' = acked \cup {Key(e)} /\ UNCHANGED faults
    <3>1. /\ files' \in [{"main", "tmp"} -> Seq(Frame)] /\ m_base' \in Nat /\ m_at' \in Nat
          /\ m_buf' = <<>> /\ UNCHANGED <<m_open, m_file, m_append, dir>>
      BY <1>a, <2>1, <2>4, FlushFacts
    <3>2. acked' \subseteq Indices \X Payloads
      BY <1>a, <2>3, <2>4 DEF TypeOK
    <3>3. QED
      BY <1>8, <1>a, <2>2, <2>4, <3>1, <3>2 DEF AppendEntry, TypeOK, statevars
  <2>5. CASE KeepUnwritten(e) /\ UNCHANGED acked
    <3>1. m_buf' \in Seq(Frame)
      <4>1. Append(m_buf, e) \in Seq(Frame) /\ Append(m_buf, Torn) \in Seq(Frame)
        BY <1>b, <1>c, <2>1
      <4>2. QED
        BY <2>5, <4>1 DEF KeepUnwritten
    <3>2. faults' \in 0 .. MaxFaults
      BY <2>5, <1>a DEF KeepUnwritten, WriteError, TypeOK
    <3>3. QED
      BY <1>8, <1>a, <2>2, <2>5, <3>1, <3>2 DEF AppendEntry, KeepUnwritten, TypeOK, statevars
  <2>6. QED
    BY <1>8, <2>4, <2>5 DEF AppendEntry
<1>9. ASSUME NEW t \in Terms, NEW v \in Votes, UpdateReplicantState(t, v) PROVE TypeOK'
  <2> DEFINE f == StateFrameAt(t, v, Position)
  <2>1. f \in Frame /\ <<f>> \in Seq(Frame)
    BY <1>9, <1>a, FrameAtType
  <2>2. CASE ~Dirtied(t, v) /\ maybe' = {<<t, v>>} /\ UNCHANGED <<files, dir, osvars, m_dirty, faults, cut>>
    BY <1>9, <1>a, <2>2 DEF UpdateReplicantState, TypeOK, osvars
  <2>3. CASE Room /\ m_open /\ FlushWith(<<f>>) /\ m_dirty' = FALSE
             /\ maybe' = {<<t, v>>} /\ cut' = FALSE /\ UNCHANGED faults
    <3>1. /\ files' \in [{"main", "tmp"} -> Seq(Frame)] /\ m_base' \in Nat /\ m_at' \in Nat
          /\ m_buf' = <<>> /\ UNCHANGED <<m_open, m_file, m_append, dir>>
      BY <1>a, <2>1, <2>3, FlushFacts
    <3>2. m_buf' \in Seq(Frame)
      BY <3>1
    <3>3. maybe' \subseteq Terms \X Votes
      BY <2>3
    <3>4. QED
      BY <1>9, <1>a, <2>3, <3>1, <3>2, <3>3 DEF UpdateReplicantState, TypeOK
  <2>4. CASE Room /\ KeepUnwritten(f) /\ m_dirty' = TRUE
             /\ maybe' = maybe \cup {<<t, v>>} /\ UNCHANGED cut
    <3>1. m_buf' \in Seq(Frame)
      <4>1. Append(m_buf, f) \in Seq(Frame) /\ Append(m_buf, Torn) \in Seq(Frame)
        BY <1>b, <1>c, <2>1
      <4>2. QED
        BY <2>4, <4>1 DEF KeepUnwritten
    <3>2. faults' \in 0 .. MaxFaults
      BY <2>4, <1>a DEF KeepUnwritten, WriteError, TypeOK
    <3>3. QED
      BY <1>9, <1>a, <2>4, <3>1, <3>2 DEF UpdateReplicantState, KeepUnwritten, TypeOK
  <2>5. QED
    BY <1>9, <2>2, <2>3, <2>4 DEF UpdateReplicantState
<1>10. ASSUME NEW n \in DOMAIN m_log, PruneBack(n) PROVE TypeOK'
  <2>1. m_file = "main" /\ m_open
    BY <1>10, <1>a DEF PruneBack, StreamInPhase
  <2>2. n + 1 \in DOMAIN m_log /\ n \in 1 .. Len(m_log)
    BY <1>10, <1>b DEF PruneBack, PopsDownTo
  <2>3. TruncateAt(n) \in Nat /\ TruncateAt(n) < Position
    <3>1. m_log[n + 1] \in EntryFrame
      BY <1>b, <2>2, ElementOfSeq
    <3>2. QED
      BY <1>10, <1>a, <2>2, <3>1 DEF PruneBack, LogBelow, TruncateAt, EntryFrame
  <2>4. Image \in Seq(Frame) /\ TruncateAt(n) \in 0 .. Len(Image)
    <3>1. /\ m_base <= Len(files["main"])
          /\ m_append \/ Len(files["main"]) <= m_at
          /\ m_base \in Nat
      BY <1>a, <2>1 DEF StreamInPhase, TypeOK
    <3>2. Image \in Seq(Frame)
      BY <1>b, <1>d, WrittenType DEF Image
    <3>3. Len(Image) \in Nat /\ Len(files["main"]) + Len(m_buf) <= Len(Image)
      BY <1>b, <1>d, <3>1, WrittenLength DEF Image
    <3>4. TruncateAt(n) < m_base + Len(m_buf)
      BY <2>3 DEF Position
    <3>5. TruncateAt(n) <= Len(Image)
      BY <1>b, <2>3, <3>1, <3>3, <3>4
    <3>6. QED
      BY <2>3, <3>2, <3>3, <3>5
  <2>5. SubSeq(Image, 1, TruncateAt(n)) \in Seq(Frame)
    BY <2>4, Prefix
  <2>6. files' \in [{"main", "tmp"} -> Seq(Frame)] /\ m_at' \in Nat
    <3>1. files' = [files EXCEPT !["main"] = SubSeq(Image, 1, TruncateAt(n))]
      BY <1>10, <2>1 DEF PruneBack, Image
    <3>2. m_at' = Advanced(Len(m_buf))
      BY <1>10 DEF PruneBack
    <3>3. files \in [{"main", "tmp"} -> Seq(Frame)]
      BY <1>a DEF TypeOK
    <3>4. files' \in [{"main", "tmp"} -> Seq(Frame)]
      BY <2>5, <3>1, <3>3
    <3>5. QED
      BY <1>b, <1>e, <3>2, <3>4
  <2>7. m_log' \in Seq(EntryFrame)
    BY <1>10, <1>b, <2>2, Prefix DEF PruneBack
  <2>8. \A k \in DOMAIN m_log : Key(m_log[k]) \in Indices \X Payloads
    <3>1. \A k \in DOMAIN m_log : m_log[k] \in EntryFrame
      BY <1>b
    <3>2. QED
      BY <3>1 DEF Key, EntryFrame
  <2>9. gone' \subseteq Indices \X Payloads /\ acked' \subseteq Indices \X Payloads
    <3>1. {Key(m_log[k]) : k \in (n + 1) .. Len(m_log)} \subseteq Indices \X Payloads
      BY <1>b, <2>2, <2>8
    <3>2. QED
      BY <1>10, <1>a, <3>1 DEF PruneBack, TypeOK
  <2>10. cut' \in BOOLEAN /\ hole' \in BOOLEAN
    BY <1>10, <1>a DEF PruneBack, TypeOK
  <2>11. QED
    BY <1>10, <1>a, <2>3, <2>6, <2>7, <2>9, <2>10 DEF PruneBack, TypeOK, statevars
<1>11. ASSUME NEW n \in DOMAIN m_log, PruneBackFails(n) PROVE TypeOK'
  <2>1. faults' \in 0 .. MaxFaults /\ acked' \subseteq Indices \X Payloads
    BY <1>11, <1>a DEF PruneBackFails, WriteError, TypeOK
  <2>2. CASE RetryPrune
    <3>1. m_log' \in Seq(EntryFrame)
      <4>1. n \in 0 .. Len(m_log) /\ m_log' = SubSeq(m_log, 1, n)
        BY <1>11, <1>b, <2>2 DEF PruneBackFails
      <4>2. QED
        BY <1>b, <4>1, Prefix
    <3>2. QED
      BY <1>11, <1>a, <2>1, <2>2, <3>1 DEF PruneBackFails, TypeOK, osvars, statevars
  <2>3. CASE ~RetryPrune
    BY <1>11, <1>a, <2>1, <2>3, DropType DEF PruneBackFails, TypeOK
  <2>4. QED
    BY <2>2, <2>3
<1>12. ASSUME PruneBackAtEnd PROVE TypeOK'
  <2>1. Image \in Seq(Frame)
    BY <1>b, <1>d, WrittenType DEF Image
  <2>2. \A k \in DOMAIN Image : Image[k] \in Frame
    BY <2>1, ElementOfSeq, LenProperties
  <2>3. EntryKeys(Image) \subseteq Indices \X Payloads
    BY <2>2, FrameKinds DEF EntryKeys, Key
  <2>4. QED
    BY <1>12, <1>a, <2>3 DEF PruneBackAtEnd, TypeOK, osvars, statevars
<1>13. ASSUME NEW n \in DOMAIN m_log, PruneFront(n) PROVE TypeOK'
  <2>1. m_file = "main" /\ m_open
    BY <1>13, <1>a DEF PruneFront, StreamInPhase
  <2>2. files' \in [{"main", "tmp"} -> Seq(Frame)]
    <3>1. Image \in Seq(Frame)
      BY <1>b, <1>d, WrittenType DEF Image
    <3>2. files' = [files EXCEPT !["main"] = Image, !["tmp"] = <<>>]
      BY <1>13 DEF PruneFront, Image
    <3>3. <<>> \in Seq(Frame)
      OBVIOUS
    <3>4. files \in [{"main", "tmp"} -> Seq(Frame)]
      BY <1>a DEF TypeOK
    <3>5. QED
      BY <3>1, <3>2, <3>3, <3>4
  <2>3. m_log' \in Seq(EntryFrame)
    BY <1>13, <1>b, SubSeqProperties DEF PruneFront
  <2>4. acked' \subseteq Indices \X Payloads
    BY <1>13, <1>a DEF PruneFront, TypeOK
  <2>5. QED
    BY <1>13, <1>a, <2>2, <2>3, <2>4 DEF PruneFront, TypeOK, Phases, statevars
<1>14. ASSUME CopyEntry PROVE TypeOK'
  <2> DEFINE e == [m_log[rpos + 1] EXCEPT !.pos = Position]
  <2>1. m_file = "tmp" /\ m_open /\ ~m_append
    BY <1>14, <1>a DEF CopyEntry, StreamInPhase
  <2>2. rpos \in Nat /\ rpos + 1 \in DOMAIN m_log
    BY <1>14, <1>a, <1>b DEF CopyEntry, TypeOK
  <2>3. m_log[rpos + 1] \in EntryFrame
    BY <2>2, <1>b, ElementOfSeq
  <2>4. e \in EntryFrame
    BY <2>3, <1>b DEF EntryFrame
  <2>5. e \in Frame /\ <<e>> \in Seq(Frame)
    BY <2>4 DEF Frame
  <2>6. m_log' \in Seq(EntryFrame)
    BY <1>14, <1>b, <2>2, <2>4, ExceptSeq DEF CopyEntry
  <2>7. m_buf' \in Seq(Frame)
    <3>1. Append(m_buf, e) \in Seq(Frame)
      BY <1>b, <2>5
    <3>2. m_buf' = Append(m_buf, e) \/ m_buf' = <<e>>
      BY <1>14 DEF CopyEntry
    <3>3. QED
      BY <2>5, <3>1, <3>2
  <2>8. files' \in [{"main", "tmp"} -> Seq(Frame)] /\ m_base' \in Nat /\ m_at' \in Nat
    <3>1. Written(files["tmp"], m_at, m_buf, FALSE) \in Seq(Frame)
      BY <1>b, <1>d, WrittenType
    <3>2. m_base \in Nat /\ files \in [{"main", "tmp"} -> Seq(Frame)]
      BY <1>a DEF TypeOK
    <3>3. Advanced(Len(m_buf)) \in Nat
      BY <1>b, <1>e
    <3>4. \/ UNCHANGED <<files, m_base, m_at>>
          \/ /\ files' = [files EXCEPT !["tmp"] = Written(files["tmp"], m_at, m_buf, FALSE)]
             /\ m_base' = Position /\ m_at' = Advanced(Len(m_buf))
      BY <1>14 DEF CopyEntry
    <3>5. m_base' \in Nat /\ m_at' \in Nat
      BY <1>b, <1>d, <3>2, <3>3, <3>4
    <3>6. QED
      BY <3>1, <3>2, <3>4, <3>5
  <2>9. rpos' \in Nat
    BY <1>14, <2>2 DEF CopyEntry
  <2>10. QED
    BY <1>14, <1>a, <2>6, <2>7, <2>8, <2>9 DEF CopyEntry, TypeOK, statevars, histvars
<1>15. ASSUME CopyState PROVE TypeOK'
  <2>1. m_file = "tmp" /\ m_open /\ ~m_append
    BY <1>15, <1>a DEF CopyState, StreamInPhase
  <2>2. Append(m_buf, StateFrameAt(m_term, m_vote, Position)) \in Seq(Frame)
    BY <1>a, <1>b, FrameAtType, AppendProperties DEF TypeOK
  <2>3. files' \in [{"main", "tmp"} -> Seq(Frame)]
    <3>1. Written(files["tmp"], m_at, Append(m_buf, StateFrameAt(m_term, m_vote, Position)), FALSE)
            \in Seq(Frame)
      BY <1>b, <1>d, <2>2, WrittenType
    <3>2. QED
      BY <1>15, <1>a, <3>1 DEF CopyState, TypeOK
  <2>4. pc' \in Phases /\ m_base' \in Nat /\ m_at' \in Nat /\ rpos' \in Nat
    BY <1>15, <1>b, <1>e DEF CopyState, Phases
  <2>5. m_buf' \in Seq(Frame)
    BY <1>15 DEF CopyState
  <2>6. m_open' \in BOOLEAN
    BY <1>15 DEF CopyState
  <2>7. QED
    BY <1>15, <1>a, <2>3, <2>4, <2>5, <2>6 DEF CopyState, TypeOK, statevars, histvars
<1>16. ASSUME Rename PROVE TypeOK'
  <2>2. \A k \in DOMAIN files["main"] : files["main"][k] \in Frame
    BY <1>b, ElementOfSeq, LenProperties
  <2>3. EntryKeys(files["main"]) \subseteq Indices \X Payloads
    BY <2>2, FrameKinds DEF EntryKeys, Key
  <2>4. files' \in [{"main", "tmp"} -> Seq(Frame)]
    BY <1>16, <1>a, <1>b DEF Rename, TypeOK
  <2>5. pc' \in Phases
    BY <1>16 DEF Rename, Phases
  <2>6. gone' \subseteq Indices \X Payloads
    BY <1>16, <1>a, <2>3 DEF Rename, TypeOK
  <2>7. maybe' \subseteq Terms \X Votes /\ dir' \subseteq {"main", "tmp"}
    BY <1>16, <1>a DEF Rename, TypeOK
  <2>8. cut' \in BOOLEAN /\ hole' \in BOOLEAN
    BY <1>16 DEF Rename
  <2>9. QED
    BY <1>16, <1>a, <2>4, <2>5, <2>6, <2>7, <2>8 DEF Rename, TypeOK, osvars, statevars
<1>17. ASSUME Reopen PROVE TypeOK'
  BY <1>17, <1>a, <1>b DEF Reopen, TypeOK, Phases, statevars, histvars
<1>18. ASSUME PruneFrontFails PROVE TypeOK'
  <2>1. faults' \in 0 .. MaxFaults
    BY <1>18, <1>a DEF PruneFrontFails, WriteError, TypeOK
  <2>2. QED
    BY <1>18, <1>a, <2>1, DropType DEF PruneFrontFails, TypeOK, histvars
<1>19. ASSUME NEW i \in Indices, PruneFrontInvalid(i) PROVE TypeOK'
  <2>1. m_open /\ FlushClose
    BY <1>19 DEF PruneFrontInvalid
  <2>2. files' \in [{"main", "tmp"} -> Seq(Frame)]
    <3>1. Written(files[m_file], m_at, m_buf, m_append) \in Seq(Frame)
      <4>1. files[m_file] \in Seq(Frame)
        BY <1>a DEF TypeOK
      <4>2. QED
        BY <1>b, <1>d, <4>1, WrittenType
    <3>2. QED
      BY <1>a, <2>1, <3>1 DEF FlushClose, TypeOK
  <2>3. m_buf' \in Seq(Frame) /\ m_base' \in Nat /\ m_at' \in Nat
    BY <1>b, <1>e, <2>1 DEF FlushClose
  <2>4. m_open' \in BOOLEAN
    BY <2>1 DEF FlushClose
  <2>5. QED
    BY <1>19, <1>a, <2>2, <2>3, <2>4 DEF PruneFrontInvalid, FlushClose, TypeOK, statevars, histvars
<1>20. ASSUME Close PROVE TypeOK'
  <2>1. m_file = "main" /\ m_open
    BY <1>20, <1>a DEF Close, StreamInPhase
  <2>2. Append(m_buf, StateFrameAt(m_term, m_vote, Position)) \in Seq(Frame)
    BY <1>a, <1>b, FrameAtType, AppendProperties DEF TypeOK
  <2>3. files' \in [{"main", "tmp"} -> Seq(Frame)]
    <3>1. Written(files["main"], m_at, Append(m_buf, StateFrameAt(m_term, m_vote, Position)), m_append)
            \in Seq(Frame)
      BY <1>b, <1>d, <2>2, WrittenType
    <3>2. QED
      BY <1>20, <1>a, <3>1 DEF Close, TypeOK
  <2>4. Drop /\ maybe' \subseteq Terms \X Votes
    BY <1>20, <1>a DEF Close, TypeOK
  <2>5. QED
    BY <1>20, <1>a, <2>3, <2>4, DropType DEF Close, TypeOK
<1>21. ASSUME CloseFails PROVE TypeOK'
  <2>1. faults' \in 0 .. MaxFaults
    BY <1>21, <1>a DEF CloseFails, WriteError, TypeOK
  <2>2. QED
    BY <1>21, <1>a, <2>1, DropType DEF CloseFails, TypeOK, histvars
<1>22. ASSUME Crash PROVE TypeOK'
  BY <1>22, <1>a, DropType DEF Crash, TypeOK, histvars
<1>23. ASSUME NEW k \in 0 .. Len(m_buf), CrashInWrite(k) PROVE TypeOK'
  <2>1. m_file = "main" /\ m_open
    BY <1>23, <1>a DEF CrashInWrite, StreamInPhase
  <2>2. Append(SubSeq(m_buf, 1, k), Torn) \in Seq(Frame)
    BY <1>a, <1>b, FrameAtType, AppendProperties, Prefix
  <2>3. files' \in [{"main", "tmp"} -> Seq(Frame)]
    <3>1. Written(files["main"], m_at, Append(SubSeq(m_buf, 1, k), Torn), m_append) \in Seq(Frame)
      BY <1>b, <1>d, <2>2, WrittenType
    <3>2. QED
      BY <1>23, <1>a, <2>1, <3>1 DEF CrashInWrite, TypeOK
  <2>4. QED
    BY <1>23, <1>a, <2>3, DropType DEF CrashInWrite, TypeOK, histvars
<1>24. ASSUME UNCHANGED vars PROVE TypeOK'
  BY <1>24, <1>a DEF vars, osvars, statevars, histvars, TypeOK
<1>25. QED
  BY <1>1, <1>2, <1>3, <1>4, <1>5, <1>6, <1>7, <1>8, <1>9, <1>10, <1>11, <1>12,
     <1>13, <1>14, <1>15, <1>16, <1>17, <1>18, <1>19, <1>20, <1>21, <1>22,
     <1>23, <1>24 DEF Next

-----------------------------------------------------------------------------
(* The stream, the positions, the term order and the bound on the log. *)

\* m_buf \o <<f>> and Append( m_buf, f ) are the same sequence.
LEMMA ConcatOne ==
  ASSUME NEW g \in Seq(Frame), NEW f \in Frame
  PROVE  g \o <<f>> = Append(g, f)
BY AppendIsConcat

\* What Append adds to a sequence.
LEMMA AppendOne ==
  ASSUME NEW S, NEW s \in Seq(S), NEW e \in S
  PROVE  /\ Append(s, e) \in Seq(S)
         /\ Len(s) \in Nat /\ DOMAIN s = 1 .. Len(s)
         /\ Len(Append(s, e)) = Len(s) + 1
         /\ DOMAIN Append(s, e) = 1 .. (Len(s) + 1)
         /\ Append(s, e)[Len(s) + 1] = e
         /\ \A n \in 1 .. Len(s) : Append(s, e)[n] = s[n]
BY AppendProperties, LenProperties

\* A frame behind the second part is a frame behind the whole.
LEMMA ConcatAppend ==
  ASSUME NEW f \in Seq(Frame), NEW g \in Seq(Frame), NEW e \in Frame
  PROVE  /\ f \o Append(g, e) = Append(f \o g, e)
         /\ Len(f \o Append(g, e)) = Len(f) + Len(g) + 1
<1>1. <<e>> \in Seq(Frame)
  OBVIOUS
<1>2. f \o g \in Seq(Frame) /\ Len(f \o g) = Len(f) + Len(g)
  BY Concat
<1>3. Append(g, e) = g \o <<e>>
  BY ConcatOne
<1>4. Append(f \o g, e) = (f \o g) \o <<e>>
  BY <1>2, ConcatOne
<1>5. (f \o g) \o <<e>> = f \o (g \o <<e>>)
  BY <1>1, ConcatAssociative
<1>6. f \o Append(g, e) = Append(f \o g, e)
  BY <1>3, <1>4, <1>5
<1>7. Len(Append(f \o g, e)) = Len(f \o g) + 1
  BY <1>2, AppendOne
<1>8. QED
  BY <1>2, <1>6, <1>7

\* Files without a state frame: closed under the writes of prune_front, and
\* trivially in order.
LEMMA NoStateFacts ==
  ASSUME NEW f \in Seq(Frame), NoState(f), NEW t
  PROVE  /\ Ascending(f) /\ AtMost(f, t)
         /\ \A e \in Frame : e.type # "state" => NoState(Append(f, e))
         /\ \A g \in Seq(Frame) : NoState(g) => NoState(f \o g)
<1>1. Ascending(f) /\ AtMost(f, t)
  BY DEF NoState, Ascending, AtMost
<1>2. ASSUME NEW e \in Frame, e.type # "state" PROVE NoState(Append(f, e))
  <2>1. \A k \in DOMAIN Append(f, e) :
          \/ k \in DOMAIN f /\ Append(f, e)[k] = f[k]
          \/ Append(f, e)[k] = e
    BY AppendOne
  <2>2. QED
    BY <1>2, <2>1 DEF NoState
<1>3. ASSUME NEW g \in Seq(Frame), NoState(g) PROVE NoState(f \o g)
  <2>0. Len(f) \in Nat /\ Len(g) \in Nat
    BY LenProperties
  <2>1. ASSUME NEW k \in DOMAIN (f \o g) PROVE (f \o g)[k].type # "state"
    <3>1. CASE k <= Len(f)
      BY <2>0, <3>1, Concat DEF NoState
    <3>2. CASE k > Len(f)
      BY <1>3, <2>0, <3>2, Concat DEF NoState
    <3>3. QED
      BY <2>0, <3>1, <3>2, Concat
  <2>2. QED
    BY <2>1 DEF NoState
<1>4. QED
  BY <1>1, <1>2, <1>3

\* A fragment in either part is a fragment of the whole.
LEMMA TornConcat ==
  ASSUME NEW f \in Seq(Frame), NEW g \in Seq(Frame), HasTorn(f) \/ HasTorn(g)
  PROVE  HasTorn(f \o g)
<1>0. Len(f) \in Nat /\ Len(g) \in Nat
  BY LenProperties
<1>1. ASSUME NEW k \in DOMAIN f, f[k] = Torn PROVE HasTorn(f \o g)
  <2>1. k \in DOMAIN (f \o g) /\ (f \o g)[k] = Torn
    BY <1>0, <1>1, Concat
  <2>2. QED
    BY <2>1 DEF HasTorn
<1>2. ASSUME NEW k \in DOMAIN g, g[k] = Torn PROVE HasTorn(f \o g)
  <2>1. /\ Len(f) + k \in DOMAIN (f \o g) /\ Len(f) + k \in (Len(f) + 1) .. (Len(f) + Len(g))
        /\ (Len(f) + k) - Len(f) = k
    BY <1>0, Concat
  <2>2. (f \o g)[Len(f) + k] = g[(Len(f) + k) - Len(f)]
    BY <2>1, Concat
  <2>3. QED
    BY <1>2, <2>1, <2>2 DEF HasTorn
<1>3. QED
  BY <1>1, <1>2 DEF HasTorn

\* Writing g where the stream believes to stand at base, the end of f unless f
\* has a hole, keeps positions readable and terms in order.
LEMMA WrittenSound ==
  ASSUME NEW f \in Seq(Frame), NEW g \in Seq(Frame), NEW at \in Nat, NEW app \in BOOLEAN,
         NEW base \in Nat, NEW w,
         w = Written(f, at, g, app),
         app \/ Len(f) <= at, base <= Len(f), base = Len(f) \/ HasTorn(f)
  PROVE  /\ w \in Seq(Frame)
         /\ base + Len(g) <= Len(w)
         /\ base + Len(g) = Len(w) \/ HasTorn(w)
         /\ ~app => Len(w) <= at + Len(g)
         /\ PositionsFrom(f, 0) /\ PositionsFrom(g, base) => PositionsFrom(w, 0)
         /\ /\ Ascending(f) /\ Ascending(g)
            /\ \A j \in DOMAIN f, k \in DOMAIN g :
                 f[j].type = "state" /\ g[k].type = "state" => f[j].term <= g[k].term
            => Ascending(w)
         /\ \A t : AtMost(f, t) /\ AtMost(g, t) => AtMost(w, t)
<1>1. PICK n \in Nat : /\ w = f \o (Hole(n) \o g)
                       /\ ~app => Len(f) + n <= at
  BY WrittenBehind
<1>h. PICK h : h = Hole(n) \o g
  OBVIOUS
<1>w. w = f \o h
  BY <1>1, <1>h
<1>2. Hole(n) \in Seq(Frame) /\ Len(Hole(n)) = n /\ DOMAIN Hole(n) = 1 .. n
  BY HoleFacts
<1>n. NoState(Hole(n)) /\ \A k \in 1 .. n : Hole(n)[k] = Torn
  BY HoleFacts
<1>5. Len(f) \in Nat /\ Len(g) \in Nat /\ DOMAIN g = 1 .. Len(g)
  BY LenProperties
<1>3. /\ h \in Seq(Frame) /\ Len(h) = n + Len(g) /\ DOMAIN h = 1 .. (n + Len(g))
      /\ \A k \in 1 .. n : h[k] = Hole(n)[k]
      /\ \A k \in (n + 1) .. (n + Len(g)) : h[k] = g[k - n]
  <2>1. /\ Hole(n) \o g \in Seq(Frame) /\ Len(Hole(n) \o g) = n + Len(g)
        /\ DOMAIN (Hole(n) \o g) = 1 .. (n + Len(g))
    BY <1>2, Concat
  <2>2. /\ \A k \in 1 .. n : (Hole(n) \o g)[k] = Hole(n)[k]
        /\ \A k \in (n + 1) .. (n + Len(g)) : (Hole(n) \o g)[k] = g[k - n]
    BY <1>2, Concat
  <2>3. QED
    BY <1>h, <2>1, <2>2
<1>4. w \in Seq(Frame) /\ Len(w) = Len(f) + (n + Len(g))
  <2>1. f \o h \in Seq(Frame) /\ Len(f \o h) = Len(f) + Len(h)
    BY <1>3, Concat
  <2>2. QED
    BY <1>w, <1>3, <2>1
<1>6. base + Len(g) <= Len(w) /\ (~app => Len(w) <= at + Len(g))
  BY <1>1, <1>4, <1>5
<1>7. n = 0 => h = g
  <2>1. Hole(0) = <<>>
    BY HoleFacts, EmptySeq
  <2>2. QED
    BY <1>h, <2>1, ConcatEmptySeq
<1>8. ASSUME n # 0 PROVE HasTorn(h) /\ \A off : PositionsFrom(h, off)
  <2>1. 1 \in DOMAIN h /\ 1 \in 1 .. n
    BY <1>3, <1>5, <1>8
  <2>2. h[1] = Torn
    BY <1>n, <1>3, <2>1
  <2>3. \A k \in DOMAIN h : 1 \in 1 .. k
    BY <1>3, <1>5
  <2>4. QED
    BY <2>1, <2>2, <2>3 DEF HasTorn, PositionsFrom
<1>10. ASSUME PositionsFrom(f, 0), PositionsFrom(g, base) PROVE PositionsFrom(w, 0)
  <2>1. HasTorn(f) \/ PositionsFrom(h, Len(f))
    BY <1>7, <1>8, <1>10
  <2>2. PositionsFrom(f \o h, 0)
    BY <1>3, <1>10, <2>1, PositionsConcat
  <2>3. QED
    BY <1>w, <2>2
<1>11. base + Len(g) = Len(w) \/ HasTorn(w)
  <2>1. CASE HasTorn(f) \/ HasTorn(h)
    BY <1>w, <1>3, <2>1, TornConcat
  <2>2. CASE ~HasTorn(f) /\ ~HasTorn(h)
    <3>1. base = Len(f) /\ n = 0
      BY <1>8, <2>2
    <3>2. QED
      BY <1>4, <1>5, <3>1
  <2>3. QED
    BY <2>1, <2>2
<1>12. ASSUME NEW k \in DOMAIN h, h[k].type = "state" PROVE \E i \in DOMAIN g : h[k] = g[i]
  <2>1. CASE k <= n
    <3>1. k \in 1 .. n
      BY <1>3, <1>5, <2>1
    <3>2. h[k] = Torn
      BY <1>n, <1>3, <3>1
    <3>3. QED
      BY <1>12, <3>2 DEF Torn
  <2>2. CASE k > n
    <3>1. k \in (n + 1) .. (n + Len(g)) /\ k - n \in DOMAIN g
      BY <1>3, <1>5, <2>2
    <3>2. QED
      BY <1>3, <3>1
  <2>3. QED
    BY <1>3, <1>5, <2>1, <2>2
<1>13. ASSUME Ascending(g) PROVE Ascending(h)
  <2>1. Ascending(Hole(n))
    BY <1>2, <1>n, NoStateFacts
  <2>2. Ascending(Hole(n) \o g)
    BY <1>2, <1>n, <1>13, <2>1, AscendingConcat DEF NoState
  <2>3. QED
    BY <1>h, <2>2
<1>14. ASSUME Ascending(f), Ascending(g),
              \A j \in DOMAIN f, k \in DOMAIN g :
                f[j].type = "state" /\ g[k].type = "state" => f[j].term <= g[k].term
       PROVE  Ascending(w)
  <2>1. \A j \in DOMAIN f, k \in DOMAIN h :
          f[j].type = "state" /\ h[k].type = "state" => f[j].term <= h[k].term
    BY <1>12, <1>14
  <2>2. Ascending(f \o h)
    BY <1>3, <1>13, <1>14, <2>1, AscendingConcat
  <2>3. QED
    BY <1>w, <2>2
<1>15. ASSUME NEW t, AtMost(f, t), AtMost(g, t) PROVE AtMost(w, t)
  <2>1. AtMost(h, t)
    BY <1>12, <1>15 DEF AtMost
  <2>2. AtMost(f \o h, t)
    BY <1>3, <1>15, <2>1, AtMostConcat
  <2>3. QED
    BY <1>w, <2>2
<1>16. QED
  BY <1>4, <1>6, <1>10, <1>11, <1>14, <1>15

\* A frame put behind the buffer stores its position.
LEMMA BufferedPositions ==
  ASSUME TypeOK, PositionsFrom(m_buf, m_base), NEW f \in Frame,
         f # Torn => f.pos = Position
  PROVE  /\ Append(m_buf, f) \in Seq(Frame)
         /\ Len(Append(m_buf, f)) = Len(m_buf) + 1
         /\ PositionsFrom(Append(m_buf, f), m_base)
<1>1. m_buf \in Seq(Frame) /\ Len(m_buf) \in Nat /\ DOMAIN m_buf = 1 .. Len(m_buf) /\ m_base \in Nat
  BY LenProperties DEF TypeOK
<1>2. /\ Append(m_buf, f) \in Seq(Frame)
      /\ Len(Append(m_buf, f)) = Len(m_buf) + 1
      /\ DOMAIN Append(m_buf, f) = 1 .. (Len(m_buf) + 1)
      /\ \A k \in 1 .. Len(m_buf) : Append(m_buf, f)[k] = m_buf[k]
      /\ Append(m_buf, f)[Len(m_buf) + 1] = f
  BY <1>1, AppendProperties
<1>3. ASSUME NEW k \in 1 .. (Len(m_buf) + 1),
             \A j \in 1 .. k : Append(m_buf, f)[j] # Torn
      PROVE  Append(m_buf, f)[k].pos = m_base + k - 1
  <2>1. CASE k <= Len(m_buf)
    <3>1. k \in DOMAIN m_buf /\ Append(m_buf, f)[k] = m_buf[k]
      BY <1>1, <1>2, <2>1
    <3>2. \A j \in 1 .. k : j \in 1 .. Len(m_buf) /\ m_buf[j] # Torn
      BY <1>1, <1>2, <1>3, <2>1
    <3>3. QED
      BY <3>1, <3>2 DEF PositionsFrom
  <2>2. CASE k = Len(m_buf) + 1
    BY <1>1, <1>2, <1>3, <2>2 DEF Position
  <2>3. QED
    BY <1>1, <2>1, <2>2
<1>4. QED
  BY <1>2, <1>3 DEF PositionsFrom

\* A frame behind the buffer keeps the term order.
LEMMA BufferedTerms ==
  ASSUME NEW g \in Seq(Frame), NEW f \in Frame, Ascending(g),
         f.type = "state" => AtMost(g, f.term)
  PROVE  Ascending(Append(g, f))
<1>1. Len(g) \in Nat /\ DOMAIN g = 1 .. Len(g)
  BY LenProperties
<1>2. /\ DOMAIN Append(g, f) = 1 .. (Len(g) + 1)
      /\ \A k \in 1 .. Len(g) : Append(g, f)[k] = g[k]
      /\ Append(g, f)[Len(g) + 1] = f
  BY AppendProperties, <1>1
<1> SUFFICES ASSUME NEW j \in DOMAIN Append(g, f), NEW k \in DOMAIN Append(g, f), j < k,
                    Append(g, f)[j].type = "state", Append(g, f)[k].type = "state"
             PROVE  Append(g, f)[j].term <= Append(g, f)[k].term
  BY DEF Ascending
<1>3. j \in 1 .. Len(g) /\ Append(g, f)[j] = g[j]
  BY <1>1, <1>2
<1>4. CASE k <= Len(g)
  BY <1>1, <1>2, <1>3, <1>4 DEF Ascending
<1>5. CASE k = Len(g) + 1
  BY <1>1, <1>2, <1>3, <1>5 DEF AtMost
<1>6. QED
  BY <1>1, <1>2, <1>4, <1>5

\* A frame behind the buffer keeps a bound on the terms.
LEMMA BufferedAtMost ==
  ASSUME NEW g \in Seq(Frame), NEW f \in Frame, NEW t, AtMost(g, t),
         f.type = "state" => f.term <= t
  PROVE  AtMost(Append(g, f), t)
<1>1. Len(g) \in Nat /\ DOMAIN g = 1 .. Len(g)
  BY LenProperties
<1>2. /\ DOMAIN Append(g, f) = 1 .. (Len(g) + 1)
      /\ \A k \in 1 .. Len(g) : Append(g, f)[k] = g[k]
      /\ Append(g, f)[Len(g) + 1] = f
  BY AppendProperties, <1>1
<1>3. QED
  BY <1>1, <1>2 DEF AtMost

\* What is true of the frames of a file is true of its prefixes.
LEMMA PrefixKeeps ==
  ASSUME NEW f \in Seq(Frame), NEW n \in 0 .. Len(f)
  PROVE  /\ SubSeq(f, 1, n) \in Seq(Frame)
         /\ Len(SubSeq(f, 1, n)) = n
         /\ \A off : PositionsFrom(f, off) => PositionsFrom(SubSeq(f, 1, n), off)
         /\ Ascending(f) => Ascending(SubSeq(f, 1, n))
         /\ \A t : AtMost(f, t) => AtMost(SubSeq(f, 1, n), t)
<1>1. /\ SubSeq(f, 1, n) \in Seq(Frame)
      /\ Len(SubSeq(f, 1, n)) = n
      /\ DOMAIN SubSeq(f, 1, n) = 1 .. n
      /\ \A k \in 1 .. n : SubSeq(f, 1, n)[k] = f[k] /\ k \in DOMAIN f
  BY Prefix
<1>2. \A off : PositionsFrom(f, off) => PositionsFrom(SubSeq(f, 1, n), off)
  BY <1>1 DEF PositionsFrom
<1>3. Ascending(f) => Ascending(SubSeq(f, 1, n))
  BY <1>1 DEF Ascending
<1>4. \A t : AtMost(f, t) => AtMost(SubSeq(f, 1, n), t)
  BY <1>1 DEF AtMost
<1>5. QED
  BY <1>1, <1>2, <1>3, <1>4

\* The empty buffer satisfies everything asked of a buffer.
LEMMA EmptyBuffer ==
  ASSUME NEW off, NEW t
  PROVE  /\ PositionsFrom(<<>>, off) /\ Ascending(<<>>) /\ AtMost(<<>>, t) /\ NoState(<<>>)
         /\ DOMAIN <<>> = {}
BY DEF PositionsFrom, Ascending, AtMost, NoState

\* The part of the inductive invariant that is not typing.
Rest == StreamInPhase /\ Positions /\ TermOrder /\ LogBelow /\ NoAbort

\* Giving the object up keeps the invariant as long as the main file is sound.
LEMMA DropRest ==
  ASSUME Drop, PositionsFrom(files["main"], 0)', Ascending(files["main"])'
  PROVE  Rest'
<1>1. StreamInPhase'
  BY DEF Drop, StreamInPhase
<1>2. PositionsFrom(m_buf, m_base)'
  BY DEF Drop, PositionsFrom
<1>3. Positions'
  BY <1>2 DEF Drop, Positions
<1>4. TermOrder'
  BY DEF Drop, TermOrder
<1>5. LogBelow' /\ NoAbort'
  BY DEF Drop, LogBelow, NoAbort
<1>6. QED
  BY <1>1, <1>3, <1>4, <1>5 DEF Rest

\* What the open stream writes keeps the main file sound.
LEMMA StreamWrite ==
  ASSUME NoAbortInv, pc \in {"start", "ready"}, m_open, NEW g \in Seq(Frame), NEW w,
         w = Written(files["main"], m_at, g, m_append),
         PositionsFrom(g, m_base), Ascending(g),
         \A j \in DOMAIN files["main"], k \in DOMAIN g :
           files["main"][j].type = "state" /\ g[k].type = "state"
             => files["main"][j].term <= g[k].term
  PROVE  /\ m_file = "main" /\ w \in Seq(Frame)
         /\ m_base + Len(g) <= Len(w)
         /\ m_base + Len(g) = Len(w) \/ HasTorn(w)
         /\ ~m_append => Len(w) <= m_at + Len(g)
         /\ PositionsFrom(w, 0) /\ Ascending(w)
         /\ \A t : AtMost(files["main"], t) /\ AtMost(g, t) => AtMost(w, t)
<1>1. TypeOK /\ StreamInPhase /\ Positions /\ TermOrder
  BY DEF NoAbortInv
<1>2. /\ m_file = "main" /\ files["main"] \in Seq(Frame) /\ m_at \in Nat /\ m_append \in BOOLEAN
      /\ m_base \in Nat
      /\ m_append \/ Len(files["main"]) <= m_at
      /\ m_base <= Len(files["main"])
      /\ m_base = Len(files["main"]) \/ HasTorn(files["main"])
  BY <1>1 DEF TypeOK, StreamInPhase
<1>3. PositionsFrom(files["main"], 0) /\ Ascending(files["main"])
  BY <1>1 DEF Positions, TermOrder
<1>4. PICK f \in Seq(Frame), at \in Nat, app \in BOOLEAN, base \in Nat :
        f = files["main"] /\ at = m_at /\ app = m_append /\ base = m_base
  BY <1>2
<1>5. /\ w = Written(f, at, g, app)
      /\ app \/ Len(f) <= at
      /\ base <= Len(f)
      /\ base = Len(f) \/ HasTorn(f)
  BY <1>2, <1>4
<1>6. /\ w \in Seq(Frame)
      /\ base + Len(g) <= Len(w)
      /\ base + Len(g) = Len(w) \/ HasTorn(w)
      /\ ~app => Len(w) <= at + Len(g)
  <2>1. w \in Seq(Frame)
    BY <1>5, WrittenSound
  <2>2. base + Len(g) <= Len(w)
    BY <1>5, WrittenSound
  <2>3. base + Len(g) = Len(w) \/ HasTorn(w)
    BY <1>5, WrittenSound
  <2>4. ~app => Len(w) <= at + Len(g)
    BY <1>5, WrittenSound
  <2>5. QED
    BY <2>1, <2>2, <2>3, <2>4
<1>7. PositionsFrom(w, 0)
  <2>1. PositionsFrom(f, 0) /\ PositionsFrom(g, base)
    BY <1>3, <1>4
  <2>2. QED
    BY <1>5, <2>1, WrittenSound
<1>8. Ascending(w)
  <2>1. /\ Ascending(f)
        /\ \A j \in DOMAIN f, k \in DOMAIN g :
             f[j].type = "state" /\ g[k].type = "state" => f[j].term <= g[k].term
    BY <1>3, <1>4
  <2>2. QED
    BY <1>5, <2>1, WrittenSound
<1>9. \A t : AtMost(f, t) /\ AtMost(g, t) => AtMost(w, t)
  BY <1>5, WrittenSound
<1>10. QED
  BY <1>2, <1>4, <1>6, <1>7, <1>8, <1>9

\* The main file with the buffer behind it, while the log is in use.
LEMMA ImageFacts ==
  ASSUME NoAbortInv, pc \in {"start", "ready"}, m_open
  PROVE  /\ m_file = "main"
         /\ Image \in Seq(Frame) /\ Position <= Len(Image)
         /\ Position = Len(Image) \/ HasTorn(Image)
         /\ m_append \/ Len(Image) <= Advanced(Len(m_buf))
         /\ PositionsFrom(Image, 0) /\ Ascending(Image) /\ AtMost(Image, m_term)
<1>1. TypeOK /\ StreamInPhase /\ Positions /\ TermOrder
  BY DEF NoAbortInv
<1>2. m_buf \in Seq(Frame) /\ PositionsFrom(m_buf, m_base)
  BY <1>1 DEF TypeOK, Positions
<1>3. /\ Ascending(m_buf) /\ AtMost(files["main"], m_term) /\ AtMost(m_buf, m_term)
      /\ \A j \in DOMAIN files["main"], k \in DOMAIN m_buf :
           files["main"][j].type = "state" /\ m_buf[k].type = "state"
             => files["main"][j].term <= m_buf[k].term
  BY <1>1 DEF TermOrder
<1>4. /\ m_file = "main" /\ Image \in Seq(Frame)
      /\ m_base + Len(m_buf) <= Len(Image)
      /\ m_base + Len(m_buf) = Len(Image) \/ HasTorn(Image)
      /\ ~m_append => Len(Image) <= m_at + Len(m_buf)
      /\ PositionsFrom(Image, 0) /\ Ascending(Image)
      /\ \A t : AtMost(files["main"], t) /\ AtMost(m_buf, t) => AtMost(Image, t)
  BY <1>2, <1>3, StreamWrite DEF Image
<1>5. QED
  BY <1>3, <1>4 DEF Position, Advanced

\* One more frame through the open stream, flushed.
LEMMA FlushRest ==
  ASSUME NoAbortInv, pc \in {"start", "ready"}, m_open,
         NEW f \in Frame, f # Torn, f.pos = Position,
         f.type = "state" => f.term = m_term',
         m_term' \in Terms, m_term <= m_term',
         FlushWith(<<f>>), pc' = "ready",
         \A k \in DOMAIN m_log' : m_log'[k].pos < Position + 1
  PROVE  Rest'
<1> USE ConstantsAssumption
<1>1. TypeOK /\ StreamInPhase /\ Positions /\ TermOrder /\ LogBelow
  BY DEF NoAbortInv
<1>2. m_file = "main" /\ m_buf \in Seq(Frame) /\ files["main"] \in Seq(Frame)
      /\ m_base \in Nat /\ Len(m_buf) \in Nat /\ m_term \in Nat /\ m_term' \in Nat
  BY <1>1, LenProperties DEF TypeOK, StreamInPhase, Terms
<1>3. m_buf \o <<f>> = Append(m_buf, f) /\ <<f>> \in Seq(Frame) /\ Len(<<f>>) = 1
  BY <1>2, ConcatOne
<1>g. PICK g : g = Append(m_buf, f)
  OBVIOUS
<1>4. g \in Seq(Frame) /\ Len(g) = Len(m_buf) + 1 /\ PositionsFrom(g, m_base)
  BY <1>1, <1>g, BufferedPositions DEF Positions
<1>w. PICK w : w = Written(files["main"], m_at, g, m_append)
  OBVIOUS
<1>5. /\ files'["main"] = w
      /\ m_base' = m_base + Len(g) /\ m_at' = Advanced(Len(g)) /\ m_append' = m_append
      /\ m_buf' = <<>> /\ m_open' = m_open /\ m_file' = m_file
  <2>1. /\ files'[m_file] = Written(files[m_file], m_at, m_buf \o <<f>>, m_append)
        /\ m_base' = m_base + Len(m_buf) + 1 /\ m_at' = Advanced(Len(m_buf) + 1)
        /\ m_append' = m_append /\ m_buf' = <<>> /\ m_open' = m_open /\ m_file' = m_file
    BY <1>1, <1>3, FlushFacts
  <2>2. files'["main"] = w
    BY <1>2, <1>3, <1>g, <1>w, <2>1
  <2>3. m_base' = m_base + Len(g)
    BY <1>2, <1>4, <2>1
  <2>4. m_at' = Advanced(Len(g))
    BY <1>4, <2>1
  <2>5. QED
    BY <2>1, <2>2, <2>3, <2>4
<1>7. AtMost(m_buf, m_term) /\ AtMost(files["main"], m_term)
  BY <1>1 DEF TermOrder
<1>8. AtMost(m_buf, m_term') /\ AtMost(files["main"], m_term')
  <2>1. ASSUME NEW h \in Seq(Frame), AtMost(h, m_term) PROVE AtMost(h, m_term')
    <3>1. \A k \in DOMAIN h : h[k] \in Frame
      BY <2>1
    <3>2. \A k \in DOMAIN h : h[k].type = "state" => h[k].term \in Nat
      BY <3>1, FrameKinds DEF Terms
    <3>3. QED
      BY <1>2, <2>1, <3>2 DEF AtMost
  <2>2. QED
    BY <1>2, <1>7, <2>1
<1>9. AtMost(g, m_term')
  BY <1>2, <1>8, <1>g, BufferedAtMost
<1>10. Ascending(g)
  <2>1. f.type = "state" => AtMost(m_buf, f.term)
    BY <1>8
  <2>2. Ascending(m_buf)
    BY <1>1 DEF TermOrder
  <2>3. QED
    BY <1>2, <1>g, <2>1, <2>2, BufferedTerms
<1>11. \A j \in DOMAIN files["main"], k \in DOMAIN g :
         files["main"][j].type = "state" /\ g[k].type = "state"
           => files["main"][j].term <= g[k].term
  <2> SUFFICES ASSUME NEW j \in DOMAIN files["main"], NEW k \in DOMAIN g,
                      files["main"][j].type = "state", g[k].type = "state"
               PROVE  files["main"][j].term <= g[k].term
    OBVIOUS
  <2>0. DOMAIN g = 1 .. (Len(m_buf) + 1) /\ DOMAIN m_buf = 1 .. Len(m_buf)
        /\ g[Len(m_buf) + 1] = f /\ \A n \in 1 .. Len(m_buf) : g[n] = m_buf[n]
    BY <1>2, <1>g, AppendProperties, LenProperties
  <2>1. CASE k <= Len(m_buf)
    <3>1. k \in DOMAIN m_buf /\ g[k] = m_buf[k]
      BY <1>2, <2>0, <2>1
    <3>2. QED
      BY <1>1, <3>1 DEF TermOrder
  <2>2. CASE k = Len(m_buf) + 1
    BY <1>8, <2>0, <2>2 DEF AtMost
  <2>3. QED
    BY <1>2, <2>0, <2>1, <2>2
<1>12. /\ m_base + Len(g) <= Len(w)
       /\ m_base + Len(g) = Len(w) \/ HasTorn(w)
       /\ ~m_append => Len(w) <= m_at + Len(g)
       /\ w \in Seq(Frame)
  BY <1>4, <1>w, <1>10, <1>11, StreamWrite
<1>c. /\ PositionsFrom(w, 0) /\ Ascending(w)
      /\ \A t : AtMost(files["main"], t) /\ AtMost(g, t) => AtMost(w, t)
  BY <1>4, <1>w, <1>10, <1>11, StreamWrite
<1>6. PositionsFrom(files["main"], 0)' /\ Ascending(files["main"])'
  BY <1>5, <1>c
<1>13. AtMost(files["main"], m_term)'
  BY <1>5, <1>8, <1>9, <1>c
<1>14. StreamInPhase'
  <2>1. m_append' \/ Len(files'["main"]) <= m_at'
    <3>1. CASE m_append
      BY <1>5, <3>1
    <3>2. CASE ~m_append
      BY <1>5, <1>12, <3>2 DEF Advanced
    <3>3. QED
      BY <3>1, <3>2
  <2>2. QED
    <3>1. m_file' = "main" /\ m_open' /\ m_base' <= Len(files'["main"])
      BY <1>2, <1>5, <1>12
    <3>2. m_base' = Len(files'["main"]) \/ HasTorn(files'["main"])
      BY <1>5, <1>12
    <3>3. QED
      BY <2>1, <3>1, <3>2 DEF StreamInPhase
<1>15. Positions'
  <2>1. PositionsFrom(m_buf', m_base')
    BY <1>5, EmptyBuffer
  <2>2. QED
    BY <1>6, <2>1 DEF Positions
<1>16. TermOrder'
  <2>1. Ascending(m_buf') /\ AtMost(m_buf', m_term') /\ DOMAIN m_buf' = {}
    BY <1>5, EmptyBuffer
  <2>2. QED
    BY <1>6, <1>13, <2>1 DEF TermOrder
<1>17. LogBelow'
  <2>1. m_base' = m_base + (Len(m_buf) + 1) /\ Len(m_buf') = 0
    BY <1>4, <1>5
  <2>2. Position' = Position + 1
    BY <1>2, <2>1 DEF Position
  <2>3. QED
    BY <2>2 DEF LogBelow
<1>18. QED
  BY <1>14, <1>15, <1>16, <1>17 DEF Rest, NoAbort

\* One more frame, or a fragment of it, that stays in the buffer.
LEMMA KeepRest ==
  ASSUME NoAbortInv, pc = "ready",
         NEW f \in Frame, f # Torn, f.pos = Position,
         f.type = "state" => f.term = m_term',
         m_term' \in Terms, m_term <= m_term',
         KeepUnwritten(f), pc' = "ready",
         \A k \in DOMAIN m_log' : m_log'[k].pos < Position + 1
  PROVE  Rest'
<1> USE ConstantsAssumption
<1>1. TypeOK /\ StreamInPhase /\ Positions /\ TermOrder /\ LogBelow
  BY DEF NoAbortInv
<1>2. m_file = "main" /\ m_buf \in Seq(Frame) /\ files["main"] \in Seq(Frame)
      /\ m_base \in Nat /\ Len(m_buf) \in Nat /\ m_term \in Nat /\ m_term' \in Nat
  BY <1>1, LenProperties DEF TypeOK, StreamInPhase, Terms
<1>3. PICK h \in Frame : /\ m_buf' = Append(m_buf, h)
                         /\ h # Torn => h.pos = Position
                         /\ h.type = "state" => h.term = m_term'
  <2>1. Torn \in Frame /\ Torn.type = "torn"
    BY DEF Frame, Torn
  <2>2. CASE m_buf' = Append(m_buf, f)
    BY <2>2
  <2>3. CASE m_buf' = Append(m_buf, Torn)
    BY <2>1, <2>3
  <2>4. QED
    BY <2>2, <2>3 DEF KeepUnwritten
<1>4. m_buf' \in Seq(Frame) /\ Len(m_buf') = Len(m_buf) + 1 /\ PositionsFrom(m_buf', m_base)
  BY <1>1, <1>3, BufferedPositions DEF Positions
<1>5. files' = files /\ m_base' = m_base /\ m_open' = m_open /\ m_file' = m_file
      /\ m_at' = m_at /\ m_append' = m_append
  BY DEF KeepUnwritten
<1>7. AtMost(m_buf, m_term) /\ AtMost(files["main"], m_term)
  BY <1>1 DEF TermOrder
<1>8. AtMost(m_buf, m_term') /\ AtMost(files["main"], m_term')
  <2>1. ASSUME NEW s \in Seq(Frame), AtMost(s, m_term) PROVE AtMost(s, m_term')
    <3>1. \A k \in DOMAIN s : s[k] \in Frame
      BY <2>1
    <3>2. \A k \in DOMAIN s : s[k].type = "state" => s[k].term \in Nat
      BY <3>1, FrameKinds DEF Terms
    <3>3. QED
      BY <1>2, <2>1, <3>2 DEF AtMost
  <2>2. QED
    BY <1>2, <1>7, <2>1
<1>9. AtMost(m_buf', m_term')
  BY <1>2, <1>3, <1>8, BufferedAtMost
<1>10. Ascending(m_buf')
  <2>1. h.type = "state" => AtMost(m_buf, h.term)
    BY <1>3, <1>8
  <2>2. Ascending(m_buf)
    BY <1>1 DEF TermOrder
  <2>3. QED
    BY <1>2, <1>3, <2>1, <2>2, BufferedTerms
<1>11. \A j \in DOMAIN files["main"], k \in DOMAIN m_buf' :
         files["main"][j].type = "state" /\ m_buf'[k].type = "state"
           => files["main"][j].term <= m_buf'[k].term
  <2> SUFFICES ASSUME NEW j \in DOMAIN files["main"], NEW k \in DOMAIN m_buf',
                      files["main"][j].type = "state", m_buf'[k].type = "state"
               PROVE  files["main"][j].term <= m_buf'[k].term
    OBVIOUS
  <2>0. DOMAIN m_buf' = 1 .. (Len(m_buf) + 1) /\ DOMAIN m_buf = 1 .. Len(m_buf)
        /\ m_buf'[Len(m_buf) + 1] = h /\ \A n \in 1 .. Len(m_buf) : m_buf'[n] = m_buf[n]
    BY <1>2, <1>3, AppendProperties, LenProperties
  <2>1. CASE k <= Len(m_buf)
    <3>1. k \in DOMAIN m_buf /\ m_buf'[k] = m_buf[k]
      BY <1>2, <2>0, <2>1
    <3>2. QED
      BY <1>1, <3>1 DEF TermOrder
  <2>2. CASE k = Len(m_buf) + 1
    BY <1>3, <1>8, <2>0, <2>2 DEF AtMost
  <2>3. QED
    BY <1>2, <2>0, <2>1, <2>2
<1>14. StreamInPhase'
  BY <1>1, <1>2, <1>5 DEF StreamInPhase
<1>15. Positions'
  BY <1>1, <1>4, <1>5 DEF Positions
<1>16. TermOrder'
  BY <1>1, <1>5, <1>8, <1>9, <1>10, <1>11 DEF TermOrder
<1>17. LogBelow'
  BY <1>2, <1>4, <1>5 DEF LogBelow, Position
<1>18. QED
  BY <1>14, <1>15, <1>16, <1>17 DEF Rest, NoAbort

\* A fragment at the end disturbs neither positions nor terms.
LEMMA AppendTorn ==
  ASSUME NEW g \in Seq(Frame), NEW off, PositionsFrom(g, off), Ascending(g)
  PROVE  /\ Append(g, Torn) \in Seq(Frame)
         /\ PositionsFrom(Append(g, Torn), off)
         /\ Ascending(Append(g, Torn))
         /\ \A k \in DOMAIN Append(g, Torn) :
              Append(g, Torn)[k].type = "state" => k \in DOMAIN g /\ Append(g, Torn)[k] = g[k]
<1>1. Torn \in Frame /\ Torn.type = "torn"
  BY DEF Frame, Torn
<1>2. /\ Append(g, Torn) \in Seq(Frame)
      /\ \A k \in DOMAIN Append(g, Torn) :
           \/ k \in DOMAIN g /\ Append(g, Torn)[k] = g[k]
           \/ Append(g, Torn)[k] = Torn
  BY <1>1, AppendOne
<1>3. PositionsFrom(Append(g, Torn), off)
  BY <1>2 DEF PositionsFrom
<1>4. Ascending(Append(g, Torn))
  BY <1>1, <1>2 DEF Ascending
<1>5. QED
  BY <1>1, <1>2, <1>3, <1>4

\* A step that leaves what Rest speaks of alone.
LEMMA RestStutter ==
  ASSUME Rest, UNCHANGED <<files, osvars, m_log, statevars, pc, rpos>>
  PROVE  Rest'
<1>1. StreamInPhase' /\ Positions' /\ NoAbort'
  BY DEF Rest, StreamInPhase, Positions, NoAbort, osvars
<1>2. TermOrder'
  BY DEF Rest, TermOrder, osvars, statevars
<1>3. LogBelow'
  BY DEF Rest, LogBelow, Position, osvars
<1>4. QED
  BY <1>1, <1>2, <1>3 DEF Rest

\* Every action keeps the other parts of the inductive invariant.
LEMMA RestStep == NoAbortInv /\ TypeOK' /\ [Next]_vars => Rest'
<1> SUFFICES ASSUME NoAbortInv, TypeOK', [Next]_vars
             PROVE  Rest'
  OBVIOUS
<1> USE ConstantsAssumption
<1>a. TypeOK /\ StreamInPhase /\ Positions /\ TermOrder /\ LogBelow /\ NoAbort
  BY DEF NoAbortInv
<1>f. LogOrder
  BY DEF NoAbortInv
<1>b. Position \in Nat /\ m_buf \in Seq(Frame) /\ Len(m_buf) \in Nat /\ m_base \in Nat
      /\ files["main"] \in Seq(Frame) /\ files["tmp"] \in Seq(Frame)
      /\ Len(files["main"]) \in Nat /\ Len(files["tmp"]) \in Nat
      /\ m_log \in Seq(EntryFrame) /\ Len(m_log) \in Nat /\ DOMAIN m_log = 1 .. Len(m_log)
      /\ m_term \in Terms /\ m_term \in Nat /\ rpos \in Nat
  BY <1>a, FrameAtType, LenProperties DEF TypeOK, Terms
<1>c. PositionsFrom(files["main"], 0) /\ Ascending(files["main"])
  BY <1>a DEF Positions, TermOrder
<1>d. files \in [{"main", "tmp"} -> Seq(Frame)]
  BY <1>a DEF TypeOK
<1>e. \A k \in DOMAIN m_log : m_log[k] \in EntryFrame /\ m_log[k].pos \in Nat
  <2>1. \A k \in DOMAIN m_log : m_log[k] \in EntryFrame
    BY <1>b
  <2>2. QED
    BY <2>1 DEF EntryFrame
<1>1. ASSUME NEW t \in Terms, NEW v \in Votes, Initialize(t, v) PROVE Rest'
  <2>1. files'["main"] = <<>> /\ m_buf' = <<>> /\ m_log' = <<>> /\ m_base' = 0 /\ pc' = "start"
        /\ m_open' = TRUE /\ m_file' = "main" /\ m_at' = 0
    BY <1>1 DEF Initialize
  <2>2. PositionsFrom(files'["main"], 0) /\ PositionsFrom(m_buf', m_base') /\ Ascending(files'["main"])
        /\ Ascending(m_buf') /\ AtMost(files'["main"], m_term') /\ AtMost(m_buf', m_term')
        /\ DOMAIN m_buf' = {} /\ DOMAIN m_log' = {}
    BY <2>1, EmptyBuffer
  <2>3. StreamInPhase'
    <3>1. Len(files'["main"]) = 0
      BY <2>1
    <3>2. QED
      BY <2>1, <3>1 DEF StreamInPhase
  <2>4. Positions' /\ TermOrder'
    BY <2>1, <2>2 DEF Positions, TermOrder
  <2>5. LogBelow' /\ NoAbort'
    BY <2>1, <2>2 DEF LogBelow, NoAbort
  <2>6. QED
    BY <2>3, <2>4, <2>5 DEF Rest
<1>2. ASSUME Restart PROVE Rest'
  <2>1. files'["main"] = files["main"] /\ m_log' = <<>> /\ m_term' = 1 /\ rpos' = 0
        /\ pc' \in {"recover", "down"} /\ UNCHANGED osvars
    BY <1>2, <1>d DEF Restart
  <2>2. ~m_open /\ m_buf = <<>>
    BY <1>2, <1>a DEF Restart, StreamInPhase
  <2>3. StreamInPhase'
    BY <1>b, <2>1, <2>2 DEF StreamInPhase, osvars
  <2>4. Positions'
    BY <1>a, <2>1 DEF Positions, osvars
  <2>5. \A k \in DOMAIN files["main"] :
          k \in Nat \ {0} /\ (files["main"][k].type = "state" => 1 <= files["main"][k].term)
    <3>1. \A k \in DOMAIN files["main"] : files["main"][k] \in Frame /\ k \in Nat \ {0}
      BY <1>b
    <3>2. QED
      BY <3>1, FrameKinds DEF Terms
  <2>6. TermOrder'
    BY <1>c, <2>1, <2>5 DEF TermOrder
  <2>7. LogBelow' /\ NoAbort'
    BY <2>1 DEF LogBelow, NoAbort
  <2>8. QED
    BY <2>3, <2>4, <2>6, <2>7 DEF Rest
<1>3. ASSUME RecoverFrame PROVE Rest'
  <2> DEFINE f == files["main"][rpos + 1]
  <2>1. pc = "recover" /\ rpos + 1 \in DOMAIN files["main"] /\ f # Torn /\ UNCHANGED <<files, osvars>>
    BY <1>3, <1>b DEF RecoverFrame
  <2>2. f \in Frame
    BY <1>b, <2>1
  <2>3. (\A k \in 1 .. (rpos + 1) : files["main"][k] # Torn) /\ f.pos = rpos
    <3>1. \A k \in 1 .. rpos : files["main"][k] # Torn
      BY <1>a, <2>1 DEF StreamInPhase
    <3>2. \A k \in 1 .. (rpos + 1) : files["main"][k] # Torn
      BY <1>b, <2>1, <3>1
    <3>3. f.pos = 0 + (rpos + 1) - 1
      BY <1>c, <2>1, <3>2 DEF PositionsFrom
    <3>4. QED
      BY <1>b, <3>2, <3>3
  <2>4. f.type = "state" => m_term <= f.term /\ f.term \in Nat
    BY <1>a, <1>b, <2>1, <2>2, FrameKinds DEF TermOrder, Terms
  <2>5. /\ pc' = pc /\ rpos' = rpos + 1
        /\ \/ f.type = "state" /\ m_term' = f.term /\ m_log' = m_log
           \/ f.type = "entry" /\ m_term' = m_term /\ m_log' = Append(m_log, f)
    BY <1>3, <1>b, <2>3, <2>4 DEF RecoverFrame, statevars
  <2>6. StreamInPhase'
    <3>1. ~m_open' /\ m_buf' = <<>>
      BY <1>a, <2>1 DEF StreamInPhase, osvars
    <3>2. rpos' <= Len(files'["main"]) /\ (\A k \in 1 .. rpos' : files'["main"][k] # Torn)
          /\ pc' = "recover"
      BY <1>b, <2>1, <2>3, <2>5
    <3>3. QED
      BY <3>1, <3>2 DEF StreamInPhase
  <2>7. Positions'
    BY <1>a, <2>1, <2>5 DEF Positions, osvars
  <2>8. LogBelow'
    <3>1. CASE m_log' = m_log
      <4>1. \A k \in DOMAIN m_log : m_log[k].pos \in Nat
        BY <1>e
      <4>2. \A k \in DOMAIN m_log : m_log[k].pos < rpos
        BY <1>a, <2>1 DEF LogBelow
      <4>3. \A k \in DOMAIN m_log : m_log[k].pos < rpos + 1
        BY <1>b, <4>1, <4>2
      <4>4. pc' = "recover" /\ rpos' = rpos + 1
        BY <2>1, <2>5
      <4>5. QED
        BY <3>1, <4>3, <4>4 DEF LogBelow
    <3>2. CASE m_log' = Append(m_log, f) /\ f.type = "entry"
      <4>1. f \in EntryFrame
        BY <2>2, <3>2, FrameKinds
      <4>2. DOMAIN m_log' = 1 .. (Len(m_log) + 1)
            /\ m_log'[Len(m_log) + 1] = f /\ \A n \in 1 .. Len(m_log) : m_log'[n] = m_log[n]
        <5>1. ASSUME NEW e \in EntryFrame
              PROVE  DOMAIN Append(m_log, e) = 1 .. (Len(m_log) + 1)
                     /\ Append(m_log, e)[Len(m_log) + 1] = e
                     /\ \A n \in 1 .. Len(m_log) : Append(m_log, e)[n] = m_log[n]
          BY <1>b, AppendOne
        <5>2. QED
          BY <3>2, <4>1, <5>1
      <4>3. \A k \in DOMAIN m_log : m_log[k].pos \in Nat /\ m_log[k].pos < rpos
        <5>1. \A k \in DOMAIN m_log : m_log[k].pos \in Nat
          BY <1>e
        <5>2. QED
          BY <1>a, <2>1, <5>1 DEF LogBelow
      <4>4. \A k \in DOMAIN m_log' : m_log'[k].pos < rpos + 1
        <5> SUFFICES ASSUME NEW k \in DOMAIN m_log' PROVE m_log'[k].pos < rpos + 1
          OBVIOUS
        <5>1. CASE k <= Len(m_log)
          BY <1>b, <4>2, <4>3, <5>1
        <5>2. CASE k = Len(m_log) + 1
          BY <1>b, <2>3, <4>2, <5>2
        <5>3. QED
          BY <1>b, <4>2, <5>1, <5>2
      <4>5. QED
        BY <2>1, <2>5, <4>4 DEF LogBelow
    <3>3. QED
      BY <2>5, <3>1, <3>2
  <2>9. TermOrder'
    <3>1. ASSUME NEW k \in DOMAIN files["main"], files["main"][k].type = "state"
          PROVE  IF k <= rpos + 1 THEN files["main"][k].term <= m_term'
                                  ELSE m_term' <= files["main"][k].term
      <4>1. k \in Nat /\ files["main"][k] \in Frame /\ files["main"][k].term \in Nat
        <5>1. k \in Nat /\ files["main"][k] \in Frame
          BY <1>b
        <5>2. QED
          BY <5>1, <3>1, FrameKinds DEF Terms
      <4>2. IF k <= rpos THEN files["main"][k].term <= m_term
                         ELSE m_term <= files["main"][k].term
        BY <1>a, <2>1, <3>1 DEF TermOrder
      <4>3. CASE f.type = "state" /\ m_term' = f.term
        <5>1. CASE k <= rpos
          BY <1>b, <2>4, <4>1, <4>2, <4>3, <5>1
        <5>2. CASE k = rpos + 1
          BY <1>b, <2>4, <4>1, <4>3, <5>2
        <5>3. CASE k > rpos + 1
          BY <1>b, <1>c, <2>1, <3>1, <4>1, <4>3, <5>3 DEF Ascending
        <5>4. QED
          BY <1>b, <4>1, <5>1, <5>2, <5>3
      <4>4. CASE f.type = "entry" /\ m_term' = m_term
        <5>1. k # rpos + 1
          BY <3>1, <4>4
        <5>2. QED
          BY <1>b, <4>1, <4>2, <4>4, <5>1
      <4>5. QED
        BY <2>5, <4>3, <4>4
    <3>2. QED
      BY <1>c, <2>1, <2>5, <3>1 DEF TermOrder
  <2>10. QED
    BY <2>1, <2>5, <2>6, <2>7, <2>8, <2>9 DEF Rest, NoAbort
<1>4. ASSUME RecoverFails PROVE Rest'
  BY <1>4, <1>c, DropRest DEF RecoverFails
<1>5. ASSUME RecoverDone PROVE Rest'
  <2>1. pc = "recover" /\ rpos = Len(files["main"]) /\ files' = files /\ m_open' /\ m_file' = "main"
        /\ m_base' = Len(files["main"]) /\ m_buf' = <<>> /\ pc' = "start" /\ m_log' = m_log /\ m_term' = m_term
        /\ m_append'
    BY <1>5 DEF RecoverDone, statevars
  <2>2. StreamInPhase'
    BY <1>b, <2>1 DEF StreamInPhase
  <2>3. PositionsFrom(m_buf', m_base') /\ Ascending(m_buf') /\ AtMost(m_buf', m_term') /\ DOMAIN m_buf' = {}
        /\ Len(m_buf') = 0
    BY <2>1, EmptyBuffer
  <2>4. Positions'
    BY <1>c, <2>1, <2>3 DEF Positions
  <2>5. AtMost(files["main"], m_term)
    BY <1>a, <1>b, <2>1 DEF AtMost, TermOrder
  <2>6. TermOrder'
    BY <1>c, <2>1, <2>3, <2>5 DEF TermOrder
  <2>7. LogBelow'
    BY <1>a, <1>b, <2>1, <2>3 DEF LogBelow, Position
  <2>8. QED
    BY <2>1, <2>2, <2>4, <2>6, <2>7 DEF Rest, NoAbort
<1>6. ASSUME StartWrite PROVE Rest'
  <2> DEFINE f == StateFrameAt(m_term, m_vote, Position)
  <2>1. f \in Frame /\ f # Torn /\ f.pos = Position /\ f.term = m_term
    <3>1. f \in Frame
      BY <1>a, FrameAtType DEF TypeOK
    <3>2. QED
      BY <3>1 DEF StateFrameAt, Torn
  <2>2. m_open /\ FlushWith(<<f>>) /\ pc = "start" /\ pc' = "ready" /\ m_log' = m_log /\ m_term' = m_term
    BY <1>6, <1>a DEF StartWrite, StreamInPhase, statevars
  <2>3. \A k \in DOMAIN m_log' : m_log'[k].pos < Position + 1
    <3>1. \A k \in DOMAIN m_log : m_log[k].pos \in Nat
      BY <1>e
    <3>2. QED
      BY <1>a, <1>b, <2>2, <3>1 DEF LogBelow
  <2>4. QED
    BY <1>b, <2>1, <2>2, <2>3, FlushRest
<1>7. ASSUME StartWriteFails PROVE Rest'
  BY <1>7, <1>c, DropRest DEF StartWriteFails
<1>8. ASSUME NEW d \in Payloads, AppendEntry(d) PROVE Rest'
  <2> DEFINE e == EntryFrameAt(NextIndex, d, Position)
  <2>1. e \in EntryFrame /\ e \in Frame
    BY <1>8, <1>a, FrameAtType DEF AppendEntry
  <2>2. e # Torn /\ e.pos = Position /\ e.type = "entry"
    BY DEF EntryFrameAt, Torn
  <2>3. pc = "ready" /\ pc' = "ready" /\ m_term' = m_term /\ m_log' = Append(m_log, e)
        /\ (KeepUnwritten(e) \/ (m_open /\ FlushWith(<<e>>)))
    BY <1>8 DEF AppendEntry, statevars
  <2>4. \A k \in DOMAIN m_log' : m_log'[k].pos < Position + 1
    <3>1. \A k \in DOMAIN m_log : m_log[k].pos \in Nat /\ m_log[k].pos < Position
      <4>1. \A k \in DOMAIN m_log : m_log[k].pos \in Nat
        BY <1>e
      <4>2. QED
        BY <1>a, <2>3, <4>1 DEF LogBelow
    <3>2. DOMAIN m_log' = 1 .. (Len(m_log) + 1)
          /\ m_log'[Len(m_log) + 1] = e /\ \A n \in 1 .. Len(m_log) : m_log'[n] = m_log[n]
      BY <1>b, <2>1, <2>3, AppendProperties, LenProperties
    <3> SUFFICES ASSUME NEW k \in DOMAIN m_log' PROVE m_log'[k].pos < Position + 1
      OBVIOUS
    <3>3. CASE k <= Len(m_log)
      BY <1>b, <3>1, <3>2, <3>3
    <3>4. CASE k = Len(m_log) + 1
      BY <1>b, <2>2, <3>2, <3>4
    <3>5. QED
      BY <1>b, <3>2, <3>3, <3>4
  <2>5. m_term' \in Terms /\ m_term <= m_term'
    BY <1>b, <2>3
  <2>6. CASE KeepUnwritten(e)
    BY <2>1, <2>2, <2>3, <2>4, <2>5, <2>6, KeepRest
  <2>7. CASE m_open /\ FlushWith(<<e>>)
    BY <2>1, <2>2, <2>3, <2>4, <2>5, <2>7, FlushRest
  <2>8. QED
    BY <2>3, <2>6, <2>7
<1>9. ASSUME NEW t \in Terms, NEW v \in Votes, UpdateReplicantState(t, v) PROVE Rest'
  <2> DEFINE f == StateFrameAt(t, v, Position)
  <2>1. f \in Frame /\ f # Torn /\ f.pos = Position /\ f.term = t
    <3>1. f \in Frame
      BY <1>a, FrameAtType
    <3>2. QED
      BY <3>1 DEF StateFrameAt, Torn
  <2>2. /\ pc = "ready" /\ pc' = "ready" /\ m_term' = t /\ m_log' = m_log /\ m_term <= m_term'
        /\ KeepUnwritten(f) \/ (m_open /\ FlushWith(<<f>>)) \/ UNCHANGED <<files, osvars>>
    BY <1>9, <1>b DEF UpdateReplicantState, Terms
  <2>3. \A k \in DOMAIN m_log' : m_log'[k].pos < Position + 1
    <3>1. \A k \in DOMAIN m_log : m_log[k].pos \in Nat
      BY <1>e
    <3>2. QED
      BY <1>a, <1>b, <2>2, <3>1 DEF LogBelow
  <2>4. CASE KeepUnwritten(f)
    BY <2>1, <2>2, <2>3, <2>4, KeepRest
  <2>5. CASE m_open /\ FlushWith(<<f>>)
    BY <2>1, <2>2, <2>3, <2>5, FlushRest
  <2>6. CASE UNCHANGED <<files, osvars>>
    <3>1. StreamInPhase' /\ Positions'
      BY <1>a, <2>2, <2>6 DEF StreamInPhase, Positions, osvars
    <3>2. ASSUME NEW h \in Seq(Frame), AtMost(h, m_term) PROVE AtMost(h, m_term')
      <4>1. \A k \in DOMAIN h : h[k] \in Frame
        BY <3>2
      <4>2. \A k \in DOMAIN h : h[k].type = "state" => h[k].term \in Nat
        BY <4>1, FrameKinds DEF Terms
      <4>3. QED
        BY <1>b, <2>2, <3>2, <4>2 DEF AtMost, Terms
    <3>3. AtMost(m_buf, m_term') /\ AtMost(files["main"], m_term')
      BY <1>a, <1>b, <2>2, <3>2 DEF TermOrder
    <3>4. TermOrder'
      BY <1>a, <2>2, <2>6, <3>3 DEF TermOrder, osvars
    <3>5. LogBelow' /\ NoAbort'
      BY <1>a, <2>2, <2>6 DEF LogBelow, NoAbort, Position, osvars
    <3>6. QED
      BY <3>1, <3>4, <3>5 DEF Rest
  <2>7. QED
    BY <2>2, <2>4, <2>5, <2>6
<1>10. ASSUME NEW n \in DOMAIN m_log, PruneBack(n) PROVE Rest'
  <2>1. /\ pc = "ready" /\ m_open /\ pc' = "ready" /\ m_open' /\ m_file' = m_file
        /\ n \in 1 .. (Len(m_log) - 1) /\ m_log' = SubSeq(m_log, 1, n)
        /\ m_base' = TruncateAt(n) /\ m_buf' = <<>> /\ m_term' = m_term
        /\ m_at' = Advanced(Len(m_buf)) /\ m_append' = m_append
        /\ files' = [files EXCEPT ![m_file] =
             SubSeq(Written(files[m_file], m_at, m_buf, m_append), 1, TruncateAt(n))]
    BY <1>10 DEF PruneBack, PopsDownTo, statevars
  <2>2. /\ m_file = "main" /\ Image \in Seq(Frame) /\ Position <= Len(Image)
        /\ m_append \/ Len(Image) <= Advanced(Len(m_buf))
        /\ PositionsFrom(Image, 0) /\ Ascending(Image) /\ AtMost(Image, m_term)
    BY <2>1, ImageFacts
  <2>3. n \in Nat /\ n + 1 \in DOMAIN m_log /\ n <= Len(m_log)
    BY <1>b, <2>1
  <2>4. TruncateAt(n) \in Nat /\ TruncateAt(n) < Position
    BY <1>a, <1>e, <2>1, <2>3 DEF TruncateAt, LogBelow
  <2>5. files'["main"] = SubSeq(Image, 1, TruncateAt(n))
    BY <1>d, <2>1, <2>2 DEF Image
  <2>6. /\ Len(files'["main"]) = TruncateAt(n) /\ PositionsFrom(files'["main"], 0)
        /\ Ascending(files'["main"]) /\ AtMost(files'["main"], m_term)
    <3>1. TruncateAt(n) \in 0 .. Len(Image)
      <4>1. Len(Image) \in Nat
        BY <2>2, LenProperties
      <4>2. QED
        BY <1>b, <2>2, <2>4, <4>1
    <3>2. QED
      BY <2>2, <2>5, <3>1, PrefixKeeps
  <2>7. PositionsFrom(m_buf', m_base') /\ Ascending(m_buf') /\ AtMost(m_buf', m_term') /\ DOMAIN m_buf' = {}
        /\ Len(m_buf') = 0
    BY <2>1, EmptyBuffer
  <2>8. DOMAIN m_log' = 1 .. n /\ \A k \in 1 .. n : m_log'[k] = m_log[k] /\ m_log[k].pos < TruncateAt(n)
    <3>1. DOMAIN m_log' = 1 .. n /\ \A k \in 1 .. n : m_log'[k] = m_log[k]
      <4>1. n \in 0 .. Len(m_log)
        BY <1>b, <2>3
      <4>2. QED
        BY <1>b, <2>1, <4>1, Prefix
    <3>2. \A k \in 1 .. n : m_log[k].pos < TruncateAt(n)
      BY <1>b, <1>f, <2>1, <2>3 DEF LogOrder, TruncateAt
    <3>3. QED
      BY <3>1, <3>2
  <2>9. StreamInPhase'
    <3>1. Len(Image) \in Nat
      BY <2>2, LenProperties
    <3>2. m_append' \/ Len(files'["main"]) <= m_at'
      <4>1. m_at' \in Nat
        BY DEF TypeOK
      <4>2. QED
        BY <1>b, <2>1, <2>2, <2>4, <2>6, <3>1, <4>1
    <3>3. m_base' <= Len(files'["main"]) /\ m_base' = Len(files'["main"])
      BY <2>1, <2>4, <2>6
    <3>4. QED
      BY <2>1, <2>2, <3>2, <3>3 DEF StreamInPhase
  <2>10. Positions'
    BY <2>1, <2>6, <2>7 DEF Positions
  <2>11. TermOrder'
    BY <2>1, <2>6, <2>7 DEF TermOrder
  <2>12. LogBelow'
    BY <2>1, <2>4, <2>7, <2>8 DEF LogBelow, Position
  <2>13. QED
    BY <2>1, <2>9, <2>10, <2>11, <2>12 DEF Rest, NoAbort
<1>11. ASSUME NEW n \in DOMAIN m_log, PruneBackFails(n) PROVE Rest'
  <2>1. CASE ~RetryPrune
    BY <1>11, <1>c, <2>1, DropRest DEF PruneBackFails
  <2>2. CASE RetryPrune
    <3>1. /\ pc = "ready" /\ UNCHANGED <<files, osvars, statevars, pc, rpos>>
          /\ n \in 0 .. Len(m_log) /\ m_log' = SubSeq(m_log, 1, n)
      BY <1>11, <1>b, <2>2 DEF PruneBackFails, PopsDownTo
    <3>2. DOMAIN m_log' = 1 .. n /\ \A k \in 1 .. n : m_log'[k] = m_log[k] /\ k \in DOMAIN m_log
      BY <1>b, <3>1, Prefix
    <3>3. StreamInPhase' /\ Positions'
      BY <1>a, <3>1 DEF StreamInPhase, Positions, osvars, statevars
    <3>4. TermOrder'
      BY <1>a, <3>1 DEF TermOrder, osvars, statevars
    <3>5. LogBelow'
      BY <1>a, <3>1, <3>2 DEF LogBelow, Position, osvars
    <3>6. QED
      BY <3>1, <3>3, <3>4, <3>5 DEF Rest, NoAbort
  <2>3. QED
    BY <2>1, <2>2
<1>12. ASSUME PruneBackAtEnd PROVE Rest'
  <2>1. UNCHANGED <<files, osvars, m_log, statevars, pc, rpos>>
    BY <1>12 DEF PruneBackAtEnd
  <2>2. QED
    BY <1>a, <2>1, RestStutter DEF Rest
<1>13. ASSUME NEW n \in DOMAIN m_log, PruneFront(n) PROVE Rest'
  <2>1. /\ pc = "ready" /\ m_open /\ m_open' /\ m_file' = "tmp" /\ m_append' = FALSE /\ m_base' = 0
        /\ m_at' = 0 /\ m_buf' = <<>> /\ pc' = "copy" /\ rpos' = 0
        /\ files' = [files EXCEPT !["main"] = Image, !["tmp"] = <<>>]
    BY <1>13 DEF PruneFront, Image
  <2>2. PositionsFrom(Image, 0) /\ Ascending(Image)
    BY <2>1, ImageFacts
  <2>3. files'["main"] = Image /\ files'["tmp"] = <<>>
    BY <1>d, <2>1, <2>2
  <2>4. /\ PositionsFrom(m_buf', 0) /\ PositionsFrom(files'["tmp"], 0)
        /\ NoState(m_buf') /\ NoState(files'["tmp"]) /\ Len(files'["tmp"]) = 0
    BY <2>1, <2>3, EmptyBuffer
  <2>5. Len(m_log') \in Nat
    <3>1. m_log' \in Seq(EntryFrame)
      BY DEF TypeOK
    <3>2. QED
      BY <3>1, LenProperties
  <2>6. StreamInPhase'
    BY <2>1, <2>4, <2>5 DEF StreamInPhase
  <2>7. Positions' /\ TermOrder'
    BY <2>1, <2>2, <2>3, <2>4 DEF Positions, TermOrder
  <2>8. LogBelow' /\ NoAbort'
    BY <2>1 DEF LogBelow, NoAbort
  <2>9. QED
    BY <2>6, <2>7, <2>8 DEF Rest
<1>14. ASSUME CopyEntry PROVE Rest'
  <2> DEFINE e == [m_log[rpos + 1] EXCEPT !.pos = Position]
  <2>1. /\ pc = "copy" /\ pc' = "copy" /\ rpos' = rpos + 1 /\ m_file' = m_file /\ m_open' = m_open
        /\ m_append' = m_append /\ rpos + 1 \in DOMAIN m_log
        /\ m_log' = [m_log EXCEPT ![rpos + 1] = e]
    BY <1>14, <1>b DEF CopyEntry
  <2>2. /\ m_open /\ m_file = "tmp" /\ ~m_append /\ rpos <= Len(m_log)
        /\ m_base = Len(files["tmp"]) /\ m_at = Len(files["tmp"])
    BY <1>a, <2>1 DEF StreamInPhase
  <2>3. e \in EntryFrame /\ e \in Frame /\ e # Torn /\ e.pos = Position /\ e.type # "state"
    <3>1. m_log[rpos + 1] \in EntryFrame
      BY <1>e, <2>1
    <3>2. e \in EntryFrame /\ e.pos = Position
      BY <1>b, <3>1 DEF EntryFrame
    <3>3. QED
      BY <3>2 DEF EntryFrame, Frame, Torn
  <2>4. Len(m_log') = Len(m_log) /\ \A k \in 1 .. (rpos + 1) : m_log'[k].pos < Position + 1
    <3>1. DOMAIN m_log' = DOMAIN m_log /\ m_log'[rpos + 1] = e
          /\ \A k \in 1 .. rpos : m_log'[k] = m_log[k] /\ k \in DOMAIN m_log
      BY <1>b, <2>1
    <3>2. Len(m_log') = Len(m_log)
      <4>1. m_log' \in Seq(EntryFrame)
        BY DEF TypeOK
      <4>2. QED
        BY <1>b, <3>1, <4>1, LenProperties
    <3>3. \A k \in 1 .. rpos : m_log'[k].pos < Position + 1
      <4>1. \A k \in 1 .. rpos : m_log[k].pos < Position
        BY <1>a, <2>1 DEF LogBelow
      <4>2. \A k \in 1 .. rpos : m_log[k].pos \in Nat /\ m_log'[k] = m_log[k]
        BY <1>e, <3>1
      <4>3. QED
        BY <1>b, <4>1, <4>2
    <3>4. m_log'[rpos + 1].pos < Position + 1
      BY <1>b, <2>3, <3>1
    <3>5. QED
      BY <1>b, <3>2, <3>3, <3>4
  <2>5. /\ PositionsFrom(m_buf, m_base) /\ PositionsFrom(files["tmp"], 0)
        /\ NoState(files["tmp"]) /\ NoState(m_buf)
    BY <1>a, <2>1 DEF Positions, TermOrder
  <2>6. CASE m_buf' = Append(m_buf, e) /\ UNCHANGED <<files, m_base, m_at>>
    <3>1. Len(m_buf') = Len(m_buf) + 1 /\ PositionsFrom(m_buf', m_base)
      BY <1>a, <2>3, <2>5, <2>6, BufferedPositions
    <3>2. NoState(m_buf')
      BY <1>b, <2>3, <2>5, <2>6, NoStateFacts
    <3>3. StreamInPhase'
      BY <1>b, <2>1, <2>2, <2>4, <2>6 DEF StreamInPhase
    <3>4. Positions' /\ TermOrder'
      BY <1>c, <2>1, <2>5, <2>6, <3>1, <3>2 DEF Positions, TermOrder
    <3>5. LogBelow' /\ NoAbort'
      BY <1>b, <2>1, <2>4, <2>6, <3>1 DEF LogBelow, NoAbort, Position
    <3>6. QED
      BY <3>3, <3>4, <3>5 DEF Rest
  <2>7. CASE /\ files' = [files EXCEPT !["tmp"] = Written(files["tmp"], m_at, m_buf, FALSE)]
             /\ m_base' = Position /\ m_at' = Advanced(Len(m_buf)) /\ m_buf' = <<e>>
    <3>1. files'["tmp"] = files["tmp"] \o m_buf /\ files'["main"] = files["main"]
      <4>1. Written(files["tmp"], m_at, m_buf, FALSE) = files["tmp"] \o m_buf
        BY <1>b, <2>2, WrittenAtEnd
      <4>2. QED
        BY <1>d, <2>7, <4>1
    <3>2. Len(files'["tmp"]) = Position
      BY <1>b, <2>2, <3>1, Concat DEF Position
    <3>3. PositionsFrom(files'["tmp"], 0)
      BY <1>b, <2>2, <2>5, <3>1, PositionsConcat
    <3>4. NoState(files'["tmp"])
      BY <1>b, <2>5, <3>1, NoStateFacts
    <3>5. Len(m_buf') = 1 /\ DOMAIN m_buf' = {1} /\ m_buf'[1] = e
      BY <2>7
    <3>6. NoState(m_buf') /\ PositionsFrom(m_buf', m_base')
      <4>1. NoState(m_buf')
        BY <2>3, <3>5 DEF NoState
      <4>2. m_buf'[1].pos = m_base' + 1 - 1
        <5>1. m_buf'[1].pos = Position
          BY <2>3, <3>5
        <5>2. m_base' = Position
          BY <2>7
        <5>3. QED
          BY <1>b, <5>1, <5>2
      <4>3. QED
        BY <3>5, <4>1, <4>2 DEF PositionsFrom
    <3>7. StreamInPhase'
      <4>1. m_file' = "tmp" /\ m_open' /\ m_base' = Len(files'["tmp"]) /\ pc' = "copy" /\ ~m_append'
        BY <2>1, <2>2, <2>7, <3>2
      <4>a. m_at' = m_at + Len(m_buf) /\ m_at = m_base
        BY <2>2, <2>7 DEF Advanced
      <4>b. m_at' = Len(files'["tmp"]) /\ Len(files'["tmp"]) <= Len(files'["tmp"])
        BY <1>b, <3>2, <4>a DEF Position
      <4>2. rpos' <= Len(m_log')
        BY <1>b, <2>1, <2>4
      <4>3. QED
        BY <4>1, <4>a, <4>b, <4>2 DEF StreamInPhase
    <3>8. Positions' /\ TermOrder'
      BY <1>c, <2>1, <3>1, <3>3, <3>4, <3>6 DEF Positions, TermOrder
    <3>9. LogBelow' /\ NoAbort'
      <4>1. Position' = Position + 1
        BY <2>7, <3>5 DEF Position
      <4>2. QED
        BY <2>1, <2>4, <4>1 DEF LogBelow, NoAbort
    <3>10. QED
      BY <3>7, <3>8, <3>9 DEF Rest
  <2>8. QED
    BY <1>14, <2>6, <2>7 DEF CopyEntry
<1>15. ASSUME CopyState PROVE Rest'
  <2> DEFINE s == StateFrameAt(m_term, m_vote, Position)
  <2>1. /\ pc = "copy" /\ pc' = "rename" /\ rpos = Len(m_log) /\ m_log' = m_log /\ m_open' = FALSE
        /\ m_buf' = <<>> /\ m_term' = m_term
        /\ files' = [files EXCEPT !["tmp"] = Written(files["tmp"], m_at, Append(m_buf, s), FALSE)]
    BY <1>15 DEF CopyState, statevars
  <2>2. m_base = Len(files["tmp"]) /\ m_at = Len(files["tmp"])
    BY <1>a, <2>1 DEF StreamInPhase
  <2>3. /\ PositionsFrom(m_buf, m_base) /\ PositionsFrom(files["tmp"], 0)
        /\ NoState(files["tmp"]) /\ NoState(m_buf)
    BY <1>a, <2>1 DEF Positions, TermOrder
  <2>4. s \in Frame /\ s.pos = Position /\ s.term = m_term
    <3>1. s \in Frame
      BY <1>a, FrameAtType DEF TypeOK
    <3>2. QED
      BY <3>1 DEF StateFrameAt
  <2> DEFINE g == Append(m_buf, s)
  <2>5. g \in Seq(Frame) /\ Len(g) = Len(m_buf) + 1 /\ PositionsFrom(g, m_base)
    BY <1>a, <2>3, <2>4, BufferedPositions
  <2>6. Ascending(g) /\ AtMost(g, m_term)
    <3>1. Ascending(m_buf) /\ AtMost(m_buf, m_term)
      BY <1>b, <2>3, NoStateFacts
    <3>2. m_term <= m_term
      BY <1>b
    <3>3. QED
      BY <1>b, <2>4, <3>1, <3>2, BufferedTerms, BufferedAtMost
  <2>7. files'["tmp"] = files["tmp"] \o g /\ files'["main"] = files["main"]
    <3>1. Written(files["tmp"], m_at, g, FALSE) = files["tmp"] \o g
      BY <1>b, <2>2, <2>5, WrittenAtEnd
    <3>2. QED
      BY <1>d, <2>1, <3>1
  <2>8. PositionsFrom(files'["tmp"], 0)
    BY <1>b, <2>2, <2>3, <2>5, <2>7, PositionsConcat
  <2>9. Ascending(files'["tmp"]) /\ AtMost(files'["tmp"], m_term)
    <3>1. Ascending(files["tmp"]) /\ AtMost(files["tmp"], m_term)
      BY <1>b, <2>3, NoStateFacts
    <3>2. Ascending(files["tmp"] \o g)
      BY <1>b, <2>3, <2>5, <2>6, <3>1, AscendingConcat DEF NoState
    <3>3. QED
      BY <1>b, <2>5, <2>6, <2>7, <3>1, <3>2, AtMostConcat
  <2>10. Len(files'["tmp"]) = Position + 1
    <3>1. Len(files["tmp"] \o Append(m_buf, s)) = Len(files["tmp"]) + Len(m_buf) + 1
      BY <1>b, <2>4, ConcatAppend
    <3>2. QED
      BY <2>2, <2>7, <3>1 DEF Position
  <2>11. StreamInPhase'
    BY <2>1 DEF StreamInPhase
  <2>12. Positions'
    <3>1. PositionsFrom(m_buf', m_base')
      BY <2>1, EmptyBuffer
    <3>2. QED
      BY <1>c, <2>7, <2>8, <3>1 DEF Positions
  <2>13. TermOrder'
    BY <1>c, <2>1, <2>7, <2>9 DEF TermOrder
  <2>14. LogBelow' /\ NoAbort'
    <3>1. \A k \in DOMAIN m_log : m_log[k].pos < Position
      BY <1>a, <1>b, <2>1 DEF LogBelow
    <3>2. \A k \in DOMAIN m_log : m_log[k].pos < Position + 1
      BY <1>b, <1>e, <3>1
    <3>3. QED
      BY <2>1, <2>10, <3>2 DEF LogBelow, NoAbort
  <2>15. QED
    BY <2>11, <2>12, <2>13, <2>14 DEF Rest
<1>16. ASSUME Rename PROVE Rest'
  <2>1. /\ pc = "rename" /\ pc' = "reopen" /\ files'["main"] = files["tmp"]
        /\ UNCHANGED <<osvars, m_log, statevars>>
    BY <1>16, <1>d DEF Rename
  <2>2. ~m_open /\ m_buf = <<>>
    BY <1>a, <2>1 DEF StreamInPhase
  <2>3. PositionsFrom(files["tmp"], 0) /\ Ascending(files["tmp"]) /\ AtMost(files["tmp"], m_term)
    BY <1>a, <2>1 DEF Positions, TermOrder
  <2>4. StreamInPhase'
    BY <2>1, <2>2 DEF StreamInPhase, osvars
  <2>5. Positions'
    BY <1>a, <2>1, <2>3 DEF Positions, osvars
  <2>6. TermOrder'
    BY <2>1, <2>3 DEF TermOrder, statevars
  <2>7. LogBelow' /\ NoAbort'
    BY <1>a, <2>1 DEF LogBelow, NoAbort
  <2>8. QED
    BY <2>4, <2>5, <2>6, <2>7 DEF Rest
<1>17. ASSUME Reopen PROVE Rest'
  <2>1. /\ pc = "reopen" /\ pc' = "ready" /\ m_open' = TRUE /\ m_file' = "main"
        /\ m_base' = Len(files["main"]) /\ m_buf' = m_buf /\ files' = files /\ m_append'
        /\ m_log' = m_log /\ m_term' = m_term
    BY <1>17 DEF Reopen, statevars
  <2>2. m_buf = <<>>
    BY <1>a, <2>1 DEF StreamInPhase
  <2>3. PositionsFrom(m_buf', m_base') /\ Ascending(m_buf') /\ AtMost(m_buf', m_term') /\ DOMAIN m_buf' = {}
        /\ Len(m_buf') = 0
    BY <2>1, <2>2, EmptyBuffer
  <2>4. StreamInPhase'
    BY <1>b, <2>1 DEF StreamInPhase
  <2>5. Positions'
    BY <1>c, <2>1, <2>3 DEF Positions
  <2>6. AtMost(files["main"], m_term)
    BY <1>a, <2>1 DEF TermOrder
  <2>7. TermOrder'
    BY <1>c, <2>1, <2>3, <2>6 DEF TermOrder
  <2>8. Position' = Len(files["main"])
    BY <1>b, <2>1, <2>3 DEF Position
  <2>9. LogBelow' /\ NoAbort'
    BY <1>a, <2>1, <2>8 DEF LogBelow, NoAbort
  <2>10. QED
    BY <2>4, <2>5, <2>7, <2>9 DEF Rest
<1>18. ASSUME PruneFrontFails PROVE Rest'
  BY <1>18, <1>c, DropRest DEF PruneFrontFails
<1>19. ASSUME NEW i \in Indices, PruneFrontInvalid(i) PROVE Rest'
  <2>1. /\ pc = "ready" /\ m_open /\ pc' = "ready" /\ m_open' = FALSE /\ m_file' = m_file
        /\ m_base' = Position /\ m_buf' = <<>> /\ m_log' = m_log /\ m_term' = m_term
        /\ files' = [files EXCEPT ![m_file] = Written(files[m_file], m_at, m_buf, m_append)]
    BY <1>19 DEF PruneFrontInvalid, FlushClose, statevars
  <2>2. /\ m_file = "main"
        /\ PositionsFrom(Image, 0) /\ Ascending(Image) /\ AtMost(Image, m_term)
    BY <2>1, ImageFacts
  <2>3. files'["main"] = Image
    BY <1>d, <2>1, <2>2 DEF Image
  <2>4. PositionsFrom(m_buf', m_base') /\ Ascending(m_buf') /\ AtMost(m_buf', m_term') /\ DOMAIN m_buf' = {}
        /\ Len(m_buf') = 0
    BY <2>1, EmptyBuffer
  <2>5. StreamInPhase'
    BY <2>1, <2>2 DEF StreamInPhase
  <2>6. Positions'
    BY <2>1, <2>2, <2>3, <2>4 DEF Positions
  <2>7. TermOrder'
    BY <2>1, <2>2, <2>3, <2>4 DEF TermOrder
  <2>8. Position' = Position
    BY <1>b, <2>1, <2>4 DEF Position
  <2>9. LogBelow' /\ NoAbort'
    BY <1>a, <2>1, <2>8 DEF LogBelow, NoAbort
  <2>10. QED
    BY <2>5, <2>6, <2>7, <2>9 DEF Rest
<1>20. ASSUME Close PROVE Rest'
  <2> DEFINE s == StateFrameAt(m_term, m_vote, Position)
  <2> DEFINE g == Append(m_buf, s)
  <2>1. /\ pc = "ready" /\ m_open /\ Drop
        /\ files' = [files EXCEPT !["main"] = Written(files["main"], m_at, g, m_append)]
    BY <1>20 DEF Close
  <2>2. s \in Frame /\ s.pos = Position /\ s.term = m_term
    <3>1. s \in Frame
      BY <1>a, FrameAtType DEF TypeOK
    <3>2. QED
      BY <3>1 DEF StateFrameAt
  <2>3. g \in Seq(Frame) /\ PositionsFrom(g, m_base)
    BY <1>a, <2>2, BufferedPositions DEF Positions
  <2>4. /\ Ascending(m_buf) /\ AtMost(m_buf, m_term) /\ AtMost(files["main"], m_term)
        /\ \A j \in DOMAIN files["main"], k \in DOMAIN m_buf :
             files["main"][j].type = "state" /\ m_buf[k].type = "state"
               => files["main"][j].term <= m_buf[k].term
    BY <1>a, <2>1 DEF TermOrder
  <2>5. Ascending(g)
    BY <1>b, <2>2, <2>4, BufferedTerms
  <2>6. \A k \in DOMAIN g : (k \in DOMAIN m_buf /\ g[k] = m_buf[k]) \/ g[k] = s
    <3>1. \A f \in Frame : \A k \in DOMAIN Append(m_buf, f) :
            (k \in DOMAIN m_buf /\ Append(m_buf, f)[k] = m_buf[k]) \/ Append(m_buf, f)[k] = f
      BY <1>b, AppendOne
    <3>2. QED
      BY <2>2, <3>1
  <2> HIDE DEF g
  <2>7. \A j \in DOMAIN files["main"], k \in DOMAIN g :
          files["main"][j].type = "state" /\ g[k].type = "state"
            => files["main"][j].term <= g[k].term
    <3> HIDE DEF s
    <3>1. QED
      BY <2>2, <2>4, <2>6 DEF AtMost
  <2>8. files'["main"] = Written(files["main"], m_at, g, m_append)
    BY <1>d, <2>1
  <2>9. PositionsFrom(files'["main"], 0) /\ Ascending(files'["main"])
    BY <2>1, <2>3, <2>5, <2>7, <2>8, StreamWrite
  <2>10. QED
    BY <2>1, <2>9, DropRest
<1>21. ASSUME CloseFails PROVE Rest'
  BY <1>21, <1>c, DropRest DEF CloseFails
<1>22. ASSUME Crash PROVE Rest'
  BY <1>22, <1>c, DropRest DEF Crash
<1>23. ASSUME NEW k \in 0 .. Len(m_buf), CrashInWrite(k) PROVE Rest'
  <2> DEFINE p == SubSeq(m_buf, 1, k)
  <2> DEFINE g == Append(p, Torn)
  <2>1. /\ pc \in {"start", "ready"} /\ m_open /\ Drop
        /\ files' = [files EXCEPT ![m_file] = Written(files[m_file], m_at, g, m_append)]
    BY <1>23 DEF CrashInWrite
  <2>2. m_file = "main"
    BY <2>1, ImageFacts
  <2>3. PositionsFrom(m_buf, m_base) /\ Ascending(m_buf)
    BY <1>a, <2>1 DEF Positions, TermOrder
  <2>4. p \in Seq(Frame) /\ PositionsFrom(p, m_base) /\ Ascending(p)
        /\ \A j \in DOMAIN p : j \in DOMAIN m_buf /\ p[j] = m_buf[j]
    BY <1>b, <2>3, PrefixKeeps, Prefix
  <2>5. /\ g \in Seq(Frame) /\ PositionsFrom(g, m_base) /\ Ascending(g)
        /\ \A j \in DOMAIN g : g[j].type = "state" => j \in DOMAIN p /\ g[j] = p[j]
    BY <2>4, AppendTorn
  <2>6. \A i \in DOMAIN files["main"], j \in DOMAIN g :
          files["main"][i].type = "state" /\ g[j].type = "state"
            => files["main"][i].term <= g[j].term
    <3>1. \A i \in DOMAIN files["main"], j \in DOMAIN m_buf :
            files["main"][i].type = "state" /\ m_buf[j].type = "state"
              => files["main"][i].term <= m_buf[j].term
      BY <1>a, <2>1 DEF TermOrder
    <3>2. QED
      BY <2>4, <2>5, <3>1
  <2> HIDE DEF g
  <2>7. files'["main"] = Written(files["main"], m_at, g, m_append)
    BY <1>d, <2>1, <2>2
  <2>8. PositionsFrom(files'["main"], 0) /\ Ascending(files'["main"])
    BY <2>1, <2>5, <2>6, <2>7, StreamWrite
  <2>9. QED
    BY <2>1, <2>8, DropRest
<1>24. CASE UNCHANGED vars
  <2>1. UNCHANGED <<files, osvars, m_log, statevars, pc, rpos>>
    BY <1>24 DEF vars
  <2>2. QED
    BY <1>a, <2>1, RestStutter DEF Rest
<1>25. QED
  BY <1>1, <1>2, <1>3, <1>4, <1>5, <1>6, <1>7, <1>8, <1>9, <1>10, <1>11, <1>12,
     <1>13, <1>14, <1>15, <1>16, <1>17, <1>18, <1>19, <1>20, <1>21, <1>22, <1>23,
     <1>24 DEF Next

\* Every step keeps the entries in memory in file order: an append goes to the
\* end, and prune_front gives the entries rising positions as it copies them.
LEMMA OrderStep == NoAbortInv /\ TypeOK' /\ [Next]_vars => LogOrder'
<1> SUFFICES ASSUME NoAbortInv, TypeOK', [Next]_vars
             PROVE  LogOrder'
  OBVIOUS
<1>a. TypeOK /\ StreamInPhase /\ LogBelow /\ LogOrder
  BY DEF NoAbortInv
<1>b. Position \in Nat /\ m_log \in Seq(EntryFrame) /\ Len(m_log) \in Nat
      /\ DOMAIN m_log = 1 .. Len(m_log) /\ rpos \in Nat
  BY <1>a, FrameAtType, LenProperties DEF TypeOK
<1>1. ASSUME m_log' = <<>>, pc' # "copy" PROVE LogOrder'
  BY <1>1 DEF LogOrder
<1>2. ASSUME m_log' = m_log, pc # "copy", pc' # "copy" PROVE LogOrder'
  BY <1>2, <1>a DEF LogOrder
<1>3. ASSUME NEW e \in EntryFrame, m_log' = Append(m_log, e), pc # "copy", pc' # "copy",
             \A k \in DOMAIN m_log : m_log[k].pos < e.pos
      PROVE  LogOrder'
  <2>1. /\ Len(m_log') = Len(m_log) + 1 /\ m_log'[Len(m_log) + 1] = e
        /\ \A n \in 1 .. Len(m_log) : m_log'[n] = m_log[n]
    BY <1>3, <1>b, AppendOne
  <2>2. \A j, k \in 1 .. Len(m_log) : j < k => m_log[j].pos < m_log[k].pos
    BY <1>3, <1>a DEF LogOrder
  <2>3. ASSUME NEW j \in 1 .. (Len(m_log) + 1), NEW k \in 1 .. (Len(m_log) + 1), j < k
        PROVE  m_log'[j].pos < m_log'[k].pos
    <3>1. j \in 1 .. Len(m_log) /\ m_log'[j] = m_log[j]
      BY <1>b, <2>1, <2>3
    <3>2. CASE k = Len(m_log) + 1
      BY <1>3, <1>b, <2>1, <3>1, <3>2
    <3>3. CASE k \in 1 .. Len(m_log)
      BY <2>1, <2>2, <2>3, <3>1, <3>3
    <3>4. QED
      BY <1>b, <3>2, <3>3
  <2>4. QED
    BY <1>3, <2>1, <2>3 DEF LogOrder
<1>4. ASSUME NEW n \in 0 .. Len(m_log), m_log' = SubSeq(m_log, 1, n), pc # "copy", pc' # "copy"
      PROVE  LogOrder'
  <2>1. Len(m_log') = n /\ \A k \in 1 .. n : m_log'[k] = m_log[k]
    BY <1>4, <1>b, Prefix
  <2>2. QED
    BY <1>4, <1>a, <1>b, <2>1 DEF LogOrder
<1>5. ASSUME RecoverFrame PROVE LogOrder'
  <2> DEFINE f == files["main"][rpos + 1]
  <2>1. pc = "recover" /\ pc' \in {"recover", "abort"} /\ rpos + 1 \in DOMAIN files["main"]
    <3>1. files["main"] \in Seq(Frame)
      BY <1>a DEF TypeOK
    <3>2. QED
      BY <1>5, <1>b, <3>1 DEF RecoverFrame
  <2>2. m_log' = m_log \/ (m_log' = Append(m_log, f) /\ f.type = "entry" /\ f.pos = rpos)
    BY <1>5 DEF RecoverFrame
  <2>3. \A k \in DOMAIN m_log : m_log[k].pos < rpos
    BY <1>a, <2>1 DEF LogBelow
  <2>4. f \in Frame
    BY <1>a, <2>1 DEF TypeOK
  <2>5. f.type = "entry" => f \in EntryFrame
    BY <2>4, FrameKinds
  <2> HIDE DEF f
  <2>6. CASE m_log' = m_log
    BY <1>2, <2>1, <2>6
  <2>7. CASE m_log' = Append(m_log, f) /\ f.type = "entry" /\ f.pos = rpos
    BY <1>3, <2>1, <2>3, <2>5, <2>7
  <2>8. QED
    BY <2>2, <2>6, <2>7
<1>6. ASSUME NEW d \in Payloads, AppendEntry(d) PROVE LogOrder'
  <2> DEFINE e == EntryFrameAt(NextIndex, d, Position)
  <2>1. e \in EntryFrame
    BY <1>6, <1>a, FrameAtType DEF AppendEntry
  <2>2. e.pos = Position
    BY DEF EntryFrameAt
  <2>3. pc = "ready" /\ pc' = "ready" /\ m_log' = Append(m_log, e)
    BY <1>6 DEF AppendEntry
  <2>4. \A k \in DOMAIN m_log : m_log[k].pos < Position
    BY <1>a, <2>3 DEF LogBelow
  <2> HIDE DEF e
  <2>5. QED
    BY <1>3, <2>1, <2>2, <2>3, <2>4
<1>7. ASSUME NEW n \in DOMAIN m_log, PruneBack(n) PROVE LogOrder'
  <2>1. n \in 0 .. Len(m_log)
    BY <1>b
  <2>2. QED
    BY <1>4, <1>7, <2>1 DEF PruneBack
<1>8. ASSUME NEW n \in DOMAIN m_log, PruneBackFails(n) PROVE LogOrder'
  <2>1. n \in 0 .. Len(m_log)
    BY <1>b
  <2>2. CASE RetryPrune
    BY <1>4, <1>8, <2>1, <2>2 DEF PruneBackFails
  <2>3. CASE ~RetryPrune
    BY <1>1, <1>8, <2>3 DEF PruneBackFails, Drop
  <2>4. QED
    BY <2>2, <2>3
<1>9. ASSUME NEW n \in DOMAIN m_log, PruneFront(n) PROVE LogOrder'
  BY <1>9 DEF PruneFront, LogOrder
<1>10. ASSUME CopyEntry PROVE LogOrder'
  <2> DEFINE e == [m_log[rpos + 1] EXCEPT !.pos = Position]
  <2>1. /\ pc = "copy" /\ pc' = "copy" /\ rpos' = rpos + 1 /\ rpos + 1 \in DOMAIN m_log
        /\ m_log' = [m_log EXCEPT ![rpos + 1] = e]
    BY <1>10, <1>b DEF CopyEntry
  <2>2. e.pos = Position
    <3>1. m_log[rpos + 1] \in EntryFrame
      BY <1>b, <2>1
    <3>2. QED
      BY <3>1 DEF EntryFrame
  <2> HIDE DEF e
  <2>3. m_log'[rpos + 1] = e /\ \A k \in 1 .. rpos : m_log'[k] = m_log[k]
    BY <1>b, <2>1
  <2>4. \A k \in 1 .. rpos : m_log[k].pos < Position
    BY <1>a, <2>1 DEF LogBelow
  <2>5. \A j, k \in 1 .. rpos : j < k => m_log[j].pos < m_log[k].pos
    BY <1>a, <2>1 DEF LogOrder
  <2>6. ASSUME NEW j \in 1 .. (rpos + 1), NEW k \in 1 .. (rpos + 1), j < k
        PROVE  m_log'[j].pos < m_log'[k].pos
    <3>1. j \in 1 .. rpos /\ m_log'[j] = m_log[j]
      BY <1>b, <2>3, <2>6
    <3>2. CASE k = rpos + 1
      BY <2>2, <2>3, <2>4, <3>1, <3>2
    <3>3. CASE k \in 1 .. rpos
      BY <2>3, <2>5, <2>6, <3>1, <3>3
    <3>4. QED
      BY <1>b, <3>2, <3>3
  <2>7. QED
    BY <2>1, <2>6 DEF LogOrder
<1>11. ASSUME CopyState PROVE LogOrder'
  BY <1>11, <1>a DEF CopyState, LogOrder
<1>12. ASSUME NEW t \in Terms, NEW v \in Votes, Initialize(t, v) PROVE LogOrder'
  BY <1>1, <1>12 DEF Initialize
<1>13. ASSUME NEW t \in Terms, NEW v \in Votes, UpdateReplicantState(t, v) PROVE LogOrder'
  BY <1>2, <1>13 DEF UpdateReplicantState
<1>14. ASSUME Restart PROVE LogOrder'
  BY <1>1, <1>14 DEF Restart
<1>15. ASSUME RecoverFails \/ StartWriteFails \/ PruneFrontFails \/ Close \/ CloseFails \/ Crash
              \/ \E k \in 0..Len(m_buf) : CrashInWrite(k)
       PROVE  LogOrder'
  <2>1. Drop
    BY <1>15 DEF RecoverFails, StartWriteFails, PruneFrontFails, Close, CloseFails, Crash, CrashInWrite
  <2>2. QED
    BY <1>1, <2>1 DEF Drop
<1>16. ASSUME RecoverDone \/ StartWrite \/ PruneBackAtEnd \/ Rename \/ Reopen
              \/ \E i \in Indices : PruneFrontInvalid(i)
       PROVE  LogOrder'
  <2>1. m_log' = m_log /\ pc # "copy" /\ pc' # "copy"
    BY <1>16 DEF RecoverDone, StartWrite, PruneBackAtEnd, Rename, Reopen, PruneFrontInvalid
  <2>2. QED
    BY <1>2, <2>1
<1>17. CASE UNCHANGED vars
  BY <1>17, <1>a DEF vars, LogOrder
<1>18. QED
  BY <1>5, <1>6, <1>7, <1>8, <1>9, <1>10, <1>11, <1>12, <1>13, <1>14, <1>15, <1>16, <1>17
     DEF Next

-----------------------------------------------------------------------------
(* The theorems. *)

\* The invariant holds of the state before the first call of initialize.
LEMMA InitInv == Init => NoAbortInv
<1> SUFFICES ASSUME Init PROVE NoAbortInv
  OBVIOUS
<1> USE ConstantsAssumption
<1>1. /\ files = [n \in {"main", "tmp"} |-> <<>>] /\ m_open = FALSE /\ m_file = "main"
      /\ m_base = 0 /\ m_buf = <<>> /\ m_log = <<>> /\ pc = "down" /\ rpos = 0
  BY DEF Init
<1>2. TypeOK
  <2>1. <<>> \in Seq(Frame) /\ <<>> \in Seq(EntryFrame)
    OBVIOUS
  <2>2. files \in [{"main", "tmp"} -> Seq(Frame)] /\ m_buf \in Seq(Frame) /\ m_log \in Seq(EntryFrame)
    BY <1>1, <2>1
  <2>3. m_term \in Terms /\ m_vote \in Votes /\ maybe \subseteq (Terms \X Votes)
        /\ faults \in 0..MaxFaults /\ crashes \in 0..MaxCrashes
    BY DEF Init, Terms
  <2>4. pc \in Phases
    BY <1>1 DEF Phases
  <2>5. dir = {} /\ m_append = FALSE /\ m_dirty = FALSE /\ acked = {} /\ gone = {} /\ cut = FALSE
        /\ hole = FALSE /\ m_at = 0
    BY DEF Init
  <2>6. QED
    BY <1>1, <2>2, <2>3, <2>4, <2>5 DEF TypeOK
<1>3. PositionsFrom(files["main"], 0) /\ PositionsFrom(m_buf, m_base) /\ Ascending(files["main"])
  BY <1>1, EmptyBuffer
<1>4. StreamInPhase
  BY <1>1 DEF StreamInPhase
<1>5. Positions /\ TermOrder
  BY <1>1, <1>3 DEF Positions, TermOrder
<1>6. LogBelow /\ LogOrder /\ NoAbort
  BY <1>1 DEF LogBelow, LogOrder, NoAbort
<1>7. QED
  BY <1>2, <1>4, <1>5, <1>6 DEF NoAbortInv

\* The strengthening is inductive.
THEOREM Invariance == Spec => []NoAbortInv
<1>1. NoAbortInv /\ [Next]_vars => NoAbortInv'
  BY TypeStep, RestStep, OrderStep DEF NoAbortInv, Rest
<1>2. QED
  BY InitInv, <1>1, PTL DEF Spec

\* Whatever sequence of calls, failed writes and crashes the log goes through,
\* its state keeps its types.
THEOREM TypeCorrect == Spec => []TypeOK
<1>1. NoAbortInv => TypeOK
  BY DEF NoAbortInv
<1>2. QED
  BY Invariance, <1>1, PTL

\* log::recover never fails one of its assertions, for any number of entries,
\* terms, failed writes and crashes: every frame stores the position it is at,
\* and the terms of the state frames never decrease along the file.
THEOREM RecoverNeverAborts == Spec => []NoAbort
<1>1. NoAbortInv => NoAbort
  BY DEF NoAbortInv
<1>2. QED
  BY Invariance, <1>1, PTL

-----------------------------------------------------------------------------
(* What the entries of a file are worth.                                   *)

\* The entries of f, with their positions.
Entries(f) == {f[k] : k \in {j \in DOMAIN f : f[j].type = "entry"}}

\* recover gets as far as the j-th frame of f.
Readable(f, j) == j \in 1 .. Len(f) /\ \A m \in 1 .. j : f[m] # Torn

\* What recover can read of g is a part of f.
Reads(g, f) == \A j \in 1 .. Len(g) : Readable(g, j) => Readable(f, j) /\ g[j] = f[j]

\* Entries that follow each other in what can be read have consecutive indices.
Adjacent(f) ==
  \A i, j \in 1 .. Len(f) :
    /\ i < j /\ Readable(f, j) /\ f[i].type = "entry" /\ f[j].type = "entry"
    /\ \A m \in (i + 1) .. (j - 1) : f[m].type # "entry"
    => f[j].index = f[i].index + 1

\* What integrity_check asks of log.
Consecutive(log) == \A k \in 1 .. Len(log) : log[k].index = log[1].index + k - 1

\* Each entry of log stands where it says, if recover gets as far as there.
Placed(log, f) ==
  \A k \in 1 .. Len(log) : Readable(f, log[k].pos + 1) => f[log[k].pos + 1] = log[k]

\* No entry stands in front of the position it stores, or each stands there.
Behind(f) == \A j \in 1 .. Len(f) : f[j].type = "entry" => f[j].pos <= j - 1
Exact(f) == \A j \in 1 .. Len(f) : f[j].type = "entry" => f[j].pos = j - 1

\* The entries of log stand in file order.
Rising(log) == \A j, k \in 1 .. Len(log) : j < k => log[j].pos < log[k].pos

\* The members of Entries.
LEMMA EntriesOf ==
  ASSUME NEW f \in Seq(Frame)
  PROVE  /\ \A x : x \in Entries(f) <=> \E j \in 1 .. Len(f) : f[j] = x /\ f[j].type = "entry"
         /\ EntryKeys(f) = {Key(x) : x \in Entries(f)}
<1>1. DOMAIN f = 1 .. Len(f)
  BY LenProperties
<1>2. \A x : x \in Entries(f) <=> \E j \in 1 .. Len(f) : f[j] = x /\ f[j].type = "entry"
  BY <1>1 DEF Entries
<1>3. EntryKeys(f) = {Key(x) : x \in Entries(f)}
  BY <1>1, Zenon DEF EntryKeys, Entries
<1>4. QED
  BY <1>2, <1>3

\* A log holds entries only.
LEMMA LogFrames ==
  ASSUME NEW log \in Seq(EntryFrame)
  PROVE  /\ log \in Seq(Frame) /\ Len(log) \in Nat /\ DOMAIN log = 1 .. Len(log)
         /\ \A k \in 1 .. Len(log) :
              /\ log[k] \in EntryFrame /\ log[k].type = "entry" /\ log[k].index \in Indices
              /\ log[k].pos \in Nat /\ log[k].index \in Nat
         /\ \A x : x \in Entries(log) <=> \E k \in 1 .. Len(log) : log[k] = x
<1>1. Len(log) \in Nat /\ DOMAIN log = 1 .. Len(log)
  BY LenProperties
<1>2. \A k \in 1 .. Len(log) : log[k] \in EntryFrame /\ log[k] \in Frame
  BY <1>1 DEF Frame
<1>3. log \in Seq(Frame)
  BY <1>1, <1>2, SeqDef
<1>4. \A k \in 1 .. Len(log) :
         /\ log[k].type = "entry" /\ log[k].index \in Indices /\ log[k].pos \in Nat /\ log[k].index \in Nat
  BY <1>2 DEF EntryFrame, Indices
<1>5. \A x : x \in Entries(log) <=> \E k \in 1 .. Len(log) : log[k] = x
  BY <1>3, <1>4, EntriesOf
<1>6. QED
  BY <1>1, <1>2, <1>3, <1>4, <1>5

\* The entries of a concatenation, of a prefix and of one frame more.
LEMMA EntriesConcat ==
  ASSUME NEW f \in Seq(Frame), NEW g \in Seq(Frame)
  PROVE  Entries(f \o g) = Entries(f) \cup Entries(g)
<1>1. /\ Len(f) \in Nat /\ Len(g) \in Nat /\ f \o g \in Seq(Frame) /\ Len(f \o g) = Len(f) + Len(g)
      /\ \A k \in 1 .. Len(f) : (f \o g)[k] = f[k]
      /\ \A k \in (Len(f) + 1) .. (Len(f) + Len(g)) : (f \o g)[k] = g[k - Len(f)]
  BY Concat, LenProperties
<1>2. PICK h \in Seq(Frame) : h = f \o g
  BY <1>1
<1>3. ASSUME NEW j \in 1 .. Len(h) PROVE \/ j \in 1 .. Len(f) /\ h[j] = f[j]
                                         \/ j - Len(f) \in 1 .. Len(g) /\ h[j] = g[j - Len(f)]
  BY <1>1, <1>2
<1>4. ASSUME NEW j \in 1 .. Len(g) PROVE Len(f) + j \in 1 .. Len(h) /\ h[Len(f) + j] = g[j]
  <2>1. Len(f) + j \in (Len(f) + 1) .. (Len(f) + Len(g)) /\ (Len(f) + j) - Len(f) = j
    BY <1>1
  <2>2. QED
    BY <1>1, <1>2, <2>1
<1>5. ASSUME NEW x \in Entries(h) PROVE x \in Entries(f) \cup Entries(g)
  BY <1>3, EntriesOf
<1>6. ASSUME NEW x \in Entries(f) PROVE x \in Entries(h)
  <2>1. PICK j \in 1 .. Len(f) : f[j] = x /\ f[j].type = "entry"
    BY EntriesOf
  <2>2. j \in 1 .. Len(h) /\ h[j] = x
    BY <1>1, <1>2, <2>1
  <2>3. QED
    BY <2>1, <2>2, EntriesOf
<1>7. ASSUME NEW x \in Entries(g) PROVE x \in Entries(h)
  <2>1. PICK j \in 1 .. Len(g) : g[j] = x /\ g[j].type = "entry"
    BY EntriesOf
  <2>2. Len(f) + j \in 1 .. Len(h) /\ h[Len(f) + j] = x
    BY <1>4, <2>1
  <2>3. QED
    BY <2>1, <2>2, EntriesOf
<1>8. QED
  BY <1>2, <1>5, <1>6, <1>7

\* ... of one frame more.
LEMMA EntriesAppend ==
  ASSUME NEW f \in Seq(Frame), NEW x \in Frame
  PROVE  Entries(Append(f, x)) = Entries(f) \cup {y \in {x} : y.type = "entry"}
<1>1. Len(f) \in Nat /\ Append(f, x) \in Seq(Frame) /\ Len(Append(f, x)) = Len(f) + 1
      /\ Append(f, x)[Len(f) + 1] = x /\ \A n \in 1 .. Len(f) : Append(f, x)[n] = f[n]
  BY AppendOne
<1>2. PICK h \in Seq(Frame) : h = Append(f, x)
  BY <1>1
<1>3. \A y : y \in Entries(h) <=> \E j \in 1 .. (Len(f) + 1) : h[j] = y /\ h[j].type = "entry"
  <2>1. Len(h) = Len(f) + 1
    BY <1>1, <1>2
  <2>2. \A y : y \in Entries(h) <=> \E j \in 1 .. Len(h) : h[j] = y /\ h[j].type = "entry"
    BY EntriesOf
  <2>3. QED
    BY <2>1, <2>2, Zenon
<1>4. \A j \in 1 .. (Len(f) + 1) : j \in 1 .. Len(f) \/ j = Len(f) + 1
  BY <1>1
<1>5. Len(f) + 1 \in 1 .. (Len(f) + 1) /\ \A j \in 1 .. Len(f) : j \in 1 .. (Len(f) + 1)
  BY <1>1
<1>6. \A y : y \in Entries(h) <=> y \in Entries(f) \/ (y = x /\ y.type = "entry")
  <2>1. \A y : y \in Entries(f) <=> \E j \in 1 .. Len(f) : f[j] = y /\ f[j].type = "entry"
    BY EntriesOf
  <2>2. h[Len(f) + 1] = x /\ \A n \in 1 .. Len(f) : h[n] = f[n]
    BY <1>1, <1>2
  <2>3. QED
    BY <1>3, <1>4, <1>5, <2>1, <2>2
<1>7. QED
  BY <1>2, <1>6

\* ... of a prefix.
LEMMA EntriesPrefix ==
  ASSUME NEW f \in Seq(Frame), NEW n \in 0 .. Len(f)
  PROVE  Entries(SubSeq(f, 1, n)) \subseteq Entries(f)
<1>1. PICK h \in Seq(Frame) : h = SubSeq(f, 1, n)
  BY Prefix
<1>2. Len(h) = n /\ \A k \in 1 .. n : h[k] = f[k] /\ k \in DOMAIN f
  BY <1>1, Prefix
<1>3. DOMAIN f = 1 .. Len(f)
  BY LenProperties
<1>4. ASSUME NEW x \in Entries(h) PROVE x \in Entries(f)
  <2>1. PICK k \in 1 .. Len(h) : h[k] = x /\ h[k].type = "entry"
    BY EntriesOf
  <2>2. k \in 1 .. Len(f) /\ f[k] = x
    BY <1>2, <1>3, <2>1
  <2>3. QED
    BY <2>1, <2>2, EntriesOf
<1>5. QED
  BY <1>1, <1>4

\* What can be read of g being a part of f, g keeps what holds of f.
LEMMA ReadsKeep ==
  ASSUME NEW f \in Seq(Frame), NEW g \in Seq(Frame), Reads(g, f)
  PROVE  /\ Adjacent(f) => Adjacent(g)
         /\ \A log : Placed(log, f) => Placed(log, g)
<1>1. Len(f) \in Nat /\ Len(g) \in Nat
  BY LenProperties
<1>2. ASSUME NEW j \in 1 .. Len(g), Readable(g, j), NEW i \in 1 .. j
      PROVE  Readable(g, i) /\ i \in 1 .. Len(g) /\ i \in 1 .. Len(f) /\ g[i] = f[i]
  <2>1. Readable(g, i) /\ i \in 1 .. Len(g)
    BY <1>1, <1>2 DEF Readable
  <2>2. QED
    BY <2>1 DEF Reads, Readable
<1>3. ASSUME Adjacent(f) PROVE Adjacent(g)
  <2> SUFFICES ASSUME NEW i \in 1 .. Len(g), NEW j \in 1 .. Len(g),
                      i < j, Readable(g, j), g[i].type = "entry", g[j].type = "entry",
                      \A m \in (i + 1) .. (j - 1) : g[m].type # "entry"
               PROVE  g[j].index = g[i].index + 1
    BY DEF Adjacent
  <2>1. i \in 1 .. j /\ j \in 1 .. j /\ \A m \in (i + 1) .. (j - 1) : m \in 1 .. j
    BY <1>1
  <2>2. i \in 1 .. Len(f) /\ j \in 1 .. Len(f) /\ g[i] = f[i] /\ g[j] = f[j]
    BY <1>2, <2>1
  <2>3. Readable(f, j)
    BY DEF Reads
  <2>4. \A m \in (i + 1) .. (j - 1) : f[m].type # "entry"
    BY <1>2, <2>1
  <2>5. QED
    BY <1>3, <2>2, <2>3, <2>4 DEF Adjacent
<1>4. ASSUME NEW log, Placed(log, f) PROVE Placed(log, g)
  <2> SUFFICES ASSUME NEW k \in 1 .. Len(log), Readable(g, log[k].pos + 1)
               PROVE  g[log[k].pos + 1] = log[k]
    BY DEF Placed
  <2>1. PICK j : j = log[k].pos + 1
    OBVIOUS
  <2>2. j \in 1 .. Len(g) /\ Readable(g, j)
    BY <2>1 DEF Readable
  <2>3. Readable(f, j) /\ g[j] = f[j]
    BY <2>2 DEF Reads
  <2>4. f[j] = log[k]
    BY <1>4, <2>1, <2>3 DEF Placed
  <2>5. QED
    BY <2>1, <2>3, <2>4
<1>5. QED
  BY <1>3, <1>4

\* A prefix reads like the whole.
LEMMA PrefixReads ==
  ASSUME NEW f \in Seq(Frame), NEW n \in 0 .. Len(f)
  PROVE  /\ Reads(SubSeq(f, 1, n), f)
         /\ Behind(f) => Behind(SubSeq(f, 1, n))
         /\ Exact(f) => Exact(SubSeq(f, 1, n))
<1>1. PICK h \in Seq(Frame) : h = SubSeq(f, 1, n)
  BY Prefix
<1>2. Len(h) = n /\ Len(f) \in Nat /\ \A k \in 1 .. n : h[k] = f[k] /\ k \in 1 .. Len(f)
  BY <1>1, Prefix, LenProperties
<1>3. Reads(h, f)
  BY <1>2 DEF Reads, Readable
<1>4. (Behind(f) => Behind(h)) /\ (Exact(f) => Exact(h))
  BY <1>2 DEF Behind, Exact
<1>5. QED
  BY <1>1, <1>3, <1>4

\* w is f, a hole of n frames and g.
Laid(w, f, n, g) ==
  /\ w \in Seq(Frame) /\ Len(w) = Len(f) + n + Len(g)
  /\ \A k \in 1 .. Len(f) : w[k] = f[k]
  /\ \A k \in 1 .. n : w[Len(f) + k] = Torn
  /\ \A k \in 1 .. Len(g) : w[Len(f) + n + k] = g[k]

\* The frames of a file that was written to at its end or behind it.
LEMMA WrittenParts ==
  ASSUME NEW f \in Seq(Frame), NEW at \in Nat, NEW g \in Seq(Frame), NEW app \in BOOLEAN,
         app \/ Len(f) <= at, NEW w, w = Written(f, at, g, app)
  PROVE  \E n \in Nat :
           /\ Laid(w, f, n, g)
           /\ app \/ at = Len(f) \/ g = <<>> => n = 0
           /\ ~app => Len(f) + n <= at
<1>1. PICK n \in Nat : /\ w = f \o (Hole(n) \o g)
                       /\ app \/ at = Len(f) \/ g = <<>> => n = 0
                       /\ ~app => Len(f) + n <= at
  BY WrittenBehind
<1>2. Hole(n) \in Seq(Frame) /\ Len(Hole(n)) = n /\ \A k \in 1 .. n : Hole(n)[k] = Torn
  BY HoleFacts
<1>3. Len(f) \in Nat /\ Len(g) \in Nat
  BY LenProperties
<1>4. PICK h \in Seq(Frame) : h = Hole(n) \o g
  BY <1>2, Concat
<1>5. /\ Len(h) = n + Len(g)
      /\ \A k \in 1 .. n : h[k] = Torn
      /\ \A k \in (n + 1) .. (n + Len(g)) : h[k] = g[k - n]
  <2>1. PICK o \in Seq(Frame) : o = Hole(n)
    BY <1>2
  <2>2. Len(o) = n /\ h = o \o g /\ \A k \in 1 .. n : o[k] = Torn
    BY <1>2, <1>4, <2>1
  <2>3. /\ Len(o \o g) = Len(o) + Len(g)
        /\ \A k \in 1 .. Len(o) : (o \o g)[k] = o[k]
        /\ \A k \in (Len(o) + 1) .. (Len(o) + Len(g)) : (o \o g)[k] = g[k - Len(o)]
    BY Concat
  <2>4. QED
    BY <2>2, <2>3
<1>6. ASSUME NEW k \in 1 .. Len(g) PROVE h[n + k] = g[k]
  <2>1. n + k \in (n + 1) .. (n + Len(g)) /\ (n + k) - n = k
    BY <1>3
  <2>2. QED
    BY <1>5, <2>1
<1>7. /\ w \in Seq(Frame) /\ Len(w) = Len(f) + (n + Len(g))
      /\ \A k \in 1 .. Len(f) : w[k] = f[k]
      /\ \A k \in (Len(f) + 1) .. (Len(f) + (n + Len(g))) : w[k] = h[k - Len(f)]
  <2>1. w = f \o h
    BY <1>1, <1>4
  <2>2. /\ w \in Seq(Frame) /\ Len(w) = Len(f) + Len(h)
        /\ \A k \in 1 .. Len(f) : w[k] = f[k]
        /\ \A k \in (Len(f) + 1) .. (Len(f) + Len(h)) : w[k] = h[k - Len(f)]
    BY <2>1, Concat
  <2>3. QED
    BY <1>5, <2>2
<1>8. ASSUME NEW k \in 1 .. n PROVE w[Len(f) + k] = Torn
  <2>1. Len(f) + k \in (Len(f) + 1) .. (Len(f) + (n + Len(g))) /\ (Len(f) + k) - Len(f) = k
    BY <1>3
  <2>2. QED
    BY <1>5, <1>7, <2>1
<1>9. ASSUME NEW k \in 1 .. Len(g) PROVE w[Len(f) + n + k] = g[k]
  <2>1. Len(f) + n + k \in (Len(f) + 1) .. (Len(f) + (n + Len(g))) /\ (Len(f) + n + k) - Len(f) = n + k
    BY <1>3
  <2>2. w[Len(f) + n + k] = h[n + k]
    BY <1>7, <2>1
  <2>3. QED
    BY <1>6, <2>2
<1>10. Len(w) = Len(f) + n + Len(g)
  BY <1>3, <1>7
<1>11. Laid(w, f, n, g)
  BY <1>7, <1>8, <1>9, <1>10 DEF Laid
<1>12. QED
  BY <1>1, <1>11

\* Such a file has the entries of both parts, none nearer to the beginning
\* than in the concatenation, and reads like it.
LEMMA WrittenLike ==
  ASSUME NEW f \in Seq(Frame), NEW at \in Nat, NEW g \in Seq(Frame), NEW app \in BOOLEAN,
         app \/ Len(f) <= at, NEW w, w = Written(f, at, g, app)
  PROVE  /\ w \in Seq(Frame) /\ Reads(w, f \o g)
         /\ \A x : x \in Entries(w) <=> x \in Entries(f) \/ x \in Entries(g)
         /\ Behind(f \o g) => Behind(w)
         /\ Exact(f \o g) /\ (app \/ at = Len(f)) => Exact(w)
<1>a. PICK n \in Nat : Laid(w, f, n, g) /\ (app \/ at = Len(f) \/ g = <<>> => n = 0)
  BY WrittenParts
<1>1. /\ w \in Seq(Frame) /\ Len(w) = Len(f) + n + Len(g)
      /\ \A k \in 1 .. Len(f) : w[k] = f[k]
      /\ \A k \in 1 .. n : w[Len(f) + k] = Torn
      /\ \A k \in 1 .. Len(g) : w[Len(f) + n + k] = g[k]
      /\ app \/ at = Len(f) \/ g = <<>> => n = 0
  BY <1>a DEF Laid
<1>w. w \in Seq(Frame)
  BY <1>1
<1>2. Len(f) \in Nat /\ Len(g) \in Nat /\ Len(w) \in Nat
  BY <1>w, LenProperties
<1>3. PICK v \in Seq(Frame) : v = f \o g
  BY Concat
<1>4. /\ Len(v) = Len(f) + Len(g) /\ \A k \in 1 .. Len(f) : v[k] = f[k]
      /\ \A k \in 1 .. Len(g) : v[Len(f) + k] = g[k]
  <2>1. /\ Len(v) = Len(f) + Len(g) /\ \A k \in 1 .. Len(f) : v[k] = f[k]
        /\ \A k \in (Len(f) + 1) .. (Len(f) + Len(g)) : v[k] = g[k - Len(f)]
    BY <1>3, Concat
  <2>2. ASSUME NEW k \in 1 .. Len(g) PROVE v[Len(f) + k] = g[k]
    <3>1. Len(f) + k \in (Len(f) + 1) .. (Len(f) + Len(g)) /\ (Len(f) + k) - Len(f) = k
      BY <1>2
    <3>2. QED
      BY <2>1, <3>1
  <2>3. QED
    BY <2>1, <2>2
<1>5. ASSUME NEW j \in 1 .. Len(w)
      PROVE  \/ j \in 1 .. Len(f) /\ w[j] = f[j]
             \/ j > Len(f) /\ n > 0 /\ w[j] = Torn
             \/ /\ j - (Len(f) + n) \in 1 .. Len(g) /\ w[j] = g[j - (Len(f) + n)]
                /\ j - n \in 1 .. Len(v) /\ w[j] = v[j - n] /\ j > Len(f)
  <2>1. CASE j <= Len(f)
    BY <1>1, <1>2, <2>1
  <2>2. CASE j > Len(f) /\ j <= Len(f) + n
    <3>1. j - Len(f) \in 1 .. n /\ Len(f) + (j - Len(f)) = j
      BY <1>1, <1>2, <2>2
    <3>2. w[Len(f) + (j - Len(f))] = Torn
      BY <1>1, <3>1
    <3>3. w[j] = Torn /\ n > 0
      BY <1>2, <2>2, <3>1, <3>2
    <3>4. QED
      BY <2>2, <3>3
  <2>3. CASE j > Len(f) + n
    <3>1. PICK k : k = j - (Len(f) + n)
      OBVIOUS
    <3>2. k \in 1 .. Len(g) /\ Len(f) + n + k = j /\ j - n = Len(f) + k
      BY <1>1, <1>2, <2>3, <3>1
    <3>3. w[j] = g[k] /\ v[j - n] = g[k]
      BY <1>1, <1>4, <3>2
    <3>4. j - n \in 1 .. Len(v) /\ j > Len(f)
      BY <1>2, <1>4, <2>3, <3>2
    <3>5. QED
      BY <3>1, <3>2, <3>3, <3>4
  <2>4. QED
    BY <1>2, <2>1, <2>2, <2>3
<1>6. Reads(w, v)
  <2>1. CASE n = 0
    <3>1. Len(w) = Len(v)
      BY <1>1, <1>2, <1>4, <2>1
    <3>2. ASSUME NEW j \in 1 .. Len(w) PROVE w[j] = v[j]
      <4>1. n = 0 => j - n = j
        BY <1>2
      <4>2. QED
        BY <1>4, <1>5, <2>1, <4>1
    <3>3. QED
      BY <1>2, <3>1, <3>2 DEF Reads, Readable
  <2>2. CASE n > 0
    <3>1. w[Len(f) + 1] = Torn
      BY <1>1, <2>2
    <3>2. ASSUME NEW j \in 1 .. Len(w), Readable(w, j) PROVE j <= Len(f)
      <4>1. j > Len(f) => Len(f) + 1 \in 1 .. j
        BY <1>2
      <4>2. QED
        BY <1>2, <3>1, <3>2, <4>1 DEF Readable
    <3>3. ASSUME NEW j \in 1 .. Len(w), Readable(w, j) PROVE Readable(v, j) /\ w[j] = v[j]
      <4>1. j \in 1 .. Len(v) /\ \A m \in 1 .. j : m \in 1 .. Len(f)
        BY <1>2, <1>4, <3>2, <3>3
      <4>2. \A m \in 1 .. j : w[m] = v[m]
        BY <1>1, <1>4, <4>1
      <4>3. j \in 1 .. j
        BY <1>2
      <4>4. QED
        BY <3>3, <4>1, <4>2, <4>3 DEF Readable
    <3>4. QED
      BY <3>3 DEF Reads
  <2>3. QED
    BY <2>1, <2>2
<1>7. Entries(w) = Entries(f) \cup Entries(g)
  <2>1. ASSUME NEW x \in Entries(w) PROVE x \in Entries(f) \cup Entries(g)
    <3>1. PICK j \in 1 .. Len(w) : w[j] = x /\ w[j].type = "entry"
      BY <1>w, EntriesOf
    <3>2. w[j] # Torn
      BY <3>1 DEF Torn
    <3>3. CASE j \in 1 .. Len(f) /\ w[j] = f[j]
      BY <3>1, <3>3, EntriesOf
    <3>4. CASE j - (Len(f) + n) \in 1 .. Len(g) /\ w[j] = g[j - (Len(f) + n)]
      <4>1. PICK k \in 1 .. Len(g) : g[k] = x /\ g[k].type = "entry"
        BY <3>1, <3>4
      <4>2. x \in Entries(g)
        BY <4>1, EntriesOf
      <4>3. QED
        BY <4>2
    <3>5. QED
      BY <1>5, <3>2, <3>3, <3>4
  <2>2. ASSUME NEW x \in Entries(f) PROVE x \in Entries(w)
    <3>1. PICK j \in 1 .. Len(f) : f[j] = x /\ f[j].type = "entry"
      BY EntriesOf
    <3>2. j \in 1 .. Len(w) /\ w[j] = x
      BY <1>1, <1>2, <3>1
    <3>3. QED
      BY <1>w, <3>1, <3>2, EntriesOf
  <2>3. ASSUME NEW x \in Entries(g) PROVE x \in Entries(w)
    <3>1. PICK j \in 1 .. Len(g) : g[j] = x /\ g[j].type = "entry"
      BY EntriesOf
    <3>2. Len(f) + n + j \in 1 .. Len(w) /\ w[Len(f) + n + j] = x
      BY <1>1, <1>2, <3>1
    <3>3. PICK i \in 1 .. Len(w) : w[i] = x /\ w[i].type = "entry"
      BY <3>1, <3>2
    <3>4. QED
      BY <1>w, <3>3, EntriesOf
  <2>4. QED
    BY <2>1, <2>2, <2>3
<1>8. ASSUME NEW j \in 1 .. Len(w), w[j].type = "entry"
      PROVE  \E i \in 1 .. Len(v) : w[j] = v[i] /\ i <= j /\ (n = 0 => i = j)
  <2>1. w[j] # Torn
    BY <1>8 DEF Torn
  <2>2. CASE j \in 1 .. Len(f) /\ w[j] = f[j]
    <3>1. j \in 1 .. Len(v) /\ w[j] = v[j] /\ j <= j
      BY <1>2, <1>4, <2>2
    <3>2. QED
      BY <3>1
  <2>3. CASE j - n \in 1 .. Len(v) /\ w[j] = v[j - n]
    <3>1. j - n <= j /\ (n = 0 => j - n = j)
      BY <1>2
    <3>2. QED
      BY <2>3, <3>1
  <2>4. QED
    BY <1>5, <2>1, <2>2, <2>3
<1>9. \A i \in 1 .. Len(v) : v[i].type = "entry" => v[i].pos \in Nat
  BY FrameKinds
<1>10. ASSUME Behind(v) PROVE Behind(w)
  <2> SUFFICES ASSUME NEW j \in 1 .. Len(w), w[j].type = "entry" PROVE w[j].pos <= j - 1
    BY DEF Behind
  <2>1. PICK i \in 1 .. Len(v) : w[j] = v[i] /\ i <= j
    BY <1>8
  <2>2. v[i].pos <= i - 1 /\ v[i].pos \in Nat
    BY <1>9, <1>10, <2>1 DEF Behind
  <2>3. QED
    BY <1>2, <2>1, <2>2
<1>11. Exact(v) /\ n = 0 => Exact(w)
  BY <1>2, <1>8, <1>9 DEF Exact
<1>12. QED
  BY <1>1, <1>3, <1>6, <1>7, <1>10, <1>11

-----------------------------------------------------------------------------
(* The log in use: f is the main file, b the buffer, log the entries in    *)
(* memory, base, at and app the stream's position, its descriptor's and    *)
(* O_APPEND, hl whether prune_back cut the file in front of the descriptor.*)

InUse(f, b, log, base, at, app, hl) ==
  /\ base <= Len(f) /\ (base = Len(f) \/ \E i \in 1 .. base : f[i] = Torn)
  /\ app \/ Len(f) <= at
  /\ ~hl => base = Len(f) /\ (app \/ at = Len(f)) /\ Exact(f \o b)
  /\ Behind(f \o b) /\ Adjacent(f \o b)
  /\ Entries(f \o b) \subseteq Entries(log) /\ Placed(log, f \o b) /\ Consecutive(log)

\* What is left of it when the process is gone.
Sound(f, hl) == Behind(f) /\ Adjacent(f) /\ (~hl => Exact(f))

\* One frame more keeps the order of entries and where they stand.
LEMMA OneMore ==
  ASSUME NEW f \in Seq(Frame), NEW x \in Frame
  PROVE  /\ Reads(f, Append(f, x))
         /\ \A log : Placed(log, f) /\ (\A k \in 1 .. Len(log) : log[k].pos + 1 # Len(f) + 1) => Placed(log, Append(f, x))
         /\ Behind(f) /\ (x.type = "entry" => x.pos <= Len(f)) => Behind(Append(f, x))
         /\ Exact(f) /\ (x.type = "entry" => x.pos = Len(f)) => Exact(Append(f, x))
         /\ Adjacent(f) /\ x.type # "entry" => Adjacent(Append(f, x))
<1>1. PICK h \in Seq(Frame) : h = Append(f, x)
  BY AppendOne
<1>2. /\ Len(f) \in Nat /\ Len(h) = Len(f) + 1 /\ h[Len(f) + 1] = x
      /\ \A n \in 1 .. Len(f) : h[n] = f[n]
  BY <1>1, AppendOne
<1>3. Reads(f, h)
  BY <1>2 DEF Reads, Readable
<1>4. ASSUME NEW j \in 1 .. Len(f), Readable(h, j) PROVE Readable(f, j)
  BY <1>2, <1>4 DEF Readable
<1>5. ASSUME NEW log, Placed(log, f), \A k \in 1 .. Len(log) : log[k].pos + 1 # Len(f) + 1
      PROVE  Placed(log, h)
  <2> SUFFICES ASSUME NEW k \in 1 .. Len(log), Readable(h, log[k].pos + 1)
               PROVE  h[log[k].pos + 1] = log[k]
    BY DEF Placed
  <2>1. PICK j : j = log[k].pos + 1
    OBVIOUS
  <2>2. j \in 1 .. Len(f) /\ Readable(f, j)
    <3>1. j \in 1 .. Len(h) /\ Readable(h, j)
      BY <2>1 DEF Readable
    <3>2. j # Len(f) + 1
      BY <1>5, <2>1
    <3>3. j \in 1 .. Len(f)
      BY <1>2, <3>1, <3>2
    <3>4. QED
      BY <1>4, <3>1, <3>3
  <2>3. f[j] = log[k]
    BY <1>5, <2>1, <2>2 DEF Placed
  <2>4. QED
    BY <1>2, <2>1, <2>2, <2>3
<1>6. \A j \in 1 .. Len(h) : (j \in 1 .. Len(f) /\ h[j] = f[j]) \/ (j = Len(f) + 1 /\ h[j] = x)
  BY <1>2
<1>7. Behind(f) /\ (x.type = "entry" => x.pos <= Len(f)) => Behind(h)
  BY <1>2, <1>6 DEF Behind
<1>8. Exact(f) /\ (x.type = "entry" => x.pos = Len(f)) => Exact(h)
  BY <1>2, <1>6 DEF Exact
<1>9. ASSUME Adjacent(f), x.type # "entry" PROVE Adjacent(h)
  <2> SUFFICES ASSUME NEW i \in 1 .. Len(h), NEW j \in 1 .. Len(h),
                      i < j, Readable(h, j), h[i].type = "entry", h[j].type = "entry",
                      \A m \in (i + 1) .. (j - 1) : h[m].type # "entry"
               PROVE  h[j].index = h[i].index + 1
    BY DEF Adjacent
  <2>1. j \in 1 .. Len(f) /\ h[j] = f[j] /\ i \in 1 .. Len(f) /\ h[i] = f[i]
    BY <1>6, <1>9
  <2>2. \A m \in (i + 1) .. (j - 1) : m \in 1 .. Len(f) /\ h[m] = f[m]
    BY <1>2, <2>1
  <2>3. Readable(f, j)
    BY <1>4, <2>1
  <2>4. QED
    BY <1>9, <2>1, <2>2, <2>3 DEF Adjacent
<1>10. QED
  BY <1>1, <1>3, <1>5, <1>7, <1>8, <1>9

\* A frame that is no entry, or a fragment, goes to the buffer.
LEMMA PutOther ==
  ASSUME NEW f \in Seq(Frame), NEW b \in Seq(Frame), NEW log \in Seq(EntryFrame),
         NEW base \in Nat, NEW at \in Nat, NEW app \in BOOLEAN, NEW hl \in BOOLEAN,
         InUse(f, b, log, base, at, app, hl), \A k \in 1 .. Len(log) : log[k].pos < base + Len(b),
         NEW x \in Frame, x.type # "entry"
  PROVE  InUse(f, Append(b, x), log, base, at, app, hl)
<1>1. PICK v \in Seq(Frame) : v = f \o b
  BY Concat
<1>2. f \o Append(b, x) = Append(v, x)
  BY <1>1, ConcatAppend
<1>3. Len(v) = Len(f) + Len(b) /\ Len(f) \in Nat /\ Len(b) \in Nat /\ base <= Len(f)
  BY <1>1, Concat, LenProperties DEF InUse
<1>4. \A k \in 1 .. Len(log) : log[k].pos + 1 # Len(v) + 1
  BY <1>3, LogFrames
<1>5. Behind(v) /\ Adjacent(v) /\ Placed(log, v) /\ (~hl => Exact(v)) /\ Entries(v) \subseteq Entries(log)
  BY <1>1 DEF InUse
<1>6. Behind(Append(v, x)) /\ Adjacent(Append(v, x)) /\ (~hl => Exact(Append(v, x)))
  BY <1>5, OneMore
<1>7. Placed(log, Append(v, x))
  BY <1>4, <1>5, OneMore
<1>8. Entries(Append(v, x)) \subseteq Entries(log)
  BY <1>5, EntriesAppend
<1>9. QED
  BY <1>2, <1>6, <1>7, <1>8 DEF InUse

\* The index the next entry of log gets.
Following(log) == IF log = <<>> THEN 1 ELSE log[Len(log)].index + 1

\* An entry with that index, or the first one, continues the log.
LEMMA ConsecutiveAppend ==
  ASSUME NEW log \in Seq(EntryFrame), Consecutive(log), NEW x \in EntryFrame,
         log # <<>> => x.index = Following(log)
  PROVE  Consecutive(Append(log, x))
<1>1. /\ Len(log) \in Nat
      /\ \A k \in 1 .. Len(log) : log[k].index \in Nat
  BY LogFrames
<1>2. PICK log2 \in Seq(EntryFrame) : log2 = Append(log, x)
  BY AppendOne
<1>3. /\ Len(log2) = Len(log) + 1 /\ log2[Len(log) + 1] = x
      /\ \A k \in 1 .. Len(log) : log2[k] = log[k]
  BY <1>2, AppendOne
<1>4. CASE log = <<>>
  <2>1. log2[1] = x /\ Len(log2) = 1 /\ x.index \in Nat
    BY <1>3, <1>4 DEF EntryFrame, Indices
  <2>2. Consecutive(log2)
    BY <2>1 DEF Consecutive
  <2>3. QED
    BY <1>2, <2>2
<1>5. CASE log # <<>>
  <2>1. PICK n \in Nat : n = Len(log) /\ n >= 1
    BY <1>1, <1>5, EmptySeq
  <2>2. PICK a \in Nat : a = log[1].index
    BY <1>1, <2>1
  <2>3. \A k \in 1 .. n : log[k].index = a + k - 1 /\ log2[k] = log[k]
    BY <1>3, <2>1, <2>2 DEF Consecutive
  <2>4. x.index = log[n].index + 1
    BY <1>5, <2>1 DEF Following
  <2>5. 1 \in 1 .. n /\ n \in 1 .. n
    BY <2>1
  <2>6. log2[1].index = a /\ x.index = (a + n - 1) + 1
    BY <2>2, <2>3, <2>4, <2>5
  <2>7. ASSUME NEW k \in 1 .. (n + 1) PROVE log2[k].index = a + k - 1
    <3>1. CASE k \in 1 .. n
      BY <2>3, <3>1
    <3>2. CASE k = n + 1
      BY <1>3, <2>1, <2>6, <3>2
    <3>3. k \in 1 .. n \/ k = n + 1
      OBVIOUS
    <3>4. QED
      BY <3>1, <3>2, <3>3
  <2>8. Consecutive(log2)
    BY <1>3, <2>1, <2>6, <2>7 DEF Consecutive
  <2>9. QED
    BY <1>2, <2>8
<1>6. QED
  BY <1>4, <1>5

\* The last entry of what can be read is the last of the log.
LEMMA LastRead ==
  ASSUME NEW v \in Seq(Frame), NEW log \in Seq(EntryFrame), PositionsFrom(v, 0),
         Entries(v) \subseteq Entries(log), Placed(log, v), Rising(log),
         \A k \in 1 .. Len(log) : log[k].pos < Len(v),
         NEW i \in 1 .. Len(v), v[i].type = "entry",
         \A m \in 1 .. Len(v) : v[m] # Torn,
         \A m \in (i + 1) .. Len(v) : v[m].type # "entry"
  PROVE  log # <<>> /\ v[i] = log[Len(log)]
<1>1. /\ Len(v) \in Nat /\ Len(log) \in Nat /\ DOMAIN v = 1 .. Len(v)
      /\ \A k \in 1 .. Len(log) : log[k].pos \in Nat /\ log[k].type = "entry"
  BY LogFrames, LenProperties
<1>2. PICK k \in 1 .. Len(log) : log[k] = v[i]
  <2>1. v[i] \in Entries(v)
    BY EntriesOf
  <2>2. v[i] \in Entries(log)
    BY <2>1
  <2>3. QED
    BY <2>2, LogFrames
<1>3. v[i].pos = i - 1
  <2>1. \A j \in 1 .. i : v[j] # Torn
    BY <1>1
  <2>2. v[i].pos = 0 + i - 1
    BY <1>1, <2>1 DEF PositionsFrom
  <2>3. QED
    BY <1>1, <2>2
<1>4. ASSUME k # Len(log) PROVE FALSE
  <2>1. PICK n : n = Len(log)
    OBVIOUS
  <2>2. n \in 1 .. Len(log) /\ k < n
    BY <1>1, <1>4, <2>1
  <2>3. log[k].pos < log[n].pos
    BY <2>2 DEF Rising
  <2>4. PICK q : q = log[n].pos + 1
    OBVIOUS
  <2>5. q \in (i + 1) .. Len(v) /\ q \in 1 .. Len(v) /\ \A m \in 1 .. q : m \in 1 .. Len(v)
    BY <1>1, <1>2, <1>3, <2>2, <2>3, <2>4
  <2>6. Readable(v, q)
    BY <2>5 DEF Readable
  <2>7. v[q] = log[n]
    BY <2>2, <2>4, <2>6 DEF Placed
  <2>8. QED
    BY <1>1, <2>2, <2>5, <2>7
<1>5. QED
  BY <1>1, <1>2, <1>4

\* append puts an entry in the buffer, or a fragment of it.
LEMMA PutEntry ==
  ASSUME NEW f \in Seq(Frame), NEW b \in Seq(Frame), NEW log \in Seq(EntryFrame),
         NEW base \in Nat, NEW at \in Nat, NEW app \in BOOLEAN, NEW hl \in BOOLEAN,
         InUse(f, b, log, base, at, app, hl), \A k \in 1 .. Len(log) : log[k].pos < base + Len(b),
         Rising(log), PositionsFrom(f \o b, 0),
         NEW x \in EntryFrame, x.index = Following(log), x.pos = base + Len(b), NEW y \in {x, Torn}
  PROVE  InUse(f, Append(b, y), Append(log, x), base, at, app, hl)
<1>1. PICK v \in Seq(Frame) : v = f \o b
  BY Concat
<1>2. /\ Len(v) = Len(f) + Len(b) /\ Len(f) \in Nat /\ Len(b) \in Nat /\ Len(v) \in Nat /\ base <= Len(f)
      /\ \A k \in 1 .. Len(f) : v[k] = f[k]
  BY <1>1, Concat, LenProperties DEF InUse
<1>3. x \in Frame /\ x.type = "entry" /\ x.pos \in Nat /\ y \in Frame /\ Torn.type = "torn"
  BY FrameKinds DEF Frame, EntryFrame, Torn
<1>4. /\ Len(log) \in Nat
      /\ \A k \in 1 .. Len(log) : log[k].pos \in Nat /\ log[k].type = "entry" /\ log[k].index \in Nat
  BY LogFrames
<1>5. PICK log2 \in Seq(EntryFrame) : log2 = Append(log, x)
  BY AppendOne
<1>6. /\ Len(log2) = Len(log) + 1 /\ log2[Len(log) + 1] = x
      /\ \A k \in 1 .. Len(log) : log2[k] = log[k]
  BY <1>5, AppendOne
<1>7. \A k \in 1 .. Len(log2) : (k \in 1 .. Len(log) /\ log2[k] = log[k]) \/ (k = Len(log) + 1 /\ log2[k] = x)
  BY <1>4, <1>6
<1>8. Behind(v) /\ Adjacent(v) /\ Placed(log, v) /\ (~hl => Exact(v)) /\ Entries(v) \subseteq Entries(log)
  BY <1>1 DEF InUse
<1>9. PICK w \in Seq(Frame) : w = Append(v, y)
  BY <1>3, AppendOne
<1>10. /\ Len(w) = Len(v) + 1 /\ w[Len(v) + 1] = y /\ \A k \in 1 .. Len(v) : w[k] = v[k]
       /\ f \o Append(b, y) = w
  BY <1>1, <1>3, <1>9, AppendOne, ConcatAppend
<1>11. Entries(w) \subseteq Entries(log2)
  <2>1. \A e \in Entries(w) : e \in Entries(v) \/ e = x
    BY <1>3, <1>9, EntriesAppend
  <2>2. \A e \in Entries(log) : e \in Entries(log2)
    BY <1>4, <1>6, LogFrames
  <2>3. x \in Entries(log2)
    BY <1>4, <1>6, LogFrames
  <2>4. QED
    BY <1>8, <2>1, <2>2, <2>3
<1>12. ASSUME Readable(v, Len(v)) \/ Len(v) = 0 PROVE base = Len(f) /\ base + Len(b) = Len(v)
  <2>1. base = Len(f) \/ \E i \in 1 .. base : f[i] = Torn
    BY DEF InUse
  <2>2. ASSUME NEW i \in 1 .. base PROVE f[i] # Torn
    <3>1. i \in 1 .. Len(v) /\ i \in 1 .. Len(f)
      BY <1>2
    <3>2. QED
      BY <1>2, <1>12, <3>1 DEF Readable
  <2>3. QED
    BY <1>2, <2>1, <2>2
<1>13. ASSUME NEW j \in 1 .. Len(v), Readable(w, j) PROVE Readable(v, j)
  <2>1. \A m \in 1 .. j : m \in 1 .. Len(v) /\ w[m] # Torn
    BY <1>2, <1>13 DEF Readable
  <2>2. \A m \in 1 .. j : v[m] # Torn
    BY <1>10, <2>1
  <2>3. QED
    BY <2>2 DEF Readable
<1>l. Len(w) = Len(v) + 1
  BY <1>10
<1>14. ASSUME Readable(w, Len(v) + 1)
       PROVE  y = x /\ (Readable(v, Len(v)) \/ Len(v) = 0) /\ x.pos = Len(v) /\ \A m \in 1 .. Len(v) : v[m] # Torn
  <2>1. \A m \in 1 .. (Len(v) + 1) : w[m] # Torn
    BY <1>14 DEF Readable
  <2>2. y # Torn /\ \A m \in 1 .. Len(v) : v[m] # Torn
    BY <1>2, <1>10, <2>1
  <2>3. Readable(v, Len(v)) \/ Len(v) = 0
    BY <1>2, <2>2 DEF Readable
  <2>4. QED
    BY <1>12, <2>2, <2>3
<1>15. Placed(log2, w)
  <2> SUFFICES ASSUME NEW k \in 1 .. Len(log2), Readable(w, log2[k].pos + 1)
               PROVE  w[log2[k].pos + 1] = log2[k]
    BY DEF Placed
  <2>1. CASE k \in 1 .. Len(log) /\ log2[k] = log[k]
    <3>1. PICK j : j = log[k].pos + 1
      OBVIOUS
    <3>2. j \in 1 .. Len(v)
      BY <1>2, <1>4, <2>1, <3>1
    <3>3. Readable(v, j)
      BY <1>13, <2>1, <3>1, <3>2
    <3>4. v[j] = log[k]
      BY <1>8, <2>1, <3>1, <3>3 DEF Placed
    <3>5. QED
      BY <1>10, <2>1, <3>1, <3>2, <3>4
  <2>2. CASE k = Len(log) + 1 /\ log2[k] = x
    <3>1. PICK j : j = x.pos + 1
      OBVIOUS
    <3>2. Readable(w, j) /\ j \in 1 .. Len(w)
      BY <2>2, <3>1 DEF Readable
    <3>3. CASE j = Len(v) + 1
      BY <1>10, <1>14, <2>2, <3>1, <3>2, <3>3
    <3>4. CASE j # Len(v) + 1
      <4>1. j \in 1 .. Len(v)
        <5>1. PICK l \in Nat : l = Len(v)
          BY <1>2
        <5>2. j # l + 1 /\ Len(w) = l + 1
          BY <1>l, <3>4, <5>1
        <5>3. j \in 1 .. (l + 1)
          BY <3>2, <5>2
        <5>4. j \in 1 .. l
          BY <5>2, <5>3
        <5>5. QED
          BY <5>1, <5>4
      <4>2. base = Len(f) => j = Len(v) + 1
        BY <1>2, <3>1
      <4>3. PICK i \in 1 .. base : f[i] = Torn
        BY <3>4, <4>2 DEF InUse
      <4>4. i \in 1 .. j /\ i \in 1 .. Len(f)
        BY <1>2, <1>3, <3>1
      <4>5. v[i] = Torn
        BY <1>2, <4>3, <4>4
      <4>6. Readable(v, j)
        BY <1>13, <3>2, <4>1
      <4>7. QED
        BY <4>4, <4>5, <4>6 DEF Readable
    <3>5. QED
      BY <3>3, <3>4
  <2>3. QED
    BY <1>7, <2>1, <2>2
<1>16. Adjacent(w)
  <2> SUFFICES ASSUME NEW i \in 1 .. Len(w), NEW j \in 1 .. Len(w),
                      i < j, Readable(w, j), w[i].type = "entry", w[j].type = "entry",
                      \A m \in (i + 1) .. (j - 1) : w[m].type # "entry"
               PROVE  w[j].index = w[i].index + 1
    BY DEF Adjacent
  <2>1. i \in 1 .. Len(v) /\ w[i] = v[i] /\ \A m \in (i + 1) .. (j - 1) : m \in 1 .. Len(v) /\ w[m] = v[m]
    BY <1>2, <1>10
  <2>2. CASE j \in 1 .. Len(v)
    <3>1. Readable(v, j) /\ w[j] = v[j]
      BY <1>10, <1>13, <2>2
    <3>2. v[i].type = "entry" /\ v[j].type = "entry" /\ \A m \in (i + 1) .. (j - 1) : v[m].type # "entry"
      BY <2>1, <3>1
    <3>3. v[j].index = v[i].index + 1
      BY <1>8, <2>1, <2>2, <3>1, <3>2 DEF Adjacent
    <3>4. QED
      BY <2>1, <3>1, <3>3
  <2>3. CASE j = Len(v) + 1
    <3>1. y = x /\ x.pos = Len(v) /\ \A m \in 1 .. Len(v) : v[m] # Torn
      BY <1>14, <2>3
    <3>2. \A m \in (i + 1) .. Len(v) : m \in (i + 1) .. (j - 1)
      BY <1>2, <2>3
    <3>3. \A m \in (i + 1) .. Len(v) : v[m].type # "entry"
      BY <2>1, <3>2
    <3>4. \A k \in 1 .. Len(log) : log[k].pos < Len(v)
      BY <3>1
    <3>5. log # <<>> /\ v[i] = log[Len(log)]
      BY <1>1, <1>8, <2>1, <3>1, <3>3, <3>4, LastRead
    <3>6. x.index = v[i].index + 1
      BY <3>5 DEF Following
    <3>7. QED
      BY <1>10, <2>1, <2>3, <3>1, <3>6
  <2>4. QED
    BY <1>2, <1>10, <2>2, <2>3
<1>17. Behind(w) /\ (~hl => Exact(w))
  <2>1. y.type = "entry" => y = x
    BY <1>3
  <2>2. x.pos <= Len(v)
    BY <1>2
  <2>3. ~hl => x.pos = Len(v)
    BY <1>2 DEF InUse
  <2>4. QED
    BY <1>3, <1>8, <1>9, <2>1, <2>2, <2>3, OneMore
<1>18. Consecutive(log2)
  BY <1>5, ConsecutiveAppend DEF InUse
<1>19. QED
  BY <1>5, <1>10, <1>11, <1>15, <1>16, <1>17, <1>18 DEF InUse

\* The buffer is written out.
LEMMA FlushAll ==
  ASSUME NEW f \in Seq(Frame), NEW b \in Seq(Frame), NEW log \in Seq(EntryFrame),
         NEW base \in Nat, NEW at \in Nat, NEW app \in BOOLEAN, NEW hl \in BOOLEAN,
         InUse(f, b, log, base, at, app, hl), NEW w, w = Written(f, at, b, app)
  PROVE  /\ w \in Seq(Frame) /\ Entries(w) = Entries(f) \cup Entries(b)
         /\ HasTorn(f) => HasTorn(w)
         /\ InUse(w, <<>>, log, base + Len(b), IF app THEN at ELSE at + Len(b), app, hl)
<1>0. app \/ Len(f) <= at
  BY DEF InUse
<1>1. PICK n \in Nat : /\ Laid(w, f, n, b) /\ (app \/ at = Len(f) \/ b = <<>> => n = 0)
                       /\ ~app => Len(f) + n <= at
  BY <1>0, WrittenParts
<1>2. /\ w \in Seq(Frame) /\ Reads(w, f \o b)
      /\ Entries(w) = Entries(f) \cup Entries(b)
      /\ Behind(f \o b) => Behind(w)
      /\ Exact(f \o b) /\ (app \/ at = Len(f)) => Exact(w)
  <2>1. w \in Seq(Frame) /\ Reads(w, f \o b)
    BY <1>0, WrittenLike
  <2>2. \A x : x \in Entries(w) <=> x \in Entries(f) \/ x \in Entries(b)
    BY <1>0, WrittenLike
  <2>3. /\ Behind(f \o b) => Behind(w)
        /\ Exact(f \o b) /\ (app \/ at = Len(f)) => Exact(w)
    BY <1>0, WrittenLike
  <2>4. QED
    BY <2>1, <2>2, <2>3
<1>3. PICK v \in Seq(Frame) : v = f \o b
  BY Concat
<1>4. w \o <<>> = w
  BY <1>2, ConcatEmptySeq
<1>5. Behind(w) /\ (~hl => Exact(w)) /\ Adjacent(w) /\ Placed(log, w)
  <2>1. Behind(v) /\ Adjacent(v) /\ Placed(log, v) /\ (~hl => Exact(v) /\ (app \/ at = Len(f)))
    BY <1>3 DEF InUse
  <2>2. Adjacent(w) /\ Placed(log, w)
    BY <1>2, <1>3, <2>1, ReadsKeep
  <2>3. QED
    BY <1>2, <1>3, <2>1, <2>2
<1>6. Entries(w) \subseteq Entries(log)
  BY <1>2, EntriesConcat DEF InUse
<1>7. /\ Len(w) = Len(f) + n + Len(b) /\ Len(f) \in Nat /\ Len(b) \in Nat
      /\ \A k \in 1 .. Len(f) : w[k] = f[k]
      /\ \A k \in 1 .. n : w[Len(f) + k] = Torn
  BY <1>1, LenProperties DEF Laid
<1>8. base <= Len(f) /\ (base = Len(f) \/ \E i \in 1 .. base : f[i] = Torn)
  BY DEF InUse
<1>9. base + Len(b) <= Len(w)
  BY <1>7, <1>8
<1>10. base + Len(b) = Len(w) \/ \E i \in 1 .. (base + Len(b)) : w[i] = Torn
  <2>1. CASE \E i \in 1 .. base : f[i] = Torn
    <3>1. PICK i \in 1 .. base : f[i] = Torn
      BY <2>1
    <3>2. i \in 1 .. Len(f) /\ i \in 1 .. (base + Len(b))
      BY <1>7, <1>8
    <3>3. w[i] = Torn
      BY <1>7, <3>1, <3>2
    <3>4. QED
      BY <3>2, <3>3
  <2>2. CASE base = Len(f) /\ n = 0
    BY <1>7, <2>2
  <2>3. CASE base = Len(f) /\ n # 0
    <3>1. b # <<>>
      BY <1>1, <2>3
    <3>2. Len(b) # 0
      BY <3>1, EmptySeq
    <3>3. Len(f) + 1 \in 1 .. (base + Len(b)) /\ 1 \in 1 .. n
      BY <1>7, <2>3, <3>2
    <3>4. w[Len(f) + 1] = Torn
      BY <1>7, <3>3
    <3>5. QED
      BY <3>3, <3>4
  <2>4. QED
    BY <1>8, <2>1, <2>2, <2>3
<1>11. ~app => Len(w) <= at + Len(b)
  BY <1>1, <1>7
<1>12. ~hl => base + Len(b) = Len(w) /\ (app \/ at + Len(b) = Len(w))
  <2>1. ~hl => base = Len(f) /\ (app \/ at = Len(f))
    BY DEF InUse
  <2>2. ~hl => n = 0
    BY <1>1, <2>1
  <2>3. n = 0 => Len(w) = Len(f) + Len(b)
    BY <1>7
  <2>4. QED
    BY <2>1, <2>2, <2>3
<1>13. ASSUME HasTorn(f) PROVE HasTorn(w)
  <2>1. PICK k \in 1 .. Len(f) : f[k] = Torn
    BY <1>13, LenProperties DEF HasTorn
  <2>2. w[k] = Torn /\ k \in 1 .. Len(w)
    BY <1>7, <2>1
  <2>3. QED
    BY <1>2, <2>2, LenProperties DEF HasTorn
<1>14. PICK at2 : at2 = IF app THEN at ELSE at + Len(b)
  OBVIOUS
<1>15. (app \/ Len(w) <= at2) /\ (~hl => base + Len(b) = Len(w) /\ (app \/ at2 = Len(w)))
  BY <1>11, <1>12, <1>14
<1>16. InUse(w, <<>>, log, base + Len(b), at2, app, hl)
  <2>1. Consecutive(log)
    BY DEF InUse
  <2>2. QED
    BY <1>4, <1>5, <1>6, <1>9, <1>10, <1>15, <2>1 DEF InUse
<1>17. QED
  BY <1>2, <1>13, <1>14, <1>16

\* The process dies in the middle of a write of the buffer.
LEMMA CutShort ==
  ASSUME NEW f \in Seq(Frame), NEW b \in Seq(Frame), NEW log \in Seq(EntryFrame),
         NEW base \in Nat, NEW at \in Nat, NEW app \in BOOLEAN, NEW hl \in BOOLEAN,
         InUse(f, b, log, base, at, app, hl), NEW k \in 0 .. Len(b)
  PROVE  InUse(f, SubSeq(b, 1, k), log, base, at, app, hl)
<1>1. PICK c \in Seq(Frame) : c = SubSeq(b, 1, k)
  BY Prefix
<1>2. /\ Len(c) = k /\ Len(f) \in Nat /\ Len(b) \in Nat
      /\ \A i \in 1 .. k : c[i] = b[i] /\ i \in 1 .. Len(b)
  BY <1>1, Prefix, LenProperties
<1>3. PICK v \in Seq(Frame), u \in Seq(Frame) : v = f \o b /\ u = f \o c
  BY Concat
<1>4. /\ Len(v) = Len(f) + Len(b) /\ \A i \in 1 .. Len(f) : v[i] = f[i]
      /\ \A i \in (Len(f) + 1) .. (Len(f) + Len(b)) : v[i] = b[i - Len(f)]
  BY <1>3, Concat
<1>5. /\ Len(u) = Len(f) + Len(c) /\ \A i \in 1 .. Len(f) : u[i] = f[i]
      /\ \A i \in (Len(f) + 1) .. (Len(f) + Len(c)) : u[i] = c[i - Len(f)]
  BY <1>3, Concat
<1>6. ASSUME NEW j \in 1 .. Len(u) PROVE j \in 1 .. Len(v) /\ u[j] = v[j]
  <2>1. CASE j <= Len(f)
    <3>1. j \in 1 .. Len(f) /\ j \in 1 .. Len(v)
      BY <1>2, <1>4, <1>5, <2>1
    <3>2. QED
      BY <1>4, <1>5, <3>1
  <2>2. CASE j > Len(f)
    <3>1. j \in (Len(f) + 1) .. (Len(f) + Len(c)) /\ j \in (Len(f) + 1) .. (Len(f) + Len(b)) /\ j - Len(f) \in 1 .. k
      BY <1>2, <1>5, <2>2
    <3>2. u[j] = c[j - Len(f)] /\ v[j] = b[j - Len(f)] /\ c[j - Len(f)] = b[j - Len(f)]
      BY <1>2, <1>4, <1>5, <3>1
    <3>3. QED
      BY <1>2, <1>4, <3>1, <3>2
  <2>3. QED
    BY <1>2, <2>1, <2>2
<1>7. Len(u) \in Nat /\ Len(v) \in Nat
  BY LenProperties
<1>8. Reads(u, v)
  <2>1. ASSUME NEW j \in 1 .. Len(u), Readable(u, j) PROVE Readable(v, j)
    <3>1. \A m \in 1 .. j : m \in 1 .. Len(u) /\ u[m] # Torn
      BY <1>7, <2>1 DEF Readable
    <3>2. \A m \in 1 .. j : v[m] # Torn
      BY <1>6, <3>1
    <3>3. QED
      BY <1>6, <3>2 DEF Readable
  <2>2. QED
    BY <1>6, <2>1 DEF Reads
<1>9. Behind(v) /\ Adjacent(v) /\ Placed(log, v) /\ (~hl => Exact(v)) /\ Entries(v) \subseteq Entries(log)
  BY <1>3 DEF InUse
<1>10. Adjacent(u) /\ Placed(log, u)
  BY <1>8, <1>9, ReadsKeep
<1>11. Behind(u) /\ (~hl => Exact(u))
  BY <1>6, <1>9 DEF Behind, Exact
<1>12. Entries(u) \subseteq Entries(log)
  <2>1. ASSUME NEW x \in Entries(u) PROVE x \in Entries(v)
    <3>1. PICK j \in 1 .. Len(u) : u[j] = x /\ u[j].type = "entry"
      BY EntriesOf
    <3>2. j \in 1 .. Len(v) /\ v[j] = x
      BY <1>6, <3>1
    <3>3. QED
      BY <3>1, <3>2, EntriesOf
  <2>2. QED
    BY <1>9, <2>1
<1>13. QED
  BY <1>1, <1>3, <1>10, <1>11, <1>12 DEF InUse

\* prune_back cuts the written file where its first popped entry stands.
LEMMA CutBack ==
  ASSUME NEW w \in Seq(Frame), NEW log \in Seq(EntryFrame),
         NEW base \in Nat, NEW at \in Nat, NEW app \in BOOLEAN, NEW hl \in BOOLEAN,
         InUse(w, <<>>, log, base, at, app, hl), \A k \in 1 .. Len(log) : log[k].pos < base,
         Rising(log), NEW n \in 1 .. (Len(log) - 1), NEW T, T = log[n + 1].pos
  PROVE  InUse(SubSeq(w, 1, T), <<>>, SubSeq(log, 1, n), T, at, app, hl \/ ~app)
<1>1. Len(w) \in Nat /\ Len(log) \in Nat /\ w \o <<>> = w
      /\ \A k \in 1 .. Len(log) : log[k].pos \in Nat /\ log[k].index \in Nat
  BY LenProperties, LogFrames, ConcatEmptySeq
<1>2. base <= Len(w) /\ Behind(w) /\ Adjacent(w) /\ Placed(log, w) /\ (~hl => Exact(w))
      /\ Entries(w) \subseteq Entries(log) /\ Consecutive(log) /\ (app \/ Len(w) <= at)
  BY <1>1 DEF InUse
<1>3. n + 1 \in 1 .. Len(log) /\ n \in 0 .. Len(log)
  BY <1>1
<1>4. T \in 0 .. Len(w) /\ T \in Nat
  BY <1>1, <1>2, <1>3
<1>5. PICK u \in Seq(Frame) : u = SubSeq(w, 1, T)
  BY <1>4, Prefix
<1>6. Len(u) = T /\ \A k \in 1 .. T : u[k] = w[k] /\ k \in 1 .. Len(w)
  BY <1>4, <1>5, Prefix, LenProperties
<1>7. PICK l \in Seq(EntryFrame) : l = SubSeq(log, 1, n)
  BY <1>3, Prefix
<1>8. Len(l) = n /\ \A k \in 1 .. n : l[k] = log[k] /\ k \in 1 .. Len(log)
  BY <1>3, <1>7, Prefix, LenProperties
<1>9. Reads(u, w) /\ Behind(u) /\ (~hl => Exact(u))
  BY <1>2, <1>4, <1>5, PrefixReads
<1>10. Adjacent(u) /\ Placed(log, u)
  BY <1>2, <1>9, ReadsKeep
<1>11. Placed(l, u) /\ Consecutive(l)
  <2>1. Placed(l, u)
    BY <1>8, <1>10 DEF Placed
  <2>2. 1 \in 1 .. n
    BY <1>1
  <2>3. Consecutive(l)
    BY <1>2, <1>8, <2>2 DEF Consecutive
  <2>4. QED
    BY <2>1, <2>3
<1>12. ASSUME NEW x \in Entries(u) PROVE x \in Entries(l)
  <2>1. PICK j \in 1 .. Len(u) : u[j] = x /\ u[j].type = "entry"
    BY EntriesOf
  <2>2. j \in 1 .. Len(w) /\ w[j] = x
    BY <1>6, <2>1
  <2>3. x \in Entries(w)
    BY <2>1, <2>2, EntriesOf
  <2>4. x \in Entries(log)
    BY <1>2, <2>3
  <2>5. PICK k \in 1 .. Len(log) : log[k] = x
    BY <2>4, LogFrames
  <2>6. x.pos <= j - 1 /\ j <= T
    BY <1>4, <1>6, <1>9, <2>1 DEF Behind
  <2>7. log[k].pos < log[n + 1].pos
    BY <1>1, <1>4, <2>1, <2>5, <2>6
  <2>8. k < n + 1
    <3>1. CASE n + 1 < k
      <4>1. log[n + 1].pos < log[k].pos
        BY <1>3, <3>1 DEF Rising
      <4>2. QED
        BY <1>1, <1>3, <2>7, <4>1
    <3>2. CASE k = n + 1
      BY <1>1, <1>3, <2>7, <3>2
    <3>3. QED
      BY <1>1, <1>3, <3>1, <3>2
  <2>9. k \in 1 .. Len(l) /\ l[k] = x
    BY <1>1, <1>8, <2>5, <2>8
  <2>10. QED
    BY <2>9, LogFrames
<1>13. app \/ Len(u) <= at
  BY <1>1, <1>2, <1>4, <1>6
<1>14. u \o <<>> = u
  BY ConcatEmptySeq
<1>15. InUse(u, <<>>, l, T, at, app, hl \/ ~app)
  BY <1>4, <1>6, <1>9, <1>10, <1>11, <1>12, <1>13, <1>14 DEF InUse
<1>16. QED
  BY <1>5, <1>7, <1>15

\* What holds of the file in use holds of what is left of it.
LEMMA InUseSound ==
  ASSUME NEW f \in Seq(Frame), NEW b \in Seq(Frame), NEW log \in Seq(EntryFrame),
         NEW base \in Nat, NEW at \in Nat, NEW app \in BOOLEAN, NEW hl \in BOOLEAN,
         InUse(f, b, log, base, at, app, hl)
  PROVE  Sound(f, hl) /\ Entries(f) \subseteq Entries(log) /\ Entries(b) \subseteq Entries(log)
<1>1. 0 \in 0 .. Len(b)
  BY LenProperties
<1>2. SubSeq(b, 1, 0) = <<>> /\ f \o <<>> = f
  BY <1>1, Prefix, EmptySeq, ConcatEmptySeq
<1>3. InUse(f, <<>>, log, base, at, app, hl)
  BY <1>1, <1>2, CutShort
<1>4. Sound(f, hl)
  BY <1>2, <1>3 DEF InUse, Sound
<1>5. QED
  BY <1>4, EntriesConcat DEF InUse

-----------------------------------------------------------------------------
(* The acknowledged entries ak and the pruned ones gn of a log in use.     *)

\* The acknowledged entries ak are in log, and in front of the buffer.
AckedIn(ak, log, base) == \A x \in ak : \E k \in 1 .. Len(log) : Key(log[k]) = x /\ log[k].pos < base

\* File and memory hold what was acknowledged (ak) and nothing that was pruned (gn).
Trusted(f, log, base, hl, ak, gn) ==
  /\ AckedIn(ak, log, base)
  /\ ~hl \/ ~HasTorn(f) => ak \subseteq EntryKeys(f)
  /\ gn \cap EntryKeys(log) = {}

\* The keys of two files compare like their entries.
LEMMA KeysIn ==
  ASSUME NEW f \in Seq(Frame), NEW g \in Seq(Frame), Entries(f) \subseteq Entries(g)
  PROVE  EntryKeys(f) \subseteq EntryKeys(g)
<1>1. EntryKeys(f) = {Key(x) : x \in Entries(f)} /\ EntryKeys(g) = {Key(x) : x \in Entries(g)}
  BY EntriesOf
<1>2. QED
  BY <1>1

\* The keys of a log.
LEMMA KeysOfLog ==
  ASSUME NEW log \in Seq(EntryFrame)
  PROVE  \A x : x \in EntryKeys(log) <=> \E k \in 1 .. Len(log) : Key(log[k]) = x
<1>1. EntryKeys(log) = {Key(x) : x \in Entries(log)}
  BY LogFrames, EntriesOf
<1>2. \A x : x \in Entries(log) <=> \E k \in 1 .. Len(log) : log[k] = x
  BY LogFrames
<1>3. QED
  BY <1>1, <1>2

\* A flush keeps acknowledged entries and brings no pruned one.
LEMMA FlushTrusted ==
  ASSUME NEW f \in Seq(Frame), NEW b \in Seq(Frame), NEW log \in Seq(EntryFrame),
         NEW base \in Nat, NEW at \in Nat, NEW app \in BOOLEAN, NEW hl \in BOOLEAN,
         InUse(f, b, log, base, at, app, hl), NEW w, w = Written(f, at, b, app),
         NEW ak, NEW gn, Trusted(f, log, base, hl, ak, gn)
  PROVE  Trusted(w, log, base + Len(b), hl, ak, gn) /\ EntryKeys(f) \subseteq EntryKeys(w)
<1>1. w \in Seq(Frame) /\ Entries(w) = Entries(f) \cup Entries(b) /\ (HasTorn(f) => HasTorn(w))
  BY FlushAll
<1>2. EntryKeys(f) \subseteq EntryKeys(w)
  BY <1>1, KeysIn
<1>3. AckedIn(ak, log, base + Len(b))
  <2>1. \A k \in 1 .. Len(log) : log[k].pos \in Nat
    BY LogFrames
  <2>2. Len(b) \in Nat
    BY LenProperties
  <2>3. \A k \in 1 .. Len(log) : log[k].pos < base => log[k].pos < base + Len(b)
    BY <2>1, <2>2
  <2>4. QED
    BY <2>3 DEF AckedIn, Trusted
<1>4. QED
  BY <1>1, <1>2, <1>3 DEF Trusted

\* append adds its entry to the log.
LEMMA AppendTrusted ==
  ASSUME NEW f \in Seq(Frame), NEW log \in Seq(EntryFrame), NEW base \in Nat, NEW hl \in BOOLEAN,
         NEW ak, NEW gn, Trusted(f, log, base, hl, ak, gn), NEW x \in EntryFrame
  PROVE  /\ Trusted(f, Append(log, x), base, hl, ak, gn \ {Key(x)})
         /\ \E k \in 1 .. Len(Append(log, x)) : Append(log, x)[k] = x
<1>1. PICK log2 \in Seq(EntryFrame) : log2 = Append(log, x)
  BY AppendOne
<1>2. /\ Len(log2) = Len(log) + 1 /\ log2[Len(log) + 1] = x /\ Len(log) \in Nat
      /\ \A k \in 1 .. Len(log) : log2[k] = log[k] /\ k \in 1 .. Len(log2)
  BY <1>1, AppendOne
<1>3. AckedIn(ak, log2, base)
  <2>1. ASSUME NEW y \in ak PROVE \E k \in 1 .. Len(log2) : Key(log2[k]) = y /\ log2[k].pos < base
    <3>1. PICK k \in 1 .. Len(log) : Key(log[k]) = y /\ log[k].pos < base
      BY DEF Trusted, AckedIn
    <3>2. k \in 1 .. Len(log2) /\ log2[k] = log[k]
      BY <1>2
    <3>3. QED
      BY <3>1, <3>2
  <2>2. QED
    BY <2>1 DEF AckedIn
<1>4. ASSUME NEW y \in EntryKeys(log2) PROVE y \in EntryKeys(log) \/ y = Key(x)
  <2>1. PICK k \in 1 .. Len(log2) : Key(log2[k]) = y
    BY KeysOfLog
  <2>2. (k \in 1 .. Len(log) /\ log2[k] = log[k]) \/ log2[k] = x
    BY <1>2
  <2>3. QED
    BY <2>1, <2>2, KeysOfLog
<1>5. Trusted(f, log2, base, hl, ak, gn \ {Key(x)})
  BY <1>3, <1>4 DEF Trusted
<1>6. Len(log) + 1 \in 1 .. Len(log2)
  BY <1>2
<1>7. QED
  BY <1>1, <1>2, <1>5, <1>6

\* The indices of a log tell its entries apart.
LEMMA KeyApart ==
  ASSUME NEW log \in Seq(EntryFrame), Consecutive(log),
         NEW j \in 1 .. Len(log), NEW k \in 1 .. Len(log)
  PROVE  /\ Key(log[j]) = Key(log[k]) => j = k
         /\ j < k <=> log[j].index < log[k].index
         /\ Key(log[j])[1] = log[j].index
<1>1. Len(log) \in Nat /\ 1 \in 1 .. Len(log)
  BY LogFrames
<1>2. PICK a \in Nat : a = log[1].index
  BY <1>1, LogFrames
<1>3. log[j].index = a + j - 1 /\ log[k].index = a + k - 1
  BY <1>2 DEF Consecutive
<1>4. Key(log[j]) = Key(log[k]) => log[j].index = log[k].index
  BY DEF Key
<1>5. Key(log[j])[1] = log[j].index
  BY DEF Key
<1>6. QED
  BY <1>1, <1>3, <1>4, <1>5

\* The keys of the entries behind the n-th.
Popped(log, n) == {Key(log[k]) : k \in (n + 1) .. Len(log)}

\* Of the acknowledged and the removed entries, those with keys change sides.
Forgets(ak2, gn2, ak, gn, keys) ==
  /\ \A x \in ak2 : x \in ak /\ x \notin keys
  /\ \A x \in gn2 : x \in gn \/ x \in keys

\* prune_back pops down to the n-th entry and cuts the written file w at T.
CutAt(w, log, base, at, app, hl, n, T) ==
  /\ InUse(w, <<>>, log, base, at, app, hl) /\ (\A k \in 1 .. Len(log) : log[k].pos < base)
  /\ Rising(log) /\ n \in 1 .. (Len(log) - 1) /\ T = log[n + 1].pos

\* prune_back forgets what it popped, and nothing else.
LEMMA CutTrusted ==
  ASSUME NEW w \in Seq(Frame), NEW log \in Seq(EntryFrame),
         NEW base \in Nat, NEW at \in Nat, NEW app \in BOOLEAN, NEW hl \in BOOLEAN,
         NEW n, NEW T, CutAt(w, log, base, at, app, hl, n, T),
         NEW ak, NEW gn, Trusted(w, log, base, hl, ak, gn),
         NEW ak2, NEW gn2, Forgets(ak2, gn2, ak, gn, Popped(log, n))
  PROVE  /\ AckedIn(ak2, SubSeq(log, 1, n), T) /\ gn2 \cap EntryKeys(SubSeq(log, 1, n)) = {}
         /\ (app /\ ~hl) \/ ~HasTorn(SubSeq(w, 1, T)) => ak2 \subseteq EntryKeys(SubSeq(w, 1, T))
<1>a. PICK popped : popped = Popped(log, n)
  OBVIOUS
<1>b. popped = {Key(log[k]) : k \in (n + 1) .. Len(log)}
  BY <1>a DEF Popped
<1>c. /\ InUse(w, <<>>, log, base, at, app, hl) /\ Rising(log) /\ n \in 1 .. (Len(log) - 1)
      /\ T = log[n + 1].pos /\ \A k \in 1 .. Len(log) : log[k].pos < base
  BY DEF CutAt
<1>1. Len(w) \in Nat /\ Len(log) \in Nat /\ w \o <<>> = w
      /\ \A k \in 1 .. Len(log) : log[k].pos \in Nat
  BY LenProperties, LogFrames, ConcatEmptySeq
<1>2. base <= Len(w) /\ Placed(log, w) /\ (~hl => Exact(w))
      /\ Entries(w) \subseteq Entries(log) /\ Consecutive(log)
  BY <1>1, <1>c DEF InUse
<1>3. n + 1 \in 1 .. Len(log) /\ n \in 0 .. Len(log) /\ n \in Nat
  BY <1>1, <1>c
<1>4. T \in 0 .. Len(w) /\ T \in Nat
  BY <1>1, <1>2, <1>3, <1>c
<1>5. PICK u \in Seq(Frame) : u = SubSeq(w, 1, T)
  BY <1>4, Prefix
<1>6. Len(u) = T /\ \A k \in 1 .. T : u[k] = w[k] /\ k \in 1 .. Len(w)
  BY <1>4, <1>5, Prefix, LenProperties
<1>7. PICK l \in Seq(EntryFrame) : l = SubSeq(log, 1, n)
  BY <1>3, Prefix
<1>8. Len(l) = n /\ \A k \in 1 .. n : l[k] = log[k] /\ k \in 1 .. Len(log)
  BY <1>3, <1>7, Prefix, LenProperties
<1>9. ASSUME NEW x \in ak2
      PROVE  \E k \in 1 .. n : Key(log[k]) = x /\ log[k].pos < T
  <2>1. PICK k \in 1 .. Len(log) : Key(log[k]) = x /\ log[k].pos < base
    BY DEF Trusted, AckedIn, Forgets
  <2>2. k \notin (n + 1) .. Len(log)
    BY <1>a, <1>b, <2>1 DEF Forgets
  <2>3. k \in 1 .. n /\ k < n + 1
    BY <1>1, <1>3, <2>2
  <2>4. log[k].pos < log[n + 1].pos
    BY <1>3, <1>c, <2>3 DEF Rising
  <2>5. QED
    BY <1>c, <2>1, <2>3, <2>4
<1>10. AckedIn(ak2, l, T)
  BY <1>8, <1>9 DEF AckedIn
<1>11. gn2 \cap EntryKeys(l) = {}
  <2>1. ASSUME NEW x \in EntryKeys(l) PROVE x \notin gn2
    <3>1. PICK j \in 1 .. Len(l) : Key(l[j]) = x
      BY KeysOfLog
    <3>2. j \in 1 .. n /\ j \in 1 .. Len(log) /\ Key(log[j]) = x
      BY <1>8, <3>1
    <3>3. x \in EntryKeys(log)
      BY <3>2, KeysOfLog
    <3>4. ASSUME NEW k \in (n + 1) .. Len(log) PROVE Key(log[k]) # x
      <4>1. k \in 1 .. Len(log) /\ j # k
        BY <1>1, <1>3, <3>2
      <4>2. QED
        BY <1>2, <3>2, <4>1, KeyApart
    <3>5. QED
      BY <1>a, <1>b, <3>3, <3>4 DEF Trusted, Forgets
  <2>2. QED
    BY <2>1
<1>12. ASSUME (app /\ ~hl) \/ ~HasTorn(u), NEW x \in ak2 PROVE x \in EntryKeys(u)
  <2>1. PICK k \in 1 .. n : Key(log[k]) = x /\ log[k].pos < T
    BY <1>9
  <2>2. PICK q \in Nat : q = log[k].pos + 1
    BY <1>1, <1>8, <2>1
  <2>3. q \in 1 .. T /\ q \in 1 .. Len(w) /\ k \in 1 .. Len(log)
    BY <1>1, <1>4, <1>6, <1>8, <2>1, <2>2
  <2>4. w[q] = log[k]
    <3>1. CASE ~HasTorn(u)
      <4>1. \A m \in 1 .. T : u[m] # Torn
        BY <1>6, <3>1, LenProperties DEF HasTorn
      <4>2. \A m \in 1 .. q : w[m] # Torn
        <5>1. \A m \in 1 .. q : m \in 1 .. T
          BY <1>4, <2>3
        <5>2. QED
          BY <1>6, <4>1, <5>1
      <4>3. Readable(w, q)
        BY <2>3, <4>2 DEF Readable
      <4>4. QED
        BY <1>2, <2>2, <2>3, <4>3 DEF Placed
    <3>2. CASE ~hl
      <4>1. x \in EntryKeys(w)
        BY <3>2 DEF Trusted, Forgets
      <4>2. PICK e \in Entries(w) : Key(e) = x
        BY <4>1, EntriesOf
      <4>3. PICK j \in 1 .. Len(w) : w[j] = e /\ w[j].type = "entry"
        BY <4>2, EntriesOf
      <4>4. e \in Entries(log)
        BY <1>2, <4>2
      <4>5. PICK i \in 1 .. Len(log) : log[i] = e
        BY <4>4, LogFrames
      <4>6. i = k
        BY <1>2, <2>1, <2>3, <4>2, <4>5, KeyApart
      <4>7. e.pos = j - 1
        BY <1>2, <3>2, <4>3 DEF Exact
      <4>8. j = q
        BY <1>1, <2>2, <4>3, <4>5, <4>6, <4>7
      <4>9. QED
        BY <4>3, <4>5, <4>6, <4>8
    <3>3. QED
      BY <1>12, <3>1, <3>2
  <2>5. u[q] = log[k] /\ q \in 1 .. Len(u) /\ log[k].type = "entry"
    BY <1>6, <2>3, <2>4, LogFrames
  <2>6. u[q] \in Entries(u)
    <3>1. u[q] = log[k] /\ u[q].type = "entry"
      BY <2>5
    <3>2. QED
      BY <2>5, <3>1, EntriesOf
  <2>7. QED
    BY <2>1, <2>5, <2>6, EntriesOf
<1>13. QED
  BY <1>5, <1>7, <1>10, <1>11, <1>12

-----------------------------------------------------------------------------
(* The invariant of the entries.                                           *)

\* What prune_front has written: the first n entries, or all and the state.
CopyOf(log, f, n) == Len(f) = n /\ \A i \in 1 .. n : f[i] = log[i]
Rewritten(log, f) ==
  /\ Len(f) = Len(log) + 1 /\ f[Len(f)].type = "state"
  /\ \A i \in 1 .. Len(log) : f[i] = log[i]

\* m_os writes to the main file.
Using == pc \in {"start", "ready"}

\* Where the entries are in each phase of the member functions.
InPlace ==
  /\ Sound(files["main"], hole) /\ Consecutive(m_log)
  /\ Using => InUse(files["main"], m_buf, m_log, m_base, m_at, m_append, hole)
  /\ pc = "recover" => Placed(m_log, files["main"]) /\ Entries(SubSeq(files["main"], 1, rpos)) \subseteq Entries(m_log)
  /\ pc = "copy" => CopyOf(m_log, files["tmp"] \o m_buf, rpos)
  /\ pc = "rename" => Rewritten(m_log, files["tmp"])
  /\ pc = "reopen" => Rewritten(m_log, files["main"])

\* Where the acknowledged ones are. A file with a hole may have lost some; it
\* cannot be read to its end, so no restart takes it for the whole log.
Kept ==
  /\ Using => AckedIn(acked, m_log, m_base)
  /\ pc \in {"copy", "rename", "reopen"} => acked \subseteq EntryKeys(m_log)
  /\ ~hole \/ ~HasTorn(files["main"]) => acked \subseteq EntryKeys(files["main"])

\* Where the pruned ones are not.
Removed ==
  /\ gone \cap EntryKeys(files["main"]) = {}
  /\ pc \notin {"down", "recover"} => gone \cap EntryKeys(m_log) = {}

\* The three together are inductive on top of NoAbortInv.
EntryInv == InPlace /\ Kept /\ Removed

\* The variables of a log in use, by names that a step does not change.
Now(f, b, log, base, at, app, hl) ==
  /\ f = files["main"] /\ b = m_buf /\ log = m_log /\ base = m_base /\ at = m_at /\ app = m_append /\ hl = hole
  /\ InUse(f, b, log, base, at, app, hl) /\ Trusted(f, log, base, hl, acked, gone)
  /\ Rising(log) /\ (\A k \in 1 .. Len(log) : log[k].pos < base + Len(b)) /\ PositionsFrom(f \o b, 0)

\* A log in use has such names.
LEMMA Situation ==
  ASSUME NoAbortInv, EntryInv, Using
  PROVE  /\ \E f \in Seq(Frame), b \in Seq(Frame), log \in Seq(EntryFrame), base \in Nat, at \in Nat,
               app \in BOOLEAN, hl \in BOOLEAN : Now(f, b, log, base, at, app, hl)
         /\ m_file = "main" /\ files \in [{"main", "tmp"} -> Seq(Frame)]
<1>1. TypeOK /\ StreamInPhase /\ Positions /\ LogBelow /\ LogOrder
  BY DEF NoAbortInv
<1>2. m_file = "main" /\ files \in [{"main", "tmp"} -> Seq(Frame)]
  BY <1>1 DEF TypeOK, StreamInPhase, Using
<1>3. PICK f \in Seq(Frame), b \in Seq(Frame), log \in Seq(EntryFrame), base \in Nat, at \in Nat,
           app \in BOOLEAN, hl \in BOOLEAN :
             f = files["main"] /\ b = m_buf /\ log = m_log /\ base = m_base /\ at = m_at /\ app = m_append /\ hl = hole
  BY <1>1, <1>2 DEF TypeOK
<1>4. InUse(f, b, log, base, at, app, hl) /\ Trusted(f, log, base, hl, acked, gone)
  <2>1. InUse(f, b, log, base, at, app, hl)
    BY <1>3 DEF EntryInv, InPlace
  <2>2. AckedIn(acked, log, base) /\ (~hl \/ ~HasTorn(f) => acked \subseteq EntryKeys(f))
    BY <1>3 DEF EntryInv, Kept
  <2>3. gone \cap EntryKeys(log) = {}
    BY <1>3 DEF EntryInv, Removed, Using
  <2>4. QED
    BY <2>1, <2>2, <2>3 DEF Trusted
<1>5. DOMAIN log = 1 .. Len(log)
  BY LenProperties
<1>6. Rising(log)
  BY <1>1, <1>3 DEF LogOrder, Rising, Using
<1>7. \A k \in 1 .. Len(log) : log[k].pos < base + Len(b)
  BY <1>1, <1>3, <1>5 DEF LogBelow, Position, Using
<1>8. PositionsFrom(f \o b, 0)
  <2>1. PositionsFrom(f, 0) /\ PositionsFrom(b, base)
    BY <1>1, <1>3 DEF Positions
  <2>2. base <= Len(f) /\ (base = Len(f) \/ \E i \in 1 .. base : f[i] = Torn)
    BY <1>4 DEF InUse
  <2>3. Len(f) \in Nat /\ DOMAIN f = 1 .. Len(f)
    BY LenProperties
  <2>4. HasTorn(f) \/ base = Len(f)
    <3>1. ASSUME NEW i \in 1 .. base, f[i] = Torn PROVE HasTorn(f)
      <4>1. base <= Len(f)
        BY <2>2
      <4>2. i \in DOMAIN f
        BY <2>3, <4>1
      <4>3. QED
        BY <3>1, <4>2 DEF HasTorn
    <3>2. QED
      BY <2>2, <3>1
  <2>5. QED
    BY <2>1, <2>4, PositionsConcat
<1>9. Now(f, b, log, base, at, app, hl)
  BY <1>3, <1>4, <1>6, <1>7, <1>8 DEF Now
<1>10. QED
  BY <1>2, <1>9

\* A step after which the log is in use.
LEMMA UsingNext ==
  ASSUME Using', NEW f \in Seq(Frame), NEW b \in Seq(Frame), NEW log \in Seq(EntryFrame),
         NEW base \in Nat, NEW at \in Nat, NEW app \in BOOLEAN, NEW hl \in BOOLEAN,
         f = files'["main"], b = m_buf', log = m_log', base = m_base', at = m_at', app = m_append', hl = hole',
         InUse(f, b, log, base, at, app, hl), Trusted(f, log, base, hl, acked', gone')
  PROVE  EntryInv'
<1>1. Sound(f, hl) /\ Entries(f) \subseteq Entries(log) /\ Consecutive(log)
  BY InUseSound DEF InUse
<1>2. EntryKeys(f) \subseteq EntryKeys(log)
  BY <1>1, LogFrames, KeysIn
<1>3. InPlace'
  BY <1>1 DEF InPlace, Using
<1>4. Kept'
  BY DEF Kept, Trusted, Using
<1>5. Removed'
  BY <1>2 DEF Removed, Trusted, Using
<1>6. QED
  BY <1>3, <1>4, <1>5 DEF EntryInv

\* The object is given up, and what the main file holds is w.
LEMMA DropNext ==
  ASSUME Drop, gone' = gone, NEW w \in Seq(Frame), w = files'["main"], Sound(w, hole'),
         gone \cap EntryKeys(w) = {}, ~hole' \/ ~HasTorn(w) => acked' \subseteq EntryKeys(w)
  PROVE  EntryInv'
<1>1. InPlace'
  BY DEF Drop, InPlace, Using, Consecutive
<1>2. Kept' /\ Removed'
  BY DEF Drop, Kept, Removed, Using
<1>3. QED
  BY <1>1, <1>2 DEF EntryInv

\* It is given up and the files are left alone.
LEMMA DropSame ==
  ASSUME TypeOK, EntryInv, Drop, UNCHANGED <<files, gone, hole>>, acked' \subseteq acked
  PROVE  EntryInv'
<1>1. PICK w \in Seq(Frame) : w = files["main"]
  BY DEF TypeOK
<1>2. w = files'["main"] /\ Sound(w, hole') /\ gone \cap EntryKeys(w) = {}
      /\ (~hole' \/ ~HasTorn(w) => acked' \subseteq EntryKeys(w))
  BY <1>1 DEF EntryInv, InPlace, Kept, Removed
<1>3. QED
  BY <1>2, DropNext

-----------------------------------------------------------------------------
(* Every action keeps it.                                                  *)

\* The empty log.
LEMMA EmptyFacts ==
  /\ <<>> \in Seq(Frame) /\ <<>> \in Seq(EntryFrame) /\ <<>> \o <<>> = <<>> /\ Len(<<>>) = 0
  /\ Entries(<<>>) = {} /\ EntryKeys(<<>>) = {} /\ ~HasTorn(<<>>)
  /\ Behind(<<>>) /\ Exact(<<>>) /\ Adjacent(<<>>) /\ Consecutive(<<>>)
  /\ \A f : Placed(<<>>, f)
<1>1. <<>> \in Seq(Frame) /\ <<>> \in Seq(EntryFrame) /\ <<>> \o <<>> = <<>> /\ Len(<<>>) = 0 /\ DOMAIN <<>> = {}
  BY ConcatEmptySeq
<1>2. Entries(<<>>) = {} /\ EntryKeys(<<>>) = {} /\ ~HasTorn(<<>>)
  BY <1>1 DEF Entries, EntryKeys, HasTorn
<1>3. Behind(<<>>) /\ Exact(<<>>) /\ Adjacent(<<>>) /\ Consecutive(<<>>)
  BY <1>1 DEF Behind, Exact, Adjacent, Consecutive
<1>4. \A f : Placed(<<>>, f)
  BY <1>1 DEF Placed
<1>5. QED
  BY <1>1, <1>2, <1>3, <1>4

\* It holds of the state before the first call of initialize.
LEMMA EntryInit == Init => EntryInv
<1> SUFFICES ASSUME Init PROVE EntryInv
  OBVIOUS
<1>1. files["main"] = <<>> /\ m_log = <<>> /\ pc = "down" /\ acked = {} /\ gone = {}
  BY DEF Init
<1>2. InPlace
  BY <1>1, EmptyFacts DEF InPlace, Using, Sound
<1>3. Kept /\ Removed
  BY <1>1, EmptyFacts DEF Kept, Removed, Using
<1>4. QED
  BY <1>2, <1>3 DEF EntryInv

\* initialize starts with an empty file and an empty log.
LEMMA InitializeEntries ==
  ASSUME NEW t \in Terms, NEW v \in Votes, Initialize(t, v)
  PROVE  EntryInv'
<1>1. /\ files'["main"] = <<>> /\ m_buf' = <<>> /\ m_log' = <<>> /\ m_base' = 0 /\ m_at' = 0 /\ m_append' = FALSE
      /\ hole' = FALSE /\ acked' = {} /\ gone' = {} /\ Using'
  BY DEF Initialize, Using
<1>2. InUse(<<>>, <<>>, <<>>, 0, 0, FALSE, FALSE)
  BY EmptyFacts DEF InUse
<1>3. Trusted(<<>>, <<>>, 0, FALSE, {}, {})
  BY DEF Trusted, AckedIn
<1>4. QED
  BY <1>1, <1>2, <1>3, EmptyFacts, UsingNext

\* restart forgets the memory and keeps the main file.
LEMMA RestartEntries ==
  ASSUME NoAbortInv, EntryInv, Restart
  PROVE  EntryInv'
<1>1. PICK f \in Seq(Frame) : f = files["main"]
  BY DEF NoAbortInv, TypeOK
<1>2. f = files'["main"] /\ m_log' = <<>> /\ rpos' = 0 /\ pc' \in {"recover", "down"}
      /\ UNCHANGED <<acked, gone, hole>>
  BY <1>1 DEF NoAbortInv, TypeOK, Restart, histvars
<1>3. 0 \in 0 .. Len(f)
  BY LenProperties
<1>4. SubSeq(f, 1, 0) = <<>>
  BY <1>3, Prefix, EmptySeq
<1>5. Entries(SubSeq(f, 1, 0)) = {}
  BY <1>4, EmptyFacts
<1>6. InPlace'
  <2>1. Sound(f, hole) /\ Consecutive(<<>>) /\ Placed(<<>>, f)
    BY <1>1, EmptyFacts DEF EntryInv, InPlace
  <2>2. QED
    BY <1>2, <1>5, <2>1 DEF InPlace, Using
<1>7. Kept' /\ Removed'
  BY <1>1, <1>2 DEF EntryInv, Kept, Removed, Using
<1>8. QED
  BY <1>6, <1>7 DEF EntryInv

\* The frame at i is behind the last position q; a position p not behind q is
\* that of an earlier frame.
LEMMA NotBehind ==
  ASSUME NEW p \in Nat, NEW q \in Nat, NEW i \in Nat, NEW m \in Nat,
         p = m - 1, i = q + 1, p = q \/ p < q
  PROVE  ~(i < m)
OBVIOUS

\* recover reads an entry: it follows the last one read.
LEMMA RecoverEntry ==
  ASSUME NEW f \in Seq(Frame), NEW log \in Seq(EntryFrame), NEW r \in Nat, r < Len(f),
         Adjacent(f), Consecutive(log), Placed(log, f), Entries(SubSeq(f, 1, r)) \subseteq Entries(log),
         PositionsFrom(f, 0), Rising(log), \A k \in 1 .. Len(log) : log[k].pos < r,
         \A k \in 1 .. (r + 1) : f[k] # Torn, f[r + 1].type = "entry"
  PROVE  f[r + 1].pos = r /\ Consecutive(Append(log, f[r + 1]))
<1>1. Len(f) \in Nat /\ DOMAIN f = 1 .. Len(f) /\ r + 1 \in 1 .. Len(f) /\ r \in 0 .. Len(f)
  BY LenProperties
<1>2. \A j \in 1 .. (r + 1) : j \in 1 .. Len(f) /\ Readable(f, j) /\ f[j].pos = j - 1
  <2>1. ASSUME NEW j \in 1 .. (r + 1) PROVE j \in 1 .. Len(f) /\ Readable(f, j) /\ f[j].pos = j - 1
    <3>1. j \in 1 .. Len(f) /\ \A m \in 1 .. j : m \in 1 .. (r + 1)
      BY <1>1
    <3>2. Readable(f, j)
      BY <3>1 DEF Readable
    <3>3. f[j].pos = 0 + j - 1
      BY <1>1, <3>1 DEF PositionsFrom
    <3>4. QED
      BY <3>1, <3>2, <3>3
  <2>2. QED
    BY <2>1
<1>3. /\ Len(log) \in Nat
      /\ \A k \in 1 .. Len(log) : log[k].pos \in Nat /\ log[k].type = "entry" /\ log[k].index \in Nat
  BY LogFrames
<1>4. PICK x \in EntryFrame : x = f[r + 1] /\ x.index \in Nat /\ x.pos = r
  <2>1. f[r + 1] \in Frame
    BY <1>1
  <2>2. f[r + 1] \in EntryFrame /\ f[r + 1].index \in Nat
    BY <2>1, FrameKinds DEF Indices
  <2>3. f[r + 1].pos = (r + 1) - 1
    BY <1>1, <1>2
  <2>4. QED
    BY <2>2, <2>3
<1>5. PICK log2 \in Seq(EntryFrame) : log2 = Append(log, x)
  BY AppendOne
<1>6. /\ Len(log2) = Len(log) + 1 /\ log2[Len(log) + 1] = x
      /\ \A k \in 1 .. Len(log) : log2[k] = log[k]
  BY <1>5, AppendOne
<1>7. ASSUME NEW n \in Nat, n = Len(log), n >= 1 PROVE x.index = log[n].index + 1
  <2>1. PICK i \in Nat : i = log[n].pos + 1
    BY <1>3, <1>7
  <2>2. i \in 1 .. r /\ i \in 1 .. Len(f) /\ i < r + 1 /\ i \in 1 .. (r + 1) /\ n \in 1 .. Len(log)
    BY <1>1, <1>3, <1>7, <2>1
  <2>3. f[i] = log[n]
    BY <1>2, <2>1, <2>2 DEF Placed
  <2>4. ASSUME NEW m \in (i + 1) .. ((r + 1) - 1), f[m].type = "entry" PROVE FALSE
    <3>1. PICK u \in Seq(Frame) : u = SubSeq(f, 1, r)
      BY <1>1, Prefix
    <3>2. m \in 1 .. r /\ m \in 1 .. Len(u) /\ u[m] = f[m] /\ m \in 1 .. (r + 1)
      BY <1>1, <2>1, <3>1, Prefix
    <3>3. f[m] \in Entries(u)
      BY <2>4, <3>2, EntriesOf
    <3>4. f[m] \in Entries(log)
      BY <3>1, <3>3
    <3>5. PICK k \in 1 .. Len(log) : log[k] = f[m]
      BY <3>4, LogFrames
    <3>6. log[k].pos = m - 1
      BY <1>2, <3>2, <3>5
    <3>7. k = n \/ log[k].pos < log[n].pos
      BY <1>3, <1>7, <2>2 DEF Rising
    <3>8. PICK p \in Nat, q \in Nat : p = log[k].pos /\ q = log[n].pos
      BY <1>3, <2>2
    <3>9. p = m - 1 /\ i = q + 1 /\ (p = q \/ p < q)
      <4>1. p = m - 1
        BY <3>6, <3>8
      <4>2. i = q + 1
        BY <2>1, <3>8
      <4>3. p = q \/ p < q
        BY <3>7, <3>8
      <4>4. QED
        BY <4>1, <4>2, <4>3
    <3>10. i < m
      BY <2>1
    <3>11. m \in Nat
      BY <2>1
    <3>12. QED
      BY <3>9, <3>10, <3>11, NotBehind
  <2>5. f[r + 1].index = f[i].index + 1
    <3>1. PICK j \in 1 .. Len(f) : j = r + 1
      BY <1>1
    <3>2. i < j /\ Readable(f, j) /\ f[i].type = "entry" /\ f[j].type = "entry"
      BY <1>1, <1>2, <1>3, <2>2, <2>3, <3>1
    <3>3. \A m \in (i + 1) .. (j - 1) : f[m].type # "entry"
      BY <2>4, <3>1
    <3>4. QED
      BY <2>2, <3>1, <3>2, <3>3 DEF Adjacent
  <2>6. QED
    BY <1>4, <2>3, <2>5
<1>8. Consecutive(log2)
  <2>1. log # <<>> => x.index = Following(log)
    BY <1>3, <1>7, EmptySeq DEF Following
  <2>2. QED
    BY <1>5, <2>1, ConsecutiveAppend
<1>9. QED
  BY <1>4, <1>5, <1>8

\* recover reads one frame.
LEMMA RecoverFrameEntries ==
  ASSUME NoAbortInv, EntryInv, RecoverFrame, NoAbort'
  PROVE  EntryInv'
<1>1. TypeOK /\ StreamInPhase /\ Positions /\ LogBelow /\ LogOrder
  BY DEF NoAbortInv
<1>2. PICK f \in Seq(Frame), log \in Seq(EntryFrame), r \in Nat : f = files["main"] /\ log = m_log /\ r = rpos
  BY <1>1 DEF TypeOK
<1>3. /\ pc = "recover" /\ r < Len(f) /\ f[r + 1] # Torn
      /\ files' = files /\ UNCHANGED <<acked, gone, hole>>
      /\ \/ f[r + 1].type = "state" /\ rpos' = r + 1 /\ m_log' = log /\ pc' = "recover"
         \/ f[r + 1].type = "entry" /\ rpos' = r + 1 /\ m_log' = Append(log, f[r + 1]) /\ pc' = "recover"
         \/ rpos' = r /\ m_log' = log /\ pc' = "abort"
  BY <1>2, Zenon DEF RecoverFrame, histvars
<1>4. /\ Sound(f, hole) /\ Consecutive(log) /\ Placed(log, f) /\ Entries(SubSeq(f, 1, r)) \subseteq Entries(log)
      /\ PositionsFrom(f, 0) /\ \A k \in 1 .. r : f[k] # Torn
  BY <1>1, <1>2, <1>3 DEF EntryInv, InPlace, Positions, StreamInPhase
<1>5. Rising(log) /\ \A k \in 1 .. Len(log) : log[k].pos < r
  <2>1. DOMAIN log = 1 .. Len(log)
    BY LenProperties
  <2>2. Rising(log)
    BY <1>1, <1>2, <1>3 DEF LogOrder, Rising
  <2>3. QED
    BY <1>1, <1>2, <1>3, <2>1, <2>2 DEF LogBelow
<1>6. Len(f) \in Nat /\ r \in 0 .. Len(f) /\ r + 1 \in 0 .. Len(f) /\ r + 1 \in 1 .. Len(f)
  BY <1>3, LenProperties
<1>7. PICK x \in Frame : x = f[r + 1]
  BY <1>6
<1>8. Entries(SubSeq(f, 1, r + 1)) \subseteq Entries(SubSeq(f, 1, r)) \cup {y \in {x} : y.type = "entry"}
  <2>1. PICK u \in Seq(Frame), v \in Seq(Frame) : u = SubSeq(f, 1, r + 1) /\ v = SubSeq(f, 1, r)
    BY <1>6, Prefix
  <2>2. Len(u) = r + 1 /\ Len(v) = r /\ (\A k \in 1 .. (r + 1) : u[k] = f[k]) /\ \A k \in 1 .. r : v[k] = f[k]
    BY <1>6, <2>1, Prefix
  <2>3. ASSUME NEW y \in Entries(u) PROVE y \in Entries(v) \/ (y = x /\ y.type = "entry")
    <3>1. PICK k \in 1 .. Len(u) : u[k] = y /\ u[k].type = "entry"
      BY EntriesOf
    <3>2. CASE k = r + 1
      BY <1>7, <2>2, <3>1, <3>2
    <3>3. CASE k # r + 1
      <4>1. k \in 1 .. Len(v) /\ v[k] = y
        BY <1>6, <2>2, <3>1, <3>3
      <4>2. QED
        BY <3>1, <4>1, EntriesOf
    <3>4. QED
      BY <3>2, <3>3
  <2>4. QED
    BY <2>1, <2>3
<1>9. ASSUME pc' = "recover", m_log' = log, x.type # "entry", rpos' = r + 1 PROVE InPlace'
  <2>1. Entries(SubSeq(f, 1, r + 1)) \subseteq Entries(log)
    BY <1>4, <1>8, <1>9
  <2>2. QED
    BY <1>2, <1>3, <1>4, <1>9, <2>1 DEF InPlace, Using
<1>10. ASSUME pc' = "recover", m_log' = Append(log, x), x.type = "entry", rpos' = r + 1 PROVE InPlace'
  <2>1. \A k \in 1 .. (r + 1) : f[k] # Torn
    <3>1. \A k \in 1 .. (r + 1) : k \in 1 .. r \/ k = r + 1
      OBVIOUS
    <3>2. QED
      BY <1>3, <1>4, <3>1
  <2>2. x.pos = r /\ Consecutive(Append(log, x))
    BY <1>3, <1>4, <1>5, <1>7, <1>10, <2>1, RecoverEntry DEF Sound
  <2>3. PICK log2 \in Seq(EntryFrame) : log2 = Append(log, x) /\ x \in EntryFrame
    BY <1>10, FrameKinds, AppendOne
  <2>4. /\ Len(log) \in Nat /\ Len(log2) = Len(log) + 1 /\ log2[Len(log) + 1] = x
        /\ \A k \in 1 .. Len(log) : log2[k] = log[k]
    BY <2>3, AppendOne
  <2>5. Entries(SubSeq(f, 1, r + 1)) \subseteq Entries(log2)
    <3>1. ASSUME NEW y \in Entries(log) PROVE y \in Entries(log2)
      <4>1. PICK k \in 1 .. Len(log) : log[k] = y
        BY LogFrames
      <4>2. k \in 1 .. Len(log2) /\ log2[k] = y
        BY <2>4, <4>1
      <4>3. QED
        BY <4>2, LogFrames
    <3>2. x \in Entries(log2)
      <4>1. Len(log) + 1 \in 1 .. Len(log2)
        BY <2>4
      <4>2. QED
        BY <2>4, <4>1, LogFrames
    <3>3. QED
      BY <1>4, <1>8, <3>1, <3>2
  <2>6. Placed(log2, f)
    <3> SUFFICES ASSUME NEW k \in 1 .. Len(log2), Readable(f, log2[k].pos + 1)
                 PROVE  f[log2[k].pos + 1] = log2[k]
      BY DEF Placed
    <3>1. CASE k \in 1 .. Len(log)
      BY <1>4, <2>4, <3>1 DEF Placed
    <3>2. CASE k = Len(log) + 1
      BY <1>7, <2>2, <2>4, <3>2
    <3>3. QED
      BY <2>4, <3>1, <3>2
  <2>7. QED
    BY <1>2, <1>3, <1>4, <1>10, <2>2, <2>3, <2>5, <2>6 DEF InPlace, Using
<1>11. pc' = "recover" /\ InPlace'
  BY <1>3, <1>7, <1>9, <1>10 DEF NoAbort
<1>12. Kept' /\ Removed'
  <2>1. Kept /\ Removed
    BY DEF EntryInv
  <2>2. files' = files /\ acked' = acked /\ gone' = gone /\ hole' = hole
    BY <1>3
  <2>3. Kept'
    BY <1>11, <2>1, <2>2 DEF Kept, Using
  <2>4. Removed'
    BY <1>11, <2>1, <2>2 DEF Removed
  <2>5. QED
    BY <2>3, <2>4
<1>13. QED
  BY <1>11, <1>12 DEF EntryInv

\* recover has read the whole file, so memory and file hold the same entries.
LEMMA RecoverDoneEntries ==
  ASSUME NoAbortInv, EntryInv, RecoverDone
  PROVE  EntryInv'
<1>1. TypeOK /\ StreamInPhase /\ LogBelow
  BY DEF NoAbortInv
<1>2. PICK f \in Seq(Frame), log \in Seq(EntryFrame), r \in Nat, hl \in BOOLEAN :
        f = files["main"] /\ log = m_log /\ r = rpos /\ hl = hole
  BY <1>1 DEF TypeOK
<1>3. /\ pc = "recover" /\ r = Len(f) /\ m_append' = TRUE /\ m_base' = r /\ m_at' = r
      /\ m_buf' = <<>> /\ pc' = "start"
      /\ f = files'["main"] /\ log = m_log' /\ hl = hole' /\ acked' = acked /\ gone' = gone
  BY <1>2 DEF RecoverDone, histvars
<1>4. SubSeq(f, 1, r) = f
  <2>1. r \in 0 .. Len(f)
    BY <1>3
  <2>2. PICK u \in Seq(Frame) : u = SubSeq(f, 1, r)
    BY <2>1, Prefix
  <2>3. Len(u) = Len(f) /\ \A k \in 1 .. Len(f) : u[k] = f[k]
    BY <1>3, <2>1, <2>2, Prefix
  <2>4. QED
    BY <2>2, <2>3, SeqEqual
<1>5. Sound(f, hl) /\ Consecutive(log) /\ Placed(log, f) /\ Entries(f) \subseteq Entries(log)
  BY <1>2, <1>3, <1>4 DEF EntryInv, InPlace
<1>6. \A k \in 1 .. Len(f) : f[k] # Torn
  BY <1>1, <1>2, <1>3 DEF StreamInPhase
<1>7. ~HasTorn(f) /\ DOMAIN log = 1 .. Len(log)
  BY <1>6, LenProperties DEF HasTorn
<1>8. \A k \in 1 .. Len(log) : log[k].pos < r
  BY <1>1, <1>2, <1>3, <1>7 DEF LogBelow
<1>9. Entries(log) \subseteq Entries(f)
  <2>1. ASSUME NEW x \in Entries(log) PROVE x \in Entries(f)
    <3>1. PICK k \in 1 .. Len(log) : log[k] = x
      BY LogFrames
    <3>2. log[k].pos \in Nat /\ x.type = "entry"
      BY <3>1, LogFrames
    <3>3. PICK q \in 1 .. Len(f) : q = log[k].pos + 1
      BY <1>3, <1>8, <3>2
    <3>4. Readable(f, q)
      BY <1>3, <1>6, <3>3 DEF Readable
    <3>5. f[q] = x
      BY <1>5, <3>1, <3>3, <3>4 DEF Placed
    <3>6. QED
      BY <3>2, <3>3, <3>5, EntriesOf
  <2>2. QED
    BY <2>1
<1>10. InUse(f, <<>>, log, r, r, TRUE, hl)
  <2>1. f \o <<>> = f /\ r <= Len(f)
    BY <1>3, ConcatEmptySeq
  <2>2. QED
    BY <1>3, <1>5, <2>1 DEF InUse, Sound
<1>11. Trusted(f, log, r, hl, acked, gone)
  <2>1. acked \subseteq EntryKeys(f) /\ gone \cap EntryKeys(f) = {}
    BY <1>2, <1>7 DEF EntryInv, Kept, Removed
  <2>2. EntryKeys(f) = EntryKeys(log)
    <3>1. log \in Seq(Frame)
      BY LogFrames
    <3>2. QED
      BY <1>5, <1>9, <3>1, KeysIn
  <2>3. AckedIn(acked, log, r)
    BY <1>8, <2>1, <2>2, KeysOfLog DEF AckedIn
  <2>4. QED
    BY <2>1, <2>2, <2>3 DEF Trusted
<1>12. Using' /\ TRUE \in BOOLEAN /\ <<>> \in Seq(Frame)
  BY <1>3 DEF Using
<1>13. QED
  BY <1>3, <1>10, <1>11, <1>12, UsingNext

\* A frame that is no entry is put behind the buffer and all of it is written.
LEMMA WriteOther ==
  ASSUME NEW f \in Seq(Frame), NEW b \in Seq(Frame), NEW log \in Seq(EntryFrame),
         NEW base \in Nat, NEW at \in Nat, NEW app \in BOOLEAN, NEW hl \in BOOLEAN,
         Now(f, b, log, base, at, app, hl), NEW x \in Frame, x.type # "entry",
         NEW w, w = Written(f, at, Append(b, x), app)
  PROVE  /\ w \in Seq(Frame)
         /\ InUse(w, <<>>, log, base + Len(b) + 1, IF app THEN at ELSE at + (Len(b) + 1), app, hl)
         /\ Trusted(w, log, base + Len(b) + 1, hl, acked, gone)
<1>1. PICK c \in Seq(Frame) : c = Append(b, x)
  BY AppendOne
<1>2. Len(c) = Len(b) + 1 /\ Len(b) \in Nat
  BY <1>1, AppendOne
<1>3. InUse(f, c, log, base, at, app, hl) /\ Trusted(f, log, base, hl, acked, gone)
  <2>1. InUse(f, b, log, base, at, app, hl) /\ Trusted(f, log, base, hl, acked, gone)
    BY DEF Now
  <2>2. \A k \in 1 .. Len(log) : log[k].pos < base + Len(b)
    BY DEF Now
  <2>3. InUse(f, Append(b, x), log, base, at, app, hl)
    BY <2>1, <2>2, PutOther
  <2>4. QED
    BY <1>1, <2>1, <2>3
<1>4. w \in Seq(Frame) /\ InUse(w, <<>>, log, base + Len(c), IF app THEN at ELSE at + Len(c), app, hl)
  <2>1. InUse(f, c, log, base, at, app, hl) /\ w = Written(f, at, c, app)
    BY <1>1, <1>3
  <2>2. QED
    BY <2>1, FlushAll
<1>5. Trusted(w, log, base + Len(c), hl, acked, gone)
  <2>1. InUse(f, c, log, base, at, app, hl) /\ w = Written(f, at, c, app)
    BY <1>1, <1>3
  <2>2. QED
    BY <1>3, <2>1, FlushTrusted
<1>6. base + Len(c) = base + Len(b) + 1
  BY <1>2
<1>7. QED
  BY <1>2, <1>4, <1>5, <1>6

\* The same as a step of the stream.
LEMMA FlushOther ==
  ASSUME NoAbortInv, EntryInv, Using, Using', NEW x \in Frame, x.type # "entry", FlushWith(<<x>>),
         UNCHANGED <<m_log, acked, gone, hole>>
  PROVE  EntryInv'
<1>1. PICK f \in Seq(Frame), b \in Seq(Frame), log \in Seq(EntryFrame), base \in Nat, at \in Nat,
           app \in BOOLEAN, hl \in BOOLEAN : Now(f, b, log, base, at, app, hl)
  BY Situation
<1>2. f = files["main"] /\ b = m_buf /\ log = m_log /\ base = m_base /\ at = m_at /\ app = m_append /\ hl = hole
  BY <1>1 DEF Now
<1>3. TypeOK /\ m_file = "main" /\ <<x>> \in Seq(Frame) /\ Len(<<x>>) = 1
  BY Situation DEF NoAbortInv
<1>4. PICK w : w = Written(f, at, Append(b, x), app)
  OBVIOUS
<1>5. b \o <<x>> = Append(b, x)
  BY ConcatOne
<1>6. /\ files'["main"] = w /\ m_base' = base + Len(b) + 1 /\ m_at' = Advanced(Len(b) + 1)
      /\ m_base' \in Nat /\ m_at' \in Nat
      /\ m_buf' = <<>> /\ m_append' = app /\ m_log' = log /\ hole' = hl /\ acked' = acked /\ gone' = gone
  BY <1>2, <1>3, <1>4, <1>5, FlushFacts
<1>7. m_at' = IF app THEN at ELSE at + (Len(b) + 1)
  BY <1>2, <1>6 DEF Advanced
<1>8. /\ w \in Seq(Frame)
      /\ InUse(w, <<>>, log, m_base', m_at', app, hl) /\ Trusted(w, log, m_base', hl, acked', gone')
  BY <1>1, <1>4, <1>6, <1>7, WriteOther
<1>9. PICK nb \in Nat, na \in Nat, e \in Seq(Frame) : nb = m_base' /\ na = m_at' /\ e = <<>>
  BY <1>6, EmptyFacts
<1>10. InUse(w, e, log, nb, na, app, hl) /\ Trusted(w, log, nb, hl, acked', gone')
  BY <1>8, <1>9
<1>11. /\ w \in Seq(Frame) /\ w = files'["main"] /\ e = m_buf' /\ log = m_log' /\ nb = m_base' /\ na = m_at'
       /\ app = m_append' /\ hl = hole' /\ Using'
  BY <1>6, <1>8, <1>9
<1>12. QED
  BY <1>10, <1>11, UsingNext

\* write_frame( m_state ) ends initialize and restart.
LEMMA StartWriteEntries ==
  ASSUME NoAbortInv, EntryInv, StartWrite
  PROVE  EntryInv'
<1>1. PICK x \in Frame : x = StateFrameAt(m_term, m_vote, Position) /\ x.type # "entry"
  <2>1. TypeOK /\ m_term \in Terms /\ m_vote \in Votes
    BY DEF NoAbortInv, TypeOK
  <2>2. StateFrameAt(m_term, m_vote, Position) \in Frame
    BY <2>1, FrameAtType
  <2>3. StateFrameAt(m_term, m_vote, Position).type # "entry"
    BY DEF StateFrameAt
  <2>4. QED
    BY <2>2, <2>3
<1>2. Using /\ Using' /\ FlushWith(<<x>>) /\ UNCHANGED <<m_log, acked, gone, hole>>
  BY <1>1 DEF StartWrite, Using
<1>3. QED
  BY <1>1, <1>2, FlushOther

\* update_replicant_state writes the state, keeps it buffered, or has nothing to do.
LEMMA UpdateEntries ==
  ASSUME NoAbortInv, EntryInv, NEW t \in Terms, NEW v \in Votes, UpdateReplicantState(t, v)
  PROVE  EntryInv'
<1>1. PICK x \in Frame : x = StateFrameAt(t, v, Position) /\ x.type # "entry"
  <2>1. StateFrameAt(t, v, Position) \in Frame
    BY FrameAtType DEF NoAbortInv
  <2>2. StateFrameAt(t, v, Position).type # "entry"
    BY DEF StateFrameAt
  <2>3. QED
    BY <2>1, <2>2
<1>2. Using /\ Using' /\ UNCHANGED <<m_log, acked, gone, hole>>
  BY DEF UpdateReplicantState, Using
<1>3. CASE FlushWith(<<x>>)
  BY <1>1, <1>2, <1>3, FlushOther
<1>4. PICK f \in Seq(Frame), b \in Seq(Frame), log \in Seq(EntryFrame), base \in Nat, at \in Nat,
           app \in BOOLEAN, hl \in BOOLEAN : Now(f, b, log, base, at, app, hl)
  BY <1>2, Situation
<1>5. f = files["main"] /\ b = m_buf /\ log = m_log /\ base = m_base /\ at = m_at /\ app = m_append /\ hl = hole
  BY <1>4 DEF Now
<1>6. InUse(f, b, log, base, at, app, hl) /\ Trusted(f, log, base, hl, acked, gone)
  BY <1>4 DEF Now
<1>7. CASE UNCHANGED <<files, osvars>>
  <2>1. /\ f = files'["main"] /\ b = m_buf' /\ log = m_log' /\ base = m_base' /\ at = m_at'
        /\ app = m_append' /\ hl = hole' /\ Using' /\ acked' = acked /\ gone' = gone
    BY <1>2, <1>5, <1>7 DEF osvars
  <2>2. QED
    BY <1>6, <2>1, UsingNext
<1>8. CASE KeepUnwritten(x)
  <2>1. PICK y \in {x, Torn} : m_buf' = Append(b, y)
    BY <1>5, <1>8 DEF KeepUnwritten
  <2>2. y \in Frame /\ y.type # "entry"
    BY <1>1, <2>1 DEF Frame, Torn
  <2>3. PICK c \in Seq(Frame) : c = Append(b, y)
    BY <2>2, AppendOne
  <2>4. \A k \in 1 .. Len(log) : log[k].pos < base + Len(b)
    BY <1>4 DEF Now
  <2>5. InUse(f, c, log, base, at, app, hl)
    BY <1>6, <2>2, <2>3, <2>4, PutOther
  <2>6. /\ f = files'["main"] /\ c = m_buf' /\ log = m_log' /\ base = m_base' /\ at = m_at'
        /\ app = m_append' /\ hl = hole' /\ Using' /\ acked' = acked /\ gone' = gone
    BY <1>2, <1>5, <1>8, <2>1, <2>3 DEF KeepUnwritten
  <2>7. QED
    BY <1>6, <2>5, <2>6, UsingNext
<1>9. FlushWith(<<x>>) \/ KeepUnwritten(x) \/ UNCHANGED <<files, osvars>>
  BY <1>1, Zenon DEF UpdateReplicantState
<1>10. QED
  BY <1>3, <1>7, <1>8, <1>9

\* The object is given up after its file became w, which served it as well.
LEMMA GivenUp ==
  ASSUME Drop, UNCHANGED <<acked, gone, hole>>, NEW w \in Seq(Frame), w = files'["main"],
         NEW log \in Seq(EntryFrame), NEW base \in Nat, NEW at \in Nat, NEW app \in BOOLEAN,
         NEW hl \in BOOLEAN, hl = hole,
         InUse(w, <<>>, log, base, at, app, hl), Trusted(w, log, base, hl, acked, gone)
  PROVE  EntryInv'
<1>1. Sound(w, hl) /\ Entries(w) \subseteq Entries(log)
  <2>1. PICK e \in Seq(Frame) : e = <<>>
    BY EmptyFacts
  <2>2. InUse(w, e, log, base, at, app, hl)
    BY <2>1
  <2>3. QED
    BY <2>2, InUseSound
<1>2. log \in Seq(Frame)
  BY LogFrames
<1>3. EntryKeys(w) \subseteq EntryKeys(log)
  BY <1>1, <1>2, KeysIn
<1>4. gone \cap EntryKeys(w) = {} /\ (~hole' \/ ~HasTorn(w) => acked' \subseteq EntryKeys(w))
  BY <1>3 DEF Trusted
<1>5. QED
  BY <1>1, <1>4, DropNext

\* close writes the state and gives the stream up.
LEMMA CloseEntries ==
  ASSUME NoAbortInv, EntryInv, Close
  PROVE  EntryInv'
<1>1. PICK x \in Frame : x = StateFrameAt(m_term, m_vote, Position) /\ x.type # "entry"
  <2>1. TypeOK /\ m_term \in Terms /\ m_vote \in Votes
    BY DEF NoAbortInv, TypeOK
  <2>2. StateFrameAt(m_term, m_vote, Position) \in Frame
    BY <2>1, FrameAtType
  <2>3. StateFrameAt(m_term, m_vote, Position).type # "entry"
    BY DEF StateFrameAt
  <2>4. QED
    BY <2>2, <2>3
<1>2. Using /\ Drop /\ UNCHANGED <<acked, gone, hole>>
  BY DEF Close, Using
<1>3. PICK f \in Seq(Frame), b \in Seq(Frame), log \in Seq(EntryFrame), base \in Nat, at \in Nat,
           app \in BOOLEAN, hl \in BOOLEAN : Now(f, b, log, base, at, app, hl)
  BY <1>2, Situation
<1>4. f = files["main"] /\ b = m_buf /\ log = m_log /\ base = m_base /\ at = m_at /\ app = m_append /\ hl = hole
  BY <1>3 DEF Now
<1>5. PICK w : w = Written(f, at, Append(b, x), app)
  OBVIOUS
<1>6. /\ w \in Seq(Frame)
      /\ InUse(w, <<>>, log, base + Len(b) + 1, IF app THEN at ELSE at + (Len(b) + 1), app, hl)
      /\ Trusted(w, log, base + Len(b) + 1, hl, acked, gone)
  BY <1>1, <1>3, <1>5, WriteOther
<1>7. w = files'["main"]
  <2>1. files \in [{"main", "tmp"} -> Seq(Frame)]
    BY <1>2, Situation
  <2>2. files' = [files EXCEPT !["main"] = Written(files["main"], m_at, Append(m_buf, x), m_append)]
    BY <1>1 DEF Close
  <2>3. QED
    BY <1>4, <1>5, <2>1, <2>2
<1>8. PICK nb \in Nat, na \in Nat : nb = base + Len(b) + 1 /\ na = (IF app THEN at ELSE at + (Len(b) + 1))
  BY LenProperties
<1>9. InUse(w, <<>>, log, nb, na, app, hl) /\ Trusted(w, log, nb, hl, acked, gone)
  BY <1>6, <1>8
<1>10. QED
  BY <1>2, <1>4, <1>6, <1>7, <1>9, GivenUp

\* prune_front outside the log writes the buffer out and closes the stream.
LEMMA PruneFrontInvalidEntries ==
  ASSUME NoAbortInv, EntryInv, NEW i \in Indices, PruneFrontInvalid(i)
  PROVE  EntryInv'
<1>1. Using /\ Using' /\ FlushClose /\ UNCHANGED <<m_log, acked, gone, hole>>
  BY DEF PruneFrontInvalid, Using, histvars
<1>2. PICK f \in Seq(Frame), b \in Seq(Frame), log \in Seq(EntryFrame), base \in Nat, at \in Nat,
           app \in BOOLEAN, hl \in BOOLEAN : Now(f, b, log, base, at, app, hl)
  BY <1>1, Situation
<1>3. f = files["main"] /\ b = m_buf /\ log = m_log /\ base = m_base /\ at = m_at /\ app = m_append /\ hl = hole
  BY <1>2 DEF Now
<1>4. InUse(f, b, log, base, at, app, hl) /\ Trusted(f, log, base, hl, acked, gone)
  BY <1>2 DEF Now
<1>5. PICK w : w = Written(f, at, b, app)
  OBVIOUS
<1>6. w \in Seq(Frame) /\ InUse(w, <<>>, log, base + Len(b), IF app THEN at ELSE at + Len(b), app, hl)
  BY <1>4, <1>5, FlushAll
<1>7. Trusted(w, log, base + Len(b), hl, acked, gone)
  BY <1>4, <1>5, FlushTrusted
<1>8. PICK nb \in Nat, na \in Nat, e \in Seq(Frame) :
        nb = base + Len(b) /\ na = (IF app THEN at ELSE at + Len(b)) /\ e = <<>>
  <2>1. Len(b) \in Nat /\ <<>> \in Seq(Frame)
    BY LenProperties
  <2>2. base + Len(b) \in Nat /\ (IF app THEN at ELSE at + Len(b)) \in Nat
    BY <2>1
  <2>3. QED
    BY <2>1, <2>2
<1>9. InUse(w, e, log, nb, na, app, hl) /\ Trusted(w, log, nb, hl, acked, gone)
  BY <1>6, <1>7, <1>8
<1>10. w = files'["main"]
  <2>1. files \in [{"main", "tmp"} -> Seq(Frame)] /\ m_file = "main"
    BY <1>1, Situation
  <2>2. files' = [files EXCEPT !["main"] = Written(files["main"], m_at, m_buf, m_append)]
    BY <1>1, <2>1 DEF FlushClose
  <2>3. QED
    BY <1>3, <1>5, <2>1, <2>2
<1>11. /\ e = m_buf' /\ log = m_log' /\ nb = m_base' /\ na = m_at'
       /\ app = m_append' /\ hl = hole' /\ Using' /\ acked' = acked /\ gone' = gone
  BY <1>1, <1>3, <1>8 DEF FlushClose, Position, Advanced
<1>12. QED
  BY <1>6, <1>9, <1>10, <1>11, UsingNext

\* The process dies in a write: some frames of the buffer and a fragment are
\* in the file.
LEMMA CrashInWriteEntries ==
  ASSUME NoAbortInv, EntryInv, NEW k \in 0 .. Len(m_buf), CrashInWrite(k)
  PROVE  EntryInv'
<1>1. Using /\ Drop /\ UNCHANGED <<acked, gone, hole>>
  BY DEF CrashInWrite, Using, histvars
<1>2. PICK f \in Seq(Frame), b \in Seq(Frame), log \in Seq(EntryFrame), base \in Nat, at \in Nat,
           app \in BOOLEAN, hl \in BOOLEAN : Now(f, b, log, base, at, app, hl)
  BY <1>1, Situation
<1>3. f = files["main"] /\ b = m_buf /\ log = m_log /\ base = m_base /\ at = m_at /\ app = m_append /\ hl = hole
  BY <1>2 DEF Now
<1>4. InUse(f, b, log, base, at, app, hl) /\ Trusted(f, log, base, hl, acked, gone)
  BY <1>2 DEF Now
<1>5. k \in 0 .. Len(b)
  BY <1>3
<1>6. PICK c \in Seq(Frame), d \in Seq(Frame) : c = SubSeq(b, 1, k) /\ d = Append(c, Torn)
  BY <1>5, Prefix, AppendOne DEF Frame
<1>7. InUse(f, d, log, base, at, app, hl)
  <2>1. InUse(f, c, log, base, at, app, hl)
    BY <1>4, <1>5, <1>6, CutShort
  <2>2. Torn \in Frame /\ Torn.type # "entry"
    BY DEF Torn, Frame
  <2>3. f \o d = Append(f \o c, Torn) /\ f \o c \in Seq(Frame)
    BY <1>6, <2>2, ConcatAppend, Concat
  <2>4. Entries(f \o d) \subseteq Entries(f \o c)
    <3>1. Entries(Append(f \o c, Torn)) = Entries(f \o c) \cup {y \in {Torn} : y.type = "entry"}
      BY <2>2, <2>3, EntriesAppend
    <3>2. {y \in {Torn} : y.type = "entry"} = {}
      BY <2>2
    <3>3. QED
      BY <2>3, <3>1, <3>2
  <2>5. Behind(f \o c) /\ Adjacent(f \o c) /\ Placed(log, f \o c) /\ Entries(f \o c) \subseteq Entries(log)
    BY <2>1 DEF InUse
  <2>6. Behind(f \o d) /\ Adjacent(f \o d) /\ (Exact(f \o c) => Exact(f \o d))
    BY <2>2, <2>3, <2>5, OneMore
  <2>7. Placed(log, f \o d)
    <3>1. PICK v \in Seq(Frame), u \in Seq(Frame) : v = f \o c /\ u = Append(v, Torn) /\ u = f \o d
      BY <2>2, <2>3, AppendOne
    <3>2. Len(v) \in Nat /\ Len(u) = Len(v) + 1 /\ u[Len(v) + 1] = Torn /\ \A n \in 1 .. Len(v) : u[n] = v[n]
      <4>1. PICK tn \in Frame : tn = Torn
        BY <2>2
      <4>2. u = Append(v, tn)
        BY <3>1, <4>1
      <4>3. Len(v) \in Nat /\ Len(u) = Len(v) + 1 /\ u[Len(v) + 1] = tn /\ \A n \in 1 .. Len(v) : u[n] = v[n]
        BY <4>2, AppendOne
      <4>4. QED
        BY <4>1, <4>3
    <3>3. ASSUME NEW j, Readable(u, j) PROVE Readable(v, j) /\ u[j] = v[j]
      <4>1. j \in 1 .. Len(u) /\ \A m \in 1 .. j : u[m] # Torn
        BY <3>3 DEF Readable
      <4>2. j \in 1 .. j
        BY <3>2, <4>1
      <4>3. j # Len(v) + 1
        BY <3>2, <4>1, <4>2
      <4>4. j \in 1 .. Len(v) /\ \A m \in 1 .. j : m \in 1 .. Len(v)
        BY <3>2, <4>1, <4>3
      <4>5. QED
        BY <3>2, <4>1, <4>4 DEF Readable
    <3>4. Placed(log, u)
      BY <2>5, <3>1, <3>3 DEF Placed
    <3>5. QED
      BY <3>1, <3>4
  <2>8. QED
    BY <2>1, <2>4, <2>5, <2>6, <2>7 DEF InUse
<1>8. PICK w : w = Written(f, at, d, app)
  OBVIOUS
<1>9. w \in Seq(Frame) /\ InUse(w, <<>>, log, base + Len(d), IF app THEN at ELSE at + Len(d), app, hl)
  BY <1>7, <1>8, FlushAll
<1>10. Trusted(w, log, base + Len(d), hl, acked, gone)
  BY <1>4, <1>7, <1>8, FlushTrusted
<1>11. PICK nb \in Nat, na \in Nat : nb = base + Len(d) /\ na = (IF app THEN at ELSE at + Len(d))
  <2>1. Len(d) \in Nat
    BY LenProperties
  <2>2. base + Len(d) \in Nat /\ (IF app THEN at ELSE at + Len(d)) \in Nat
    BY <2>1
  <2>3. QED
    BY <2>2
<1>12. InUse(w, <<>>, log, nb, na, app, hl) /\ Trusted(w, log, nb, hl, acked, gone)
  BY <1>9, <1>10, <1>11
<1>13. w = files'["main"]
  <2>1. files \in [{"main", "tmp"} -> Seq(Frame)] /\ m_file = "main"
    BY <1>1, Situation
  <2>2. files' = [files EXCEPT !["main"] =
                    Written(files["main"], m_at, Append(SubSeq(m_buf, 1, k), Torn), m_append)]
    BY <2>1 DEF CrashInWrite
  <2>3. QED
    BY <1>3, <1>6, <1>8, <2>1, <2>2
<1>14. QED
  BY <1>1, <1>3, <1>9, <1>12, <1>13, GivenUp

\* append puts its entry in memory and behind the buffer, and writes it or keeps it.
LEMMA AppendEntries ==
  ASSUME NoAbortInv, EntryInv, NEW d \in Payloads, AppendEntry(d)
  PROVE  EntryInv'
<1>1. Using /\ Using' /\ hole' = hole /\ TypeOK
  BY DEF AppendEntry, Using, NoAbortInv
<1>2. PICK f \in Seq(Frame), b \in Seq(Frame), log \in Seq(EntryFrame), base \in Nat, at \in Nat,
           app \in BOOLEAN, hl \in BOOLEAN : Now(f, b, log, base, at, app, hl)
  BY <1>1, Situation
<1>3. f = files["main"] /\ b = m_buf /\ log = m_log /\ base = m_base /\ at = m_at /\ app = m_append /\ hl = hole
  BY <1>2 DEF Now
<1>4. InUse(f, b, log, base, at, app, hl) /\ Trusted(f, log, base, hl, acked, gone)
  BY <1>2 DEF Now
<1>5. PICK x \in EntryFrame : x = EntryFrameAt(NextIndex, d, Position)
  <2>1. NextIndex \in Indices
    BY DEF AppendEntry
  <2>2. QED
    BY <1>1, <2>1, FrameAtType
<1>6. x.index = Following(log) /\ x.pos = base + Len(b) /\ x \in Frame /\ x.type = "entry"
  BY <1>3, <1>5 DEF EntryFrameAt, NextIndex, Following, Position, Frame
<1>7. /\ m_log' = Append(log, x) /\ gone' = gone \ {Key(x)}
      /\ \/ FlushWith(<<x>>) /\ acked' = acked \cup {Key(x)}
         \/ KeepUnwritten(x) /\ acked' = acked
  BY <1>3, <1>5, Zenon DEF AppendEntry
<1>8. PICK log2 \in Seq(EntryFrame) : log2 = Append(log, x)
  BY AppendOne
<1>9. Len(log) \in Nat /\ Len(b) \in Nat /\ Len(log2) = Len(log) + 1 /\ log2[Len(log) + 1] = x
  BY <1>8, AppendOne, LenProperties
<1>10. Trusted(f, log2, base, hl, acked, gone')
  <2>1. Trusted(f, Append(log, x), base, hl, acked, gone \ {Key(x)})
    BY <1>4, AppendTrusted
  <2>2. QED
    BY <1>7, <1>8, <2>1
<1>11. ASSUME NEW y \in {x, Torn}
       PROVE  Append(b, y) \in Seq(Frame) /\ InUse(f, Append(b, y), log2, base, at, app, hl)
  <2>1. Rising(log) /\ PositionsFrom(f \o b, 0)
    BY <1>2 DEF Now
  <2>2. \A k \in 1 .. Len(log) : log[k].pos < base + Len(b)
    BY <1>2 DEF Now
  <2>3. y \in Frame
    BY <1>6 DEF Frame
  <2>4. InUse(f, Append(b, y), Append(log, x), base, at, app, hl)
    BY <1>4, <1>6, <2>1, <2>2, PutEntry
  <2>5. QED
    BY <1>8, <2>3, <2>4, AppendOne
<1>12. CASE FlushWith(<<x>>) /\ acked' = acked \cup {Key(x)}
  <2>1. PICK c \in Seq(Frame) : c = Append(b, x)
    BY <1>11
  <2>2. Len(c) = Len(b) + 1 /\ b \o <<x>> = c
    BY <1>6, <2>1, AppendOne, ConcatOne
  <2>3. InUse(f, c, log2, base, at, app, hl)
    BY <1>11, <2>1
  <2>4. PICK w : w = Written(f, at, c, app)
    OBVIOUS
  <2>5. /\ w \in Seq(Frame) /\ Entries(w) = Entries(f) \cup Entries(c)
        /\ InUse(w, <<>>, log2, base + Len(c), IF app THEN at ELSE at + Len(c), app, hl)
    BY <2>3, <2>4, FlushAll
  <2>6. Trusted(w, log2, base + Len(c), hl, acked, gone')
    BY <1>10, <2>3, <2>4, FlushTrusted
  <2>7. m_file = "main" /\ <<x>> \in Seq(Frame) /\ Len(<<x>>) = 1
    BY <1>1, <1>6, Situation
  <2>8. /\ files'["main"] = w /\ m_base' = base + Len(b) + 1 /\ m_at' = Advanced(Len(b) + 1)
        /\ m_base' \in Nat /\ m_at' \in Nat /\ m_buf' = <<>> /\ m_append' = app
    BY <1>1, <1>3, <1>12, <2>2, <2>4, <2>7, FlushFacts
  <2>9. PICK nb \in Nat, na \in Nat, e \in Seq(Frame) :
          /\ nb = m_base' /\ na = m_at' /\ e = <<>>
          /\ nb = base + Len(c) /\ na = (IF app THEN at ELSE at + Len(c))
    <3>1. m_base' = base + Len(c)
      BY <1>9, <2>2, <2>8
    <3>2. m_at' = IF app THEN at ELSE at + Len(c)
      BY <1>3, <2>2, <2>8 DEF Advanced
    <3>3. QED
      BY <2>8, <3>1, <3>2, EmptyFacts
  <2>10. InUse(w, e, log2, nb, na, app, hl) /\ Trusted(w, log2, nb, hl, acked, gone')
    BY <2>5, <2>6, <2>9
  <2>11. Key(x) \in EntryKeys(w)
    <3>1. x \in Entries(c)
      BY <1>6, <2>1, EntriesAppend
    <3>2. x \in Entries(w)
      BY <2>5, <3>1
    <3>3. QED
      BY <2>5, <3>2, EntriesOf
  <2>12. \E k \in 1 .. Len(log2) : Key(log2[k]) = Key(x) /\ log2[k].pos < nb
    <3>1. PICK k \in 1 .. Len(log2) : k = Len(log) + 1
      BY <1>9
    <3>2. log2[k] = x
      BY <1>9, <3>1
    <3>3. x.pos < nb
      BY <1>6, <1>9, <2>2, <2>9
    <3>4. QED
      BY <3>2, <3>3
  <2>13. Trusted(w, log2, nb, hl, acked', gone')
    BY <1>12, <2>10, <2>11, <2>12 DEF Trusted, AckedIn
  <2>14. /\ w \in Seq(Frame) /\ w = files'["main"] /\ e = m_buf' /\ log2 = m_log' /\ nb = m_base' /\ na = m_at'
         /\ app = m_append' /\ hl = hole' /\ Using'
    BY <1>1, <1>3, <1>7, <1>8, <2>5, <2>8, <2>9
  <2>15. QED
    BY <2>10, <2>13, <2>14, UsingNext
<1>13. CASE KeepUnwritten(x) /\ acked' = acked
  <2>1. PICK y \in {x, Torn} : m_buf' = Append(b, y)
    BY <1>3, <1>13 DEF KeepUnwritten
  <2>2. PICK c \in Seq(Frame) : c = Append(b, y)
    BY <1>11
  <2>3. InUse(f, c, log2, base, at, app, hl) /\ Trusted(f, log2, base, hl, acked', gone')
    BY <1>10, <1>11, <1>13, <2>2
  <2>4. /\ f = files'["main"] /\ c = m_buf' /\ log2 = m_log' /\ base = m_base' /\ at = m_at'
        /\ app = m_append' /\ hl = hole' /\ Using'
    BY <1>1, <1>3, <1>7, <1>8, <1>13, <2>1, <2>2 DEF KeepUnwritten
  <2>5. QED
    BY <2>3, <2>4, UsingNext
<1>14. QED
  BY <1>7, <1>12, <1>13

\* prune_back writes the buffer out, pops and cuts.
LEMMA PruneBackEntries ==
  ASSUME NoAbortInv, EntryInv, NEW n \in DOMAIN m_log, PruneBack(n)
  PROVE  EntryInv'
<1>1. Using /\ Using' /\ TypeOK
  BY DEF PruneBack, Using, NoAbortInv
<1>2. PICK f \in Seq(Frame), b \in Seq(Frame), log \in Seq(EntryFrame), base \in Nat, at \in Nat,
           app \in BOOLEAN, hl \in BOOLEAN : Now(f, b, log, base, at, app, hl)
  BY <1>1, Situation
<1>3. f = files["main"] /\ b = m_buf /\ log = m_log /\ base = m_base /\ at = m_at /\ app = m_append /\ hl = hole
  BY <1>2 DEF Now
<1>4. InUse(f, b, log, base, at, app, hl) /\ Trusted(f, log, base, hl, acked, gone) /\ Rising(log)
  BY <1>2 DEF Now
<1>5. PICK w : w = Written(f, at, b, app)
  OBVIOUS
<1>6. w \in Seq(Frame) /\ InUse(w, <<>>, log, base + Len(b), IF app THEN at ELSE at + Len(b), app, hl)
  BY <1>4, <1>5, FlushAll
<1>7. Trusted(w, log, base + Len(b), hl, acked, gone)
  BY <1>4, <1>5, FlushTrusted
<1>8. PICK nb \in Nat, na \in Nat : nb = base + Len(b) /\ na = (IF app THEN at ELSE at + Len(b))
  <2>1. Len(b) \in Nat
    BY LenProperties
  <2>2. base + Len(b) \in Nat /\ (IF app THEN at ELSE at + Len(b)) \in Nat
    BY <2>1
  <2>3. QED
    BY <2>2
<1>9. InUse(w, <<>>, log, nb, na, app, hl) /\ Trusted(w, log, nb, hl, acked, gone)
  BY <1>6, <1>7, <1>8
<1>10. \A k \in 1 .. Len(log) : log[k].pos < nb
  BY <1>2, <1>8 DEF Now
<1>11. n \in 1 .. (Len(log) - 1)
  BY <1>3 DEF PruneBack, PopsDownTo
<1>12. PICK T : T = log[n + 1].pos
  OBVIOUS
<1>13. T \in Nat /\ T <= Len(w)
  <2>1. n + 1 \in 1 .. Len(log)
    BY <1>11, LenProperties
  <2>2. log[n + 1].pos \in Nat /\ log[n + 1].pos < nb
    BY <1>10, <2>1, LogFrames
  <2>3. nb <= Len(w) /\ Len(w) \in Nat
    BY <1>6, <1>9, LenProperties DEF InUse
  <2>4. QED
    BY <1>12, <2>2, <2>3
<1>14. InUse(SubSeq(w, 1, T), <<>>, SubSeq(log, 1, n), T, na, app, hl \/ ~app)
  BY <1>4, <1>6, <1>9, <1>10, <1>11, <1>12, CutBack
<1>15. Trusted(SubSeq(w, 1, T), SubSeq(log, 1, n), T, hl \/ ~app, acked', gone')
  <2>1. T = log[n + 1].pos /\ w \in Seq(Frame) /\ Rising(log)
    BY <1>4, <1>6, <1>12
  <2>2. acked' = acked \ Popped(log, n) /\ gone' = gone \cup Popped(log, n)
    BY <1>3 DEF PruneBack, Popped
  <2>3. Forgets(acked', gone', acked, gone, Popped(log, n))
    BY <2>2 DEF Forgets
  <2>4. PICK ak, gn, ak2, gn2 : ak = acked /\ gn = gone /\ ak2 = acked' /\ gn2 = gone'
    OBVIOUS
  <2>5. Forgets(ak2, gn2, ak, gn, Popped(log, n)) /\ Trusted(w, log, nb, hl, ak, gn)
    BY <1>9, <2>3, <2>4
  <2>6. /\ AckedIn(ak2, SubSeq(log, 1, n), T) /\ gn2 \cap EntryKeys(SubSeq(log, 1, n)) = {}
        /\ (app /\ ~hl) \/ ~HasTorn(SubSeq(w, 1, T)) => ak2 \subseteq EntryKeys(SubSeq(w, 1, T))
    <3>1. CutAt(w, log, nb, na, app, hl, n, T)
      BY <1>9, <1>10, <1>11, <2>1 DEF CutAt
    <3>2. QED
      BY <2>1, <2>5, <3>1, CutTrusted
  <2>7. QED
    BY <2>4, <2>6 DEF Trusted
<1>16. PICK u \in Seq(Frame), log2 \in Seq(EntryFrame), hl2 \in BOOLEAN, e \in Seq(Frame) :
         u = SubSeq(w, 1, T) /\ log2 = SubSeq(log, 1, n) /\ hl2 = (hl \/ ~app) /\ e = <<>>
  <2>1. T \in 0 .. Len(w) /\ n \in 0 .. Len(log)
    BY <1>6, <1>11, <1>13, LenProperties
  <2>2. SubSeq(w, 1, T) \in Seq(Frame) /\ SubSeq(log, 1, n) \in Seq(EntryFrame)
    BY <1>6, <2>1, Prefix
  <2>3. QED
    BY <2>2, EmptyFacts
<1>17. InUse(u, e, log2, T, na, app, hl2) /\ Trusted(u, log2, T, hl2, acked', gone')
  BY <1>14, <1>15, <1>16
<1>18. u = files'["main"]
  <2>1. files \in [{"main", "tmp"} -> Seq(Frame)] /\ m_file = "main"
    BY <1>1, Situation
  <2>2. files' = [files EXCEPT !["main"] =
                    SubSeq(Written(files["main"], m_at, m_buf, m_append), 1, TruncateAt(n))]
    BY <2>1 DEF PruneBack
  <2>3. TruncateAt(n) = T
    BY <1>3, <1>12 DEF TruncateAt
  <2>4. QED
    BY <1>3, <1>5, <1>16, <2>1, <2>2, <2>3
<1>19. /\ m_log' = log2 /\ m_base' = T /\ m_at' = na /\ m_buf' = e /\ hole' = hl2 /\ m_append' = app
  <2>1. m_at' = na
    BY <1>3, <1>8 DEF PruneBack, Advanced
  <2>2. m_log' = log2 /\ m_base' = T /\ m_buf' = e /\ m_append' = app
    BY <1>3, <1>12, <1>16 DEF PruneBack, TruncateAt
  <2>3. hole' = hl2
    BY <1>3, <1>16 DEF PruneBack
  <2>4. QED
    BY <2>1, <2>2, <2>3
<1>20. /\ log2 = m_log' /\ T = m_base' /\ na = m_at' /\ e = m_buf' /\ hl2 = hole' /\ app = m_append'
       /\ Using' /\ T \in Nat
  BY <1>1, <1>13, <1>19
<1>21. QED
  BY <1>17, <1>18, <1>20, UsingNext

\* No entry of the file lies behind the last one in memory: prune_back at the
\* last index leaves nothing in the file that it reports as removed.
LEMMA PruneBackAtEndEntries ==
  ASSUME NoAbortInv, EntryInv, PruneBackAtEnd
  PROVE  EntryInv'
<1>1. Using /\ Using' /\ UNCHANGED <<files, osvars, m_log, acked, hole>>
  BY DEF PruneBackAtEnd, Using
<1>2. PICK f \in Seq(Frame), b \in Seq(Frame), log \in Seq(EntryFrame), base \in Nat, at \in Nat,
           app \in BOOLEAN, hl \in BOOLEAN : Now(f, b, log, base, at, app, hl)
  BY <1>1, Situation
<1>3. f = files["main"] /\ b = m_buf /\ log = m_log /\ base = m_base /\ at = m_at /\ app = m_append /\ hl = hole
  BY <1>2 DEF Now
<1>4. InUse(f, b, log, base, at, app, hl) /\ Trusted(f, log, base, hl, acked, gone) /\ Consecutive(log)
  BY <1>2 DEF Now, InUse
<1>5. PICK w : w = Written(f, at, b, app)
  OBVIOUS
<1>6. w \in Seq(Frame) /\ Entries(w) = Entries(f) \cup Entries(b)
  BY <1>4, <1>5, FlushAll
<1>7. Entries(f) \subseteq Entries(log) /\ Entries(b) \subseteq Entries(log)
  BY <1>4, InUseSound
<1>8. EntryKeys(w) \subseteq EntryKeys(log)
  <2>1. log \in Seq(Frame)
    BY LogFrames
  <2>2. Entries(w) \subseteq Entries(log)
    BY <1>6, <1>7
  <2>3. QED
    BY <1>6, <2>1, <2>2, KeysIn
<1>9. log # <<>> /\ Len(log) \in Nat /\ Len(log) \in 1 .. Len(log)
  <2>1. log # <<>>
    BY <1>3 DEF PruneBackAtEnd
  <2>2. Len(log) \in Nat /\ Len(log) # 0
    BY <2>1, EmptySeq, LenProperties
  <2>3. QED
    BY <2>1, <2>2
<1>10. ASSUME NEW z \in EntryKeys(w) PROVE ~(z[1] > log[Len(log)].index)
  <2>1. PICK k \in 1 .. Len(log) : Key(log[k]) = z
    BY <1>8, KeysOfLog
  <2>2. PICK m \in 1 .. Len(log) : m = Len(log)
    BY <1>9
  <2>3. log[k].index \in Nat /\ log[m].index \in Nat
    BY LogFrames
  <2>4. ~(m < k)
    BY <1>9, <2>2
  <2>5. ~(log[m].index < log[k].index) /\ Key(log[k])[1] = log[k].index
    BY <1>4, <2>4, KeyApart
  <2>6. QED
    BY <2>1, <2>2, <2>3, <2>5
<1>11. gone' = gone
  <2>1. Image = w
    BY <1>3, <1>5 DEF Image
  <2>2. gone' = gone \cup {z \in EntryKeys(w) : z[1] > log[Len(log)].index}
    BY <1>3, <2>1 DEF PruneBackAtEnd
  <2>3. QED
    BY <1>10, <2>2
<1>12. /\ f = files'["main"] /\ b = m_buf' /\ log = m_log' /\ base = m_base' /\ at = m_at'
       /\ app = m_append' /\ hl = hole' /\ acked' = acked
  BY <1>1, <1>3 DEF osvars
<1>13. QED
  BY <1>1, <1>4, <1>11, <1>12, UsingNext

\* What prune_front leaves in memory.
LEMMA Suffix ==
  ASSUME NEW log \in Seq(EntryFrame), NEW n \in 1 .. Len(log), NEW log2, log2 = SubSeq(log, n, Len(log))
  PROVE  /\ log2 \in Seq(EntryFrame) /\ Len(log2) = Len(log) - n + 1
         /\ \A k \in 1 .. Len(log2) : log2[k] = log[n + k - 1]
<1>1. Len(log) \in Nat /\ DOMAIN log = 1 .. Len(log)
  BY LenProperties
<1>2. log2 = [k \in 1 .. (Len(log) - n + 1) |-> log[n + k - 1]]
  BY <1>1
<1>3. QED
  BY <1>1, <1>2

\* The entries left are consecutive, and all that is left of the old ones.
LEMMA FrontTrusted ==
  ASSUME NEW log \in Seq(EntryFrame), NEW n \in 1 .. Len(log), Consecutive(log),
         NEW log2, log2 = SubSeq(log, n, Len(log)), NEW ak, NEW base, AckedIn(ak, log, base)
  PROVE  /\ log2 \in Seq(EntryFrame) /\ Consecutive(log2) /\ EntryKeys(log2) \subseteq EntryKeys(log)
         /\ ak \ {Key(log[k]) : k \in 1 .. (n - 1)} \subseteq EntryKeys(log2)
<1>1. /\ log2 \in Seq(EntryFrame) /\ Len(log2) = Len(log) - n + 1
      /\ \A k \in 1 .. Len(log2) : log2[k] = log[n + k - 1]
  BY Suffix
<1>2. Len(log) \in Nat /\ n \in Nat /\ 1 \in 1 .. Len(log)
  BY LenProperties
<1>3. \A k \in 1 .. Len(log2) : n + k - 1 \in 1 .. Len(log)
  BY <1>1, <1>2
<1>4. PICK i \in Nat : i = log[1].index
  BY <1>2, LogFrames
<1>5. \A k \in 1 .. Len(log2) : log2[k].index = i + (n + k - 1) - 1
  BY <1>1, <1>3, <1>4 DEF Consecutive
<1>6. Consecutive(log2)
  <2>1. 1 \in 1 .. Len(log2)
    BY <1>1, <1>2
  <2>2. log2[1].index = i + (n + 1 - 1) - 1
    BY <1>5, <2>1
  <2>3. QED
    BY <1>2, <1>5, <2>2 DEF Consecutive
<1>7. ASSUME NEW x \in EntryKeys(log2) PROVE x \in EntryKeys(log)
  <2>1. PICK k \in 1 .. Len(log2) : Key(log2[k]) = x
    BY <1>1, KeysOfLog
  <2>2. PICK j \in 1 .. Len(log) : j = n + k - 1
    BY <1>3
  <2>3. Key(log[j]) = x
    BY <1>1, <2>1, <2>2
  <2>4. QED
    BY <2>3, KeysOfLog
<1>8. ASSUME NEW x \in ak, x \notin {Key(log[k]) : k \in 1 .. (n - 1)} PROVE x \in EntryKeys(log2)
  <2>1. PICK k \in 1 .. Len(log) : Key(log[k]) = x
    BY DEF AckedIn
  <2>2. k \notin 1 .. (n - 1)
    BY <1>8, <2>1
  <2>3. PICK j \in 1 .. Len(log2) : n + j - 1 = k
    <3>1. k - n + 1 \in 1 .. Len(log2) /\ n + (k - n + 1) - 1 = k
      BY <1>1, <1>2, <2>2
    <3>2. QED
      BY <3>1
  <2>4. Key(log2[j]) = x
    BY <1>1, <2>1, <2>3
  <2>5. QED
    BY <1>1, <2>4, KeysOfLog
<1>9. QED
  BY <1>1, <1>6, <1>7, <1>8

\* prune_front pops, writes the buffer out and starts the temporary file.
LEMMA PruneFrontEntries ==
  ASSUME NoAbortInv, EntryInv, NEW n \in DOMAIN m_log, PruneFront(n)
  PROVE  EntryInv'
<1>1. Using /\ TypeOK /\ pc' = "copy" /\ rpos' = 0 /\ m_buf' = <<>> /\ UNCHANGED <<gone, hole>>
  BY DEF PruneFront, Using, NoAbortInv
<1>2. PICK f \in Seq(Frame), b \in Seq(Frame), log \in Seq(EntryFrame), base \in Nat, at \in Nat,
           app \in BOOLEAN, hl \in BOOLEAN : Now(f, b, log, base, at, app, hl)
  BY <1>1, Situation
<1>3. f = files["main"] /\ b = m_buf /\ log = m_log /\ base = m_base /\ at = m_at /\ app = m_append /\ hl = hole
  BY <1>2 DEF Now
<1>4. InUse(f, b, log, base, at, app, hl) /\ Trusted(f, log, base, hl, acked, gone) /\ Consecutive(log)
  BY <1>2 DEF Now, InUse
<1>5. PICK w : w = Written(f, at, b, app)
  OBVIOUS
<1>6. w \in Seq(Frame) /\ InUse(w, <<>>, log, base + Len(b), IF app THEN at ELSE at + Len(b), app, hl)
  BY <1>4, <1>5, FlushAll
<1>7. Trusted(w, log, base + Len(b), hl, acked, gone)
  BY <1>4, <1>5, FlushTrusted
<1>8. PICK nb \in Nat, na \in Nat, e \in Seq(Frame) :
        nb = base + Len(b) /\ na = (IF app THEN at ELSE at + Len(b)) /\ e = <<>>
  <2>1. Len(b) \in Nat /\ <<>> \in Seq(Frame)
    BY LenProperties
  <2>2. base + Len(b) \in Nat /\ (IF app THEN at ELSE at + Len(b)) \in Nat
    BY <2>1
  <2>3. QED
    BY <2>1, <2>2
<1>9. InUse(w, e, log, nb, na, app, hl) /\ Trusted(w, log, nb, hl, acked, gone)
  BY <1>6, <1>7, <1>8
<1>10. Sound(w, hl) /\ Entries(w) \subseteq Entries(log)
  BY <1>6, <1>9, InUseSound
<1>11. EntryKeys(w) \subseteq EntryKeys(log)
  <2>1. log \in Seq(Frame)
    BY LogFrames
  <2>2. QED
    BY <1>6, <1>10, <2>1, KeysIn
<1>12. n \in 1 .. Len(log)
  BY <1>3, LenProperties
<1>13. PICK log2 : log2 = SubSeq(log, n, Len(log))
  OBVIOUS
<1>14. m_log' = log2 /\ acked' = acked \ {Key(log[k]) : k \in 1 .. (n - 1)}
  BY <1>3, <1>13 DEF PruneFront
<1>15. files'["main"] = w /\ files'["tmp"] = <<>>
  <2>1. files \in [{"main", "tmp"} -> Seq(Frame)]
    BY <1>1, Situation
  <2>2. files' = [files EXCEPT !["main"] = Written(files["main"], m_at, m_buf, m_append), !["tmp"] = <<>>]
    BY DEF PruneFront
  <2>3. QED
    BY <1>3, <1>5, <2>1, <2>2
<1>16. /\ log2 \in Seq(EntryFrame) /\ Consecutive(log2) /\ EntryKeys(log2) \subseteq EntryKeys(log)
       /\ acked' \subseteq EntryKeys(log2)
  <2>1. AckedIn(acked, log, base)
    BY <1>4 DEF Trusted
  <2>2. /\ log2 \in Seq(EntryFrame) /\ Consecutive(log2) /\ EntryKeys(log2) \subseteq EntryKeys(log)
        /\ acked \ {Key(log[k]) : k \in 1 .. (n - 1)} \subseteq EntryKeys(log2)
    BY <1>4, <1>12, <1>13, <2>1, FrontTrusted
  <2>3. QED
    BY <1>14, <2>2
<1>17. InPlace'
  <2>1. CopyOf(log2, <<>> \o <<>>, 0)
    BY EmptyFacts DEF CopyOf
  <2>2. QED
    BY <1>1, <1>3, <1>10, <1>14, <1>15, <1>16, <2>1 DEF InPlace, Using
<1>18. Kept'
  <2>1. acked' \subseteq acked
    BY <1>14
  <2>2. ~hl \/ ~HasTorn(w) => acked' \subseteq EntryKeys(w)
    BY <1>9, <2>1 DEF Trusted
  <2>3. QED
    BY <1>1, <1>3, <1>14, <1>15, <1>16, <2>2 DEF Kept, Using
<1>19. Removed'
  <2>1. gone \cap EntryKeys(log) = {}
    BY <1>4 DEF Trusted
  <2>2. gone \cap EntryKeys(w) = {} /\ gone \cap EntryKeys(log2) = {}
    BY <1>11, <1>16, <2>1
  <2>3. QED
    BY <1>1, <1>14, <1>15, <2>2 DEF Removed
<1>20. QED
  BY <1>17, <1>18, <1>19 DEF EntryInv

\* The entry x behind the r-th gets the position r.
Moved(log, r, x, log2) ==
  x = [log[r + 1] EXCEPT !.pos = r] /\ log2 = [log EXCEPT ![r + 1] = x]

\* One entry more is copied, with its new position.
LEMMA CopyOne ==
  ASSUME NEW log \in Seq(EntryFrame), NEW f \in Seq(Frame), NEW r \in Nat, r < Len(log), CopyOf(log, f, r),
         Consecutive(log), NEW x, NEW log2, Moved(log, r, x, log2)
  PROVE  /\ log2 \in Seq(EntryFrame) /\ x \in Frame /\ CopyOf(log2, Append(f, x), r + 1)
         /\ Consecutive(log2) /\ EntryKeys(log2) = EntryKeys(log)
<1>0. x = [log[r + 1] EXCEPT !.pos = r] /\ log2 = [log EXCEPT ![r + 1] = x]
  BY DEF Moved
<1>1. Len(log) \in Nat /\ DOMAIN log = 1 .. Len(log) /\ r + 1 \in 1 .. Len(log) /\ log[r + 1] \in EntryFrame
  BY LogFrames
<1>2. x \in EntryFrame /\ x \in Frame /\ x.index = log[r + 1].index /\ Key(x) = Key(log[r + 1])
  BY <1>0, <1>1 DEF EntryFrame, Frame, Key
<1>3. log2 \in Seq(EntryFrame) /\ Len(log2) = Len(log)
  BY <1>0, <1>1, <1>2, ExceptSeq
<1>4. log2[r + 1] = x /\ \A k \in 1 .. Len(log) : k # r + 1 => log2[k] = log[k]
  BY <1>0, <1>1
<1>5. \A k \in 1 .. Len(log) : log2[k].index = log[k].index /\ Key(log2[k]) = Key(log[k])
  BY <1>2, <1>4
<1>6. Consecutive(log2)
  BY <1>1, <1>3, <1>5 DEF Consecutive
<1>7. EntryKeys(log2) = EntryKeys(log)
  <2>1. \A z : z \in EntryKeys(log2) <=> \E k \in 1 .. Len(log2) : Key(log2[k]) = z
    BY <1>3, KeysOfLog
  <2>2. \A z : z \in EntryKeys(log) <=> \E k \in 1 .. Len(log) : Key(log[k]) = z
    BY KeysOfLog
  <2>3. ASSUME NEW z \in EntryKeys(log2) PROVE z \in EntryKeys(log)
    <3>1. PICK k \in 1 .. Len(log2) : Key(log2[k]) = z
      BY <2>1
    <3>2. k \in 1 .. Len(log) /\ Key(log[k]) = z
      BY <1>3, <1>5, <3>1
    <3>3. QED
      BY <2>2, <3>2
  <2>4. ASSUME NEW z \in EntryKeys(log) PROVE z \in EntryKeys(log2)
    <3>1. PICK k \in 1 .. Len(log) : Key(log[k]) = z
      BY <2>2
    <3>2. k \in 1 .. Len(log2) /\ Key(log2[k]) = z
      BY <1>3, <1>5, <3>1
    <3>3. QED
      BY <2>1, <3>2
  <2>5. QED
    BY <2>3, <2>4
<1>8. CopyOf(log2, Append(f, x), r + 1)
  <2>1. PICK g \in Seq(Frame) : g = Append(f, x)
    BY <1>2, AppendOne
  <2>2. /\ Len(f) = r /\ Len(g) = r + 1 /\ g[r + 1] = x /\ \A k \in 1 .. r : g[k] = f[k] /\ f[k] = log[k]
    BY <1>2, <2>1, AppendOne DEF CopyOf
  <2>3. ASSUME NEW i \in 1 .. (r + 1) PROVE g[i] = log2[i]
    <3>1. i = r + 1 \/ (i \in 1 .. r /\ i \in 1 .. Len(log) /\ i # r + 1)
      BY <1>1
    <3>2. QED
      BY <1>4, <2>2, <3>1
  <2>4. QED
    BY <2>1, <2>2, <2>3 DEF CopyOf
<1>9. QED
  BY <1>2, <1>3, <1>6, <1>7, <1>8

\* The loop of prune_front copies an entry; a full buffer is written first.
LEMMA CopyEntryEntries ==
  ASSUME NoAbortInv, EntryInv, CopyEntry
  PROVE  EntryInv'
<1>1. TypeOK /\ StreamInPhase /\ pc = "copy" /\ pc' = "copy" /\ rpos' = rpos + 1 /\ rpos < Len(m_log)
      /\ UNCHANGED <<acked, gone, hole>>
  BY DEF CopyEntry, NoAbortInv, histvars
<1>2. PICK f \in Seq(Frame), t \in Seq(Frame), b \in Seq(Frame), log \in Seq(EntryFrame), r \in Nat :
        f = files["main"] /\ t = files["tmp"] /\ b = m_buf /\ log = m_log /\ r = rpos
  BY <1>1 DEF TypeOK
<1>3. /\ Sound(f, hole) /\ Consecutive(log) /\ CopyOf(log, t \o b, r)
      /\ t \o b \in Seq(Frame) /\ Len(t \o b) = Len(t) + Len(b)
  BY <1>1, <1>2, Concat DEF EntryInv, InPlace
<1>4. m_base = Len(t) /\ m_at = Len(t) /\ Position = r
  <2>1. m_base = Len(t) /\ m_at = Len(t)
    BY <1>1, <1>2 DEF StreamInPhase
  <2>2. QED
    BY <1>2, <1>3, <2>1 DEF Position, CopyOf
<1>5. PICK x : x = [log[r + 1] EXCEPT !.pos = r]
  OBVIOUS
<1>6. PICK log2 : log2 = [log EXCEPT ![r + 1] = x] /\ Moved(log, r, x, log2)
  BY <1>5 DEF Moved
<1>7. /\ log2 \in Seq(EntryFrame) /\ x \in Frame /\ CopyOf(log2, Append(t \o b, x), r + 1)
      /\ Consecutive(log2) /\ EntryKeys(log2) = EntryKeys(log)
  <2>1. Moved(log, r, x, log2) /\ r < Len(log)
    BY <1>1, <1>2, <1>6
  <2>2. QED
    BY <1>3, <2>1, CopyOne
<1>8. /\ m_log' = log2
      /\ \/ m_buf' = Append(b, x) /\ files' = files
         \/ files' = [files EXCEPT !["tmp"] = Written(t, Len(t), b, FALSE)] /\ m_buf' = <<x>>
  BY <1>2, <1>4, <1>5, <1>6, Zenon DEF CopyEntry
<1>9. files'["main"] = f /\ files'["tmp"] \o m_buf' = Append(t \o b, x)
  <2>1. CASE m_buf' = Append(b, x) /\ files' = files
    <3>1. t \o Append(b, x) = Append(t \o b, x)
      BY <1>7, ConcatAppend
    <3>2. QED
      BY <1>2, <2>1, <3>1
  <2>2. CASE files' = [files EXCEPT !["tmp"] = Written(t, Len(t), b, FALSE)] /\ m_buf' = <<x>>
    <3>1. files \in [{"main", "tmp"} -> Seq(Frame)]
      BY <1>1 DEF TypeOK
    <3>2. files'["main"] = f /\ files'["tmp"] = Written(t, Len(t), b, FALSE)
      BY <1>2, <2>2, <3>1
    <3>3. Written(t, Len(t), b, FALSE) = t \o b
      BY WrittenAtEnd
    <3>4. (t \o b) \o <<x>> = Append(t \o b, x)
      BY <1>3, <1>7, ConcatOne
    <3>5. QED
      BY <2>2, <3>2, <3>3, <3>4
  <2>3. QED
    BY <1>8, <2>1, <2>2
<1>10. InPlace'
  <2>1. CopyOf(log2, files'["tmp"] \o m_buf', rpos')
    BY <1>1, <1>2, <1>7, <1>9
  <2>2. Sound(files'["main"], hole') /\ Consecutive(log2)
    BY <1>1, <1>3, <1>7, <1>9
  <2>3. QED
    BY <1>1, <1>8, <2>1, <2>2 DEF InPlace, Using
<1>11. Kept'
  BY <1>1, <1>2, <1>7, <1>8, <1>9 DEF EntryInv, Kept, Using
<1>12. Removed'
  BY <1>1, <1>2, <1>7, <1>8, <1>9 DEF EntryInv, Removed
<1>13. QED
  BY <1>10, <1>11, <1>12 DEF EntryInv

\* write_frame( m_state ) completes the temporary file.
LEMMA CopyStateEntries ==
  ASSUME NoAbortInv, EntryInv, CopyState
  PROVE  EntryInv'
<1>1. TypeOK /\ StreamInPhase /\ pc = "copy" /\ pc' = "rename" /\ rpos = Len(m_log)
      /\ UNCHANGED <<acked, gone, hole, m_log>>
  BY DEF CopyState, NoAbortInv, histvars
<1>2. PICK f \in Seq(Frame), t \in Seq(Frame), b \in Seq(Frame), log \in Seq(EntryFrame), r \in Nat :
        f = files["main"] /\ t = files["tmp"] /\ b = m_buf /\ log = m_log /\ r = rpos
  BY <1>1 DEF TypeOK
<1>3. /\ Sound(f, hole) /\ Consecutive(log) /\ CopyOf(log, t \o b, r)
      /\ t \o b \in Seq(Frame)
  BY <1>1, <1>2, Concat DEF EntryInv, InPlace
<1>4. PICK x \in Frame : x = StateFrameAt(m_term, m_vote, Position) /\ x.type = "state"
  <2>1. m_term \in Terms /\ m_vote \in Votes
    BY <1>1 DEF TypeOK
  <2>2. StateFrameAt(m_term, m_vote, Position) \in Frame
    BY <1>1, <2>1, FrameAtType
  <2>3. StateFrameAt(m_term, m_vote, Position).type = "state"
    BY DEF StateFrameAt
  <2>4. QED
    BY <2>2, <2>3
<1>5. PICK c \in Seq(Frame) : c = Append(b, x)
  BY AppendOne
<1>6. files'["main"] = f /\ files'["tmp"] = Append(t \o b, x)
  <2>1. m_at = Len(t)
    BY <1>1, <1>2 DEF StreamInPhase
  <2>2. files' = [files EXCEPT !["tmp"] = Written(t, Len(t), c, FALSE)]
    BY <1>2, <1>4, <1>5, <2>1 DEF CopyState
  <2>3. files'["main"] = f /\ files'["tmp"] = Written(t, Len(t), c, FALSE)
    BY <1>1, <1>2, <2>2 DEF TypeOK
  <2>4. Written(t, Len(t), c, FALSE) = t \o c
    BY WrittenAtEnd
  <2>5. t \o c = Append(t \o b, x)
    BY <1>5, ConcatAppend
  <2>6. QED
    BY <2>3, <2>4, <2>5
<1>7. Rewritten(log, Append(t \o b, x))
  <2>1. PICK v \in Seq(Frame), u \in Seq(Frame) : v = t \o b /\ u = Append(v, x)
    BY <1>3, AppendOne
  <2>2. Len(v) = Len(log) /\ \A i \in 1 .. Len(log) : v[i] = log[i]
    BY <1>1, <1>2, <1>3, <2>1 DEF CopyOf
  <2>3. Len(u) = Len(v) + 1 /\ u[Len(v) + 1] = x /\ \A i \in 1 .. Len(v) : u[i] = v[i]
    BY <2>1, AppendOne
  <2>4. Rewritten(log, u)
    BY <1>4, <2>2, <2>3 DEF Rewritten
  <2>5. QED
    BY <2>1, <2>4
<1>8. InPlace'
  BY <1>1, <1>2, <1>3, <1>6, <1>7 DEF InPlace, Using
<1>9. Kept'
  BY <1>1, <1>2, <1>6 DEF EntryInv, Kept, Using
<1>10. Removed'
  BY <1>1, <1>2, <1>6 DEF EntryInv, Removed
<1>11. QED
  BY <1>8, <1>9, <1>10 DEF EntryInv

\* A rewritten file holds the entries in memory, one behind the other.
LEMMA RewrittenFacts ==
  ASSUME NEW log \in Seq(EntryFrame), NEW t \in Seq(Frame), Rewritten(log, t), PositionsFrom(t, 0),
         Consecutive(log)
  PROVE  /\ Sound(t, FALSE) /\ Exact(t) /\ Entries(t) = Entries(log) /\ EntryKeys(t) = EntryKeys(log)
         /\ Placed(log, t)
<1>1. Len(log) \in Nat /\ Len(t) = Len(log) + 1 /\ t[Len(log) + 1].type = "state"
      /\ DOMAIN t = 1 .. Len(t)
  BY LenProperties DEF Rewritten
<1>2. \A i \in 1 .. Len(log) : t[i] = log[i] /\ log[i].type = "entry" /\ log[i].index \in Nat
  BY LogFrames DEF Rewritten
<1>3. \A i \in 1 .. Len(t) : i \in 1 .. Len(log) \/ i = Len(log) + 1
  BY <1>1
<1>4. \A i \in 1 .. Len(t) : t[i] # Torn
  BY <1>1, <1>2, <1>3 DEF Torn
<1>5. ASSUME NEW i \in 1 .. Len(t) PROVE t[i].pos = i - 1
  <2>1. \A j \in 1 .. i : j \in 1 .. Len(t)
    BY <1>1
  <2>2. t[i].pos = 0 + i - 1
    BY <1>1, <1>4, <2>1 DEF PositionsFrom
  <2>3. QED
    BY <2>2
<1>6. Exact(t) /\ Behind(t)
  BY <1>1, <1>5 DEF Exact, Behind
<1>7. Adjacent(t)
  <2> SUFFICES ASSUME NEW i \in 1 .. Len(t), NEW j \in 1 .. Len(t), i < j,
                      t[i].type = "entry", t[j].type = "entry",
                      \A m \in (i + 1) .. (j - 1) : t[m].type # "entry"
               PROVE  t[j].index = t[i].index + 1
    BY DEF Adjacent
  <2>1. i \in 1 .. Len(log) /\ j \in 1 .. Len(log)
    BY <1>1, <1>3
  <2>2. i + 1 \in (i + 1) .. (j - 1) => i + 1 \in 1 .. Len(log)
    BY <1>1, <2>1
  <2>3. i + 1 \notin (i + 1) .. (j - 1)
    BY <1>2, <2>2
  <2>4. j = i + 1
    BY <2>3
  <2>5. PICK a \in Nat : a = log[1].index
    BY <1>1, <1>2, <2>1
  <2>6. log[i].index = a + i - 1 /\ log[j].index = a + j - 1
    BY <2>1, <2>5 DEF Consecutive
  <2>7. QED
    BY <1>2, <2>1, <2>4, <2>6
<1>8. ASSUME NEW z \in Entries(t) PROVE z \in Entries(log)
  <2>1. PICK j \in 1 .. Len(t) : t[j] = z /\ t[j].type = "entry"
    BY EntriesOf
  <2>2. j \in 1 .. Len(log)
    BY <1>1, <1>3, <2>1
  <2>3. QED
    BY <1>2, <2>1, <2>2, LogFrames
<1>9. ASSUME NEW z \in Entries(log) PROVE z \in Entries(t)
  <2>1. PICK j \in 1 .. Len(log) : log[j] = z
    BY LogFrames
  <2>2. j \in 1 .. Len(t) /\ t[j] = z /\ t[j].type = "entry"
    BY <1>1, <1>2, <2>1
  <2>3. QED
    BY <2>2, EntriesOf
<1>10. Entries(t) = Entries(log)
  BY <1>8, <1>9
<1>11. EntryKeys(t) = EntryKeys(log)
  <2>1. log \in Seq(Frame)
    BY LogFrames
  <2>2. QED
    BY <1>10, <2>1, EntriesOf
<1>12. Placed(log, t)
  <2>1. ASSUME NEW k \in 1 .. Len(log) PROVE t[log[k].pos + 1] = log[k]
    <3>1. k \in 1 .. Len(t) /\ t[k] = log[k]
      BY <1>1, <1>2
    <3>2. log[k].pos = k - 1
      BY <1>5, <3>1
    <3>3. log[k].pos + 1 = k
      BY <3>2
    <3>4. QED
      BY <3>1, <3>3
  <2>2. QED
    BY <2>1 DEF Placed
<1>13. Sound(t, FALSE)
  BY <1>6, <1>7 DEF Sound
<1>14. QED
  BY <1>6, <1>10, <1>11, <1>12, <1>13

\* The rename makes the temporary file the main one.
LEMMA RenameEntries ==
  ASSUME NoAbortInv, EntryInv, Rename
  PROVE  EntryInv'
<1>1. TypeOK /\ Positions /\ pc = "rename" /\ pc' = "reopen" /\ hole' = FALSE /\ UNCHANGED <<acked, m_log>>
  BY DEF Rename, NoAbortInv
<1>2. PICK f \in Seq(Frame), t \in Seq(Frame), log \in Seq(EntryFrame) :
        f = files["main"] /\ t = files["tmp"] /\ log = m_log
  BY <1>1 DEF TypeOK
<1>3. Rewritten(log, t) /\ Consecutive(log) /\ PositionsFrom(t, 0)
  BY <1>1, <1>2 DEF EntryInv, InPlace, Positions
<1>4. Sound(t, FALSE) /\ EntryKeys(t) = EntryKeys(log)
  BY <1>3, RewrittenFacts
<1>5. files'["main"] = t
  BY <1>1, <1>2 DEF Rename, TypeOK
<1>6. InPlace'
  BY <1>1, <1>2, <1>3, <1>4, <1>5 DEF InPlace, Using
<1>7. Kept'
  <2>1. acked \subseteq EntryKeys(log)
    BY <1>1, <1>2 DEF EntryInv, Kept
  <2>2. QED
    BY <1>1, <1>2, <1>4, <1>5, <2>1 DEF Kept, Using
<1>8. Removed'
  <2>1. gone \cap EntryKeys(log) = {}
    BY <1>1, <1>2 DEF EntryInv, Removed
  <2>2. gone' = gone \cup (EntryKeys(f) \ EntryKeys(t))
    BY <1>2 DEF Rename
  <2>3. gone' \cap EntryKeys(t) = {} /\ gone' \cap EntryKeys(log) = {}
    BY <1>4, <2>1, <2>2
  <2>4. QED
    BY <1>1, <1>2, <1>5, <2>3 DEF Removed
<1>9. QED
  BY <1>6, <1>7, <1>8 DEF EntryInv

\* The renamed file is opened for appending.
LEMMA ReopenEntries ==
  ASSUME NoAbortInv, EntryInv, Reopen
  PROVE  EntryInv'
<1>1. TypeOK /\ Positions /\ StreamInPhase /\ LogBelow /\ pc = "reopen" /\ pc' = "ready"
      /\ UNCHANGED <<files, m_buf, m_log, acked, gone, hole>>
  BY DEF Reopen, NoAbortInv, histvars
<1>2. PICK t \in Seq(Frame), log \in Seq(EntryFrame), hl \in BOOLEAN, n \in Nat, app \in BOOLEAN, e \in Seq(Frame) :
        t = files["main"] /\ log = m_log /\ hl = hole /\ n = Len(t) /\ app = TRUE /\ e = <<>>
  BY <1>1, LenProperties, EmptyFacts DEF TypeOK
<1>3. Rewritten(log, t) /\ Consecutive(log) /\ PositionsFrom(t, 0) /\ Sound(t, hl)
  BY <1>1, <1>2 DEF EntryInv, InPlace, Positions
<1>4. Exact(t) /\ Entries(t) = Entries(log) /\ EntryKeys(t) = EntryKeys(log) /\ Placed(log, t)
  BY <1>3, RewrittenFacts
<1>5. InUse(t, e, log, n, n, app, hl)
  <2>1. t \o e = t /\ n <= Len(t)
    BY <1>2, ConcatEmptySeq
  <2>2. QED
    BY <1>2, <1>3, <1>4, <2>1 DEF InUse, Sound
<1>6. Trusted(t, log, n, hl, acked, gone)
  <2>1. acked \subseteq EntryKeys(log) /\ gone \cap EntryKeys(log) = {}
    BY <1>1, <1>2 DEF EntryInv, Kept, Removed
  <2>2. \A k \in 1 .. Len(log) : log[k].pos < n
    BY <1>1, <1>2, LogFrames DEF LogBelow
  <2>3. AckedIn(acked, log, n)
    BY <2>1, <2>2, KeysOfLog DEF AckedIn
  <2>4. QED
    BY <1>4, <2>1, <2>3 DEF Trusted
<1>7. /\ t = files'["main"] /\ e = m_buf' /\ log = m_log' /\ n = m_base' /\ n = m_at' /\ app = m_append'
      /\ hl = hole' /\ acked' = acked /\ gone' = gone /\ Using'
  BY <1>1, <1>2 DEF Reopen, StreamInPhase, Using
<1>8. QED
  BY <1>5, <1>6, <1>7, UsingNext

\* Every action keeps it, for a caller that gives the log up when prune_back fails.
LEMMA EntryStep ==
  ASSUME ~RetryPrune, NoAbortInv, NoAbort', EntryInv, [Next]_vars
  PROVE  EntryInv'
<1>1. TypeOK
  BY DEF NoAbortInv
<1>2. CASE \E t \in Terms, v \in Votes : Initialize(t, v)
  BY <1>2, InitializeEntries
<1>3. CASE Restart
  BY <1>3, RestartEntries
<1>4. CASE RecoverFrame
  BY <1>4, RecoverFrameEntries
<1>5. CASE RecoverFails
  <2>1. Drop /\ UNCHANGED <<files, gone, hole>> /\ acked' \subseteq acked
    BY <1>5 DEF RecoverFails, histvars
  <2>2. QED
    BY <1>1, <2>1, DropSame
<1>6. CASE RecoverDone
  BY <1>6, RecoverDoneEntries
<1>7. CASE StartWrite
  BY <1>7, StartWriteEntries
<1>8. CASE StartWriteFails
  <2>1. Drop /\ UNCHANGED <<files, gone, hole>> /\ acked' \subseteq acked
    BY <1>8 DEF StartWriteFails, histvars
  <2>2. QED
    BY <1>1, <2>1, DropSame
<1>9. CASE \E d \in Payloads : AppendEntry(d)
  BY <1>9, AppendEntries
<1>10. CASE \E t \in Terms, v \in Votes : UpdateReplicantState(t, v)
  BY <1>10, UpdateEntries
<1>11. CASE \E n \in DOMAIN m_log : PruneBack(n)
  BY <1>11, PruneBackEntries
<1>12. CASE \E n \in DOMAIN m_log : PruneBackFails(n)
  <2>1. PICK n \in DOMAIN m_log : PruneBackFails(n)
    BY <1>12
  <2>2. Drop /\ UNCHANGED <<files, gone, hole>> /\ acked' \subseteq acked
    BY <2>1 DEF PruneBackFails
  <2>3. QED
    BY <1>1, <2>2, DropSame
<1>13. CASE PruneBackAtEnd
  BY <1>13, PruneBackAtEndEntries
<1>14. CASE \E n \in DOMAIN m_log : PruneFront(n)
  BY <1>14, PruneFrontEntries
<1>15. CASE CopyEntry
  BY <1>15, CopyEntryEntries
<1>16. CASE CopyState
  BY <1>16, CopyStateEntries
<1>17. CASE Rename
  BY <1>17, RenameEntries
<1>18. CASE Reopen
  BY <1>18, ReopenEntries
<1>19. CASE PruneFrontFails
  <2>1. Drop /\ UNCHANGED <<files, gone, hole>> /\ acked' \subseteq acked
    BY <1>19 DEF PruneFrontFails, histvars
  <2>2. QED
    BY <1>1, <2>1, DropSame
<1>20. CASE \E i \in Indices : PruneFrontInvalid(i)
  BY <1>20, PruneFrontInvalidEntries
<1>21. CASE Close
  BY <1>21, CloseEntries
<1>22. CASE CloseFails
  <2>1. Drop /\ UNCHANGED <<files, gone, hole>> /\ acked' \subseteq acked
    BY <1>22 DEF CloseFails, histvars
  <2>2. QED
    BY <1>1, <2>1, DropSame
<1>23. CASE Crash
  <2>1. Drop /\ UNCHANGED <<files, gone, hole>> /\ acked' \subseteq acked
    BY <1>23 DEF Crash, histvars
  <2>2. QED
    BY <1>1, <2>1, DropSame
<1>24. CASE \E k \in 0 .. Len(m_buf) : CrashInWrite(k)
  BY <1>24, CrashInWriteEntries
<1>25. CASE UNCHANGED vars
  <2>1. UNCHANGED <<files, m_buf, m_log, m_base, m_at, m_append, pc, rpos, acked, gone, hole>>
    BY <1>25 DEF vars, osvars, histvars
  <2>2. QED
    BY <2>1 DEF EntryInv, InPlace, Kept, Removed, Using
<1>26. QED
  BY <1>2, <1>3, <1>4, <1>5, <1>6, <1>7, <1>8, <1>9, <1>10, <1>11, <1>12, <1>13, <1>14,
     <1>15, <1>16, <1>17, <1>18, <1>19, <1>20, <1>21, <1>22, <1>23, <1>24, <1>25 DEF Next

\* Through every call, failed write and crash the entries keep their places in
\* file, buffer and memory, as long as the log is given up after a prune_back
\* that failed (otherwise memory is pruned and the file is not).
THEOREM EntryInvariance ==
  ASSUME ~RetryPrune
  PROVE  Spec => [](NoAbortInv /\ EntryInv)
<1>1. Spec => []NoAbortInv
  BY Invariance
<1>2. Init => EntryInv
  BY EntryInit
<1>3. NoAbortInv /\ NoAbortInv' /\ EntryInv /\ [Next]_vars => EntryInv'
  <2>1. NoAbortInv' => NoAbort'
    BY DEF NoAbortInv
  <2>2. QED
    BY <2>1, EntryStep
<1>4. QED
  BY <1>1, <1>2, <1>3, PTL DEF Spec

\* An entry whose append reported success and that nobody pruned is in the main
\* file at every moment, unless prune_back left the descriptor behind the end.
THEOREM AcknowledgedIsOnDisk ==
  ASSUME ~RetryPrune
  PROVE  Spec => []AckedOnDisk
<1>1. NoAbortInv /\ EntryInv => AckedOnDisk
  BY DEF EntryInv, Kept, AckedOnDisk
<1>2. QED
  BY <1>1, EntryInvariance, PTL

\* Nor does a log in use miss one in memory: recover loses none silently.
THEOREM AcknowledgedIsInMemory ==
  ASSUME ~RetryPrune
  PROVE  Spec => []AckedInMemory
<1>1. NoAbortInv /\ EntryInv => AckedInMemory
  <2> SUFFICES ASSUME NoAbortInv, EntryInv, pc = "ready", NEW x \in acked
               PROVE  x \in EntryKeys(m_log)
    BY DEF AckedInMemory
  <2>1. AckedIn(acked, m_log, m_base) /\ m_log \in Seq(EntryFrame)
    BY DEF EntryInv, Kept, Using, NoAbortInv, TypeOK
  <2>2. QED
    BY <2>1, KeysOfLog DEF AckedIn
<1>2. QED
  BY <1>1, EntryInvariance, PTL

\* log::integrity_check would succeed in every phase: the indices in memory are
\* consecutive.
THEOREM IndicesAreConsecutive ==
  ASSUME ~RetryPrune
  PROVE  Spec => []IntegrityCheck
<1>1. NoAbortInv /\ EntryInv => IntegrityCheck
  <2> SUFFICES ASSUME NoAbortInv, EntryInv PROVE IntegrityCheck
    OBVIOUS
  <2>1. Consecutive(m_log) /\ m_log \in Seq(EntryFrame)
    BY DEF EntryInv, InPlace, NoAbortInv, TypeOK
  <2>2. DOMAIN m_log = 1 .. Len(m_log)
    BY <2>1, LenProperties
  <2>3. QED
    BY <2>1, <2>2 DEF Consecutive, IntegrityCheck
<1>2. QED
  BY <1>1, EntryInvariance, PTL

\* What a finished prune_back or prune_front removed stays out of the file.
THEOREM PrunedStaysAway ==
  ASSUME ~RetryPrune
  PROVE  Spec => []NoResurrection
<1>1. NoAbortInv /\ EntryInv => NoResurrection
  BY DEF EntryInv, Removed, NoResurrection
<1>2. QED
  BY <1>1, EntryInvariance, PTL

\* The deque and the file, with what is buffered, hold the same entries in the
\* same order, each at the position it stores, unless a write left a fragment.
THEOREM MemoryMatchesFile ==
  ASSUME ~RetryPrune
  PROVE  Spec => []LogMatchesFile
<1>1. NoAbortInv /\ EntryInv => LogMatchesFile
  <2> SUFFICES ASSUME NoAbortInv, EntryInv, pc = "ready", \A k \in DOMAIN Image : Image[k] # Torn
               PROVE  /\ \A k \in DOMAIN m_log :
                           m_log[k].pos + 1 \in DOMAIN Image /\ Image[m_log[k].pos + 1] = m_log[k]
                      /\ \A j, k \in DOMAIN m_log : j < k => m_log[j].pos < m_log[k].pos
                      /\ \A j \in DOMAIN Image :
                           Image[j].type = "entry" => \E k \in DOMAIN m_log : m_log[k] = Image[j]
    BY DEF LogMatchesFile
  <2>1. Using
    BY DEF Using
  <2>2. PICK f \in Seq(Frame), b \in Seq(Frame), log \in Seq(EntryFrame), base \in Nat, at \in Nat,
             app \in BOOLEAN, hl \in BOOLEAN : Now(f, b, log, base, at, app, hl)
    BY <2>1, Situation
  <2>3. log = m_log /\ InUse(f, b, log, base, at, app, hl) /\ Rising(log)
    BY <2>2 DEF Now
  <2>4. PICK w : w = Written(f, at, b, app) /\ w = Image
    BY <2>2 DEF Now, Image
  <2>5. w \in Seq(Frame) /\ InUse(w, <<>>, log, base + Len(b), IF app THEN at ELSE at + Len(b), app, hl)
    <3>1. InUse(f, b, log, base, at, app, hl) /\ w = Written(f, at, b, app)
      BY <2>3, <2>4
    <3>2. QED
      BY <3>1, FlushAll
  <2>6. /\ base + Len(b) <= Len(w) /\ Entries(w) \subseteq Entries(log) /\ Placed(log, w)
        /\ Len(w) \in Nat /\ DOMAIN w = 1 .. Len(w) /\ DOMAIN log = 1 .. Len(log) /\ Len(b) \in Nat
    <3>1. w \o <<>> = w
      BY <2>5, ConcatEmptySeq
    <3>2. base + Len(b) <= Len(w) /\ Entries(w) \subseteq Entries(log) /\ Placed(log, w)
      BY <2>5, <3>1 DEF InUse
    <3>3. QED
      BY <2>5, <3>2, LenProperties
  <2>7. ASSUME NEW k \in 1 .. Len(log) PROVE log[k].pos + 1 \in 1 .. Len(w) /\ w[log[k].pos + 1] = log[k]
    <3>1. log[k].pos \in Nat /\ log[k].pos < base + Len(b)
      BY <2>2, LogFrames DEF Now
    <3>2. PICK q \in 1 .. Len(w) : q = log[k].pos + 1
      BY <2>6, <3>1
    <3>3. \A m \in 1 .. q : m \in 1 .. Len(w)
      BY <2>6
    <3>4. Readable(w, q)
      BY <2>4, <2>6, <3>3 DEF Readable
    <3>5. QED
      BY <2>6, <3>2, <3>4 DEF Placed
  <2>8. ASSUME NEW j \in 1 .. Len(w), w[j].type = "entry" PROVE \E k \in 1 .. Len(log) : log[k] = w[j]
    <3>1. w[j] \in Entries(w)
      BY <2>5, <2>8, EntriesOf
    <3>2. w[j] \in Entries(log)
      BY <2>6, <3>1
    <3>3. QED
      BY <3>2, LogFrames
  <2>9. \A j, k \in 1 .. Len(log) : j < k => log[j].pos < log[k].pos
    BY <2>3 DEF Rising
  <2>10. m_log = log /\ Image = w /\ DOMAIN w = 1 .. Len(w) /\ DOMAIN log = 1 .. Len(log)
    BY <2>3, <2>4, <2>6
  <2>11. QED
    BY <2>7, <2>8, <2>9, <2>10
<1>2. QED
  BY <1>1, EntryInvariance, PTL

-----------------------------------------------------------------------------
(* The term and the vote that a restart comes back with.                   *)

\* The term and the vote of a state frame.
Pair(f) == <<f.term, f.vote>>

\* The state frame that recover reads last of f has its term and vote in P; a
\* file without one leaves those of a fresh log.
LastIn(f, P) ==
  /\ \A k \in 1 .. Len(f) :
       f[k].type = "state" /\ (\A j \in (k + 1) .. Len(f) : f[j].type # "state") => Pair(f[k]) \in P
  /\ (\A k \in 1 .. Len(f) : f[k].type # "state") => <<1, 0>> \in P

\* Every state frame of g has its term and vote in P.
StatesIn(g, P) == \A k \in 1 .. Len(g) : g[k].type = "state" => Pair(g[k]) \in P

\* x is what recover has come to after reading f.
LastIs(f, x) ==
  \/ \E k \in 1 .. Len(f) : /\ f[k].type = "state" /\ Pair(f[k]) = x
                            /\ \A j \in (k + 1) .. Len(f) : f[j].type # "state"
  \/ (\A k \in 1 .. Len(f) : f[k].type # "state") /\ x = <<1, 0>>

\* What a write does to it.
LEMMA LastWritten ==
  ASSUME NEW f \in Seq(Frame), NEW g \in Seq(Frame), NEW n \in Nat, NEW w, Laid(w, f, n, g)
  PROVE  /\ \A P : LastIn(f, P) /\ StatesIn(g, P) => LastIn(w, P)
         /\ \A P : g # <<>> /\ g[Len(g)].type = "state" /\ Pair(g[Len(g)]) \in P => LastIn(w, P)
<1>1. Len(f) \in Nat /\ Len(g) \in Nat /\ w \in Seq(Frame) /\ Len(w) = Len(f) + n + Len(g)
  BY LenProperties DEF Laid
<1>2. /\ \A k \in 1 .. Len(f) : w[k] = f[k]
      /\ \A k \in 1 .. n : w[Len(f) + k] = Torn
      /\ \A k \in 1 .. Len(g) : w[Len(f) + n + k] = g[k]
  BY DEF Laid
<1>3. ASSUME NEW P, LastIn(f, P), StatesIn(g, P) PROVE LastIn(w, P)
  <2>1. ASSUME NEW k \in 1 .. Len(w), w[k].type = "state", \A j \in (k + 1) .. Len(w) : w[j].type # "state"
        PROVE  Pair(w[k]) \in P
    <3>1. CASE k <= Len(f)
      <4>1. k \in 1 .. Len(f) /\ \A j \in (k + 1) .. Len(f) : j \in 1 .. Len(f) /\ j \in (k + 1) .. Len(w)
        BY <1>1, <3>1
      <4>2. f[k].type = "state" /\ \A j \in (k + 1) .. Len(f) : f[j].type # "state"
        BY <1>2, <2>1, <4>1
      <4>3. QED
        BY <1>2, <1>3, <4>1, <4>2 DEF LastIn
    <3>2. CASE k > Len(f) /\ k <= Len(f) + n
      <4>1. PICK i \in 1 .. n : k = Len(f) + i
        <5>1. k - Len(f) \in 1 .. n /\ k = Len(f) + (k - Len(f))
          BY <1>1, <3>2
        <5>2. QED
          BY <5>1
      <4>2. w[k] = Torn
        BY <1>2, <4>1
      <4>3. QED
        BY <2>1, <4>2 DEF Torn
    <3>3. CASE k > Len(f) + n
      <4>1. PICK i \in 1 .. Len(g) : k = Len(f) + n + i
        <5>1. k - (Len(f) + n) \in 1 .. Len(g) /\ k = Len(f) + n + (k - (Len(f) + n))
          BY <1>1, <3>3
        <5>2. QED
          BY <5>1
      <4>2. w[k] = g[i]
        BY <1>2, <4>1
      <4>3. QED
        BY <1>3, <2>1, <4>2 DEF StatesIn
    <3>4. QED
      BY <1>1, <3>1, <3>2, <3>3
  <2>2. ASSUME \A k \in 1 .. Len(w) : w[k].type # "state" PROVE <<1, 0>> \in P
    <3>1. \A k \in 1 .. Len(f) : k \in 1 .. Len(w)
      BY <1>1
    <3>2. \A k \in 1 .. Len(f) : f[k].type # "state"
      BY <1>2, <2>2, <3>1
    <3>3. QED
      BY <1>3, <3>2 DEF LastIn
  <2>3. QED
    BY <2>1, <2>2 DEF LastIn
<1>4. ASSUME NEW P, g # <<>>, g[Len(g)].type = "state", Pair(g[Len(g)]) \in P PROVE LastIn(w, P)
  <2>1. Len(g) \in 1 .. Len(g)
    BY <1>1, <1>4, EmptySeq
  <2>2. PICK m \in 1 .. Len(w) : m = Len(w) /\ w[m] = g[Len(g)]
    BY <1>1, <1>2, <2>1
  <2>3. ASSUME NEW k \in 1 .. Len(w), \A j \in (k + 1) .. Len(w) : w[j].type # "state"
        PROVE  k = m
    <3>1. k # m => m \in (k + 1) .. Len(w)
      BY <1>1, <2>2
    <3>2. QED
      BY <1>4, <2>2, <2>3, <3>1
  <2>4. w[m].type = "state"
    BY <1>4, <2>2
  <2>5. QED
    BY <1>4, <2>2, <2>3, <2>4 DEF LastIn
<1>5. QED
  BY <1>3, <1>4

\* A cut that drops no state frame leaves the last one.
LEMMA LastCut ==
  ASSUME NEW w \in Seq(Frame), NEW T \in 0 .. Len(w), \A k \in (T + 1) .. Len(w) : w[k].type # "state",
         NEW P, LastIn(w, P)
  PROVE  LastIn(SubSeq(w, 1, T), P)
<1>1. PICK u \in Seq(Frame) : u = SubSeq(w, 1, T)
  BY Prefix
<1>2. Len(w) \in Nat /\ T \in Nat /\ Len(u) = T /\ \A k \in 1 .. T : u[k] = w[k] /\ k \in 1 .. Len(w)
  BY <1>1, Prefix, LenProperties
<1>3. ASSUME NEW k \in 1 .. Len(u), u[k].type = "state", \A j \in (k + 1) .. Len(u) : u[j].type # "state"
      PROVE  Pair(u[k]) \in P
  <2>1. k \in 1 .. T /\ k \in 1 .. Len(w) /\ w[k] = u[k]
    BY <1>2
  <2>2. ASSUME NEW j \in (k + 1) .. Len(w) PROVE w[j].type # "state"
    <3>1. j \in (T + 1) .. Len(w) \/ (j \in (k + 1) .. Len(u) /\ j \in 1 .. T)
      BY <1>2
    <3>2. QED
      BY <1>2, <1>3, <3>1
  <2>3. QED
    BY <1>3, <2>1, <2>2 DEF LastIn
<1>4. ASSUME \A k \in 1 .. Len(u) : u[k].type # "state" PROVE <<1, 0>> \in P
  <2>1. ASSUME NEW k \in 1 .. Len(w) PROVE w[k].type # "state"
    <3>1. k \in (T + 1) .. Len(w) \/ k \in 1 .. T
      BY <1>2
    <3>2. QED
      BY <1>2, <1>4, <3>1
  <2>2. QED
    BY <2>1 DEF LastIn
<1>5. LastIn(u, P)
  BY <1>3, <1>4 DEF LastIn
<1>6. QED
  BY <1>1, <1>5

\* recover reads one frame more.
LEMMA LastRecovered ==
  ASSUME NEW f \in Seq(Frame), NEW r \in Nat, r < Len(f), NEW x, LastIs(SubSeq(f, 1, r), x)
  PROVE  /\ f[r + 1].type = "state" => LastIs(SubSeq(f, 1, r + 1), Pair(f[r + 1]))
         /\ f[r + 1].type # "state" => LastIs(SubSeq(f, 1, r + 1), x)
<1>1. Len(f) \in Nat /\ r \in 0 .. Len(f) /\ r + 1 \in 0 .. Len(f)
  BY LenProperties
<1>2. PICK u \in Seq(Frame), v \in Seq(Frame) : u = SubSeq(f, 1, r + 1) /\ v = SubSeq(f, 1, r)
  BY <1>1, Prefix
<1>3. /\ Len(u) = r + 1 /\ Len(v) = r /\ (\A k \in 1 .. (r + 1) : u[k] = f[k])
      /\ (\A k \in 1 .. r : v[k] = f[k])
  BY <1>1, <1>2, Prefix
<1>4. r + 1 \in 1 .. (r + 1) /\ (\A k \in 1 .. (r + 1) : k \in 1 .. r \/ k = r + 1)
      /\ \A k \in 1 .. r : k \in 1 .. (r + 1)
  OBVIOUS
<1>5. ASSUME f[r + 1].type = "state" PROVE LastIs(u, Pair(f[r + 1]))
  <2>1. \A j \in (r + 1 + 1) .. (r + 1) : u[j].type # "state"
    OBVIOUS
  <2>2. u[r + 1] = f[r + 1]
    BY <1>3, <1>4
  <2>3. QED
    BY <1>3, <1>4, <1>5, <2>1, <2>2 DEF LastIs
<1>6. ASSUME f[r + 1].type # "state" PROVE LastIs(u, x)
  <2>1. LastIs(v, x)
    BY <1>2
  <2>2. CASE (\A k \in 1 .. Len(v) : v[k].type # "state") /\ x = <<1, 0>>
    <3>1. \A k \in 1 .. Len(u) : u[k].type # "state"
      BY <1>3, <1>4, <1>6, <2>2
    <3>2. QED
      BY <2>2, <3>1 DEF LastIs
  <2>3. ASSUME NEW k \in 1 .. Len(v), v[k].type = "state" /\ Pair(v[k]) = x,
               \A j \in (k + 1) .. Len(v) : v[j].type # "state"
        PROVE  LastIs(u, x)
    <3>1. k \in 1 .. r /\ k \in 1 .. Len(u) /\ u[k] = v[k]
      BY <1>3, <1>4
    <3>2. ASSUME NEW j \in (k + 1) .. Len(u) PROVE u[j].type # "state"
      <4>1. (j \in (k + 1) .. Len(v) /\ j \in 1 .. r /\ j \in 1 .. (r + 1)) \/ j = r + 1
        BY <1>3, <3>1
      <4>2. QED
        BY <1>3, <1>4, <1>6, <2>3, <4>1
    <3>3. QED
      BY <2>3, <3>1, <3>2 DEF LastIs
  <2>4. QED
    BY <2>1, <2>2, <2>3 DEF LastIs
<1>7. QED
  BY <1>2, <1>5, <1>6

\* What recover has come to at the end of the file is what the file promises.
LEMMA LastAgrees ==
  ASSUME NEW f \in Seq(Frame), NEW P, LastIn(f, P), NEW x, LastIs(f, x)
  PROVE  x \in P
BY DEF LastIn, LastIs

\* What the main file, the buffer and memory say of the term and the vote. A
\* state that is not dirty is the last one written, so that
\* update_replicant_state may report success without writing.
StateInv ==
  /\ ~cut => LastIn(files["main"], maybe)
  /\ Using => StatesIn(m_buf, maybe)
  /\ pc = "ready" /\ ~m_dirty =>
       NoState(m_buf) /\ (~cut => LastIn(files["main"], {<<m_term, m_vote>>}))
  /\ pc = "recover" => LastIs(SubSeq(files["main"], 1, rpos), <<m_term, m_vote>>)
  /\ pc = "start" /\ m_append /\ ~cut => <<m_term, m_vote>> \in maybe
  /\ pc = "rename" => LastIn(files["tmp"], {<<m_term, m_vote>>})
  /\ pc = "reopen" => LastIn(files["main"], {<<m_term, m_vote>>})

\* A write of g to the main file.
LEMMA WriteMain ==
  ASSUME NoAbortInv, Using, m_open, NEW g \in Seq(Frame),
         NEW w, w = Written(files["main"], m_at, g, m_append)
  PROVE  /\ w \in Seq(Frame)
         /\ \A P : LastIn(files["main"], P) /\ StatesIn(g, P) => LastIn(w, P)
         /\ \A P : g # <<>> /\ g[Len(g)].type = "state" /\ Pair(g[Len(g)]) \in P => LastIn(w, P)
<1>1. PICK f \in Seq(Frame), at \in Nat, app \in BOOLEAN :
        f = files["main"] /\ at = m_at /\ app = m_append /\ (app \/ Len(f) <= at)
  BY DEF NoAbortInv, TypeOK, StreamInPhase, Using
<1>2. w = Written(f, at, g, app)
  BY <1>1
<1>3. PICK n \in Nat : Laid(w, f, n, g)
  BY <1>1, <1>2, WrittenParts
<1>4. w \in Seq(Frame)
  BY <1>3 DEF Laid
<1>5. /\ \A P : LastIn(f, P) /\ StatesIn(g, P) => LastIn(w, P)
      /\ \A P : g # <<>> /\ g[Len(g)].type = "state" /\ Pair(g[Len(g)]) \in P => LastIn(w, P)
  BY <1>3, LastWritten
<1>6. QED
  BY <1>1, <1>4, <1>5

\* A state frame of the current term and vote.
LEMMA StateFramePair ==
  ASSUME TypeOK, NEW t \in Terms, NEW v \in Votes, NEW x, x = StateFrameAt(t, v, Position)
  PROVE  x \in Frame /\ x.type = "state" /\ Pair(x) = <<t, v>>
<1>1. x \in Frame
  BY FrameAtType
<1>2. QED
  BY <1>1 DEF StateFrameAt, Pair

\* The buffer and a state frame behind it are written.
LEMMA WriteState ==
  ASSUME NoAbortInv, Using, m_open, NEW t \in Terms, NEW v \in Votes,
         NEW w, w = Written(files["main"], m_at, Append(m_buf, StateFrameAt(t, v, Position)), m_append)
  PROVE  LastIn(w, {<<t, v>>})
<1>1. TypeOK /\ m_buf \in Seq(Frame)
  BY DEF NoAbortInv, TypeOK
<1>2. PICK x \in Frame : x = StateFrameAt(t, v, Position) /\ x.type = "state" /\ Pair(x) = <<t, v>>
  BY <1>1, StateFramePair
<1>3. PICK g \in Seq(Frame) : g = Append(m_buf, x)
  BY <1>1, AppendOne
<1>4. Len(g) = Len(m_buf) + 1 /\ g[Len(g)] = x /\ Len(m_buf) \in Nat
  BY <1>1, <1>3, AppendOne
<1>5. g # <<>>
  BY <1>4, EmptySeq
<1>6. w = Written(files["main"], m_at, g, m_append)
  BY <1>2, <1>3
<1>7. \A P : g # <<>> /\ g[Len(g)].type = "state" /\ Pair(g[Len(g)]) \in P => LastIn(w, P)
  BY <1>6, WriteMain
<1>8. QED
  BY <1>2, <1>4, <1>5, <1>7

\* The states in a buffer with one frame more.
LEMMA StatesAppend ==
  ASSUME NEW b \in Seq(Frame), NEW x \in Frame, NEW P, StatesIn(b, P)
  PROVE  /\ x.type # "state" => StatesIn(Append(b, x), P)
         /\ Pair(x) \in P => StatesIn(Append(b, x), P)
         /\ NoState(b) /\ x.type # "state" => NoState(Append(b, x))
<1>1. PICK g \in Seq(Frame) : g = Append(b, x)
  BY AppendOne
<1>2. /\ Len(g) = Len(b) + 1 /\ Len(b) \in Nat /\ g[Len(b) + 1] = x /\ DOMAIN b = 1 .. Len(b)
      /\ DOMAIN g = 1 .. Len(g) /\ \A k \in 1 .. Len(b) : g[k] = b[k]
  BY <1>1, AppendOne
<1>3. \A k \in 1 .. Len(g) : k \in 1 .. Len(b) \/ k = Len(b) + 1
  BY <1>2
<1>4. x.type # "state" \/ Pair(x) \in P => StatesIn(g, P)
  BY <1>2, <1>3 DEF StatesIn
<1>5. NoState(b) /\ x.type # "state" => NoState(g)
  BY <1>2, <1>3 DEF NoState
<1>6. QED
  BY <1>1, <1>4, <1>5

\* A buffer without a state frame.
LEMMA NoStateIn ==
  ASSUME NEW b \in Seq(Frame), NoState(b), NEW P
  PROVE  StatesIn(b, P)
BY LenProperties DEF NoState, StatesIn

\* A step that gives the object up.
LEMMA StateDropped ==
  ASSUME Drop, ~cut' => LastIn(files'["main"], maybe')
  PROVE  StateInv'
BY DEF Drop, StateInv, Using

\* A step after which the file ends with the state in memory, and nothing is
\* buffered.
LEMMA StateFresh ==
  ASSUME pc' = "ready", m_buf' = <<>>, maybe' = {<<m_term', m_vote'>>},
         LastIn(files'["main"], {<<m_term', m_vote'>>})
  PROVE  StateInv'
<1>1. StatesIn(<<>>, maybe') /\ NoState(<<>>)
  BY DEF StatesIn, NoState
<1>2. QED
  BY <1>1 DEF StateInv, Using

\* append: no state frame is added.
LEMMA AppendState ==
  ASSUME NoAbortInv, StateInv, NEW d \in Payloads, AppendEntry(d)
  PROVE  StateInv'
<1>1. TypeOK /\ m_buf \in Seq(Frame) /\ files \in [{"main", "tmp"} -> Seq(Frame)] /\ m_file = "main" /\ Using
      /\ pc = "ready"
  BY DEF NoAbortInv, TypeOK, AppendEntry, StreamInPhase, Using
<1>2. PICK x \in Frame : x = EntryFrameAt(NextIndex, d, Position) /\ x.type # "state"
  <2>1. NextIndex \in Indices
    BY DEF AppendEntry
  <2>2. EntryFrameAt(NextIndex, d, Position) \in Frame
    BY <1>1, <2>1, FrameAtType
  <2>3. EntryFrameAt(NextIndex, d, Position).type # "state"
    BY DEF EntryFrameAt
  <2>4. QED
    BY <2>2, <2>3
<1>3. /\ pc' = "ready" /\ UNCHANGED <<m_term, m_vote, m_dirty, maybe, cut>>
      /\ (m_open /\ FlushWith(<<x>>)) \/ KeepUnwritten(x)
  BY <1>1, <1>2, Zenon DEF AppendEntry, statevars
<1>4. StatesIn(m_buf, maybe)
  BY <1>1 DEF StateInv
<1>5. CASE m_open /\ FlushWith(<<x>>)
  <2>1. PICK g \in Seq(Frame) : g = Append(m_buf, x)
    BY <1>1, AppendOne
  <2>2. PICK w : w = Written(files["main"], m_at, g, m_append)
    OBVIOUS
  <2>3. files'["main"] = w /\ m_buf' = <<>>
    <3>1. m_buf \o <<x>> = g /\ <<x>> \in Seq(Frame)
      BY <1>1, <2>1, ConcatOne
    <3>2. QED
      BY <1>1, <1>5, <2>2, <3>1, FlushFacts
  <2>4. StatesIn(g, maybe) /\ (NoState(m_buf) => NoState(g))
    BY <1>1, <1>2, <1>4, <2>1, StatesAppend
  <2>5. \A P : LastIn(files["main"], P) /\ StatesIn(g, P) => LastIn(w, P)
    BY <1>1, <1>5, <2>2, WriteMain
  <2>6. ~cut => LastIn(w, maybe)
    BY <2>4, <2>5 DEF StateInv
  <2>7. ASSUME ~m_dirty, ~cut PROVE LastIn(w, {<<m_term, m_vote>>})
    <3>1. NoState(m_buf) /\ LastIn(files["main"], {<<m_term, m_vote>>})
      BY <1>1, <2>7 DEF StateInv
    <3>2. StatesIn(g, {<<m_term, m_vote>>})
      BY <2>4, <3>1, NoStateIn
    <3>3. QED
      BY <2>5, <3>1, <3>2
  <2>8. StatesIn(<<>>, maybe) /\ NoState(<<>>)
    BY DEF StatesIn, NoState
  <2>9. QED
    BY <1>3, <2>3, <2>6, <2>7, <2>8 DEF StateInv, Using
<1>6. CASE KeepUnwritten(x)
  <2>1. PICK y \in {x, Torn} : m_buf' = Append(m_buf, y) /\ files' = files
    BY <1>6 DEF KeepUnwritten
  <2>2. y \in Frame /\ y.type # "state"
    BY <1>2, <2>1 DEF Torn, Frame
  <2>3. StatesIn(m_buf', maybe) /\ (NoState(m_buf) => NoState(m_buf'))
    BY <1>1, <1>4, <2>1, <2>2, StatesAppend
  <2>4. QED
    BY <1>1, <1>3, <2>1, <2>3 DEF StateInv, Using
<1>7. QED
  BY <1>3, <1>5, <1>6

\* update_replicant_state.
LEMMA UpdateState ==
  ASSUME NoAbortInv, StateInv, NEW t \in Terms, NEW v \in Votes, UpdateReplicantState(t, v)
  PROVE  StateInv'
<1>1. TypeOK /\ m_buf \in Seq(Frame) /\ files \in [{"main", "tmp"} -> Seq(Frame)] /\ m_file = "main" /\ Using
      /\ pc = "ready"
  BY DEF NoAbortInv, TypeOK, UpdateReplicantState, StreamInPhase, Using
<1>2. PICK x \in Frame : x = StateFrameAt(t, v, Position) /\ x.type = "state" /\ Pair(x) = <<t, v>>
  BY <1>1, StateFramePair
<1>3. /\ pc' = "ready" /\ m_term' = t /\ m_vote' = v
      /\ \/ /\ ~Dirtied(t, v) /\ maybe' = {<<t, v>>} /\ UNCHANGED <<files, m_buf, m_dirty, cut>>
         \/ m_open /\ FlushWith(<<x>>) /\ maybe' = {<<t, v>>}
         \/ KeepUnwritten(x) /\ m_dirty' = TRUE /\ maybe' = maybe \cup {<<t, v>>} /\ UNCHANGED cut
  <2>1. /\ pc' = pc /\ m_term' = t /\ m_vote' = v
        /\ \/ /\ ~Dirtied(t, v) /\ maybe' = {<<t, v>>} /\ UNCHANGED <<files, osvars, m_dirty, cut>>
           \/ m_open /\ FlushWith(<<x>>) /\ maybe' = {<<t, v>>}
           \/ KeepUnwritten(x) /\ m_dirty' = TRUE /\ maybe' = maybe \cup {<<t, v>>} /\ UNCHANGED cut
    BY <1>2, Zenon DEF UpdateReplicantState
  <2>2. QED
    BY <1>1, <2>1 DEF osvars
<1>4. CASE ~Dirtied(t, v) /\ maybe' = {<<t, v>>} /\ UNCHANGED <<files, m_buf, m_dirty, cut>>
  <2>1. ~m_dirty /\ t = m_term /\ v = m_vote
    BY <1>4 DEF Dirtied
  <2>2. NoState(m_buf) /\ (~cut => LastIn(files["main"], {<<t, v>>}))
    BY <1>1, <2>1 DEF StateInv
  <2>3. StatesIn(m_buf, {<<t, v>>})
    BY <1>1, <2>2, NoStateIn
  <2>4. QED
    BY <1>3, <1>4, <2>2, <2>3 DEF StateInv, Using
<1>5. CASE m_open /\ FlushWith(<<x>>) /\ maybe' = {<<t, v>>}
  <2>1. PICK w : w = Written(files["main"], m_at, Append(m_buf, x), m_append)
    OBVIOUS
  <2>2. LastIn(w, {<<t, v>>})
    BY <1>1, <1>2, <1>5, <2>1, WriteState
  <2>3. files'["main"] = w /\ m_buf' = <<>>
    <3>1. m_buf \o <<x>> = Append(m_buf, x) /\ <<x>> \in Seq(Frame)
      BY <1>1, ConcatOne
    <3>2. QED
      BY <1>1, <1>5, <2>1, <3>1, FlushFacts
  <2>4. QED
    BY <1>3, <1>5, <2>2, <2>3, StateFresh
<1>6. CASE KeepUnwritten(x) /\ m_dirty' = TRUE /\ maybe' = maybe \cup {<<t, v>>} /\ UNCHANGED cut
  <2>1. PICK y \in {x, Torn} : m_buf' = Append(m_buf, y) /\ files' = files
    BY <1>6 DEF KeepUnwritten
  <2>2. y \in Frame /\ (y.type # "state" \/ Pair(y) \in maybe')
    BY <1>2, <1>6, <2>1 DEF Torn, Frame
  <2>3. StatesIn(m_buf, maybe') /\ (~cut => LastIn(files["main"], maybe'))
    BY <1>1, <1>6 DEF StateInv, StatesIn, LastIn
  <2>4. StatesIn(m_buf', maybe')
    BY <1>1, <2>1, <2>2, <2>3, StatesAppend
  <2>5. QED
    BY <1>3, <1>6, <2>1, <2>3, <2>4 DEF StateInv, Using
<1>7. QED
  BY <1>3, <1>4, <1>5, <1>6

\* restart and one turn of recover: what was read so far is what memory holds.
LEMMA RecoverState ==
  ASSUME NoAbortInv, StateInv, Restart \/ RecoverFrame \/ RecoverDone
  PROVE  StateInv'
<1>1. TypeOK /\ files \in [{"main", "tmp"} -> Seq(Frame)] /\ rpos \in Nat
  BY DEF NoAbortInv, TypeOK
<1>2. PICK f \in Seq(Frame), r \in Nat : f = files["main"] /\ r = rpos /\ Len(f) \in Nat
  BY <1>1, LenProperties
<1>3. CASE Restart
  <2>1. /\ files'["main"] = f /\ rpos' = 0 /\ m_term' = 1 /\ m_vote' = 0 /\ pc' \in {"recover", "down"}
        /\ UNCHANGED <<maybe, cut>>
    BY <1>1, <1>2, <1>3 DEF Restart, histvars
  <2>2. SubSeq(f, 1, 0) = <<>>
    BY <1>2, Prefix, EmptySeq
  <2>3. LastIs(<<>>, <<1, 0>>)
    BY DEF LastIs
  <2>4. LastIs(SubSeq(files'["main"], 1, rpos'), <<m_term', m_vote'>>)
    BY <2>1, <2>2, <2>3
  <2>5. QED
    BY <1>2, <2>1, <2>4 DEF StateInv, Using
<1>4. CASE RecoverFrame
  <2>1. /\ pc = "recover" /\ r < Len(f) /\ files' = files /\ UNCHANGED <<maybe, cut>>
        /\ \/ /\ f[r + 1].type = "state" /\ m_term' = f[r + 1].term /\ m_vote' = f[r + 1].vote
              /\ rpos' = r + 1 /\ pc' = "recover"
           \/ f[r + 1].type = "entry" /\ rpos' = r + 1 /\ pc' = "recover" /\ UNCHANGED <<m_term, m_vote>>
           \/ pc' = "abort"
    <3>1. /\ pc = "recover" /\ r < Len(f) /\ files' = files /\ UNCHANGED <<maybe, cut>>
          /\ \/ /\ f[r + 1].type = "state" /\ m_term' = f[r + 1].term /\ m_vote' = f[r + 1].vote
                /\ rpos' = r + 1 /\ pc' = pc
             \/ f[r + 1].type = "entry" /\ rpos' = r + 1 /\ pc' = pc /\ UNCHANGED <<m_term, m_vote>>
             \/ pc' = "abort"
      BY <1>2, <1>4, Zenon DEF RecoverFrame, histvars, statevars
    <3>2. QED
      BY <3>1
  <2>2. LastIs(SubSeq(f, 1, r), <<m_term, m_vote>>)
    BY <1>2, <2>1 DEF StateInv
  <2>3. /\ f[r + 1].type = "state" => LastIs(SubSeq(f, 1, r + 1), Pair(f[r + 1]))
        /\ f[r + 1].type # "state" => LastIs(SubSeq(f, 1, r + 1), <<m_term, m_vote>>)
    <3>1. PICK x : x = <<m_term, m_vote>>
      OBVIOUS
    <3>2. LastIs(SubSeq(f, 1, r), x)
      BY <2>2, <3>1
    <3>3. /\ f[r + 1].type = "state" => LastIs(SubSeq(f, 1, r + 1), Pair(f[r + 1]))
          /\ f[r + 1].type # "state" => LastIs(SubSeq(f, 1, r + 1), x)
      BY <2>1, <3>2, LastRecovered
    <3>4. QED
      BY <3>1, <3>3
  <2>4. pc' = "recover" => LastIs(SubSeq(f, 1, rpos'), <<m_term', m_vote'>>)
    BY <2>1, <2>3 DEF Pair
  <2>5. pc' \in {"recover", "abort"}
    BY <2>1
  <2>6. QED
    BY <1>2, <2>1, <2>4, <2>5 DEF StateInv, Using
<1>5. CASE RecoverDone
  <2>1. /\ pc = "recover" /\ r = Len(f) /\ files' = files /\ UNCHANGED <<m_term, m_vote, maybe, cut>>
        /\ pc' = "start" /\ m_buf' = <<>>
    BY <1>2, <1>5 DEF RecoverDone, histvars, statevars
  <2>2. SubSeq(f, 1, r) = f
    <3>1. PICK u \in Seq(Frame) : u = SubSeq(f, 1, r)
      BY <2>1, Prefix
    <3>2. Len(u) = Len(f) /\ \A k \in 1 .. Len(f) : u[k] = f[k]
      BY <1>2, <2>1, <3>1, Prefix
    <3>3. QED
      BY <3>1, <3>2, SeqEqual
  <2>3. PICK x, P : x = <<m_term, m_vote>> /\ P = maybe
    OBVIOUS
  <2>4. LastIs(f, x) /\ (~cut => LastIn(f, P))
    BY <1>2, <2>1, <2>2, <2>3 DEF StateInv
  <2>5. ~cut => x \in P
    BY <2>4, LastAgrees
  <2>6. StatesIn(<<>>, maybe)
    BY DEF StatesIn
  <2>7. QED
    BY <1>2, <2>1, <2>3, <2>4, <2>5, <2>6 DEF StateInv, Using
<1>6. QED
  BY <1>3, <1>4, <1>5

\* The steps that write the state in memory: the end of initialize and
\* restart, and close.
LEMMA WrittenState ==
  ASSUME NoAbortInv, StateInv, StartWrite \/ Close
  PROVE  StateInv'
<1>1. TypeOK /\ m_buf \in Seq(Frame) /\ files \in [{"main", "tmp"} -> Seq(Frame)] /\ m_file = "main" /\ Using /\ m_open
      /\ m_term \in Terms /\ m_vote \in Votes
  BY DEF NoAbortInv, TypeOK, StartWrite, Close, StreamInPhase, Using
<1>2. PICK x \in Frame : x = StateFrameAt(m_term, m_vote, Position) /\ x.type = "state"
  BY <1>1, StateFramePair
<1>3. PICK w : w = Written(files["main"], m_at, Append(m_buf, x), m_append)
  OBVIOUS
<1>4. LastIn(w, {<<m_term, m_vote>>})
  BY <1>1, <1>2, <1>3, WriteState
<1>5. CASE StartWrite
  <2>1. FlushWith(<<x>>) /\ pc' = "ready" /\ maybe' = {<<m_term, m_vote>>} /\ UNCHANGED <<m_term, m_vote>>
    BY <1>2, <1>5 DEF StartWrite, statevars
  <2>2. files'["main"] = w /\ m_buf' = <<>>
    <3>1. m_buf \o <<x>> = Append(m_buf, x) /\ <<x>> \in Seq(Frame)
      BY <1>1, ConcatOne
    <3>2. QED
      BY <1>1, <1>3, <2>1, <3>1, FlushFacts
  <2>3. QED
    BY <1>4, <2>1, <2>2, StateFresh
<1>6. CASE Close
  <2>1. files' = [files EXCEPT !["main"] = w] /\ Drop /\ maybe' = {<<m_term, m_vote>>}
    BY <1>2, <1>3, <1>6 DEF Close
  <2>2. files'["main"] = w
    BY <1>1, <2>1
  <2>3. LastIn(files'["main"], maybe')
    BY <1>4, <2>1, <2>2
  <2>4. QED
    BY <2>1, <2>3, StateDropped
<1>7. QED
  BY <1>5, <1>6

\* A write of the buffer, whole or a part of it with a fragment, leaves the
\* promise of the file.
LEMMA FlushState ==
  ASSUME NoAbortInv, StateInv, Using, m_open, NEW w, w = Written(files["main"], m_at, m_buf, m_append)
  PROVE  /\ w \in Seq(Frame) /\ (~cut => LastIn(w, maybe))
         /\ pc = "ready" /\ ~m_dirty /\ ~cut => LastIn(w, {<<m_term, m_vote>>})
<1>1. m_buf \in Seq(Frame) /\ StatesIn(m_buf, maybe) /\ (~cut => LastIn(files["main"], maybe))
  BY DEF NoAbortInv, TypeOK, StateInv
<1>2. w \in Seq(Frame) /\ \A P : LastIn(files["main"], P) /\ StatesIn(m_buf, P) => LastIn(w, P)
  BY <1>1, WriteMain
<1>3. ASSUME pc = "ready", ~m_dirty, ~cut PROVE LastIn(w, {<<m_term, m_vote>>})
  <2>1. NoState(m_buf) /\ LastIn(files["main"], {<<m_term, m_vote>>})
    BY <1>3 DEF StateInv
  <2>2. StatesIn(m_buf, {<<m_term, m_vote>>})
    BY <1>1, <2>1, NoStateIn
  <2>3. QED
    BY <1>2, <2>1, <2>2
<1>4. QED
  BY <1>1, <1>2, <1>3

\* prune_back drops state frames only when it sets cut.
LEMMA PruneBackState ==
  ASSUME NoAbortInv, StateInv, NEW n \in DOMAIN m_log, PruneBack(n)
  PROVE  StateInv'
<1>1. /\ TypeOK /\ files \in [{"main", "tmp"} -> Seq(Frame)] /\ m_file = "main" /\ Using /\ m_open
      /\ m_log \in Seq(EntryFrame) /\ m_buf \in Seq(Frame) /\ m_at \in Nat /\ m_append \in BOOLEAN
      /\ m_base \in Nat /\ pc = "ready"
  BY DEF NoAbortInv, TypeOK, PruneBack, StreamInPhase, Using
<1>2. PICK w : w = Written(files["main"], m_at, m_buf, m_append)
  OBVIOUS
<1>3. /\ w \in Seq(Frame) /\ (~cut => LastIn(w, maybe))
      /\ ~m_dirty /\ ~cut => LastIn(w, {<<m_term, m_vote>>})
  BY <1>1, <1>2, FlushState
<1>4. PICK T \in Nat : T = TruncateAt(n) /\ T <= Len(w)
  <2>1. n + 1 \in 1 .. Len(m_log)
    BY <1>1, LenProperties DEF PruneBack, PopsDownTo
  <2>2. m_log[n + 1].pos \in Nat
    BY <1>1, <2>1, LogFrames
  <2>3. m_log[n + 1].pos < Position
    BY <1>1, <2>1, LenProperties DEF NoAbortInv, LogBelow
  <2>4. Position <= Len(w) /\ Position \in Nat /\ Len(w) \in Nat
    <3>1. PICK f \in Seq(Frame), at \in Nat, app \in BOOLEAN :
            f = files["main"] /\ at = m_at /\ app = m_append /\ (app \/ Len(f) <= at) /\ m_base <= Len(f)
      BY <1>1 DEF NoAbortInv, StreamInPhase
    <3>2. PICK h \in Nat : Laid(w, f, h, m_buf)
      BY <1>1, <1>2, <3>1, WrittenParts
    <3>3. Len(w) = Len(f) + h + Len(m_buf) /\ Len(f) \in Nat /\ Len(m_buf) \in Nat
      BY <1>1, <3>2, LenProperties DEF Laid
    <3>4. QED
      BY <1>1, <3>1, <3>3 DEF Position
  <2>5. QED
    BY <2>2, <2>3, <2>4 DEF TruncateAt
<1>5. /\ files'["main"] = SubSeq(w, 1, T) /\ m_buf' = <<>> /\ pc' = "ready"
      /\ UNCHANGED <<m_term, m_vote, m_dirty, maybe>>
  <2>1. files' = [files EXCEPT !["main"] = SubSeq(w, 1, T)]
    BY <1>1, <1>2, <1>4 DEF PruneBack
  <2>2. QED
    BY <1>1, <2>1 DEF PruneBack, statevars
<1>6. ~cut' => ~cut /\ \A k \in (T + 1) .. Len(w) : w[k].type # "state"
  BY <1>2, <1>4 DEF PruneBack, Image
<1>7. T \in 0 .. Len(w)
  BY <1>3, <1>4, LenProperties
<1>8. ASSUME NEW P, ~cut', LastIn(w, P) PROVE LastIn(SubSeq(w, 1, T), P)
  BY <1>3, <1>6, <1>7, <1>8, LastCut
<1>9. StatesIn(<<>>, maybe) /\ NoState(<<>>)
  BY DEF StatesIn, NoState
<1>10. QED
  BY <1>3, <1>5, <1>6, <1>8, <1>9 DEF StateInv, Using

\* prune_front's copy ends with the state in memory.
LEMMA CopyStateState ==
  ASSUME NoAbortInv, StateInv, CopyState
  PROVE  StateInv'
<1>1. TypeOK /\ StreamInPhase /\ pc = "copy" /\ pc' = "rename"
      /\ UNCHANGED <<m_term, m_vote, maybe, cut>>
  BY DEF CopyState, NoAbortInv, histvars, statevars
<1>2. PICK f \in Seq(Frame), t \in Seq(Frame), b \in Seq(Frame) :
        f = files["main"] /\ t = files["tmp"] /\ b = m_buf
  BY <1>1 DEF TypeOK
<1>3. PICK x \in Frame : /\ x = StateFrameAt(m_term, m_vote, Position) /\ x.type = "state"
                         /\ Pair(x) = <<m_term, m_vote>>
  BY <1>1, StateFramePair DEF TypeOK
<1>4. PICK c \in Seq(Frame) : c = Append(b, x)
  BY AppendOne
<1>5. m_at = Len(t) /\ Len(t) \in Nat
  BY <1>1, <1>2, LenProperties DEF StreamInPhase
<1>6. PICK at \in Nat, app \in BOOLEAN : at = Len(t) /\ app = FALSE
  BY <1>5
<1>w. PICK w : w = Written(t, at, c, app)
  OBVIOUS
<1>7. files'["main"] = f /\ files'["tmp"] = w
  <2>1. files' = [files EXCEPT !["tmp"] = w]
    BY <1>2, <1>3, <1>4, <1>5, <1>6, <1>w DEF CopyState
  <2>2. QED
    BY <1>1, <1>2, <2>1 DEF TypeOK
<1>8. PICK n \in Nat : Laid(w, t, n, c)
  <2>1. app \/ Len(t) <= at
    BY <1>6
  <2>2. QED
    BY <1>6, <1>w, <2>1, WrittenParts
<1>9. LastIn(w, {<<m_term, m_vote>>})
  <2>1. c # <<>> /\ c[Len(c)] = x
    BY <1>4, AppendOne, EmptySeq
  <2>2. \A P : c # <<>> /\ c[Len(c)].type = "state" /\ Pair(c[Len(c)]) \in P => LastIn(w, P)
    BY <1>8, LastWritten
  <2>3. QED
    BY <1>3, <2>1, <2>2
<1>10. QED
  BY <1>1, <1>2, <1>7, <1>9 DEF StateInv, Using

\* The process dies in a write.
LEMMA CrashInWriteState ==
  ASSUME NoAbortInv, StateInv, NEW k \in 0 .. Len(m_buf), CrashInWrite(k)
  PROVE  StateInv'
<1>1. /\ files \in [{"main", "tmp"} -> Seq(Frame)] /\ m_file = "main" /\ Using /\ m_open
      /\ m_buf \in Seq(Frame) /\ Drop /\ UNCHANGED <<maybe, cut>>
  BY DEF NoAbortInv, TypeOK, CrashInWrite, StreamInPhase, Using, histvars
<1>2. Torn \in Frame /\ Torn.type # "state"
  BY DEF Torn, Frame
<1>3. PICK c \in Seq(Frame), g \in Seq(Frame) : c = SubSeq(m_buf, 1, k) /\ g = Append(c, Torn)
  BY <1>1, <1>2, Prefix, AppendOne
<1>4. PICK w : w = Written(files["main"], m_at, g, m_append)
  OBVIOUS
<1>5. files'["main"] = w
  BY <1>1, <1>3, <1>4 DEF CrashInWrite
<1>6. StatesIn(g, maybe)
  <2>1. StatesIn(m_buf, maybe)
    BY <1>1 DEF StateInv
  <2>2. Len(c) = k /\ \A i \in 1 .. k : c[i] = m_buf[i] /\ i \in 1 .. Len(m_buf)
    BY <1>1, <1>3, Prefix, LenProperties
  <2>3. StatesIn(c, maybe)
    BY <2>1, <2>2 DEF StatesIn
  <2>4. QED
    BY <1>2, <1>3, <2>3, StatesAppend
<1>7. ~cut => LastIn(w, maybe)
  <2>1. \A P : LastIn(files["main"], P) /\ StatesIn(g, P) => LastIn(w, P)
    BY <1>1, <1>4, WriteMain
  <2>2. QED
    BY <1>6, <2>1 DEF StateInv
<1>8. QED
  BY <1>1, <1>5, <1>7, StateDropped

\* initialize empties the file, whose promise is then that of a fresh log.
LEMMA InitializeState ==
  ASSUME NEW t \in Terms, NEW v \in Votes, Initialize(t, v)
  PROVE  StateInv'
<1>1. /\ files'["main"] = <<>> /\ m_buf' = <<>> /\ pc' = "start" /\ ~m_append'
      /\ <<1, 0>> \in maybe'
  BY DEF Initialize
<1>2. LastIn(<<>>, maybe')
  BY <1>1 DEF LastIn
<1>3. StatesIn(<<>>, maybe')
  BY DEF StatesIn
<1>4. QED
  BY <1>1, <1>2, <1>3 DEF StateInv, Using

\* A failure or a crash between two writes.
LEMMA GivenUpState ==
  ASSUME StateInv, RecoverFails \/ StartWriteFails \/ PruneFrontFails \/ CloseFails \/ Crash
  PROVE  StateInv'
<1>1. Drop /\ UNCHANGED <<files, maybe, cut>>
  BY DEF RecoverFails, StartWriteFails, PruneFrontFails, CloseFails, Crash, histvars
<1>2. ~cut' => LastIn(files'["main"], maybe')
  BY <1>1 DEF StateInv
<1>3. QED
  BY <1>1, <1>2, StateDropped

\* A step that leaves the files, the buffer and the state alone.
LEMMA StateKept ==
  ASSUME StateInv, UNCHANGED <<files, m_append, m_buf, statevars, pc, rpos, maybe, cut>>
  PROVE  StateInv'
BY DEF StateInv, Using, statevars

\* prune_back that fails in the flush, and at the end of the log.
LEMMA PruneBackIdleState ==
  ASSUME StateInv, PruneBackAtEnd \/ \E n \in DOMAIN m_log : PruneBackFails(n)
  PROVE  StateInv'
<1>1. CASE PruneBackAtEnd
  <2>1. UNCHANGED <<files, m_append, m_buf, statevars, pc, rpos, maybe, cut>>
    BY <1>1 DEF PruneBackAtEnd, osvars
  <2>2. QED
    BY <2>1, StateKept
<1>2. ASSUME NEW n \in DOMAIN m_log, PruneBackFails(n) PROVE StateInv'
  <2>1. CASE RetryPrune
    <3>1. UNCHANGED <<files, m_append, m_buf, statevars, pc, rpos, maybe, cut>>
      BY <1>2, <2>1 DEF PruneBackFails, osvars
    <3>2. QED
      BY <3>1, StateKept
  <2>2. CASE ~RetryPrune
    <3>1. Drop /\ UNCHANGED <<files, maybe, cut>>
      BY <1>2, <2>2 DEF PruneBackFails
    <3>2. ~cut' => LastIn(files'["main"], maybe')
      BY <3>1 DEF StateInv
    <3>3. QED
      BY <3>1, <3>2, StateDropped
  <2>3. QED
    BY <2>1, <2>2
<1>3. QED
  BY <1>1, <1>2

\* prune_front closes the main file, and copies the entries beside it.
LEMMA PruneFrontState ==
  ASSUME NoAbortInv, StateInv, CopyEntry \/ \E n \in DOMAIN m_log : PruneFront(n)
  PROVE  StateInv'
<1>1. files \in [{"main", "tmp"} -> Seq(Frame)]
  BY DEF NoAbortInv, TypeOK
<1>2. CASE CopyEntry
  <2>1. pc = "copy" /\ pc' = "copy" /\ files'["main"] = files["main"] /\ UNCHANGED <<maybe, cut>>
    BY <1>1, <1>2 DEF CopyEntry, histvars
  <2>2. QED
    BY <2>1 DEF StateInv, Using
<1>3. ASSUME NEW n \in DOMAIN m_log, PruneFront(n) PROVE StateInv'
  <2>1. PICK w : w = Written(files["main"], m_at, m_buf, m_append)
    OBVIOUS
  <2>2. pc' = "copy" /\ files'["main"] = w /\ UNCHANGED <<maybe, cut>>
    BY <1>1, <1>3, <2>1 DEF PruneFront
  <2>3. Using /\ m_open
    BY <1>3 DEF PruneFront, Using
  <2>4. ~cut => LastIn(w, maybe)
    BY <2>1, <2>3, FlushState
  <2>5. QED
    BY <2>2, <2>4 DEF StateInv, Using
<1>4. QED
  BY <1>2, <1>3

\* rename makes the copy the main file; reopen only opens it.
LEMMA RenameState ==
  ASSUME NoAbortInv, StateInv, Rename \/ Reopen
  PROVE  StateInv'
<1>1. files \in [{"main", "tmp"} -> Seq(Frame)] /\ m_buf \in Seq(Frame)
  BY DEF NoAbortInv, TypeOK
<1>2. CASE Rename
  <2>1. /\ pc = "rename" /\ pc' = "reopen" /\ files'["main"] = files["tmp"]
        /\ maybe' = {<<m_term, m_vote>>} /\ UNCHANGED <<m_term, m_vote>>
    BY <1>1, <1>2 DEF Rename, statevars
  <2>2. LastIn(files["tmp"], {<<m_term, m_vote>>})
    BY <2>1 DEF StateInv
  <2>3. QED
    BY <2>1, <2>2 DEF StateInv, Using
<1>3. CASE Reopen
  <2>1. /\ pc = "reopen" /\ pc' = "ready" /\ UNCHANGED <<files, m_buf, m_term, m_vote, maybe, cut>>
    BY <1>3 DEF Reopen, statevars, histvars
  <2>2. m_buf = <<>>
    BY <2>1 DEF NoAbortInv, StreamInPhase
  <2>3. StatesIn(<<>>, maybe) /\ NoState(<<>>)
    BY DEF StatesIn, NoState
  <2>4. QED
    BY <2>1, <2>2, <2>3 DEF StateInv, Using
<1>4. QED
  BY <1>2, <1>3

\* prune_front at an index outside the log writes the buffer and closes.
LEMMA PruneFrontInvalidState ==
  ASSUME NoAbortInv, StateInv, NEW i \in Indices, PruneFrontInvalid(i)
  PROVE  StateInv'
<1>1. files \in [{"main", "tmp"} -> Seq(Frame)] /\ m_file = "main" /\ Using /\ m_open /\ pc = "ready" /\ pc' = "ready"
  BY DEF NoAbortInv, TypeOK, StreamInPhase, PruneFrontInvalid, Using
<1>2. PICK w : w = Written(files["main"], m_at, m_buf, m_append)
  OBVIOUS
<1>3. files'["main"] = w /\ m_buf' = <<>> /\ UNCHANGED <<m_term, m_vote, m_dirty, maybe, cut>>
  BY <1>1, <1>2 DEF PruneFrontInvalid, FlushClose, statevars, histvars
<1>4. /\ ~cut => LastIn(w, maybe)
      /\ ~m_dirty /\ ~cut => LastIn(w, {<<m_term, m_vote>>})
  BY <1>1, <1>2, FlushState
<1>5. StatesIn(<<>>, maybe) /\ NoState(<<>>)
  BY DEF StatesIn, NoState
<1>6. QED
  BY <1>1, <1>3, <1>4, <1>5 DEF StateInv, Using

\* Every step keeps it, whether or not the log is used on after a prune_back
\* that failed.
LEMMA StateStep ==
  ASSUME NoAbortInv, StateInv, [Next]_vars
  PROVE  StateInv'
<1>1. ASSUME NEW t \in Terms, NEW v \in Votes, Initialize(t, v) PROVE StateInv'
  BY <1>1, InitializeState
<1>2. CASE Restart \/ RecoverFrame \/ RecoverDone
  BY <1>2, RecoverState
<1>3. CASE RecoverFails \/ StartWriteFails \/ PruneFrontFails \/ CloseFails \/ Crash
  BY <1>3, GivenUpState
<1>4. CASE StartWrite \/ Close
  BY <1>4, WrittenState
<1>5. ASSUME NEW d \in Payloads, AppendEntry(d) PROVE StateInv'
  BY <1>5, AppendState
<1>6. ASSUME NEW t \in Terms, NEW v \in Votes, UpdateReplicantState(t, v) PROVE StateInv'
  BY <1>6, UpdateState
<1>7. ASSUME NEW n \in DOMAIN m_log, PruneBack(n) PROVE StateInv'
  BY <1>7, PruneBackState
<1>8. CASE PruneBackAtEnd \/ \E n \in DOMAIN m_log : PruneBackFails(n)
  BY <1>8, PruneBackIdleState
<1>9. CASE CopyEntry \/ \E n \in DOMAIN m_log : PruneFront(n)
  BY <1>9, PruneFrontState
<1>10. CASE CopyState
  BY <1>10, CopyStateState
<1>11. CASE Rename \/ Reopen
  BY <1>11, RenameState
<1>12. ASSUME NEW i \in Indices, PruneFrontInvalid(i) PROVE StateInv'
  BY <1>12, PruneFrontInvalidState
<1>13. ASSUME NEW k \in 0 .. Len(m_buf), CrashInWrite(k) PROVE StateInv'
  BY <1>13, CrashInWriteState
<1>14. CASE UNCHANGED vars
  <2>1. UNCHANGED <<files, m_append, m_buf, statevars, pc, rpos, maybe, cut>>
    BY <1>14 DEF vars, osvars, histvars
  <2>2. QED
    BY <2>1, StateKept
<1>15. QED
  BY <1>1, <1>2, <1>3, <1>4, <1>5, <1>6, <1>7, <1>8, <1>9, <1>10, <1>11, <1>12, <1>13, <1>14 DEF Next

\* The file that was never written promises the state of a fresh log.
LEMMA StateInit ==
  ASSUME Init
  PROVE  StateInv
<1>1. /\ files["main"] = <<>> /\ pc = "down" /\ <<1, 0>> \in maybe
  BY DEF Init
<1>2. LastIn(<<>>, maybe)
  BY <1>1 DEF LastIn
<1>3. QED
  BY <1>1, <1>2 DEF StateInv, Using

\* The state in memory, in the buffer and in the file stay together through
\* every call, failure and crash.
THEOREM StateInvariance == Spec => [](NoAbortInv /\ StateInv)
<1>1. Init => StateInv
  BY StateInit
<1>2. NoAbortInv /\ StateInv /\ [Next]_vars => StateInv'
  BY StateStep
<1>3. Spec => []NoAbortInv
  BY Invariance
<1>4. QED
  BY <1>1, <1>2, <1>3, PTL DEF Spec

\* A restart comes back with a term and a vote that update_replicant_state
\* acknowledged or was writing when it failed, unless prune_back cut the state
\* frame off.
THEOREM RecoveredStateIsAcknowledged == Spec => []RecoveredStateUnlessCut
<1>1. StateInv => RecoveredStateUnlessCut
  BY DEF StateInv, RecoveredStateUnlessCut, RecoveredStateAcknowledged
<1>2. QED
  BY <1>1, StateInvariance, PTL
=============================================================================

------------------------- MODULE RtpPublisher_proof -------------------------
(***************************************************************************)
(* Theorems about RtpPublisher: type correctness, that a packet carries    *)
(* exactly the slice of the frame its header names, that no slice is left  *)
(* out, and the order in which the packets leave, from one inductive       *)
(* invariant that follows each encoder through a frame.                    *)
(***************************************************************************)
EXTENDS RtpPublisher, TLAPS, SequenceTheorems

-----------------------------------------------------------------------------
(* The inductive invariant.                                                *)

Busy(e) == pc[e] \in {"compress", "write"}
Cur(e)  == frames[e][curGranule[e]]

\* The header in the buffer is the current frame's, the buffer is empty
\* between frames, and a write() in progress stays inside the frame.
Placed(e) ==
  /\ curGranule[e] <= clock
  /\ ~Busy(e) => payload[e] = <<>>
  /\ pc[e] = "off" => curGranule[e] = 0
  /\ pc[e] = "write" => Cur(e).len + count[e] <= MaxLength
  /\ Busy(e) =>
       /\ curGranule[e] >= 1
       /\ header[e].granule = curGranule[e] - 1
       /\ header[e].ts = Cur(e).ts

\* Inside a frame, the buffer holds what of it is in no packet yet.
Buffered(e) ==
  Busy(e) =>
    /\ Cur(e).len = seq[e] * PayloadSize + Len(payload[e])
    /\ payload[e] = Slice(e, curGranule[e] - 1, seq[e])

\* The packets sent come before the one that is being filled ...
SentSoFar(e) ==
  \A p \in SentBy(e) :
    /\ p.granule < curGranule[e]
    /\ (Busy(e) /\ p.granule = curGranule[e] - 1) => p.seq < seq[e]

\* ... and none of the current frame's before it is missing.
NoneSkipped(e) ==
  Busy(e) =>
    \A s \in 0..(seq[e] - 1) :
      \E p \in SentBy(e) : p.granule = curGranule[e] - 1 /\ p.seq = s

\* FragmentsTile and FramesWhole for one encoder.
Tiles(e) ==
  \A p \in SentBy(e) :
    /\ p.data = Slice(e, p.granule, p.seq)
    /\ p.ts = frames[e][p.granule + 1].ts

Whole(e) ==
  \A g \in 0..(Len(frames[e]) - 1) :
    (g + 1 < curGranule[e] \/ pc[e] \in {"loop", "take", "done"}) =>
      \A s \in 0..MaxLength : (s * PayloadSize < frames[e][g + 1].len) =>
        \E p \in SentBy(e) : p.granule = g /\ p.seq = s

EncoderInv(e) ==
  /\ Placed(e)
  /\ Buffered(e)
  /\ SentSoFar(e)
  /\ NoneSkipped(e)
  /\ Tiles(e)
  /\ Whole(e)

\* The encoders initPreview() has not made yet have no thread.
Unstarted == \A e \in Encoders : e > current => pc[e] = "off"

IInv ==
  /\ TypeOK
  /\ clock <= MaxFrames
  /\ Unstarted
  /\ \A e \in Encoders : EncoderInv(e)

-----------------------------------------------------------------------------
(* Arithmetic of slices.                                                   *)

LEMMA Monotone ==
  ASSUME NEW a \in Nat, NEW b \in Nat, a <= b
  PROVE  a * PayloadSize <= b * PayloadSize
  <1> DEFINE k == b - a
  <1>1. k \in Nat /\ b = a + k
    OBVIOUS
  <1>2. b * PayloadSize = a * PayloadSize + k * PayloadSize
    BY <1>1, PublisherAssumption
  <1>3. k * PayloadSize >= 0
    BY <1>1, PublisherAssumption
  <1> QED
    BY <1>2, <1>3, <1>1, PublisherAssumption

LEMMA Successor ==
  ASSUME NEW a \in Nat
  PROVE  /\ (a + 1) * PayloadSize = a * PayloadSize + PayloadSize
         /\ a * PayloadSize \in Nat
  BY PublisherAssumption

-----------------------------------------------------------------------------
(* The initial state.                                                      *)

LEMMA InitInv == Init => IInv
  <1> SUFFICES ASSUME Init PROVE IInv
    OBVIOUS
  <1>1. \A e \in Encoders : ~Busy(e) /\ SentBy(e) = {}
    BY DEF Init, Busy, SentBy
  <1>2. TypeOK
    <2>1. payload \in [Encoders -> Seq(Bytes)]
      BY DEF Init
    <2>2. frames \in [Encoders -> Seq([len : 0..MaxLength, ts : Nat])]
      BY DEF Init
    <2>3. /\ current \in Encoders /\ clock \in Nat
          /\ recorder \in {"live", "closing", "unpublishing", "gone"}
          /\ wire \subseteq Packets /\ dropped \subseteq Packets
      BY PublisherAssumption DEF Init, Encoders
    <2>6. canPublish \in BOOLEAN /\ released \in [Encoders -> BOOLEAN]
      BY Zenon DEF Init
    <2>4. /\ pc \in [Encoders -> {"off", "loop", "take", "compress", "write", "done"}]
          /\ curGranule \in [Encoders -> 0..MaxFrames]
          /\ header \in [Encoders -> [granule : Nat, ts : Nat]]
          /\ seq \in [Encoders -> Nat] /\ count \in [Encoders -> 0..MaxLength]
      BY PublisherAssumption DEF Init
    <2>5. \A e \in Encoders : Len(payload[e]) < PayloadSize /\ Len(frames[e]) = curGranule[e]
      BY PublisherAssumption DEF Init
    <2> QED
      BY <2>1, <2>2, <2>3, <2>4, <2>5, <2>6 DEF TypeOK
  <1>3. clock <= MaxFrames
    BY PublisherAssumption DEF Init
  <1>4. ASSUME NEW e \in Encoders PROVE EncoderInv(e)
    <2>1. /\ pc[e] \in {"loop", "off"} /\ curGranule[e] = 0 /\ payload[e] = <<>>
          /\ frames[e] = <<>> /\ clock = 0
      BY DEF Init
    <2>2. ~Busy(e) /\ SentBy(e) = {}
      BY <1>1
    <2>3. Placed(e) /\ Buffered(e) /\ SentSoFar(e) /\ NoneSkipped(e) /\ Tiles(e)
      BY <2>1, <2>2 DEF Busy, Placed, Buffered, SentSoFar, NoneSkipped, Tiles
    <2>4. Whole(e)
      <3>1. Len(frames[e]) = 0
        BY <2>1
      <3> QED
        BY <3>1 DEF Whole
    <2> QED
      BY <2>3, <2>4 DEF EncoderInv
  <1>5. Unstarted
    BY DEF Init, Unstarted, Encoders
  <1> QED
    BY <1>2, <1>3, <1>4, <1>5 DEF IInv

-----------------------------------------------------------------------------
(* The bytes of a frame.                                                   *)

\* k bytes of frame g of encoder e that follow the first b ones.
Run(e, g, b, k) == [i \in 1..k |-> <<e, g, b + i>>]

LEMMA FunctionSeq ==
  ASSUME NEW S, NEW k \in Nat, NEW f \in [1..k -> S]
  PROVE  f \in Seq(S) /\ Len(f) = k
  OBVIOUS

LEMMA RunType ==
  ASSUME NEW e \in Encoders, NEW g \in 0..MaxFrames, NEW b \in Nat, NEW k \in Nat,
         b + k <= MaxLength
  PROVE  Run(e, g, b, k) \in Seq(Bytes) /\ Len(Run(e, g, b, k)) = k
  <1>1. \A i \in 1..k : b + i \in 1..MaxLength
    BY PublisherAssumption
  <1>2. \A i \in 1..k : <<e, g, b + i>> \in Bytes
    BY <1>1 DEF Bytes
  <1>3. Run(e, g, b, k) \in [1..k -> Bytes]
    BY <1>2 DEF Run
  <1> QED
    BY <1>3, FunctionSeq

\* The n bytes that follow k bytes make one run of k + n bytes with them.
Joins(e, g, b, k, n) ==
  Run(e, g, b, k) \o Run(e, g, b + k, n) = Run(e, g, b, k + n)

LEMMA RunConcat ==
  ASSUME NEW e, NEW g, NEW b \in Nat, NEW k \in Nat, NEW n \in Nat
  PROVE  Joins(e, g, b, k, n)
  <1> DEFINE r == Run(e, g, b, k)
             t == Run(e, g, b + k, n)
             u == Run(e, g, b, k + n)
             S == {<<e, g, i>> : i \in Nat}
  <1>1. r \in [1..k -> S] /\ t \in [1..n -> S] /\ u \in [1..(k + n) -> S]
    BY DEF Run
  <1> HIDE DEF r, t, u, S
  <1>2. r \in Seq(S) /\ Len(r) = k
    BY <1>1, FunctionSeq
  <1>6. t \in Seq(S) /\ Len(t) = n
    BY <1>1, FunctionSeq
  <1>7. u \in Seq(S) /\ Len(u) = k + n
    BY <1>1, FunctionSeq
  <1>3. /\ r \o t \in Seq(S) /\ Len(r \o t) = k + n
        /\ \A i \in 1..(k + n) : (r \o t)[i] = IF i <= k THEN r[i] ELSE t[i - k]
    BY <1>2, <1>6, ConcatProperties
  <1>4. ASSUME NEW i \in 1..(k + n) PROVE (r \o t)[i] = u[i]
    <2>1. u[i] = <<e, g, b + i>>
      BY DEF u, Run
    <2>2. ASSUME i <= k PROVE r[i] = <<e, g, b + i>>
      BY <2>2 DEF r, Run
    <2>3. ASSUME ~(i <= k) PROVE t[i - k] = <<e, g, b + i>>
      <3>1. i - k \in 1..n
        BY <2>3
      <3>2. t[i - k] = <<e, g, (b + k) + (i - k)>>
        BY <3>1 DEF t, Run
      <3>3. (b + k) + (i - k) = b + i
        OBVIOUS
      <3> QED
        BY <3>2, <3>3
    <2> QED
      BY <1>3, <2>1, <2>2, <2>3
  <1>5. r \o t = u
    BY <1>7, <1>3, <1>4, SeqEqual
  <1> QED
    BY <1>5 DEF r, t, u, Joins

\* Slice() of a frame of len bytes.
SliceOf(e, g, q, len) ==
  [i \in 1..Lesser(PayloadSize, len - q * PayloadSize) |-> <<e, g, q * PayloadSize + i>>]

\* A slice whose bytes are all in the frame ...
LEMMA FullSlice ==
  ASSUME NEW e, NEW g, NEW q \in Nat, NEW len \in Nat, len >= (q + 1) * PayloadSize
  PROVE  SliceOf(e, g, q, len) = Run(e, g, q * PayloadSize, PayloadSize)
  <1> DEFINE b == q * PayloadSize
  <1>1. b \in Nat /\ len >= b + PayloadSize
    BY Successor
  <1>2. SliceOf(e, g, q, len) = Run(e, g, b, Lesser(PayloadSize, len - b))
    BY DEF SliceOf, Run
  <1> HIDE DEF b
  <1>3. Lesser(PayloadSize, len - b) = PayloadSize
    BY <1>1, PublisherAssumption DEF Lesser
  <1> QED
    BY <1>2, <1>3 DEF b

\* ... and one cut off by its end.
LEMMA LastSlice ==
  ASSUME NEW e, NEW g, NEW q \in Nat, NEW len \in Nat, NEW k \in Nat,
         k <= PayloadSize, len = q * PayloadSize + k
  PROVE  SliceOf(e, g, q, len) = Run(e, g, q * PayloadSize, k)
  <1> DEFINE b == q * PayloadSize
  <1>1. b \in Nat /\ len = b + k
    BY Successor
  <1>2. SliceOf(e, g, q, len) = Run(e, g, b, Lesser(PayloadSize, len - b))
    BY DEF SliceOf, Run
  <1> HIDE DEF b
  <1>3. Lesser(PayloadSize, len - b) = k
    BY <1>1, PublisherAssumption DEF Lesser
  <1> QED
    BY <1>2, <1>3 DEF b

\* No bytes: the slice that starts where the frame ends.
LEMMA EmptyRun ==
  ASSUME NEW e, NEW g, NEW b \in Nat
  PROVE  Run(e, g, b, 0) = <<>>
  <1>1. Run(e, g, b, 0) \in [1..0 -> {}]
    BY DEF Run
  <1> QED
    BY <1>1, FunctionSeq, EmptySeq

\* The number of bytes one turn of write()'s loop copies, and the payload
\* that stands in the buffer after it.
Taken(e)  == Lesser(count[e], Remain(e))
Filled(e) == payload[e] \o NextBytes(e, Cur(e).len, Taken(e))

\* The typing facts of one encoder.
LEMMA TypeOf ==
  ASSUME TypeOK, NEW e \in Encoders
  PROVE  /\ pc[e] \in {"off", "loop", "take", "compress", "write", "done"}
         /\ curGranule[e] \in 0..MaxFrames
         /\ header[e] \in [granule : Nat, ts : Nat]
         /\ payload[e] \in Seq(Bytes) /\ Len(payload[e]) \in Nat
         /\ Len(payload[e]) < PayloadSize
         /\ seq[e] \in Nat /\ count[e] \in 0..MaxLength
         /\ frames[e] \in Seq([len : 0..MaxLength, ts : Nat])
         /\ Len(frames[e]) = curGranule[e]
         /\ curGranule[e] >= 1 => Cur(e) \in [len : 0..MaxLength, ts : Nat]
  <1>1. /\ pc[e] \in {"off", "loop", "take", "compress", "write", "done"}
        /\ curGranule[e] \in 0..MaxFrames
        /\ header[e] \in [granule : Nat, ts : Nat]
        /\ seq[e] \in Nat /\ count[e] \in 0..MaxLength
    BY DEF TypeOK
  <1>2. payload[e] \in Seq(Bytes) /\ Len(payload[e]) < PayloadSize
    BY DEF TypeOK
  <1>3. Len(payload[e]) \in Nat
    BY <1>2, LenProperties
  <1>4. /\ frames[e] \in Seq([len : 0..MaxLength, ts : Nat])
        /\ Len(frames[e]) = curGranule[e]
    BY DEF TypeOK
  <1>5. curGranule[e] >= 1 => Cur(e) \in [len : 0..MaxLength, ts : Nat]
    <2> SUFFICES ASSUME curGranule[e] >= 1
                 PROVE  frames[e][curGranule[e]] \in [len : 0..MaxLength, ts : Nat]
      BY DEF Cur
    <2>1. curGranule[e] \in 1..Len(frames[e])
      BY <1>1, <1>4, PublisherAssumption
    <2> QED
      BY <2>1, <1>4, ElementOfSeq
  <1> QED
    BY <1>1, <1>2, <1>3, <1>4, <1>5

\* Where an encoder is that has bytes to write: how far the frame is, and
\* that the buffer holds its latest bytes.
LEMMA WriteFacts ==
  ASSUME IInv, NEW e \in Encoders, pc[e] = "write"
  PROVE  /\ curGranule[e] \in 1..MaxFrames /\ curGranule[e] - 1 \in 0..MaxFrames
         /\ seq[e] * PayloadSize \in Nat
         /\ Cur(e).len = seq[e] * PayloadSize + Len(payload[e])
         /\ Cur(e).len + count[e] <= MaxLength
         /\ payload[e] = Run(e, curGranule[e] - 1, seq[e] * PayloadSize, Len(payload[e]))
  <1>1. Busy(e) /\ TypeOK
    BY DEF Busy, IInv
  <1>2. curGranule[e] \in 1..MaxFrames /\ curGranule[e] - 1 \in 0..MaxFrames
    BY <1>1, TypeOf, PublisherAssumption DEF IInv, EncoderInv, Placed
  <1>3. seq[e] * PayloadSize \in Nat
    BY <1>1, TypeOf, Successor
  <1>4. /\ Cur(e).len = seq[e] * PayloadSize + Len(payload[e])
        /\ payload[e] = Slice(e, curGranule[e] - 1, seq[e])
        /\ Cur(e).len + count[e] <= MaxLength
    BY <1>1 DEF IInv, EncoderInv, Buffered, Placed
  <1>5. payload[e] = Run(e, curGranule[e] - 1, seq[e] * PayloadSize, Len(payload[e]))
    <2>1. (curGranule[e] - 1) + 1 = curGranule[e]
      BY <1>2
    <2>2. /\ frames[e][(curGranule[e] - 1) + 1].len = seq[e] * PayloadSize + Len(payload[e])
          /\ frames[e][(curGranule[e] - 1) + 1].len \in Nat
      BY <2>1, <1>1, <1>2, <1>3, <1>4, TypeOf DEF Cur
    <2>3. seq[e] \in Nat /\ Len(payload[e]) \in Nat /\ Len(payload[e]) <= PayloadSize
      BY <1>1, TypeOf, PublisherAssumption
    <2>4. SliceOf(e, curGranule[e] - 1, seq[e], frames[e][(curGranule[e] - 1) + 1].len)
            = Run(e, curGranule[e] - 1, seq[e] * PayloadSize, Len(payload[e]))
      <3> DEFINE g   == curGranule[e] - 1
                 q   == seq[e]
                 k   == Len(payload[e])
                 len == frames[e][(curGranule[e] - 1) + 1].len
      <3>1. /\ q \in Nat /\ k \in Nat /\ len \in Nat
            /\ k <= PayloadSize /\ len = q * PayloadSize + k
        BY <2>2, <2>3
      <3> HIDE DEF g, q, k, len
      <3>2. SliceOf(e, g, q, len) = Run(e, g, q * PayloadSize, k)
        BY <3>1, LastSlice
      <3> QED
        BY <3>2 DEF g, q, k, len
    <2> QED
      BY <2>4, <1>4 DEF Slice, SliceOf
  <1> QED
    BY <1>2, <1>3, <1>4, <1>5

\* What FillPacket() does, in the terms of the invariant.
LEMMA FillFacts ==
  ASSUME IInv, NEW e \in Encoders, pc[e] = "write"
  PROVE  /\ Taken(e) \in Nat /\ Taken(e) <= count[e]
         /\ Len(payload[e]) + Taken(e) <= PayloadSize
         /\ FillsPacket(e) <=> Len(payload[e]) + Taken(e) = PayloadSize
         /\ Cur(e).len + Taken(e) <= MaxLength
         /\ Filled(e) \in Seq(Bytes)
         /\ Len(Filled(e)) = Len(payload[e]) + Taken(e)
         /\ Filled(e) = Run(e, curGranule[e] - 1, seq[e] * PayloadSize,
                            Len(payload[e]) + Taken(e))
  <1>1. TypeOK
    BY DEF IInv
  <1>2. /\ Len(payload[e]) \in Nat /\ Len(payload[e]) < PayloadSize
        /\ count[e] \in Nat
    BY <1>1, TypeOf, PublisherAssumption
  <1>3. /\ Taken(e) \in Nat /\ Taken(e) <= count[e]
        /\ Len(payload[e]) + Taken(e) <= PayloadSize
        /\ FillsPacket(e) <=> Len(payload[e]) + Taken(e) = PayloadSize
    BY <1>2, PublisherAssumption DEF Taken, Lesser, Remain, FillsPacket
  <1>4. Cur(e).len + Taken(e) <= MaxLength /\ Cur(e).len \in Nat
    <2>1. Cur(e).len \in Nat /\ Cur(e).len + count[e] <= MaxLength
      BY <1>2, WriteFacts
    <2> QED
      BY <2>1, <1>2, <1>3, PublisherAssumption
  <1>5. Filled(e) = Run(e, curGranule[e] - 1, seq[e] * PayloadSize,
                        Len(payload[e]) + Taken(e))
    <2>1. NextBytes(e, Cur(e).len, Taken(e))
            = Run(e, curGranule[e] - 1, seq[e] * PayloadSize + Len(payload[e]), Taken(e))
      BY WriteFacts DEF NextBytes, Run
    <2>2. payload[e] = Run(e, curGranule[e] - 1, seq[e] * PayloadSize, Len(payload[e]))
      BY WriteFacts
    <2>3. seq[e] * PayloadSize \in Nat
      BY WriteFacts
    <2>4. Run(e, curGranule[e] - 1, seq[e] * PayloadSize, Len(payload[e]))
            \o Run(e, curGranule[e] - 1, seq[e] * PayloadSize + Len(payload[e]), Taken(e))
          = Run(e, curGranule[e] - 1, seq[e] * PayloadSize, Len(payload[e]) + Taken(e))
      <3> DEFINE g == curGranule[e] - 1
                 b == seq[e] * PayloadSize
                 k == Len(payload[e])
                 n == Taken(e)
      <3>1. b \in Nat /\ k \in Nat /\ n \in Nat
        BY <2>3, <1>2, <1>3
      <3> HIDE DEF g, b, k, n
      <3>2. Joins(e, g, b, k, n)
        BY <3>1, RunConcat
      <3> QED
        BY <3>2 DEF Joins, g, b, k, n
    <2> QED
      BY <2>1, <2>2, <2>4 DEF Filled
  <1>6. Filled(e) \in Seq(Bytes) /\ Len(Filled(e)) = Len(payload[e]) + Taken(e)
    <2>1. curGranule[e] - 1 \in 0..MaxFrames /\ seq[e] * PayloadSize \in Nat
      BY WriteFacts
    <2>2. Len(payload[e]) + Taken(e) \in Nat
      BY <1>2, <1>3
    <2>3. seq[e] * PayloadSize + (Len(payload[e]) + Taken(e)) <= MaxLength
      BY <2>1, <1>2, <1>3, <1>4, WriteFacts, PublisherAssumption
    <2> QED
      BY <2>1, <2>2, <2>3, <1>5, RunType
  <1> QED
    BY <1>3, <1>4, <1>5, <1>6

-----------------------------------------------------------------------------
(* What a step does to the packets that were sent.                         *)

LEMMA SendOffers ==
  ASSUME NEW pkt, Send(pkt)
  PROVE  wire' \cup dropped' = wire \cup dropped \cup {pkt}
  BY DEF Send

LEMMA SendTyped ==
  ASSUME TypeOK, NEW pkt \in Packets, Send(pkt)
  PROVE  wire' \subseteq Packets /\ dropped' \subseteq Packets
  BY DEF Send, TypeOK

LEMMA SentTyped ==
  ASSUME TypeOK, NEW e, NEW p \in SentBy(e)
  PROVE  p \in Packets /\ p.granule \in Nat /\ p.seq \in Nat /\ p.by = e
  <1>1. p \in Packets /\ p.by = e
    BY DEF TypeOK, SentBy
  <1> QED
    BY <1>1 DEF Packets

\* A step that takes encoder e neither into a frame nor out of one and sends
\* nothing of it keeps its invariant.
LEMMA QuietKeeps ==
  ASSUME NEW e \in Encoders, EncoderInv(e), TypeOK,
         curGranule'[e] = curGranule[e], header'[e] = header[e],
         payload'[e] = payload[e], seq'[e] = seq[e], frames'[e] = frames[e],
         SentBy(e)' = SentBy(e),
         clock' \in Nat, clock <= clock',
         Busy(e)' <=> Busy(e),
         pc'[e] = "off" => pc[e] = "off",
         pc'[e] = "write" => Cur(e).len + count'[e] <= MaxLength,
         pc'[e] \in {"loop", "take", "done"} =>
           (pc[e] \in {"loop", "take", "done"} \/ curGranule[e] = 0)
  PROVE  EncoderInv(e)'
  <1>1. Cur(e)' = Cur(e)
    BY DEF Cur
  <1>2. \A g, q : Slice(e, g, q)' = Slice(e, g, q)
    BY DEF Slice
  <1>3. Placed(e)'
    <2>1. curGranule[e] \in Nat /\ clock \in Nat
      BY TypeOf DEF TypeOK
    <2>2. curGranule'[e] <= clock'
      BY <2>1 DEF EncoderInv, Placed
    <2> QED
      BY <2>2, <1>1 DEF EncoderInv, Placed
  <1>4. Buffered(e)'
    BY <1>1, <1>2 DEF EncoderInv, Buffered
  <1>5. SentSoFar(e)'
    BY DEF EncoderInv, SentSoFar
  <1>6. NoneSkipped(e)'
    BY DEF EncoderInv, NoneSkipped
  <1>7. Tiles(e)'
    BY <1>2 DEF EncoderInv, Tiles
  <1>8. Whole(e)'
    <2>1. CASE curGranule[e] = 0
      <3>1. Len(frames'[e]) = 0
        BY <2>1, TypeOf
      <3> QED
        BY <3>1 DEF Whole
    <2>2. CASE curGranule[e] # 0
      BY <2>2 DEF EncoderInv, Whole
    <2> QED
      BY <2>1, <2>2
  <1> QED
    BY <1>3, <1>4, <1>5, <1>6, <1>7, <1>8 DEF EncoderInv

\* A step of encoder e leaves what the other encoders have done alone.
LEMMA OthersKeep ==
  ASSUME IInv, NEW e \in Encoders, NEW f \in Encoders, f # e,
         pc'[f] = pc[f], curGranule'[f] = curGranule[f], header'[f] = header[f],
         payload'[f] = payload[f], seq'[f] = seq[f], count'[f] = count[f],
         frames'[f] = frames[f], clock' \in Nat, clock <= clock',
         \/ UNCHANGED <<wire, dropped>>
         \/ \E pkt : Send(pkt) /\ pkt.by = e
  PROVE  EncoderInv(f)'
  <1>1. SentBy(f)' = SentBy(f)
    <2>1. CASE UNCHANGED <<wire, dropped>>
      BY <2>1 DEF SentBy
    <2>2. ASSUME NEW pkt, Send(pkt), pkt.by = e PROVE SentBy(f)' = SentBy(f)
      <3>1. wire' \cup dropped' = wire \cup dropped \cup {pkt}
        BY <2>2, SendOffers
      <3> QED
        BY <3>1, <2>2 DEF SentBy
    <2> QED
      BY <2>1, <2>2
  <1>2. Busy(f)' <=> Busy(f)
    BY DEF Busy
  <1>3. EncoderInv(f) /\ TypeOK
    BY DEF IInv
  <1>4. pc'[f] = "write" => Cur(f).len + count'[f] <= MaxLength
    BY <1>3 DEF EncoderInv, Placed
  <1> QED
    BY <1>1, <1>2, <1>3, <1>4, QuietKeeps

-----------------------------------------------------------------------------
(* A frame begins.                                                         *)

LEMMA EncodeFrameInv ==
  ASSUME IInv, NEW e \in Encoders, EncodeFrame(e)
  PROVE  EncoderInv(e)'
  <1>1. TypeOK /\ EncoderInv(e) /\ pc[e] = "take" /\ ~Busy(e)
    BY DEF IInv, Busy, EncodeFrame
  <1>2. /\ frames[e] \in Seq([len : 0..MaxLength, ts : Nat])
        /\ Len(frames[e]) = curGranule[e] /\ curGranule[e] \in Nat
        /\ clock \in Nat /\ payload[e] = <<>> /\ curGranule[e] <= clock
    <2>1. clock \in Nat
      BY <1>1 DEF TypeOK
    <2>2. payload[e] = <<>> /\ curGranule[e] <= clock
      BY <1>1 DEF EncoderInv, Placed
    <2>3. /\ frames[e] \in Seq([len : 0..MaxLength, ts : Nat])
          /\ Len(frames[e]) = curGranule[e] /\ curGranule[e] \in 0..MaxFrames
      BY <1>1, TypeOf, Zenon
    <2>4. curGranule[e] \in Nat
      BY <2>3, PublisherAssumption
    <2> QED
      BY <2>1, <2>2, <2>3, <2>4, Zenon
  <1>3. /\ curGranule'[e] = curGranule[e] + 1 /\ seq'[e] = 0 /\ payload'[e] = <<>>
        /\ header'[e] = [granule |-> curGranule[e], ts |-> clock]
        /\ pc'[e] = "compress" /\ clock' = clock + 1
        /\ frames'[e] = Append(frames[e], [len |-> 0, ts |-> clock])
    BY <1>1, <1>2 DEF TypeOK, EncodeFrame, CreateNewRtpPkt
  <1>4. /\ Len(frames'[e]) = curGranule[e] + 1
        /\ frames'[e][curGranule[e] + 1] = [len |-> 0, ts |-> clock]
        /\ \A g \in Nat : g < curGranule[e] => frames'[e][g + 1] = frames[e][g + 1]
    <2>1. /\ Len(frames'[e]) = Len(frames[e]) + 1
          /\ frames'[e][Len(frames[e]) + 1] = [len |-> 0, ts |-> clock]
          /\ \A i \in 1..Len(frames[e]) : frames'[e][i] = frames[e][i]
      BY <1>2, <1>3, AppendProperties
    <2>2. \A g \in Nat : g < curGranule[e] => g + 1 \in 1..Len(frames[e])
      BY <1>2
    <2> QED
      BY <2>1, <2>2, <1>2
  <1>5. Cur(e)' = [len |-> 0, ts |-> clock] /\ Busy(e)'
    BY <1>3, <1>4 DEF Cur, Busy
  <1>6. SentBy(e)' = SentBy(e)
    BY DEF SentBy, EncodeFrame
  <1>7. \A p \in SentBy(e) :
          p.granule \in Nat /\ p.seq \in Nat /\ p.granule < curGranule[e]
    BY <1>1, SentTyped DEF EncoderInv, SentSoFar
  <1>8. Placed(e)'
    <2>1. header'[e].granule = curGranule[e] /\ header'[e].ts = clock
      BY <1>3
    <2>2. Cur(e)'.ts = clock
      BY <1>5
    <2> QED
      BY <2>1, <2>2, <1>2, <1>3, <1>5 DEF Placed
  <1>9. Buffered(e)'
    <2>1. Cur(e)'.len = 0 /\ Len(payload'[e]) = 0 /\ 0 * PayloadSize = 0
      BY <1>3, <1>5, PublisherAssumption
    <2>2. frames'[e][(curGranule'[e] - 1) + 1].len = 0
      BY <1>2, <1>3, <1>4
    <2>3. SliceOf(e, curGranule'[e] - 1, 0, 0) = <<>>
      <3>1. SliceOf(e, curGranule'[e] - 1, 0, 0) = Run(e, curGranule'[e] - 1, 0, 0)
        BY <2>1, LastSlice, PublisherAssumption
      <3> QED
        BY <3>1, EmptyRun
    <2>4. Slice(e, curGranule[e] - 1, seq[e])' = <<>>
      BY <2>2, <2>3, <1>3 DEF Slice, SliceOf
    <2> QED
      BY <2>1, <2>4, <1>3 DEF Buffered
  <1>10. SentSoFar(e)'
    BY <1>2, <1>3, <1>6, <1>7 DEF SentSoFar
  <1>11. NoneSkipped(e)'
    BY <1>3 DEF NoneSkipped
  <1>12. Tiles(e)'
    <2> SUFFICES ASSUME NEW p \in SentBy(e)
                 PROVE  /\ p.data = Slice(e, p.granule, p.seq)'
                        /\ p.ts = frames'[e][p.granule + 1].ts
      BY <1>6 DEF Tiles
    <2>1. frames'[e][p.granule + 1] = frames[e][p.granule + 1]
      BY <1>4, <1>7
    <2> QED
      BY <2>1, <1>1 DEF EncoderInv, Tiles, Slice
  <1>13. Whole(e)'
    <2> SUFFICES ASSUME NEW g \in 0..(Len(frames'[e]) - 1),
                        g + 1 < curGranule'[e] \/ pc'[e] \in {"loop", "take", "done"},
                        NEW s \in 0..MaxLength,
                        s * PayloadSize < frames'[e][g + 1].len
                 PROVE  \E p \in SentBy(e)' : p.granule = g /\ p.seq = s
      BY DEF Whole
    <2>1. g \in Nat /\ g < curGranule[e]
      BY <1>2, <1>3, <1>4
    <2>2. frames'[e][g + 1] = frames[e][g + 1]
      BY <2>1, <1>4
    <2>3. g \in 0..(Len(frames[e]) - 1)
      BY <2>1, <1>2
    <2> QED
      BY <2>2, <2>3, <1>1, <1>6 DEF EncoderInv, Whole
  <1> QED
    BY <1>8, <1>9, <1>10, <1>11, <1>12, <1>13 DEF EncoderInv

-----------------------------------------------------------------------------
(* A frame grows and ends.                                                 *)

\* Frame i of s with n more bytes.
Grown(s, i, n) == [s EXCEPT ![i].len = @ + n]

LEMMA FrameGrows ==
  ASSUME NEW s \in Seq([len : 0..MaxLength, ts : Nat]), NEW i \in 1..Len(s),
         NEW n \in Nat, s[i].len + n <= MaxLength
  PROVE  /\ Grown(s, i, n) \in Seq([len : 0..MaxLength, ts : Nat])
         /\ Len(Grown(s, i, n)) = Len(s)
         /\ Grown(s, i, n)[i].len = s[i].len + n
         /\ Grown(s, i, n)[i].ts = s[i].ts
         /\ \A j \in 1..Len(s) : j # i => Grown(s, i, n)[j] = s[j]
  <1> DEFINE R == [len : 0..MaxLength, ts : Nat]
             x == [len |-> s[i].len + n, ts |-> s[i].ts]
             t == Grown(s, i, n)
  <1>1. s[i] \in R
    BY ElementOfSeq
  <1>2. x \in R
    <2>1. s[i].len \in Nat /\ s[i].ts \in Nat
      BY <1>1, PublisherAssumption
    <2>2. s[i].len + n \in 0..MaxLength
      BY <2>1, PublisherAssumption
    <2> QED
      BY <2>1, <2>2
  <1>3. [s[i] EXCEPT !.len = @ + n] = x
    BY <1>1
  <1>4. t = [s EXCEPT ![i] = x]
    BY <1>3 DEF Grown
  <1>5. x.len = s[i].len + n /\ x.ts = s[i].ts
    OBVIOUS
  <1>6. s \in Seq(R)
    OBVIOUS
  <1> HIDE DEF R, x, t
  <1>7. /\ t \in Seq(R) /\ Len(t) = Len(s) /\ t[i] = x
        /\ \A j \in 1..Len(s) : j # i => t[j] = s[j]
    BY <1>2, <1>4, <1>6
  <1> QED
    BY <1>5, <1>7 DEF R, t

\* What FillPacket() leaves of encoder e's frames.
LEMMA FillFrames ==
  ASSUME IInv, NEW e \in Encoders, FillPacket(e)
  PROVE  /\ curGranule[e] \in 1..MaxFrames /\ curGranule'[e] = curGranule[e]
         /\ frames'[e] \in Seq([len : 0..MaxLength, ts : Nat])
         /\ Len(frames'[e]) = curGranule[e] /\ Len(frames[e]) = curGranule[e]
         /\ Cur(e)'.len = Cur(e).len + Taken(e) /\ Cur(e)'.ts = Cur(e).ts
         /\ Cur(e).len \in Nat
         /\ \A g \in Nat : g + 1 < curGranule[e] => frames'[e][g + 1] = frames[e][g + 1]
  <1>1. pc[e] = "write" /\ TypeOK
    BY DEF FillPacket, IInv
  <1>2. curGranule[e] \in 1..MaxFrames /\ curGranule'[e] = curGranule[e]
    BY <1>1, WriteFacts DEF FillPacket
  <1>3. /\ frames[e] \in Seq([len : 0..MaxLength, ts : Nat])
        /\ Len(frames[e]) = curGranule[e]
    BY <1>1, TypeOf, Zenon
  <1>4. Taken(e) \in Nat /\ Cur(e).len + Taken(e) <= MaxLength
    BY <1>1, FillFacts
  <1>5. frames'[e] = Grown(frames[e], curGranule[e], Taken(e))
    BY <1>1 DEF FillPacket, Taken, TypeOK, Grown
  <1>6. curGranule[e] \in 1..Len(frames[e])
    BY <1>2, <1>3
  <1>7. frames[e][curGranule[e]].len + Taken(e) <= MaxLength
    BY <1>4 DEF Cur
  <1>8. /\ frames'[e] \in Seq([len : 0..MaxLength, ts : Nat])
        /\ Len(frames'[e]) = Len(frames[e])
        /\ frames'[e][curGranule[e]].len = frames[e][curGranule[e]].len + Taken(e)
        /\ frames'[e][curGranule[e]].ts = frames[e][curGranule[e]].ts
        /\ \A j \in 1..Len(frames[e]) : j # curGranule[e] => frames'[e][j] = frames[e][j]
    <2> DEFINE s == frames[e]
               i == curGranule[e]
               n == Taken(e)
    <2>1. /\ s \in Seq([len : 0..MaxLength, ts : Nat]) /\ i \in 1..Len(s)
          /\ n \in Nat /\ s[i].len + n <= MaxLength
      BY <1>3, <1>4, <1>6, <1>7
    <2> HIDE DEF s, i, n
    <2>2. /\ Grown(s, i, n) \in Seq([len : 0..MaxLength, ts : Nat])
          /\ Len(Grown(s, i, n)) = Len(s)
          /\ Grown(s, i, n)[i].len = s[i].len + n
          /\ Grown(s, i, n)[i].ts = s[i].ts
          /\ \A j \in 1..Len(s) : j # i => Grown(s, i, n)[j] = s[j]
      BY <2>1, FrameGrows
    <2> QED
      BY <2>2, <1>5 DEF s, i, n
  <1>9. Cur(e)'.len = Cur(e).len + Taken(e) /\ Cur(e)'.ts = Cur(e).ts
    BY <1>2, <1>8 DEF Cur
  <1>10. ASSUME NEW g \in Nat, g + 1 < curGranule[e]
         PROVE  frames'[e][g + 1] = frames[e][g + 1]
    <2>1. g + 1 \in 1..Len(frames[e]) /\ g + 1 # curGranule[e]
      BY <1>2, <1>3, <1>10
    <2> QED
      BY <2>1, <1>8
  <1>11. Cur(e).len \in Nat
    <2>1. curGranule[e] >= 1
      BY <1>2
    <2>2. Cur(e) \in [len : 0..MaxLength, ts : Nat]
      BY <2>1, <1>1, TypeOf
    <2> QED
      BY <2>2, PublisherAssumption
  <1> QED
    BY <1>2, <1>3, <1>8, <1>9, <1>10, <1>11

\* FillPacket() in terms of the operators above.
LEMMA FillStep ==
  ASSUME TypeOK, NEW e \in Encoders, FillPacket(e)
  PROVE  /\ IF FillsPacket(e)
            THEN SendPkt(e, Filled(e))
            ELSE payload' = [payload EXCEPT ![e] = Filled(e)] /\ UNCHANGED <<seq, wire, dropped>>
         /\ count'[e] = count[e] - Taken(e)
         /\ pc'[e] \in {"compress", "write"}
         /\ header'[e] = header[e] /\ clock' = clock
  <1>1. /\ IF FillsPacket(e)
            THEN SendPkt(e, Filled(e))
            ELSE payload' = [payload EXCEPT ![e] = Filled(e)] /\ UNCHANGED <<seq, wire, dropped>>
    BY DEF FillPacket, Filled, Taken, Cur
  <1>2. count'[e] = count[e] - Taken(e)
    BY DEF FillPacket, Taken, TypeOK
  <1>3. pc'[e] \in {"compress", "write"}
    BY DEF FillPacket, TypeOK
  <1>4. header'[e] = header[e] /\ clock' = clock
    BY DEF FillPacket
  <1> QED
    BY <1>1, <1>2, <1>3, <1>4

\* The packet that SendPkt() hands to the publisher.
Pkt(e, data) == [by |-> e, granule |-> header[e].granule, seq |-> seq[e],
                 ts |-> header[e].ts, data |-> data]

LEMMA SendPktFacts ==
  ASSUME TypeOK, NEW e \in Encoders, NEW data, SendPkt(e, data)
  PROVE  /\ Send(Pkt(e, data))
         /\ SentBy(e)' = SentBy(e) \cup {Pkt(e, data)}
         /\ payload'[e] = <<>> /\ seq'[e] = seq[e] + 1
  <1>1. Send(Pkt(e, data))
    BY DEF SendPkt, Pkt
  <1>2. SentBy(e)' = SentBy(e) \cup {Pkt(e, data)}
    <2>1. wire' \cup dropped' = wire \cup dropped \cup {Pkt(e, data)}
      BY <1>1, SendOffers
    <2>2. Pkt(e, data).by = e
      BY DEF Pkt
    <2> QED
      BY <2>1, <2>2 DEF SentBy
  <1>3. payload'[e] = <<>> /\ seq'[e] = seq[e] + 1
    BY DEF SendPkt, TypeOK
  <1> QED
    BY <1>1, <1>2, <1>3

\* A packet already sent of a frame is a slice wholly inside what the frame
\* was then, so that the frame may grow.
LEMMA FillTilesOld ==
  ASSUME IInv, NEW e \in Encoders, FillPacket(e), NEW p \in SentBy(e)
  PROVE  p.data = Slice(e, p.granule, p.seq)' /\ p.ts = frames'[e][p.granule + 1].ts
  <1>1. /\ TypeOK /\ EncoderInv(e) /\ Busy(e) /\ pc[e] = "write"
    BY DEF IInv, FillPacket, Busy
  <1>2. p.granule \in Nat /\ p.seq \in Nat
    BY <1>1, SentTyped
  <1>3. /\ p.granule < curGranule[e]
        /\ p.granule = curGranule[e] - 1 => p.seq < seq[e]
    BY <1>1 DEF EncoderInv, SentSoFar
  <1>4. p.data = Slice(e, p.granule, p.seq) /\ p.ts = frames[e][p.granule + 1].ts
    BY <1>1 DEF EncoderInv, Tiles
  <1>5. CASE p.granule + 1 < curGranule[e]
    <2>1. frames'[e][p.granule + 1] = frames[e][p.granule + 1]
      BY <1>2, <1>5, FillFrames
    <2> QED
      BY <2>1, <1>4 DEF Slice
  <1>6. CASE p.granule = curGranule[e] - 1
    <2>1. p.granule + 1 = curGranule[e] /\ curGranule'[e] = curGranule[e]
      BY <1>2, <1>6, FillFrames
    <2>2. /\ Cur(e) = frames[e][p.granule + 1] /\ Cur(e)' = frames'[e][p.granule + 1]
      BY <2>1 DEF Cur
    <2>3. /\ Cur(e).len \in Nat /\ Taken(e) \in Nat
          /\ Cur(e)'.len = Cur(e).len + Taken(e) /\ Cur(e)'.ts = Cur(e).ts
      BY <1>1, FillFrames, FillFacts
    <2>4. Cur(e).len >= (p.seq + 1) * PayloadSize
      <3>1. seq[e] \in Nat /\ p.seq + 1 <= seq[e]
        BY <1>1, <1>2, <1>3, <1>6, TypeOf
      <3>2. (p.seq + 1) * PayloadSize <= seq[e] * PayloadSize
        BY <3>1, <1>2, Monotone
      <3>3. /\ Cur(e).len = seq[e] * PayloadSize + Len(payload[e])
            /\ seq[e] * PayloadSize \in Nat
        BY <1>1, WriteFacts
      <3>4. Len(payload[e]) \in Nat
        BY <1>1, TypeOf
      <3>5. (p.seq + 1) * PayloadSize \in Nat
        BY <1>2, Successor
      <3> QED
        BY <3>2, <3>3, <3>4, <3>5
    <2>5. Cur(e)'.len \in Nat /\ Cur(e)'.len >= (p.seq + 1) * PayloadSize
      <3>1. (p.seq + 1) * PayloadSize \in Nat
        BY <1>2, Successor
      <3> QED
        BY <3>1, <2>3, <2>4
    <2>6. SliceOf(e, p.granule, p.seq, Cur(e).len) = SliceOf(e, p.granule, p.seq, Cur(e)'.len)
      <3> DEFINE g == p.granule
                 q == p.seq
                 m == Cur(e).len
                 n == Cur(e)'.len
      <3>1. /\ q \in Nat /\ m \in Nat /\ n \in Nat
            /\ m >= (q + 1) * PayloadSize /\ n >= (q + 1) * PayloadSize
        BY <2>3, <2>4, <2>5, <1>2
      <3> HIDE DEF g, q, m, n
      <3>2. SliceOf(e, g, q, m) = Run(e, g, q * PayloadSize, PayloadSize)
        BY <3>1, FullSlice
      <3>3. SliceOf(e, g, q, n) = Run(e, g, q * PayloadSize, PayloadSize)
        BY <3>1, FullSlice
      <3> QED
        BY <3>2, <3>3 DEF g, q, m, n
    <2>7. Slice(e, p.granule, p.seq) = Slice(e, p.granule, p.seq)'
      BY <2>2, <2>6 DEF Slice, SliceOf
    <2> QED
      BY <2>2, <2>3, <2>7, <1>4
  <1> QED
    <2>1. curGranule[e] \in Nat
      BY FillFrames
    <2> QED
      BY <2>1, <1>2, <1>3, <1>5, <1>6

\* What FillPacket() leaves in the buffer, or puts into a packet, is the slice
\* of the frame as it is now that the packet under construction has to carry.
LEMMA FillSlice ==
  ASSUME IInv, NEW e \in Encoders, FillPacket(e)
  PROVE  /\ Cur(e)'.len = seq[e] * PayloadSize + Len(Filled(e))
         /\ Len(Filled(e)) \in Nat
         /\ FillsPacket(e) <=> Len(Filled(e)) = PayloadSize
         /\ Filled(e) = SliceOf(e, curGranule[e] - 1, seq[e], Cur(e)'.len)
  <1>1. pc[e] = "write" /\ TypeOK
    BY DEF IInv, FillPacket
  <1>2. /\ Taken(e) \in Nat /\ Len(payload[e]) \in Nat /\ seq[e] \in Nat
        /\ seq[e] * PayloadSize \in Nat
    BY <1>1, TypeOf, FillFacts, WriteFacts
  <1>3. /\ Len(Filled(e)) = Len(payload[e]) + Taken(e)
        /\ Len(payload[e]) + Taken(e) <= PayloadSize
        /\ FillsPacket(e) <=> Len(payload[e]) + Taken(e) = PayloadSize
    BY <1>1, FillFacts
  <1>4. Cur(e)'.len = seq[e] * PayloadSize + Len(Filled(e))
    <2>1. /\ Cur(e)'.len = Cur(e).len + Taken(e)
          /\ Cur(e).len = seq[e] * PayloadSize + Len(payload[e])
      BY <1>1, FillFrames, WriteFacts
    <2> QED
      BY <2>1, <1>2, <1>3
  <1>5. Filled(e) = SliceOf(e, curGranule[e] - 1, seq[e], Cur(e)'.len)
    <2> DEFINE g == curGranule[e] - 1
               q == seq[e]
               k == Len(Filled(e))
               len == Cur(e)'.len
    <2>1. /\ q \in Nat /\ k \in Nat /\ len \in Nat
          /\ k <= PayloadSize /\ len = q * PayloadSize + k
      BY <1>2, <1>3, <1>4
    <2>2. Filled(e) = Run(e, g, q * PayloadSize, k)
      BY <1>1, <1>3, FillFacts
    <2> HIDE DEF g, q, k, len
    <2>3. SliceOf(e, g, q, len) = Run(e, g, q * PayloadSize, k)
      BY <2>1, LastSlice
    <2> QED
      BY <2>2, <2>3 DEF g, q, len
  <1> QED
    BY <1>2, <1>3, <1>4, <1>5

LEMMA FillPacketInv ==
  ASSUME IInv, NEW e \in Encoders, FillPacket(e)
  PROVE  EncoderInv(e)'
  <1>1. TypeOK /\ EncoderInv(e) /\ Busy(e) /\ pc[e] = "write"
    BY DEF IInv, FillPacket, Busy
  <1>2. /\ curGranule[e] \in 1..MaxFrames /\ curGranule'[e] = curGranule[e]
        /\ seq[e] \in Nat /\ clock \in Nat /\ clock' = clock
        /\ count[e] \in Nat /\ Taken(e) \in Nat /\ Taken(e) <= count[e]
    <2>1. curGranule[e] \in 1..MaxFrames /\ curGranule'[e] = curGranule[e]
      BY FillFrames
    <2>2. seq[e] \in Nat /\ count[e] \in Nat
      BY <1>1, TypeOf, PublisherAssumption
    <2>3. clock \in Nat /\ clock' = clock
      BY <1>1, FillStep DEF TypeOK
    <2>4. Taken(e) \in Nat /\ Taken(e) <= count[e]
      BY <1>1, FillFacts
    <2> QED
      BY <2>1, <2>2, <2>3, <2>4
  <1>3. pc'[e] \in {"compress", "write"} /\ Busy(e)' /\ header'[e] = header[e]
        /\ count'[e] = count[e] - Taken(e)
    BY <1>1, FillStep DEF Busy
  <1>4. IF FillsPacket(e)
        THEN /\ SentBy(e)' = SentBy(e) \cup {Pkt(e, Filled(e))}
             /\ payload'[e] = <<>> /\ seq'[e] = seq[e] + 1
        ELSE /\ SentBy(e)' = SentBy(e)
             /\ payload'[e] = Filled(e) /\ seq'[e] = seq[e]
    <2>1. CASE FillsPacket(e)
      BY <2>1, <1>1, FillStep, SendPktFacts
    <2>2. CASE ~FillsPacket(e)
      BY <2>2, <1>1, FillStep DEF TypeOK, SentBy
    <2> QED
      BY <2>1, <2>2
  <1>5. /\ Pkt(e, Filled(e)).granule = curGranule[e] - 1
        /\ Pkt(e, Filled(e)).seq = seq[e]
        /\ Pkt(e, Filled(e)).ts = Cur(e).ts
        /\ Pkt(e, Filled(e)).data = Filled(e)
    BY <1>1 DEF Pkt, EncoderInv, Placed
  <1>6. Placed(e)'
    <2>1. pc'[e] = "write" => Cur(e)'.len + count'[e] <= MaxLength
      <3>1. Cur(e)'.len = Cur(e).len + Taken(e) /\ Cur(e).len \in Nat
            /\ Cur(e).len + count[e] <= MaxLength
        BY <1>1, FillFrames, WriteFacts
      <3> QED
        BY <3>1, <1>2, <1>3, PublisherAssumption
    <2>2. header[e].granule = curGranule[e] - 1 /\ header[e].ts = Cur(e)'.ts
          /\ curGranule[e] <= clock
      BY <1>1, FillFrames DEF EncoderInv, Placed
    <2> QED
      BY <2>1, <2>2, <1>2, <1>3 DEF Placed
  <1>7. Buffered(e)'
    <2>1. frames'[e][(curGranule'[e] - 1) + 1] = Cur(e)'
      BY <1>2 DEF Cur
    <2>2. CASE FillsPacket(e)
      <3>1. /\ Cur(e)'.len = seq[e] * PayloadSize + PayloadSize
            /\ seq[e] * PayloadSize \in Nat
        BY <2>2, <1>2, FillSlice, Successor
      <3>2. /\ Cur(e)'.len = (seq[e] + 1) * PayloadSize /\ (seq[e] + 1) * PayloadSize \in Nat
        BY <3>1, <1>2, Successor
      <3>3. SliceOf(e, curGranule[e] - 1, seq[e] + 1, Cur(e)'.len) = <<>>
        <4> DEFINE g == curGranule[e] - 1
                   q == seq[e] + 1
                   len == Cur(e)'.len
        <4>1. q \in Nat /\ len \in Nat /\ len = q * PayloadSize + 0 /\ q * PayloadSize \in Nat
          BY <3>2, <1>2
        <4> HIDE DEF g, q, len
        <4>2. SliceOf(e, g, q, len) = Run(e, g, q * PayloadSize, 0)
          BY <4>1, LastSlice, PublisherAssumption
        <4>3. Run(e, g, q * PayloadSize, 0) = <<>>
          BY <4>1, EmptyRun
        <4> QED
          BY <4>2, <4>3 DEF g, q, len
      <3>4. payload'[e] = Slice(e, curGranule[e] - 1, seq[e])'
        BY <3>3, <2>1, <2>2, <1>2, <1>4 DEF Slice, SliceOf
      <3>5. Cur(e)'.len = seq'[e] * PayloadSize + Len(payload'[e])
        BY <3>2, <2>2, <1>4
      <3> QED
        BY <3>4, <3>5 DEF Buffered
    <2>3. CASE ~FillsPacket(e)
      <3>1. payload'[e] = Slice(e, curGranule[e] - 1, seq[e])'
        BY <2>1, <2>3, <1>2, <1>4, FillSlice DEF Slice, SliceOf
      <3>2. Cur(e)'.len = seq'[e] * PayloadSize + Len(payload'[e])
        BY <2>3, <1>4, FillSlice
      <3> QED
        BY <3>1, <3>2 DEF Buffered
    <2> QED
      BY <2>2, <2>3
  <1>8. SentSoFar(e)'
    <2>1. \A p \in SentBy(e) :
            /\ p.seq \in Nat /\ p.granule < curGranule[e]
            /\ p.granule = curGranule[e] - 1 => p.seq < seq[e]
      BY <1>1, SentTyped DEF EncoderInv, SentSoFar
    <2> QED
      BY <2>1, <1>2, <1>4, <1>5 DEF SentSoFar
  <1>9. NoneSkipped(e)'
    <2>1. \A s \in 0..(seq[e] - 1) : \E p \in SentBy(e) : p.granule = curGranule[e] - 1 /\ p.seq = s
      BY <1>1 DEF EncoderInv, NoneSkipped
    <2> SUFFICES ASSUME NEW s \in 0..(seq'[e] - 1)
                 PROVE  \E p \in SentBy(e)' : p.granule = curGranule[e] - 1 /\ p.seq = s
      BY <1>2 DEF NoneSkipped
    <2>2. CASE s = seq[e]
      BY <2>2, <1>2, <1>4, <1>5
    <2>3. CASE s # seq[e]
      <3>1. s \in 0..(seq[e] - 1)
        BY <2>3, <1>2, <1>4
      <3> QED
        BY <3>1, <2>1, <1>4
    <2> QED
      BY <2>2, <2>3
  <1>10. Tiles(e)'
    <2> SUFFICES ASSUME NEW p \in SentBy(e)'
                 PROVE  /\ p.data = Slice(e, p.granule, p.seq)'
                        /\ p.ts = frames'[e][p.granule + 1].ts
      BY DEF Tiles
    <2>1. CASE p \in SentBy(e)
      BY <2>1, FillTilesOld
    <2>2. CASE FillsPacket(e) /\ p = Pkt(e, Filled(e))
      <3>1. p.granule + 1 = curGranule'[e]
        BY <2>2, <1>2, <1>5
      <3>2. frames'[e][p.granule + 1] = Cur(e)'
        BY <3>1 DEF Cur
      <3>3. p.data = SliceOf(e, p.granule, p.seq, frames'[e][p.granule + 1].len)
        BY <3>2, <2>2, <1>5, FillSlice
      <3>4. p.ts = frames'[e][p.granule + 1].ts
        BY <3>2, <2>2, <1>5, FillFrames
      <3> QED
        BY <3>3, <3>4 DEF Slice, SliceOf
    <2> QED
      BY <2>1, <2>2, <1>4
  <1>11. Whole(e)'
    <2> SUFFICES ASSUME NEW g \in 0..(Len(frames'[e]) - 1),
                        g + 1 < curGranule'[e] \/ pc'[e] \in {"loop", "take", "done"},
                        NEW s \in 0..MaxLength,
                        s * PayloadSize < frames'[e][g + 1].len
                 PROVE  \E p \in SentBy(e)' : p.granule = g /\ p.seq = s
      BY DEF Whole
    <2>1. g \in Nat /\ g + 1 < curGranule[e]
      BY <1>2, <1>3, FillFrames
    <2>2. frames'[e][g + 1] = frames[e][g + 1] /\ g \in 0..(Len(frames[e]) - 1)
      BY <2>1, FillFrames
    <2>3. \E p \in SentBy(e) : p.granule = g /\ p.seq = s
      BY <2>1, <2>2, <1>1 DEF EncoderInv, Whole
    <2> QED
      BY <2>3, <1>4
  <1> QED
    BY <1>6, <1>7, <1>8, <1>9, <1>10, <1>11 DEF EncoderInv

\* The frame ends: forceSend() sends what is left in the buffer.
LEMMA FinishFrameInv ==
  ASSUME IInv, NEW e \in Encoders, FinishFrame(e)
  PROVE  EncoderInv(e)'
  <1>1. TypeOK /\ EncoderInv(e) /\ Busy(e) /\ ForceSend(e)
    BY DEF IInv, FinishFrame, Busy
  <1>2. /\ pc'[e] = "loop" /\ ~Busy(e)' /\ clock' = clock
        /\ curGranule' = curGranule /\ frames' = frames /\ header' = header
    BY <1>1 DEF FinishFrame, TypeOK, Busy
  <1>3. IF payload[e] # <<>>
        THEN /\ SentBy(e)' = SentBy(e) \cup {Pkt(e, payload[e])}
             /\ payload'[e] = <<>>
        ELSE /\ SentBy(e)' = SentBy(e)
             /\ payload'[e] = <<>>
    <2>1. CASE payload[e] # <<>>
      BY <2>1, <1>1, SendPktFacts DEF ForceSend
    <2>2. CASE payload[e] = <<>>
      BY <2>2, <1>1 DEF ForceSend, SentBy
    <2> QED
      BY <2>1, <2>2
  <1>4. /\ Pkt(e, payload[e]).granule = curGranule[e] - 1
        /\ Pkt(e, payload[e]).seq = seq[e]
        /\ Pkt(e, payload[e]).ts = Cur(e).ts
        /\ Pkt(e, payload[e]).data = payload[e]
    BY <1>1 DEF Pkt, EncoderInv, Placed
  <1>5. curGranule[e] \in Nat /\ curGranule[e] >= 1 /\ seq[e] \in Nat
    <2>1. curGranule[e] \in 0..MaxFrames /\ seq[e] \in Nat
      BY <1>1, TypeOf
    <2> QED
      BY <2>1, <1>1, PublisherAssumption DEF EncoderInv, Placed
  <1>6. Placed(e)'
    BY <1>1, <1>2, <1>3 DEF EncoderInv, Placed
  <1>7. Buffered(e)' /\ NoneSkipped(e)'
    BY <1>2 DEF Buffered, NoneSkipped
  <1>8. SentSoFar(e)'
    BY <1>1, <1>2, <1>3, <1>4, <1>5 DEF EncoderInv, SentSoFar
  <1>9. Tiles(e)'
    <2> SUFFICES ASSUME NEW p \in SentBy(e)'
                 PROVE  p.data = Slice(e, p.granule, p.seq) /\ p.ts = frames[e][p.granule + 1].ts
      BY <1>2 DEF Tiles, Slice
    <2>1. CASE p \in SentBy(e)
      BY <2>1, <1>1 DEF EncoderInv, Tiles
    <2>2. CASE p = Pkt(e, payload[e])
      <3>1. p.granule + 1 = curGranule[e]
        BY <2>2, <1>4, <1>5
      <3>2. payload[e] = Slice(e, curGranule[e] - 1, seq[e])
        BY <1>1 DEF EncoderInv, Buffered
      <3> QED
        BY <3>1, <3>2, <2>2, <1>4 DEF Cur
    <2> QED
      BY <2>1, <2>2, <1>3
  <1>10. Whole(e)'
    <2> SUFFICES ASSUME NEW g \in 0..(Len(frames[e]) - 1), NEW s \in 0..MaxLength,
                        s * PayloadSize < frames[e][g + 1].len
                 PROVE  \E p \in SentBy(e)' : p.granule = g /\ p.seq = s
      BY <1>2 DEF Whole
    <2>1. Len(frames[e]) = curGranule[e]
      BY <1>1, TypeOf
    <2>2. CASE g + 1 < curGranule[e]
      <3>1. \E p \in SentBy(e) : p.granule = g /\ p.seq = s
        BY <2>2, <1>1 DEF EncoderInv, Whole
      <3> QED
        BY <3>1, <1>3
    <2>3. CASE g + 1 = curGranule[e]
      <3>1. g = curGranule[e] - 1
        BY <2>1, <2>3, <1>5
      <3>2. /\ frames[e][g + 1].len = seq[e] * PayloadSize + Len(payload[e])
            /\ Len(payload[e]) \in Nat /\ Len(payload[e]) < PayloadSize
        <4>1. frames[e][g + 1] = Cur(e)
          BY <2>3 DEF Cur
        <4>2. Cur(e).len = seq[e] * PayloadSize + Len(payload[e])
          BY <1>1 DEF EncoderInv, Buffered
        <4>3. Len(payload[e]) \in Nat /\ Len(payload[e]) < PayloadSize
          BY <1>1, TypeOf
        <4> QED
          BY <4>1, <4>2, <4>3
      <3>3. s \in Nat
        BY PublisherAssumption
      <3>4. CASE s < seq[e]
        <4>1. \E p \in SentBy(e) : p.granule = curGranule[e] - 1 /\ p.seq = s
          <5>1. s \in 0..(seq[e] - 1)
            BY <3>3, <3>4, <1>5
          <5> QED
            BY <5>1, <1>1 DEF EncoderInv, NoneSkipped
        <4> QED
          BY <4>1, <3>1, <1>3
      <3>5. CASE s = seq[e]
        <4>1. Len(payload[e]) # 0
          <5>1. seq[e] * PayloadSize \in Nat
            BY <1>5, Successor
          <5>2. seq[e] * PayloadSize < seq[e] * PayloadSize + Len(payload[e])
            BY <3>2, <3>5
          <5> QED
            BY <5>1, <5>2, <3>2
        <4>2. payload[e] # <<>>
          BY <4>1
        <4> QED
          BY <4>2, <3>1, <3>5, <1>3, <1>4
      <3>6. CASE s > seq[e]
        <4>1. (seq[e] + 1) * PayloadSize <= s * PayloadSize
          BY <3>3, <3>6, <1>5, Monotone
        <4>2. /\ (seq[e] + 1) * PayloadSize = seq[e] * PayloadSize + PayloadSize
              /\ seq[e] * PayloadSize \in Nat /\ s * PayloadSize \in Nat
          BY <3>3, <1>5, Successor
        <4> QED
          BY <4>1, <4>2, <3>2, PublisherAssumption
      <3> QED
        BY <3>3, <3>4, <3>5, <3>6, <1>5
    <2> QED
      BY <2>1, <2>2, <2>3, <1>5
  <1> QED
    BY <1>6, <1>7, <1>8, <1>9, <1>10 DEF EncoderInv

-----------------------------------------------------------------------------
(* Type correctness, one lemma for each group of actions.                  *)

\* The part of TypeOK that is about what is in the packets and the frames.
DataOK ==
  /\ payload \in [Encoders -> Seq(Bytes)]
  /\ \A e \in Encoders : Len(payload[e]) < PayloadSize
  /\ frames \in [Encoders -> Seq([len : 0..MaxLength, ts : Nat])]
  /\ \A e \in Encoders : Len(frames[e]) = curGranule[e]
  /\ wire \subseteq Packets
  /\ dropped \subseteq Packets

\* ... about the threads ...
ThreadsOK ==
  /\ recorder \in {"live", "closing", "unpublishing", "gone"}
  /\ current \in Encoders
  /\ pc \in [Encoders -> {"off", "loop", "take", "compress", "write", "done"}]

\* ... about the flags ...
FlagsOK == canPublish \in BOOLEAN /\ released \in [Encoders -> BOOLEAN]

\* ... and about the numbers.
NumbersOK ==
  /\ curGranule \in [Encoders -> 0..MaxFrames]
  /\ header \in [Encoders -> [granule : Nat, ts : Nat]]
  /\ seq \in [Encoders -> Nat]
  /\ count \in [Encoders -> 0..MaxLength]
  /\ clock \in Nat

LEMMA TypeParts == TypeOK <=> DataOK /\ ThreadsOK /\ FlagsOK /\ NumbersOK
  BY Zenon DEF TypeOK, DataOK, ThreadsOK, FlagsOK, NumbersOK

LEMMA TypePartsNext ==
  ASSUME DataOK', ThreadsOK', FlagsOK', NumbersOK'
  PROVE  TypeOK'
  BY Zenon DEF TypeOK, DataOK, ThreadsOK, FlagsOK, NumbersOK

\* A packet of what stands in the buffer is a packet.
LEMMA PktTyped ==
  ASSUME TypeOK, NEW e \in Encoders, NEW data \in Seq(Bytes)
  PROVE  Pkt(e, data) \in Packets
  <1>1. e \in 0..NumEncoders
    BY PublisherAssumption DEF Encoders
  <1>2. header[e].granule \in Nat /\ header[e].ts \in Nat /\ seq[e] \in Nat
    BY DEF TypeOK
  <1> QED
    BY <1>1, <1>2 DEF Pkt, Packets

LEMMA SendPktType ==
  ASSUME TypeOK, NEW e \in Encoders, NEW data \in Seq(Bytes), SendPkt(e, data)
  PROVE  /\ payload' \in [Encoders -> Seq(Bytes)]
         /\ \A f \in Encoders : Len(payload'[f]) < PayloadSize
         /\ wire' \subseteq Packets /\ dropped' \subseteq Packets
         /\ seq' \in [Encoders -> Nat]
  <1>1. wire' \subseteq Packets /\ dropped' \subseteq Packets
    BY PktTyped, SendPktFacts, SendTyped
  <1>2. payload' = [payload EXCEPT ![e] = <<>>] /\ seq' = [seq EXCEPT ![e] = @ + 1]
    BY DEF SendPkt
  <1>3. payload' \in [Encoders -> Seq(Bytes)]
    BY <1>2 DEF TypeOK
  <1>4. \A f \in Encoders : Len(payload'[f]) < PayloadSize
    BY <1>2, PublisherAssumption DEF TypeOK
  <1>5. seq' \in [Encoders -> Nat]
    BY <1>2 DEF TypeOK
  <1> QED
    BY <1>1, <1>3, <1>4, <1>5

\* The actions that neither touch the buffers nor send.
LEMMA QuietType ==
  ASSUME TypeOK,
         \/ StartPublish \/ StopPublish \/ InitPreview \/ ReleaseEncoder \/ Unpublish
         \/ \E e \in Encoders :
              \/ CheckReleased(e) \/ Interrupted(e)
              \/ \E n \in 1..MaxLength : Write(e, n)
  PROVE  TypeOK'
  <1>1. DataOK /\ ThreadsOK /\ FlagsOK /\ NumbersOK
    BY TypeParts
  <1> USE DEF StartPublish, StopPublish, InitPreview, ReleaseEncoder, Unpublish,
              CheckReleased, Interrupted, Write, encoderVars
  <1>2. DataOK'
    <2>1. UNCHANGED <<payload, frames, curGranule, wire, dropped>>
      OBVIOUS
    <2> QED
      BY <2>1, <1>1 DEF DataOK
  <1>3. ThreadsOK'
    <2>1. current' \in Encoders /\ recorder' \in {"live", "closing", "unpublishing", "gone"}
      BY <1>1, PublisherAssumption DEF ThreadsOK, Encoders
    <2>2. pc' \in [Encoders -> {"off", "loop", "take", "compress", "write", "done"}]
      BY <1>1 DEF ThreadsOK
    <2> QED
      BY <2>1, <2>2 DEF ThreadsOK
  <1>4. FlagsOK'
    BY <1>1 DEF FlagsOK
  <1>5. NumbersOK'
    BY <1>1, PublisherAssumption DEF NumbersOK
  <1> QED
    BY <1>2, <1>3, <1>4, <1>5, TypePartsNext

LEMMA SendFinType ==
  ASSUME TypeOK, SendFin
  PROVE  TypeOK'
  <1>1. DataOK /\ ThreadsOK /\ FlagsOK /\ NumbersOK
    BY TypeParts
  <1>2. DataOK'
    <2>1. FIN_PKT \in Packets
      BY PublisherAssumption DEF FIN_PKT, Packets
    <2>2. wire' \subseteq Packets /\ dropped' \subseteq Packets
      BY <2>1, SendTyped DEF SendFin
    <2> QED
      BY <2>2, <1>1 DEF DataOK, SendFin, encoderVars
  <1>3. ThreadsOK' /\ NumbersOK'
    BY <1>1 DEF ThreadsOK, NumbersOK, SendFin, encoderVars
  <1>4. FlagsOK'
    BY <1>1, Zenon DEF FlagsOK, SendFin, encoderVars
  <1> QED
    BY <1>2, <1>3, <1>4, TypePartsNext

LEMMA EncodeFrameType ==
  ASSUME IInv, NEW e \in Encoders, EncodeFrame(e)
  PROVE  TypeOK'
  <1>1. DataOK /\ ThreadsOK /\ FlagsOK /\ NumbersOK /\ EncoderInv(e)
    BY TypeParts DEF IInv
  <1>2. /\ clock \in Nat /\ clock < MaxFrames /\ clock' = clock + 1
        /\ curGranule[e] \in Nat /\ curGranule[e] <= clock
    BY <1>1, PublisherAssumption DEF NumbersOK, EncodeFrame, EncoderInv, Placed
  <1>3. DataOK'
    <2>1. frames' = [frames EXCEPT ![e] = Append(@, [len |-> 0, ts |-> clock])]
      BY DEF EncodeFrame
    <2>2. [len |-> 0, ts |-> clock] \in [len : 0..MaxLength, ts : Nat]
      BY <1>2, PublisherAssumption
    <2>3. ASSUME NEW f \in Encoders
          PROVE  /\ frames'[f] \in Seq([len : 0..MaxLength, ts : Nat])
                 /\ Len(frames'[f]) = curGranule'[f]
      <3>1. /\ frames[f] \in Seq([len : 0..MaxLength, ts : Nat])
            /\ Len(frames[f]) = curGranule[f]
        BY <1>1 DEF DataOK
      <3>2. CASE f = e
        <4>1. frames'[e] = Append(frames[e], [len |-> 0, ts |-> clock])
          BY <2>1, <1>1 DEF DataOK
        <4>2. curGranule'[e] = curGranule[e] + 1
          BY <1>1 DEF NumbersOK, EncodeFrame
        <4>3. /\ frames'[e] \in Seq([len : 0..MaxLength, ts : Nat])
              /\ Len(frames'[e]) = Len(frames[e]) + 1
          BY <4>1, <2>2, <3>1, <3>2, AppendProperties
        <4> QED
          BY <4>2, <4>3, <3>1, <3>2
      <3>3. CASE f # e
        <4>1. frames'[f] = frames[f] /\ curGranule'[f] = curGranule[f]
          BY <2>1, <3>3, <1>1 DEF DataOK, NumbersOK, EncodeFrame
        <4> QED
          BY <4>1, <3>1
      <3> QED
        BY <3>2, <3>3
    <2>4. frames' \in [Encoders -> Seq([len : 0..MaxLength, ts : Nat])]
      <3>1. frames' = [f \in Encoders |-> frames'[f]]
        BY <2>1, <1>1 DEF DataOK
      <3> QED
        BY <3>1, <2>3
    <2> QED
      BY <2>3, <2>4, <1>1 DEF DataOK, EncodeFrame
  <1>4. ThreadsOK'
    BY <1>1 DEF ThreadsOK, EncodeFrame
  <1>5. FlagsOK'
    BY <1>1, Zenon DEF FlagsOK, EncodeFrame
  <1>6. NumbersOK'
    <2>1. curGranule[e] + 1 \in 0..MaxFrames
      BY <1>2, PublisherAssumption
    <2> QED
      BY <2>1, <1>1, <1>2, PublisherAssumption DEF NumbersOK, EncodeFrame, CreateNewRtpPkt
  <1> QED
    BY <1>3, <1>4, <1>5, <1>6, TypePartsNext

LEMMA FillPacketType ==
  ASSUME IInv, NEW e \in Encoders, FillPacket(e)
  PROVE  TypeOK'
  <1>1. /\ DataOK /\ ThreadsOK /\ FlagsOK /\ NumbersOK /\ TypeOK
        /\ pc[e] = "write"
    BY TypeParts DEF IInv, FillPacket
  <1>2. Filled(e) \in Seq(Bytes) /\ Taken(e) \in Nat /\ Taken(e) <= count[e]
    BY <1>1, FillFacts
  <1>3. /\ payload' \in [Encoders -> Seq(Bytes)]
        /\ \A f \in Encoders : Len(payload'[f]) < PayloadSize
        /\ wire' \subseteq Packets /\ dropped' \subseteq Packets
        /\ seq' \in [Encoders -> Nat]
    <2>1. CASE FillsPacket(e)
      <3>1. SendPkt(e, Filled(e))
        BY <2>1, <1>1, FillStep
      <3> QED
        BY <3>1, <1>1, <1>2, SendPktType
    <2>2. CASE ~FillsPacket(e)
      <3>1. payload' = [payload EXCEPT ![e] = Filled(e)] /\ UNCHANGED <<seq, wire, dropped>>
        BY <2>2, <1>1, FillStep
      <3>2. Len(Filled(e)) < PayloadSize
        <4>1. /\ Len(Filled(e)) = Len(payload[e]) + Taken(e)
              /\ Len(payload[e]) + Taken(e) <= PayloadSize
              /\ Len(payload[e]) + Taken(e) # PayloadSize
          BY <2>2, <1>1, FillFacts
        <4>2. Len(payload[e]) \in Nat
          BY <1>1, TypeOf
        <4> QED
          BY <4>1, <4>2, <1>2, PublisherAssumption
      <3>3. payload' \in [Encoders -> Seq(Bytes)]
        BY <3>1, <1>1, <1>2 DEF DataOK
      <3>4. \A f \in Encoders : Len(payload'[f]) < PayloadSize
        BY <3>1, <3>2, <1>1 DEF DataOK
      <3> QED
        BY <3>1, <3>3, <3>4, <1>1 DEF DataOK, NumbersOK
    <2> QED
      BY <2>1, <2>2
  <1>4. DataOK'
    <2>1. ASSUME NEW f \in Encoders
          PROVE  /\ frames'[f] \in Seq([len : 0..MaxLength, ts : Nat])
                 /\ Len(frames'[f]) = curGranule'[f]
      <3>1. CASE f = e
        <4>1. /\ frames'[e] \in Seq([len : 0..MaxLength, ts : Nat])
              /\ Len(frames'[e]) = curGranule[e] /\ curGranule'[e] = curGranule[e]
          BY FillFrames
        <4> QED
          BY <4>1, <3>1
      <3>2. CASE f # e
        <4>1. frames'[f] = frames[f] /\ curGranule' = curGranule
          BY <3>2, <1>1 DEF DataOK, FillPacket
        <4> QED
          BY <4>1, <1>1 DEF DataOK
      <3> QED
        BY <3>1, <3>2
    <2>2. frames' \in [Encoders -> Seq([len : 0..MaxLength, ts : Nat])]
      <3>1. frames' = [f \in Encoders |-> frames'[f]]
        BY <1>1 DEF DataOK, FillPacket
      <3> QED
        BY <3>1, <2>1
    <2> QED
      BY <2>1, <2>2, <1>3 DEF DataOK
  <1>5. ThreadsOK'
    BY <1>1 DEF ThreadsOK, FillPacket
  <1>6. FlagsOK'
    BY <1>1, Zenon DEF FlagsOK, FillPacket
  <1>7. NumbersOK'
    <2>1. count' = [count EXCEPT ![e] = @ - Taken(e)]
      BY DEF FillPacket, Taken
    <2>2. count[e] - Taken(e) \in 0..MaxLength
      BY <1>1, <1>2, PublisherAssumption DEF NumbersOK
    <2>3. count' \in [Encoders -> 0..MaxLength]
      BY <2>1, <2>2, <1>1 DEF NumbersOK
    <2> QED
      BY <2>3, <1>1, <1>3 DEF NumbersOK, FillPacket
  <1> QED
    BY <1>4, <1>5, <1>6, <1>7, TypePartsNext

LEMMA FinishFrameType ==
  ASSUME TypeOK, NEW e \in Encoders, FinishFrame(e)
  PROVE  TypeOK'
  <1>1. /\ DataOK /\ ThreadsOK /\ FlagsOK /\ NumbersOK /\ ForceSend(e)
        /\ payload[e] \in Seq(Bytes)
    BY TypeParts, TypeOf DEF FinishFrame
  <1>2. /\ payload' \in [Encoders -> Seq(Bytes)]
        /\ \A f \in Encoders : Len(payload'[f]) < PayloadSize
        /\ wire' \subseteq Packets /\ dropped' \subseteq Packets
        /\ seq' \in [Encoders -> Nat]
    <2>1. CASE payload[e] # <<>>
      <3>1. SendPkt(e, payload[e])
        BY <2>1, <1>1 DEF ForceSend
      <3> QED
        BY <3>1, <1>1, SendPktType
    <2>2. CASE payload[e] = <<>>
      BY <2>2, <1>1 DEF ForceSend, DataOK, NumbersOK
    <2> QED
      BY <2>1, <2>2
  <1>3. DataOK'
    BY <1>1, <1>2 DEF DataOK, FinishFrame
  <1>4. ThreadsOK'
    BY <1>1 DEF ThreadsOK, FinishFrame
  <1>5. FlagsOK'
    BY <1>1, Zenon DEF FlagsOK, FinishFrame
  <1>6. NumbersOK'
    BY <1>1, <1>2 DEF NumbersOK, FinishFrame
  <1> QED
    BY <1>3, <1>4, <1>5, <1>6, TypePartsNext

-----------------------------------------------------------------------------
(* The invariant is inductive.                                             *)

\* The steps that move no encoder's thread.
LEMMA GateInv ==
  ASSUME IInv, NEW e \in Encoders,
         StartPublish \/ StopPublish \/ ReleaseEncoder \/ SendFin \/ Unpublish
  PROVE  EncoderInv(e)'
  <1>1. EncoderInv(e) /\ TypeOK /\ clock \in Nat
    BY DEF IInv, TypeOK
  <1>2. UNCHANGED <<pc, curGranule, header, payload, seq, count, frames, clock>>
    BY DEF StartPublish, StopPublish, ReleaseEncoder, SendFin, Unpublish, encoderVars
  <1>3. SentBy(e)' = SentBy(e)
    <2>1. CASE SendFin
      <3>1. wire' \cup dropped' = wire \cup dropped \cup {FIN_PKT}
        BY <2>1, SendOffers DEF SendFin
      <3>2. FIN_PKT.by # e
        BY PublisherAssumption DEF FIN_PKT, Encoders
      <3> QED
        BY <3>1, <3>2 DEF SentBy
    <2>2. CASE ~SendFin
      BY <2>2 DEF StartPublish, StopPublish, ReleaseEncoder, Unpublish, SentBy
    <2> QED
      BY <2>1, <2>2
  <1>4. pc[e] = "write" => Cur(e).len + count[e] <= MaxLength
    BY <1>1 DEF EncoderInv, Placed
  <1>5. Busy(e)' <=> Busy(e)
    BY <1>2 DEF Busy
  <1> QED
    BY <1>1, <1>2, <1>3, <1>4, <1>5, QuietKeeps

\* An encoder's thread is started, moves on between frames, or begins a
\* write() call.
LEMMA MoveInv ==
  ASSUME IInv, NEW e \in Encoders,
         \/ InitPreview /\ e = current + 1
         \/ CheckReleased(e)
         \/ Interrupted(e)
         \/ \E n \in 1..MaxLength : Write(e, n)
  PROVE  EncoderInv(e)'
  <1>1. EncoderInv(e) /\ TypeOK /\ clock \in Nat /\ Unstarted
    BY DEF IInv, TypeOK
  <1>2. UNCHANGED <<curGranule, header, payload, seq, frames, clock, wire, dropped>>
    BY DEF InitPreview, CheckReleased, Interrupted, Write
  <1>3. \/ /\ pc[e] \in {"off", "loop", "take"} /\ pc'[e] \in {"loop", "take", "done"}
           /\ pc[e] = "off" => curGranule[e] = 0
        \/ /\ pc[e] = "compress" /\ pc'[e] = "write"
           /\ Cur(e).len + count'[e] <= MaxLength
    <2>1. CASE InitPreview /\ e = current + 1
      <3>1. pc[e] = "off"
        <4>1. current \in Nat
          BY <1>1 DEF TypeOK, Encoders
        <4> QED
          BY <4>1, <2>1, <1>1 DEF Unstarted
      <3>2. curGranule[e] = 0
        BY <3>1, <1>1 DEF EncoderInv, Placed
      <3> QED
        BY <3>1, <3>2, <2>1, <1>1 DEF InitPreview, TypeOK
    <2>2. CASE CheckReleased(e) \/ Interrupted(e)
      BY <2>2, <1>1 DEF CheckReleased, Interrupted, TypeOK
    <2>3. ASSUME NEW n \in 1..MaxLength, Write(e, n)
          PROVE  /\ pc[e] = "compress" /\ pc'[e] = "write"
                 /\ Cur(e).len + count'[e] <= MaxLength
      BY <2>3, <1>1 DEF Write, TypeOK, Cur
    <2> QED
      BY <2>1, <2>2, <2>3
  <1>4. SentBy(e)' = SentBy(e)
    BY <1>2 DEF SentBy
  <1>5. Busy(e)' <=> Busy(e)
    BY <1>3 DEF Busy
  <1> QED
    BY <1>1, <1>2, <1>3, <1>4, <1>5, QuietKeeps

LEMMA UnstartedInv ==
  ASSUME IInv, [Next]_vars
  PROVE  Unstarted'
  <1>1. TypeOK /\ Unstarted /\ current \in Nat
    <2>1. TypeOK /\ Unstarted
      BY DEF IInv
    <2>2. current \in Encoders
      BY <2>1 DEF TypeOK
    <2> QED
      BY <2>1, <2>2 DEF Encoders
  <1>2. CASE InitPreview
    BY <1>1, <1>2 DEF InitPreview, Unstarted, TypeOK, Encoders
  <1>3. ASSUME NEW e \in Encoders, Encoder(e) PROVE Unstarted'
    <2>1. /\ current' = current /\ pc[e] # "off"
          /\ \A f \in Encoders : f # e => pc'[f] = pc[f]
      BY <1>1, <1>3 DEF Encoder, CheckReleased, Interrupted, EncodeFrame, Write,
                        FillPacket, FinishFrame, TypeOK
    <2>2. ~(e > current)
      BY <2>1, <1>1 DEF Unstarted
    <2> QED
      BY <2>1, <2>2, <1>1 DEF Unstarted
  <1>4. CASE \/ StartPublish \/ StopPublish \/ ReleaseEncoder \/ SendFin \/ Unpublish
             \/ UNCHANGED vars
    BY <1>1, <1>4 DEF StartPublish, StopPublish, ReleaseEncoder, SendFin, Unpublish,
                      encoderVars, vars, Unstarted
  <1> QED
    BY <1>2, <1>3, <1>4 DEF Next

\* A step of one encoder leaves the others as they are.
LEMMA OthersInv ==
  ASSUME IInv, NEW e \in Encoders, NEW f \in Encoders, f # e,
         Encoder(e) \/ (InitPreview /\ e = current + 1)
  PROVE  EncoderInv(f)'
  <1>1. TypeOK /\ clock \in Nat
    BY DEF IInv, TypeOK
  <1>2. /\ pc'[f] = pc[f] /\ curGranule'[f] = curGranule[f] /\ header'[f] = header[f]
        /\ payload'[f] = payload[f] /\ seq'[f] = seq[f] /\ count'[f] = count[f]
        /\ frames'[f] = frames[f]
    BY <1>1 DEF Encoder, CheckReleased, Interrupted, EncodeFrame, CreateNewRtpPkt, Write,
                FillPacket, FinishFrame, ForceSend, SendPkt, InitPreview, TypeOK
  <1>3. clock' \in Nat /\ clock <= clock'
    <2>1. clock' = clock \/ clock' = clock + 1
      BY DEF Encoder, CheckReleased, Interrupted, EncodeFrame, Write,
             FillPacket, FinishFrame, InitPreview
    <2> QED
      BY <2>1, <1>1
  <1>4. \/ UNCHANGED <<wire, dropped>>
        \/ \E pkt : Send(pkt) /\ pkt.by = e
    <2>1. ASSUME NEW data, SendPkt(e, data) PROVE \E pkt : Send(pkt) /\ pkt.by = e
      <3>1. Send(Pkt(e, data)) /\ Pkt(e, data).by = e
        BY <2>1 DEF SendPkt, Pkt
      <3> QED
        BY <3>1
    <2>2. CASE FillPacket(e)
      <3>1. SendPkt(e, Filled(e)) \/ UNCHANGED <<wire, dropped>>
        BY <2>2, <1>1, FillStep
      <3> QED
        BY <3>1, <2>1
    <2>3. CASE FinishFrame(e)
      <3>1. SendPkt(e, payload[e]) \/ UNCHANGED <<wire, dropped>>
        BY <2>3 DEF FinishFrame, ForceSend
      <3> QED
        BY <3>1, <2>1
    <2>4. CASE ~FillPacket(e) /\ ~FinishFrame(e)
      BY <2>4 DEF Encoder, CheckReleased, Interrupted, EncodeFrame, Write, InitPreview
    <2> QED
      BY <2>2, <2>3, <2>4
  <1> QED
    BY <1>2, <1>3, <1>4, OthersKeep

LEMMA StepInv == IInv /\ [Next]_vars => IInv'
  <1> SUFFICES ASSUME IInv, [Next]_vars PROVE IInv'
    OBVIOUS
  <1>1. TypeOK /\ clock <= MaxFrames /\ clock \in Nat
    BY DEF IInv, TypeOK
  <1>2. Unstarted'
    BY UnstartedInv
  <1>3. TypeOK'
    <2>1. ASSUME NEW e \in Encoders, Encoder(e) PROVE TypeOK'
      BY <2>1, <1>1, QuietType, EncodeFrameType, FillPacketType, FinishFrameType DEF Encoder
    <2>2. CASE StartPublish \/ StopPublish \/ InitPreview \/ ReleaseEncoder \/ Unpublish
      BY <2>2, <1>1, QuietType
    <2>3. CASE SendFin
      BY <2>3, <1>1, SendFinType
    <2>4. CASE UNCHANGED vars
      <3>1. DataOK /\ ThreadsOK /\ FlagsOK /\ NumbersOK
        BY <1>1, TypeParts
      <3>2. DataOK' /\ ThreadsOK' /\ NumbersOK'
        BY <2>4, <3>1 DEF DataOK, ThreadsOK, NumbersOK, vars, encoderVars
      <3>3. FlagsOK'
        BY <2>4, <3>1, Zenon DEF FlagsOK, vars, encoderVars
      <3> QED
        BY <3>2, <3>3, TypePartsNext
    <2> QED
      BY <2>1, <2>2, <2>3, <2>4 DEF Next
  <1>4. clock' <= MaxFrames
    <2>1. clock' = clock \/ (clock < MaxFrames /\ clock' = clock + 1)
      BY DEF Next, StartPublish, StopPublish, InitPreview, ReleaseEncoder, SendFin, Unpublish,
             Encoder, CheckReleased, Interrupted, EncodeFrame, Write, FillPacket, FinishFrame,
             encoderVars, vars
    <2> QED
      BY <2>1, <1>1, PublisherAssumption
  <1>5. ASSUME NEW f \in Encoders PROVE EncoderInv(f)'
    <2>1. ASSUME NEW e \in Encoders, Encoder(e) PROVE EncoderInv(f)'
      <3>1. CASE f = e
        BY <3>1, <2>1, MoveInv, EncodeFrameInv, FillPacketInv, FinishFrameInv DEF Encoder
      <3>2. CASE f # e
        BY <3>2, <2>1, OthersInv
      <3> QED
        BY <3>1, <3>2
    <2>2. CASE InitPreview
      <3>1. current + 1 \in Encoders
        BY <2>2, <1>1, PublisherAssumption DEF InitPreview, TypeOK, Encoders
      <3> QED
        BY <3>1, <2>2, MoveInv, OthersInv
    <2>3. CASE StartPublish \/ StopPublish \/ ReleaseEncoder \/ SendFin \/ Unpublish
      BY <2>3, GateInv
    <2>4. CASE UNCHANGED vars
      <3>1. EncoderInv(f)
        BY DEF IInv
      <3> QED
        BY <2>4, <3>1 DEF EncoderInv, Placed, Buffered, SentSoFar, NoneSkipped, Tiles, Whole,
                          Busy, Cur, SentBy, Slice, vars, encoderVars
    <2> QED
      BY <2>1, <2>2, <2>3, <2>4 DEF Next
  <1> QED
    BY <1>2, <1>3, <1>4, <1>5 DEF IInv

-----------------------------------------------------------------------------
(* What follows for every behaviour.                                       *)

\* In every state of every behaviour: the domains, and that no full packet is
\* left in the buffer by a write() call (BARtpPublisherOutputStream).
THEOREM PublisherTypeOK == Spec => []TypeOK
  <1>1. IInv => TypeOK
    BY DEF IInv
  <1> QED
    BY InitInv, StepInv, <1>1, PTL DEF Spec

\* Whatever the sizes of the frames, of the packets and of the write() calls
\* of the JPEG compressor, a packet that sendPkt() hands to the publisher
\* carries exactly the slice of the frame that its header names.
THEOREM PublisherTiles == Spec => []FragmentsTile
  <1>1. IInv => FragmentsTile
    BY DEF IInv, EncoderInv, Tiles, FragmentsTile
  <1> QED
    BY InitInv, StepInv, <1>1, PTL DEF Spec

\* Once encodeFrame() has returned, every slice of the frame was handed to the
\* publisher: forceSend() leaves no tail behind.
THEOREM PublisherWhole == Spec => []FramesWhole
  <1>1. IInv => FramesWhole
    BY DEF IInv, EncoderInv, Whole, FramesWhole
  <1> QED
    BY InitInv, StepInv, <1>1, PTL DEF Spec

\* The packets of one encoder leave in increasing order of granule and
\* sequence number, the order that the subscriber's tests assume.
THEOREM PublisherOrdered == Spec => EncoderOrdered
  <1> DEFINE Ordered == \A p \in NewOnWire : \A q \in wire : (q.by = p.by /\ p # FIN_PKT) =>
                           \/ q.granule < p.granule
                           \/ q.granule = p.granule /\ q.seq < p.seq
  <1>1. ASSUME IInv, Next PROVE Ordered
    <2> SUFFICES ASSUME NEW p \in wire', p \notin wire, NEW q \in wire,
                        q.by = p.by, p # FIN_PKT
                 PROVE  \/ q.granule < p.granule
                        \/ q.granule = p.granule /\ q.seq < p.seq
      BY DEF NewOnWire
    <2>1. TypeOK /\ \A e \in Encoders : EncoderInv(e)
      BY <1>1 DEF IInv
    <2>2. PICK e \in Encoders : \E data :
            /\ Busy(e) /\ Send(Pkt(e, data)) /\ p = Pkt(e, data)
      <3>1. ASSUME NEW pkt, Send(pkt) PROVE p = pkt
        BY <3>1 DEF Send
      <3>2. ~SendFin
        BY <3>1 DEF SendFin
      <3>3. PICK e \in Encoders : \E data : Busy(e) /\ SendPkt(e, data)
        <4>1. PICK e \in Encoders : FillPacket(e) \/ FinishFrame(e)
          BY <1>1, <3>2 DEF Next, StartPublish, StopPublish, InitPreview, ReleaseEncoder,
                            Unpublish, Encoder, CheckReleased, Interrupted, EncodeFrame, Write
        <4>2. CASE FillPacket(e)
          <5>1. SendPkt(e, Filled(e)) \/ UNCHANGED wire
            BY <4>2, <2>1, FillStep
          <5>2. Busy(e)
            BY <4>2 DEF FillPacket, Busy
          <5> QED
            BY <5>1, <5>2
        <4>3. CASE FinishFrame(e)
          <5>1. SendPkt(e, payload[e]) \/ UNCHANGED wire
            BY <4>3 DEF FinishFrame, ForceSend
          <5>2. Busy(e)
            BY <4>3 DEF FinishFrame, Busy
          <5> QED
            BY <5>1, <5>2
        <4> QED
          BY <4>1, <4>2, <4>3
      <3>4. PICK data : Busy(e) /\ SendPkt(e, data)
        BY <3>3
      <3>5. Send(Pkt(e, data))
        BY <3>4 DEF SendPkt, Pkt
      <3> QED
        BY <3>1, <3>4, <3>5
    <2>3. /\ p.by = e /\ p.granule = curGranule[e] - 1 /\ p.seq = seq[e]
      BY <2>1, <2>2 DEF Pkt, EncoderInv, Placed
    <2>4. q \in SentBy(e)
      BY <2>3 DEF SentBy
    <2>5. /\ q.granule \in Nat /\ curGranule[e] \in Nat
          /\ q.granule < curGranule[e]
          /\ q.granule = curGranule[e] - 1 => q.seq < seq[e]
      <3>1. q.granule \in Nat
        BY <2>1, <2>4, SentTyped
      <3>2. curGranule[e] \in 0..MaxFrames
        BY <2>1, TypeOf
      <3> QED
        BY <3>1, <3>2, <2>1, <2>2, <2>4, PublisherAssumption DEF EncoderInv, SentSoFar
    <2> QED
      BY <2>3, <2>5
  <1>2. IInv /\ [Next]_vars => [Ordered]_vars
    BY <1>1
  <1> QED
    BY InitInv, StepInv, <1>2, PTL DEF Spec, EncoderOrdered
=============================================================================

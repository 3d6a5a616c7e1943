--------------------------- MODULE RtpFrames_proof ---------------------------
(***************************************************************************)
(* What BARtpSubscriber puts together: the fragments it collects and the   *)
(* frames it makes of them are coherent, lengths included, and the decoder *)
(* is given what FrameStream promises, for any packets, events, queue size *)
(* and frame timeout.                                                      *)
(***************************************************************************)
EXTENDS RtpSubscriber_proof, WellFoundedInduction

-----------------------------------------------------------------------------
(* Sums.  Induction on natural numbers by way of a set: what no number less *)
(* than n breaks, none breaks.                                              *)

LEMMA Least ==
  ASSUME NEW T, T \subseteq Nat, T # {}
  PROVE  \E n \in T : \A m \in T : ~(m < n)
  <1>1. IsWellFoundedOn(OpToRel(<,Nat), Nat)
    BY NatLessThanWellFounded
  <1>2. PICK n \in T : \A m \in T : ~(<<m, n>> \in OpToRel(<,Nat))
    BY <1>1, WFMin
  <1>3. \A m \in T : ~(m < n)
    BY <1>2 DEF OpToRel
  <1>4. QED BY <1>2, <1>3

LEMMA SetInduction ==
  ASSUME NEW T, 0 \in T, \A n \in Nat : n \in T => n + 1 \in T
  PROVE  Nat \subseteq T
  <1>1. SUFFICES ASSUME Nat \ T # {} PROVE FALSE
    OBVIOUS
  <1>2. PICK n \in Nat \ T : \A m \in Nat \ T : ~(m < n)
    BY <1>1, Least
  <1>3. n # 0 /\ n - 1 \in Nat /\ n - 1 < n /\ (n - 1) + 1 = n
    BY <1>2
  <1>4. n - 1 \in T
    BY <1>2, <1>3
  <1>5. QED BY <1>2, <1>3, <1>4

\* f gives the lengths of the first 0, 1, ... k fragments of data.
Sums(f, data, k) ==
  /\ f \in [0..k -> Nat]
  /\ f[0] = 0
  /\ \A i \in 1..k : f[i] = f[i - 1] + data[i].len

LEMMA SumsExist ==
  ASSUME NEW data \in Seq(Packets)
  PROVE  \E f : Sums(f, data, Len(data))
  <1> DEFINE T == {k \in Nat : k <= Len(data) => \E f : Sums(f, data, k)}
  <1>1. 0 \in T
    <2>1. Sums([i \in 0..0 |-> 0], data, 0)
      BY DEF Sums
    <2>2. QED BY <2>1
  <1>2. ASSUME NEW k \in Nat, k \in T
        PROVE  k + 1 \in T
    <2>1. CASE k + 1 <= Len(data)
      <3>1. PICK f : Sums(f, data, k)
        BY <1>2, <2>1
      <3> DEFINE g == [i \in 0..(k + 1) |-> IF i = k + 1 THEN f[k] + data[k + 1].len ELSE f[i]]
      <3>2. f[k] \in Nat /\ data[k + 1].len \in Nat
        BY <2>1, <3>1, ConstantFacts DEF Sums
      <3>3. g \in [0..(k + 1) -> Nat] /\ g[0] = 0
        BY <3>1, <3>2 DEF Sums
      <3>4. ASSUME NEW i \in 1..(k + 1)
            PROVE  g[i] = g[i - 1] + data[i].len
        <4>1. CASE i = k + 1
          BY <4>1
        <4>2. CASE i # k + 1
          <5>1. i \in 1..k /\ i \in 0..(k + 1) /\ i - 1 \in 0..(k + 1) /\ i - 1 # k + 1
            BY <4>2
          <5>2. g[i] = f[i] /\ g[i - 1] = f[i - 1]
            BY <4>2, <5>1
          <5>3. QED BY <3>1, <5>1, <5>2 DEF Sums
        <4>3. QED BY <4>1, <4>2
      <3> HIDE DEF g
      <3>5. Sums(g, data, k + 1)
        BY <3>3, <3>4 DEF Sums
      <3>6. QED BY <3>5
    <2>2. QED BY <2>1
  <1>3. Len(data) \in T
    <2> HIDE DEF T
    <2>1. QED BY <1>1, <1>2, SetInduction
  <1>4. QED BY <1>3

\* There is only one such f, as far as two reach.
LEMMA SumsAgree ==
  ASSUME NEW f, NEW g, NEW d, NEW e, NEW m \in Nat, NEW n \in Nat, m <= n,
         Sums(f, d, m), Sums(g, e, n), \A i \in 1..m : d[i] = e[i]
  PROVE  f[m] = g[m]
  <1> DEFINE T == {k \in Nat : k <= m => f[k] = g[k]}
  <1>1. 0 \in T
    BY DEF Sums
  <1>2. ASSUME NEW k \in Nat, k \in T
        PROVE  k + 1 \in T
    <2>1. CASE k + 1 <= m
      <3>1. k + 1 \in 1..m /\ k + 1 \in 1..n /\ (k + 1) - 1 = k /\ f[k] = g[k]
        BY <1>2, <2>1
      <3>2. f[k + 1] = f[k] + d[k + 1].len /\ g[k + 1] = g[k] + e[k + 1].len
        <4>1. f[k + 1] = f[(k + 1) - 1] + d[k + 1].len /\ g[k + 1] = g[(k + 1) - 1] + e[k + 1].len
          BY <3>1 DEF Sums
        <4>2. QED BY <3>1, <4>1
      <3>3. d[k + 1] = e[k + 1]
        BY <3>1
      <3>4. QED BY <3>1, <3>2, <3>3
    <2>2. QED BY <2>1
  <1>3. m \in T
    <2> HIDE DEF T
    <2>1. QED BY <1>1, <1>2, SetInduction
  <1>4. QED BY <1>3

LEMMA TotalLenSums ==
  ASSUME NEW data \in Seq(Packets)
  PROVE  \E f : Sums(f, data, Len(data)) /\ TotalLen(data) = f[Len(data)]
  <1> DEFINE rhs(f) == [n \in 0..Len(data) |-> IF n = 0 THEN 0 ELSE f[n - 1] + data[n].len]
             total == CHOOSE f : f = rhs(f)
             T == {k \in Nat : k <= Len(data) => total[k] \in Nat}
  <1>1. PICK f : Sums(f, data, Len(data))
    BY SumsExist
  <1>2. f = rhs(f)
    BY <1>1 DEF Sums
  <1>3. total = rhs(total)
    <2> HIDE DEF rhs
    <2>1. QED BY <1>2, Zenon
  <1>4. TotalLen(data) = total[Len(data)]
    BY Zenon DEF TotalLen
  <1> HIDE DEF total
  <1>5. /\ DOMAIN total = 0..Len(data) /\ total[0] = 0
        /\ \A i \in 1..Len(data) : total[i] = total[i - 1] + data[i].len
    BY <1>3
  <1> HIDE DEF rhs
  <1>6. 0 \in T
    BY <1>5
  <1>7. ASSUME NEW k \in Nat, k \in T
        PROVE  k + 1 \in T
    <2>1. CASE k + 1 <= Len(data)
      <3>1. k + 1 \in 1..Len(data) /\ (k + 1) - 1 = k /\ total[k] \in Nat
        BY <1>7, <2>1
      <3>2. total[k + 1] = total[(k + 1) - 1] + data[k + 1].len
        BY <1>5, <3>1
      <3>3. data[k + 1].len \in Nat
        BY <3>1, ConstantFacts
      <3>4. total[k + 1] \in Nat
        BY <3>1, <3>2, <3>3
      <3>5. QED BY <3>4
    <2>2. QED BY <2>1
  <1>8. Nat \subseteq T
    <2> HIDE DEF T
    <2>1. QED BY <1>6, <1>7, SetInduction
  <1>9. \A k \in 0..Len(data) : total[k] \in Nat
    BY <1>8
  <1>10. Sums(total, data, Len(data))
    <2>1. total \in [0..Len(data) -> Nat]
      <3>1. total = [k \in 0..Len(data) |-> total[k]]
        BY <1>3, <1>5 DEF rhs
      <3>2. QED BY <1>9, <3>1
    <2>2. QED BY <1>5, <2>1 DEF Sums
  <1>11. QED BY <1>4, <1>10

LEMMA TotalLenEmpty == TotalLen(<<>>) = 0
  <1>1. <<>> \in Seq(Packets) /\ Len(<<>>) = 0
    OBVIOUS
  <1>2. PICK f : Sums(f, <<>>, Len(<<>>)) /\ TotalLen(<<>>) = f[Len(<<>>)]
    BY <1>1, TotalLenSums
  <1>3. QED BY <1>1, <1>2 DEF Sums

\* One fragment more adds its length.
LEMMA TotalLenAppend ==
  ASSUME NEW data \in Seq(Packets), NEW p \in Packets
  PROVE  TotalLen(Append(data, p)) = TotalLen(data) + p.len
  <1> DEFINE more == Append(data, p)
  <1>1. PICK m \in Nat, n \in Nat : m = Len(data) /\ n = m + 1
    OBVIOUS
  <1>2. /\ more \in Seq(Packets) /\ Len(more) = n
        /\ more[n] = p /\ \A i \in 1..m : data[i] = more[i]
    BY <1>1
  <1>3. PICK f : Sums(f, data, m) /\ TotalLen(data) = f[m]
    BY <1>1, TotalLenSums
  <1> HIDE DEF more
  <1>4. PICK g : Sums(g, more, n) /\ TotalLen(more) = g[n]
    BY <1>2, TotalLenSums
  <1>5. f[m] = g[m]
    BY <1>1, <1>2, <1>3, <1>4, SumsAgree
  <1>6. n \in 1..n /\ n - 1 = m
    BY <1>1
  <1>7. g[n] = g[n - 1] + more[n].len
    BY <1>4, <1>6 DEF Sums
  <1>8. TotalLen(more) = TotalLen(data) + p.len
    BY <1>2, <1>3, <1>4, <1>5, <1>6, <1>7
  <1>9. QED BY <1>8 DEF more

-----------------------------------------------------------------------------
(* The fragments being collected.                                          *)

Fragments == [i \in DOMAIN frags |-> buffer[frags[i]]]

\* FragmentsCoherent, with curRtpDataLen exact as long as the subscriber is
\* registered (release() frees the fragments only afterwards), the timestamp
\* that of the first fragment, and an empty list only before the first granule
\* and within publishedData().
FragInv ==
  /\ \A i \in DOMAIN Fragments : Fragments[i].granule = curGranule
  /\ Ascending(Fragments)
  /\ frags # <<>> => Fragments[Len(Fragments)].seq = curSeq /\ Fragments[1].ts = curTimestamp
  /\ registered => curRtpDataLen = TotalLen(Fragments)
  /\ (registered /\ frags = <<>> /\ cb # "advance") => curGranule = -1

LEMMA FragmentsTyped ==
  ASSUME IInv
  PROVE  /\ Fragments \in Seq(Packets)
         /\ Len(Fragments) = Len(frags) /\ Len(frags) \in Nat
         /\ DOMAIN Fragments = 1..Len(frags) /\ DOMAIN frags = 1..Len(frags)
         /\ \A i \in DOMAIN frags : Fragments[i] = buffer[frags[i]]
         /\ frags = <<>> <=> Fragments = <<>>
  <1>1. frags \in Seq(Events) /\ DOMAIN frags = 1..Len(frags) /\ Len(frags) \in Nat
    BY DEF IInv, TypeOK
  <1>2. Fragments \in Seq(Packets)
    BY FrameTyped DEF IInv, Fragments
  <1>3. DOMAIN Fragments = DOMAIN frags /\ \A i \in DOMAIN frags : Fragments[i] = buffer[frags[i]]
    BY DEF Fragments
  <1>4. Len(Fragments) = Len(frags)
    BY <1>1, <1>2, <1>3
  <1>5. QED BY <1>1, <1>2, <1>3, <1>4

LEMMA FragmentsKept ==
  ASSUME UNCHANGED frags, \A i \in DOMAIN frags : buffer'[frags[i]] = buffer[frags[i]]
  PROVE  Fragments' = Fragments
  BY DEF Fragments

\* A step that neither touches the fragments nor ends an "advance" of a
\* subscriber still registered.
LEMMA FragInvKept ==
  ASSUME FragInv, Fragments' = Fragments, UNCHANGED current,
         registered' => registered,
         registered' => (cb' = "advance" <=> cb = "advance") \/ frags # <<>>
  PROVE  FragInv'
  BY DEF FragInv, current, Ascending

LEMMA FragmentAppended ==
  ASSUME IInv, FragInv, AppendFragment, UNCHANGED <<buffer, registered>>,
         cb \in {"classify", "advance"},
         curGranule' = buffer[event].granule,
         \/ curGranule' = curGranule /\ InSequence /\ frags # <<>> /\ UNCHANGED curTimestamp
         \/ frags = <<>> /\ curTimestamp' = buffer[event].ts
  PROVE  FragInv'
  <1> DEFINE p == buffer[event]
             n == Len(frags)
             F == Fragments
  <1>1. /\ F \in Seq(Packets) /\ Len(F) = n /\ n \in Nat /\ DOMAIN F = 1..n /\ DOMAIN frags = 1..n
        /\ \A i \in DOMAIN frags : F[i] = buffer[frags[i]]
        /\ frags = <<>> <=> F = <<>>
    BY FragmentsTyped
  <1>2. p \in Packets /\ event \in Events
    BY DEF IInv, TypeOK, EventsKnown
  <1>3. /\ frags' = Append(frags, event) /\ curRtpDataLen' = curRtpDataLen + p.len
        /\ curSeq' = p.seq /\ cb' = "idle"
    BY DEF AppendFragment
  <1>4. /\ DOMAIN frags' = 1..(n + 1) /\ frags'[n + 1] = event /\ \A i \in 1..n : frags'[i] = frags[i]
        /\ frags' # <<>>
    <2>1. frags \in Seq(Events)
      BY DEF IInv, TypeOK
    <2>2. QED BY <1>1, <1>2, <1>3, <2>1
  <1>5. PICK G : G = Append(F, p)
    OBVIOUS
  <1>6. /\ G \in Seq(Packets) /\ DOMAIN G = 1..(n + 1) /\ Len(G) = n + 1
        /\ G[n + 1] = p /\ \A i \in 1..n : G[i] = F[i]
    BY <1>1, <1>2, <1>5
  <1>7. Fragments' = G
    <2>1. Fragments' = [i \in 1..(n + 1) |-> buffer[frags'[i]]]
      BY <1>4 DEF Fragments
    <2>2. \A i \in 1..(n + 1) : buffer[frags'[i]] = G[i]
      <3>1. \A i \in 1..n : buffer[frags'[i]] = G[i]
        BY <1>1, <1>4, <1>6
      <3>2. \A i \in 1..(n + 1) : i \in 1..n \/ i = n + 1
        BY <1>1
      <3>3. QED BY <1>4, <1>6, <3>1, <3>2
    <2>3. G = [i \in 1..(n + 1) |-> G[i]]
      BY <1>6
    <2>4. QED BY <2>1, <2>2, <2>3
  <1> HIDE DEF p, n, F
  <1>8. \A i \in 1..(n + 1) : \/ i = n + 1 /\ G[i] = p
                              \/ i \in 1..n /\ G[i] = F[i] /\ n # 0
    BY <1>1, <1>6
  <1>9. n # 0 => /\ \A i \in 1..n : F[i].granule = curGranule
                 /\ F[n].seq = curSeq /\ F[1].ts = curTimestamp
                 /\ \A i, j \in 1..n : i < j => F[i].seq < F[j].seq
                 /\ \A i \in 1..n : F[i].seq \in Nat
                 /\ frags # <<>>
    <2>1. \A i \in 1..n : F[i].granule = curGranule
      BY <1>1 DEF FragInv, F
    <2>2. \A i, j \in 1..n : i < j => F[i].seq < F[j].seq
      BY <1>1 DEF FragInv, Ascending, F
    <2>3. \A i \in 1..n : F[i].seq \in Nat
      BY <1>1, ConstantFacts
    <2>4. n # 0 => frags # <<>>
      BY DEF n
    <2>5. frags # <<>> => F[n].seq = curSeq /\ F[1].ts = curTimestamp
      BY <1>1 DEF FragInv, F
    <2>6. QED BY <2>1, <2>2, <2>3, <2>4, <2>5
  <1>10. n # 0 => curGranule' = curGranule /\ p.seq > curSeq /\ curTimestamp' = curTimestamp
    BY <1>1, <1>9 DEF InSequence, p
  <1>11. \A i \in 1..(n + 1) : G[i].granule = curGranule'
    BY <1>8, <1>9, <1>10 DEF p
  <1>12. \A i, j \in 1..(n + 1) : i < j => G[i].seq < G[j].seq
    <2>1. \A i \in 1..n : F[i].seq <= curSeq /\ F[i].seq \in Nat /\ F[i].seq < p.seq
      <3>1. n # 0 => curSeq \in Nat /\ p.seq \in Nat
        BY <1>1, <1>2, <1>9, ConstantFacts
      <3>2. \A i \in 1..n : (i = n \/ i < n) /\ n \in 1..n /\ n # 0
        BY <1>1
      <3>3. \A i \in 1..n : F[i].seq <= curSeq /\ F[i].seq \in Nat
        BY <1>9, <3>1, <3>2
      <3>4. QED BY <1>10, <3>1, <3>2, <3>3
    <2>2. ASSUME NEW i \in 1..(n + 1), NEW j \in 1..(n + 1), i < j
          PROVE  G[i].seq < G[j].seq
      <3>1. i \in 1..n /\ G[i] = F[i] /\ n # 0
        BY <1>1, <1>8, <2>2
      <3>2. QED BY <1>8, <1>9, <2>1, <2>2, <3>1
    <2>3. QED BY <2>2
  <1>13. G[1].ts = curTimestamp'
    <2>1. CASE n = 0
      BY <1>1, <1>6, <2>1 DEF p
    <2>2. CASE n # 0
      BY <1>1, <1>6, <1>9, <1>10, <2>2
    <2>3. QED BY <2>1, <2>2
  <1>14. registered => curRtpDataLen' = TotalLen(G)
    BY <1>1, <1>2, <1>3, <1>5, TotalLenAppend DEF FragInv, F
  <1>15. QED
    BY <1>3, <1>4, <1>6, <1>7, <1>11, <1>12, <1>13, <1>14 DEF FragInv, Ascending

\* The list emptied, by generateBARtpPacket() or by release().
LEMMA FragmentsGone ==
  ASSUME FragInv, frags' = <<>>, registered' => registered,
         registered' => curRtpDataLen' = 0 /\ cb' = "advance"
  PROVE  FragInv'
  <1>1. Fragments' = <<>>
    BY DEF Fragments
  <1>2. QED BY <1>1, TotalLenEmpty DEF FragInv, Ascending

LEMMA CallbackKeepsFragments ==
  ASSUME IInv, FragInv, PublishedData
  PROVE  FragInv'
  <1>1. /\ cb # "idle" => event \in Events /\ event \notin FragmentEvents
        /\ \A i \in DOMAIN frags : frags[i] \in FragmentEvents /\ frags[i] \in Events
    BY DEF IInv, TypeOK, EventsKnown, BuffersAccounted, FragmentEvents
  <1>2. cb \in {"received", "classify", "generate", "advance"} => registered
    BY DEF IInv, ReleaseProtocol
  <1>3. ASSUME Discard, cb \in {"received", "classify"}, UNCHANGED <<gate, current>>
        PROVE  FragInv'
    <2>1. Fragments' = Fragments
      BY <1>1, <1>3, FragmentsKept DEF Discard, Free, current
    <2>2. QED BY <1>3, <2>1, FragInvKept DEF Discard, gate
  <1>4. ASSUME UNCHANGED <<gate, buffer, current>>, cb # "advance", cb' # "advance"
        PROVE  FragInv'
    <2>1. Fragments' = Fragments
      BY <1>4, FragmentsKept DEF current
    <2>2. QED BY <1>4, <2>1, FragInvKept DEF gate
  <1>5. CASE NotReceiving
    BY <1>3, <1>5 DEF NotReceiving
  <1>6. CASE FinReceived \/ DataReceived \/ NewGranule
    BY <1>4, <1>6 DEF FinReceived, DataReceived, NewGranule
  <1>7. CASE NextFragment
    <2>1. /\ AppendFragment /\ cb = "classify" /\ InSequence
          /\ buffer[event].granule = curGranule
          /\ UNCHANGED <<gate, buffer, curGranule, curTimestamp>>
      BY <1>7 DEF NextFragment
    <2>2. buffer[event].granule # -1
      BY <2>1, ConstantFacts DEF IInv, EventsKnown
    <2>3. frags # <<>>
      BY <1>2, <2>1, <2>2 DEF FragInv
    <2>4. QED BY <2>1, <2>3, FragmentAppended DEF gate
  <1>8. CASE LateOrDuplicate
    BY <1>3, <1>8 DEF LateOrDuplicate
  <1>9. CASE GenerateBARtpPacket
    <2>1. /\ frags' = <<>> /\ cb' = "advance" /\ UNCHANGED registered
          /\ cb = "generate"
          /\ curRtpDataLen' = IF frags # <<>> THEN 0 ELSE curRtpDataLen
      BY <1>9 DEF GenerateBARtpPacket, gate
    <2>2. curRtpDataLen' = 0
      <3>1. CASE frags = <<>>
        <4>1. Fragments = <<>>
          BY <3>1 DEF Fragments
        <4>2. QED BY <1>2, <2>1, <3>1, <4>1, TotalLenEmpty DEF FragInv
      <3>2. QED BY <2>1, <3>1
    <2>3. QED BY <2>1, <2>2, FragmentsGone
  <1>10. CASE FirstFragment
    <2>1. /\ AppendFragment /\ cb = "advance"
          /\ curGranule' = buffer[event].granule /\ curTimestamp' = buffer[event].ts
          /\ UNCHANGED <<gate, buffer>>
      BY <1>10 DEF FirstFragment
    <2>2. frags = <<>>
      BY <2>1 DEF IInv, EventsKnown
    <2>3. QED BY <2>1, <2>2, FragmentAppended DEF gate
  <1>11. QED
    BY <1>5, <1>6, <1>7, <1>8, <1>9, <1>10 DEF PublishedData

LEMMA StepFragments == IInv /\ FragInv /\ [Next]_vars => FragInv'
  <1> SUFFICES ASSUME IInv, FragInv, [Next]_vars PROVE FragInv'
    OBVIOUS
  <1>1. ASSUME UNCHANGED <<registered, cb, buffer, current>>
        PROVE  FragInv'
    <2>1. Fragments' = Fragments
      BY <1>1, FragmentsKept DEF current
    <2>2. QED BY <1>1, <2>1, FragInvKept
  <1>2. ASSUME NEW e \in Events, NEW p \in Packets \cup {FIN}, Deliver(e, p)
        PROVE  FragInv'
    <2>1. \A i \in DOMAIN frags : frags[i] # e
      BY <1>2, ConstantFacts DEF Deliver, IInv, EventsKnown
    <2>2. Fragments' = Fragments
      BY <1>2, <2>1, FragmentsKept DEF Deliver, current
    <2>3. cb = "idle" /\ cb' = "received" /\ UNCHANGED <<gate, current>>
      BY <1>2 DEF Deliver
    <2>4. QED BY <2>2, <2>3, FragInvKept DEF gate
  <1>3. ASSUME NEW r \in Threads, Release(r)
        PROVE  FragInv'
    <2>1. ASSUME ReturnFromRelease(r), rel[r] # "idle", UNCHANGED <<gate, buffer, current>>
          PROVE  FragInv'
      <3>1. (cb # "advance" /\ cb' # "advance") \/ cb' = cb
        BY <2>1 DEF ReturnFromRelease, IInv, ReleaseProtocol
      <3>2. Fragments' = Fragments
        BY <2>1, FragmentsKept DEF current
      <3>3. QED BY <2>1, <3>1, <3>2, FragInvKept DEF gate
    <2>2. CASE AlreadyReleased(r) \/ ClearQueue(r)
      BY <2>1, <2>2 DEF AlreadyReleased, ClearQueue
    <2>3. CASE EnterRelease(r) \/ MarkReleased(r)
      BY <1>1, <2>3 DEF EnterRelease, MarkReleased, gate
    <2>4. CASE Unregister(r)
      <3>1. ~registered' /\ UNCHANGED <<cb, buffer, current>>
        BY <2>4 DEF Unregister
      <3>2. Fragments' = Fragments
        BY <3>1, FragmentsKept DEF current
      <3>3. QED BY <3>1, <3>2, FragInvKept
    <2>5. CASE FreeFragments(r)
      <3>1. frags' = <<>> /\ ~registered /\ UNCHANGED registered
        BY <2>5 DEF FreeFragments, IInv, ReleaseProtocol, gate
      <3>2. QED BY <3>1, FragmentsGone
    <2>6. QED BY <1>3, <2>2, <2>3, <2>4, <2>5 DEF Release
  <1>4. CASE CallRelease
    BY <1>1, <1>4 DEF CallRelease, gate
  <1>5. ASSUME NEW on \in BOOLEAN, CallSetReceive(on)
        PROVE  FragInv'
    BY <1>1, <1>5 DEF CallSetReceive, gate
  <1>6. CASE SetReceive
    BY <1>1, <1>6 DEF SetReceive
  <1>7. CASE ReadMjpegFrame
    BY <1>1, <1>7 DEF ReadMjpegFrame, GetBARtpPacket, Poll, PollTimeout, SkipFrame, ShowFrame, gate
  <1>8. CASE UNCHANGED vars
    BY <1>1, <1>8 DEF vars, gate
  <1>9. QED
    BY <1>2, <1>3, <1>4, <1>5, <1>6, <1>7, <1>8, CallbackKeepsFragments DEF Next

-----------------------------------------------------------------------------
(* The frames made of them.                                                *)

LEMMA GeneratedFrameCoherent ==
  ASSUME IInv, FragInv, frags # <<>>, cb = "generate"
  PROVE  Coherent([granule |-> curGranule, ts |-> FrameTimestamp,
                   data |-> [i \in DOMAIN frags |-> buffer[frags[i]]],
                   len |-> curRtpDataLen])
  <1>1. registered
    BY DEF IInv, ReleaseProtocol
  <1>2. /\ Fragments # <<>> /\ \A i \in DOMAIN Fragments : Fragments[i].granule = curGranule
        /\ Ascending(Fragments) /\ curTimestamp = Fragments[1].ts
        /\ curRtpDataLen = TotalLen(Fragments)
    BY <1>1, FragmentsTyped DEF FragInv
  <1> DEFINE frame == [granule |-> curGranule, ts |-> curTimestamp,
                       data |-> Fragments, len |-> curRtpDataLen]
  <1>3. /\ frame.granule = curGranule /\ frame.ts = curTimestamp
        /\ frame.data = Fragments /\ frame.len = curRtpDataLen
    OBVIOUS
  <1> HIDE DEF frame
  <1>4. Coherent(frame)
    BY <1>2, <1>3 DEF Coherent
  <1>5. QED BY <1>4 DEF frame, Fragments, FrameTimestamp

LEMMA StepFrames == IInv /\ FragInv /\ FramesCoherent /\ [Next]_vars => FramesCoherent'
  <1> SUFFICES ASSUME IInv, FragInv, FramesCoherent, [Next]_vars PROVE FramesCoherent'
    OBVIOUS
  <1>1. dataQueue \in Seq(Frames)
    BY DEF IInv, TypeOK
  <1>2. ASSUME UNCHANGED dataQueue, UNCHANGED viewer \/ view' # "judge"
        PROVE  FramesCoherent'
    BY <1>2 DEF FramesCoherent, viewer
  <1>3. CASE PublishedData
    <2>1. CASE GenerateBARtpPacket
      <3> DEFINE frame == [granule |-> curGranule, ts |-> FrameTimestamp,
                           data |-> [i \in DOMAIN frags |-> buffer[frags[i]]],
                           len |-> curRtpDataLen]
      <3>1. /\ cb = "generate" /\ UNCHANGED viewer
            /\ dataQueue' = dataQueue \/ (frags # <<>> /\ dataQueue' = Append(dataQueue, frame))
        BY <2>1 DEF GenerateBARtpPacket
      <3>2. CASE dataQueue' = dataQueue
        BY <1>2, <3>1, <3>2
      <3>3. CASE frags # <<>> /\ dataQueue' = Append(dataQueue, frame)
        <4>1. Coherent(frame)
          BY <3>1, <3>3, GeneratedFrameCoherent
        <4>2. frame \in Frames
          BY FrameTyped DEF FrameTimestamp, Frames, IInv, TypeOK
        <4> HIDE DEF frame
        <4>3. \A i \in DOMAIN dataQueue' : \/ i \in DOMAIN dataQueue /\ dataQueue'[i] = dataQueue[i]
                                           \/ dataQueue'[i] = frame
          BY <1>1, <3>3, <4>2
        <4>4. \A i \in DOMAIN dataQueue' : Coherent(dataQueue'[i])
          BY <4>1, <4>3 DEF FramesCoherent
        <4>5. QED BY <3>1, <4>4 DEF FramesCoherent, viewer
      <3>4. QED BY <3>1, <3>2, <3>3
    <2>2. CASE ~GenerateBARtpPacket
      BY <1>2, <1>3, <2>2 DEF PublishedData, NotReceiving, FinReceived, DataReceived, NextFragment,
                              LateOrDuplicate, NewGranule, FirstFragment
    <2>3. QED BY <2>1, <2>2
  <1>4. CASE ReadMjpegFrame
    <2>1. CASE Poll
      <3>1. /\ dataQueue # <<>> /\ pkt' = Head(dataQueue) /\ dataQueue' = Tail(dataQueue)
        BY <2>1 DEF Poll
      <3>2. /\ 1 \in DOMAIN dataQueue /\ pkt' = dataQueue[1]
            /\ \A i \in DOMAIN dataQueue' : i + 1 \in DOMAIN dataQueue /\ dataQueue'[i] = dataQueue[i + 1]
        BY <1>1, <3>1
      <3>3. QED BY <3>2 DEF FramesCoherent
    <2>2. CASE ~Poll
      BY <1>2, <1>4, <2>2 DEF ReadMjpegFrame, GetBARtpPacket, PollTimeout, SkipFrame, ShowFrame
    <2>3. QED BY <2>1, <2>2
  <1>5. ASSUME NEW r \in Threads, Release(r)
        PROVE  FramesCoherent'
    <2>1. CASE ClearQueue(r)
      BY <2>1 DEF ClearQueue, FramesCoherent, viewer
    <2>2. CASE ~ClearQueue(r)
      BY <1>2, <1>5, <2>2 DEF Release, AlreadyReleased, EnterRelease, MarkReleased, Unregister, FreeFragments
    <2>3. QED BY <2>1, <2>2
  <1>6. CASE \/ \E e \in Events, p \in Packets \cup {FIN} : Deliver(e, p)
             \/ CallRelease
             \/ \E on \in BOOLEAN : CallSetReceive(on)
             \/ SetReceive
    BY <1>2, <1>6 DEF Deliver, CallRelease, CallSetReceive, SetReceive
  <1>7. CASE UNCHANGED vars
    BY <1>2, <1>7 DEF vars
  <1>8. QED BY <1>3, <1>4, <1>5, <1>6, <1>7 DEF Next

FrameInv == IInv /\ OrderInv /\ FragInv /\ FramesCoherent

LEMMA FrameInvariant == Spec => []FrameInv
  <1>1. Init => FrameInv
    <2> SUFFICES ASSUME Init PROVE FrameInv
      OBVIOUS
    <2>1. Fragments = <<>>
      BY DEF Init, Fragments
    <2>2. FragInv
      BY <2>1, TotalLenEmpty DEF Init, FragInv, Ascending
    <2>3. OrderInv /\ FramesCoherent
      BY DEF Init, OrderInv, FramesCoherent
    <2>4. QED BY <2>2, <2>3, InitIInv DEF FrameInv
  <1>2. FrameInv /\ [Next]_vars => FrameInv'
    BY StepIInv, StepOrder, StepFragments, StepFrames DEF FrameInv
  <1>3. QED BY <1>1, <1>2, PTL DEF Spec

\* The fragments collected by publishedData() are of one granule, in ascending
\* order without duplicates, and curRtpDataLen is the sum of their lengths: the
\* array generateBARtpPacket() allocates by it is the one they fill.
THEOREM FragmentsSafe == Spec => []FragmentsCoherent
  <1>1. FrameInv => FragmentsCoherent
    <2> SUFFICES ASSUME FrameInv PROVE FragmentsCoherent
      OBVIOUS
    <2>1. ~released => registered
      BY DEF FrameInv, IInv, ReleaseProtocol
    <2>2. QED BY <2>1 DEF FrameInv, FragInv, FragmentsCoherent, Fragments
  <1>2. QED BY <1>1, FrameInvariant, PTL

\* Every frame queued, or polled and not yet judged, is made of fragments of
\* its own granule only, ascending, and carries their total length and the
\* timestamp of the first.
THEOREM FramesSafe == Spec => []FramesCoherent
  <1>1. FrameInv => FramesCoherent
    BY DEF FrameInv
  <1>2. QED BY <1>1, FrameInvariant, PTL

-----------------------------------------------------------------------------
(* The refinement.                                                         *)

\* The frame the decoder has been given.
Given == IF view = "judge" THEN pkt ELSE NoFrame

LEMMA StreamInit == Stream!Init <=> Given = NoFrame /\ shown = <<>> /\ (view = "stopped") = FALSE
  BY Zenon DEF Stream!Init, Given

LEMMA StreamStutter ==
  ASSUME UNCHANGED viewer
  PROVE  UNCHANGED Stream!vars
  BY DEF viewer, Stream!vars

LEMMA PollTakes ==
  ASSUME FrameInv, Poll
  PROVE  Stream!Take
  <1> DEFINE f == Head(dataQueue)
  <1>1. /\ view = "poll" /\ view' = "judge" /\ dataQueue # <<>> /\ pkt' = f /\ UNCHANGED shown
    BY DEF Poll
  <1>2. f = dataQueue[1] /\ 1 \in DOMAIN dataQueue /\ f \in Frames
    BY <1>1 DEF FrameInv, IInv, TypeOK
  <1> HIDE DEF f
  <1>3. f.data \in Seq(Packets)
    BY <1>2 DEF Frames
  <1>4. /\ f.data # <<>> /\ f.ts = f.data[1].ts
        /\ \A i \in DOMAIN f.data : f.data[i].granule = f.granule
        /\ \A i, j \in DOMAIN f.data : i < j => f.data[i].seq < f.data[j].seq
    BY <1>2 DEF FrameInv, FramesCoherent, Coherent, Ascending
  <1>5. f # NoFrame
    BY <1>4 DEF NoFrame
  <1>6. \A i \in DOMAIN shown : shown[i] < f.granule
    BY <1>2 DEF FrameInv, OrderInv
  <1>7. Stream!OneFrame(f.granule, f.data)
    BY <1>3, <1>4 DEF Stream!OneFrame
  <1>8. QED
    BY <1>1, <1>4, <1>5, <1>6, <1>7 DEF Stream!Take

LEMMA ViewRefines ==
  ASSUME FrameInv, ReadMjpegFrame
  PROVE  Stream!Next \/ UNCHANGED Stream!vars
  <1>1. CASE GetBARtpPacket
    <2>1. CASE released
      BY <1>1, <2>1 DEF GetBARtpPacket, Stream!Next, Stream!Stop
    <2>2. CASE ~released
      BY <1>1, <2>2 DEF GetBARtpPacket, Stream!vars
    <2>3. QED BY <2>1, <2>2
  <1>2. CASE Poll
    BY <1>2, PollTakes DEF Stream!Next
  <1>3. CASE PollTimeout
    BY <1>3 DEF PollTimeout, Stream!vars
  <1>4. ASSUME view = "judge"
        PROVE  pkt # NoFrame
    BY <1>4 DEF FrameInv, FramesCoherent, Coherent, NoFrame
  <1>5. CASE SkipFrame
    BY <1>4, <1>5 DEF SkipFrame, Stream!Next, Stream!Skip
  <1>6. CASE ShowFrame
    BY <1>4, <1>6 DEF ShowFrame, Stream!Next, Stream!Show
  <1>7. QED BY <1>1, <1>2, <1>3, <1>5, <1>6 DEF ReadMjpegFrame

\* The subscriber with the view thread on it implements FrameStream: a poll
\* takes a frame, readMjpegFrame() shows or skips it, the IOException of a
\* released subscriber stops the source, and nothing that publishedData(),
\* setReceive() or release() do in between is seen by the decoder.
THEOREM SubscriberImplementsStream == Spec => RefinesFrameStream
  <1>1. Init => Stream!Init
    BY StreamInit DEF Init, Given
  <1>2. FrameInv /\ [Next]_vars => [Stream!Next]_(Stream!vars)
    <2> SUFFICES ASSUME FrameInv, [Next]_vars PROVE [Stream!Next]_(Stream!vars)
      OBVIOUS
    <2>1. CASE ReadMjpegFrame
      BY <2>1, ViewRefines
    <2>2. CASE UNCHANGED viewer
      BY <2>2, StreamStutter
    <2>3. Next => ReadMjpegFrame \/ UNCHANGED viewer
      BY DEF Next, PublishedData, NotReceiving, FinReceived, DataReceived, NextFragment,
             LateOrDuplicate, NewGranule, GenerateBARtpPacket, FirstFragment, Deliver, CallRelease,
             Release, AlreadyReleased, EnterRelease, MarkReleased, Unregister, FreeFragments,
             ClearQueue, CallSetReceive, SetReceive
    <2>4. UNCHANGED vars => UNCHANGED viewer
      BY DEF vars
    <2>5. QED BY <2>1, <2>2, <2>3, <2>4
  <1>3. QED BY <1>1, <1>2, FrameInvariant, PTL DEF Spec, Stream!Spec, RefinesFrameStream
=============================================================================

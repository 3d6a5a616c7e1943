------------------------- MODULE RtpSubscriber_proof -------------------------
(***************************************************************************)
(* BARtpSubscriber's typing, its accounting of native buffers, its release *)
(* protocol and the order of its frames, proved for any packets, events,   *)
(* queue size and frame timeout.                                           *)
(***************************************************************************)
EXTENDS RtpSubscriber, TLAPS

\* How far a release has come is what keeps the other threads out: between the
\* flags and the unregistration a releasing thread is at "unregister"; once
\* unregistered, publishedData() is not running, and whatever fragment or
\* frame is left has a releasing thread still to remove it.
ReleaseProtocol ==
  /\ rel["cb"] # "idle" <=> cb = "release"
  /\ \A r \in Threads : rel[r] \in {"unregister", "fragments", "queue"} => released
  /\ \A r \in Threads : rel[r] \in {"fragments", "queue"} => ~registered
  /\ (released /\ registered) => \E r \in Threads : rel[r] = "unregister"
  /\ ~registered => (released /\ cb \in {"idle", "release"})
  /\ (~registered /\ frags # <<>>) => \E r \in Threads : rel[r] = "fragments"
  /\ (~registered /\ dataQueue # <<>>) =>
       \E r \in Threads : rel[r] \in {"fragments", "queue"}

\* What publishedData() knows of the buffer it works on, and of the buffers in
\* the fragment list.
EventsKnown ==
  /\ cb = "idle" <=> event = NoEvent
  /\ cb = "received" => buffer[event] \in Received
  /\ cb \in {"classify", "generate", "advance"} => buffer[event] \in Packets
  /\ cb = "release" => buffer[event] = FIN
  /\ cb = "advance" => frags = <<>>
  /\ \A i \in DOMAIN frags : buffer[frags[i]] \in Packets

LEMMA ConstantFacts ==
  /\ FIN \notin Packets /\ Freed \notin Packets /\ FIN # Freed
  /\ \A p \in Packets : p.granule \in Nat /\ p.seq \in Nat /\ p.ts \in Nat /\ p.len \in Nat
  /\ FIN.granule \in Int /\ FIN.seq \in Int /\ FIN.ts \in Int /\ FIN.len \in Nat
  BY SubscriberAssumption DEF FIN, Freed

LEMMA InitTyped == Init => TypeOK /\ EventsKnown
  <1> SUFFICES ASSUME Init PROVE TypeOK /\ EventsKnown
    OBVIOUS
  <1> USE SubscriberAssumption DEF Init
  <1>1. NoFrame \in Frames
    BY DEF NoFrame, Frames
  <1>2. TypeOK
    <2>1. dataQueue \in Seq(Frames) /\ Len(dataQueue) <= QueueSize
      OBVIOUS
    <2>2. frags \in Seq(Events) /\ shown \in Seq(Int)
      OBVIOUS
    <2>3. curGranule \in Int /\ curSeq \in Int /\ curTimestamp \in Int /\ curRtpDataLen \in Nat
      OBVIOUS
    <2>4. QED BY <1>1, <2>1, <2>2, <2>3 DEF TypeOK, Threads
  <1>3. EventsKnown
    BY DEF EventsKnown
  <1>4. QED BY <1>2, <1>3

\* The copy generateBARtpPacket() makes of the fragments is a sequence of
\* packets.
LEMMA FrameTyped ==
  ASSUME TypeOK, EventsKnown
  PROVE  [i \in DOMAIN frags |-> buffer[frags[i]]] \in Seq(Packets)
  <1>1. DOMAIN frags = 1..Len(frags) /\ Len(frags) \in Nat
    BY DEF TypeOK
  <1>2. \A i \in 1..Len(frags) : buffer[frags[i]] \in Packets
    BY <1>1 DEF EventsKnown
  <1>3. QED BY <1>1, <1>2

LEMMA CallbackTyped ==
  ASSUME TypeOK, EventsKnown, PublishedData
  PROVE  TypeOK'
  <1> USE SubscriberAssumption DEF TypeOK, Received, gate, current, viewer, Threads
  <1>1. CASE NotReceiving
    BY <1>1 DEF NotReceiving, Discard, Free
  <1>2. CASE FinReceived
    BY <1>2 DEF FinReceived
  <1>3. CASE DataReceived
    BY <1>3 DEF DataReceived
  <1>4. CASE NextFragment
    BY <1>4, ConstantFacts DEF NextFragment, AppendFragment, EventsKnown
  <1>5. CASE LateOrDuplicate
    BY <1>5 DEF LateOrDuplicate, Discard, Free
  <1>6. CASE NewGranule
    BY <1>6 DEF NewGranule
  <1>7. CASE GenerateBARtpPacket
    <2> DEFINE frame == [granule |-> curGranule, ts |-> FrameTimestamp,
                         data |-> [i \in DOMAIN frags |-> buffer[frags[i]]],
                         len |-> curRtpDataLen]
    <2>1. frame \in Frames
      BY FrameTyped DEF FrameTimestamp, Frames
    <2>2. dataQueue' = dataQueue \/ (QueueHasRoom /\ dataQueue' = Append(dataQueue, frame))
      BY <1>7 DEF GenerateBARtpPacket
    <2> HIDE DEF frame
    <2>3. dataQueue' \in Seq(Frames) /\ Len(dataQueue') <= QueueSize
      <3>1. CASE dataQueue' = dataQueue
        BY <3>1
      <3>2. CASE QueueHasRoom /\ dataQueue' = Append(dataQueue, frame)
        <4>1. /\ Append(dataQueue, frame) \in Seq(Frames)
              /\ Len(Append(dataQueue, frame)) = Len(dataQueue) + 1
              /\ Len(dataQueue) \in Nat
          BY <2>1
        <4>2. QED BY <3>2, <4>1 DEF QueueHasRoom
      <3>3. QED BY <2>2, <3>1, <3>2
    <2>4. buffer' \in [Events -> Packets \cup {FIN} \cup {Freed}]
      BY <1>7 DEF GenerateBARtpPacket, Free
    <2>5. QED BY <1>7, <2>3, <2>4 DEF GenerateBARtpPacket
  <1>8. CASE FirstFragment
    BY <1>8, ConstantFacts DEF FirstFragment, AppendFragment, EventsKnown
  <1>9. QED
    BY <1>1, <1>2, <1>3, <1>4, <1>5, <1>6, <1>7, <1>8 DEF PublishedData

LEMMA ReleaseTyped ==
  ASSUME TypeOK, NEW r \in Threads, Release(r)
  PROVE  TypeOK'
  <1> USE SubscriberAssumption DEF TypeOK, Received, gate, current, viewer, Threads
  <1>1. CASE AlreadyReleased(r)
    BY <1>1 DEF AlreadyReleased, ReturnFromRelease
  <1>2. CASE EnterRelease(r)
    BY <1>2 DEF EnterRelease
  <1>3. CASE MarkReleased(r)
    BY <1>3 DEF MarkReleased
  <1>4. CASE Unregister(r)
    BY <1>4 DEF Unregister
  <1>5. CASE FreeFragments(r)
    BY <1>5 DEF FreeFragments, Free
  <1>6. CASE ClearQueue(r)
    BY <1>6 DEF ClearQueue, ReturnFromRelease
  <1>7. QED
    BY <1>1, <1>2, <1>3, <1>4, <1>5, <1>6 DEF Release

LEMMA ViewTyped ==
  ASSUME TypeOK, ReadMjpegFrame
  PROVE  TypeOK'
  <1> USE SubscriberAssumption DEF TypeOK, Received, gate, current, viewer
  <1>1. CASE GetBARtpPacket
    BY <1>1 DEF GetBARtpPacket
  <1>2. CASE Poll
    <2>1. /\ dataQueue # <<>> /\ dataQueue \in Seq(Frames)
          /\ Head(dataQueue) \in Frames
          /\ Tail(dataQueue) \in Seq(Frames)
          /\ Len(Tail(dataQueue)) = Len(dataQueue) - 1
          /\ Len(dataQueue) \in Nat
      BY <1>2 DEF Poll
    <2>2. QED BY <1>2, <2>1 DEF Poll
  <1>3. CASE PollTimeout
    BY <1>3 DEF PollTimeout
  <1>4. CASE SkipFrame
    BY <1>4 DEF SkipFrame, NoFrame, Frames
  <1>5. CASE ShowFrame
    BY <1>5 DEF ShowFrame, NoFrame, Frames
  <1>6. QED
    BY <1>1, <1>2, <1>3, <1>4, <1>5 DEF ReadMjpegFrame

LEMMA NextTyped ==
  ASSUME TypeOK, EventsKnown, Next
  PROVE  TypeOK'
  <1>1. ASSUME NEW e \in Events, NEW p \in Packets \cup {FIN}, Deliver(e, p)
        PROVE  TypeOK'
    BY <1>1 DEF Deliver, TypeOK, Received, gate, current, viewer
  <1>2. CASE CallRelease
    BY <1>2 DEF CallRelease, TypeOK, Received, Threads, gate, current, viewer
  <1>3. ASSUME NEW on \in BOOLEAN, CallSetReceive(on)
        PROVE  TypeOK'
    BY <1>3 DEF CallSetReceive, TypeOK, Received, gate, current, viewer
  <1>4. CASE SetReceive
    BY <1>4 DEF SetReceive, TypeOK, Received, current, viewer
  <1>5. QED
    BY <1>1, <1>2, <1>3, <1>4, CallbackTyped, ReleaseTyped, ViewTyped DEF Next

-----------------------------------------------------------------------------
(* The release protocol.                                                   *)

LEMMA CallbackKeepsProtocol ==
  ASSUME TypeOK, ReleaseProtocol, PublishedData
  PROVE  ReleaseProtocol'
  <1> USE DEF TypeOK, ReleaseProtocol, gate, current, viewer, Threads
  <1>1. CASE NotReceiving
    BY <1>1 DEF NotReceiving, Discard
  <1>2. CASE FinReceived
    BY <1>2 DEF FinReceived
  <1>3. CASE DataReceived
    BY <1>3 DEF DataReceived
  <1>4. CASE NextFragment
    BY <1>4 DEF NextFragment, AppendFragment
  <1>5. CASE LateOrDuplicate
    BY <1>5 DEF LateOrDuplicate, Discard
  <1>6. CASE NewGranule
    BY <1>6 DEF NewGranule
  <1>7. CASE GenerateBARtpPacket
    BY <1>7 DEF GenerateBARtpPacket
  <1>8. CASE FirstFragment
    BY <1>8 DEF FirstFragment, AppendFragment
  <1>9. QED
    BY <1>1, <1>2, <1>3, <1>4, <1>5, <1>6, <1>7, <1>8 DEF PublishedData

LEMMA ReleaseKeepsProtocol ==
  ASSUME TypeOK, ReleaseProtocol, NEW r \in Threads, Release(r)
  PROVE  ReleaseProtocol'
  <1> USE DEF TypeOK, ReleaseProtocol, gate, current, viewer, Threads
  <1>1. CASE AlreadyReleased(r)
    BY <1>1 DEF AlreadyReleased, ReturnFromRelease
  <1>2. CASE EnterRelease(r)
    BY <1>2 DEF EnterRelease
  <1>3. CASE MarkReleased(r)
    BY <1>3 DEF MarkReleased
  <1>4. CASE Unregister(r)
    BY <1>4 DEF Unregister
  <1>5. CASE FreeFragments(r)
    BY <1>5 DEF FreeFragments
  <1>6. CASE ClearQueue(r)
    BY <1>6 DEF ClearQueue, ReturnFromRelease
  <1>7. QED
    BY <1>1, <1>2, <1>3, <1>4, <1>5, <1>6 DEF Release

LEMMA NextKeepsProtocol ==
  ASSUME TypeOK, ReleaseProtocol, Next
  PROVE  ReleaseProtocol'
  <1> USE DEF TypeOK, gate, current, viewer, Threads
  <1>1. ASSUME NEW e \in Events, NEW p \in Packets \cup {FIN}, Deliver(e, p)
        PROVE  ReleaseProtocol'
    BY <1>1 DEF Deliver, ReleaseProtocol
  <1>2. CASE CallRelease
    BY <1>2 DEF CallRelease, ReleaseProtocol
  <1>3. ASSUME NEW on \in BOOLEAN, CallSetReceive(on)
        PROVE  ReleaseProtocol'
    BY <1>3 DEF CallSetReceive, ReleaseProtocol
  <1>4. CASE SetReceive
    BY <1>4 DEF SetReceive, ReleaseProtocol
  <1>5. CASE ReadMjpegFrame
    BY <1>5 DEF ReadMjpegFrame, GetBARtpPacket, Poll, PollTimeout, SkipFrame,
                ShowFrame, ReleaseProtocol
  <1>6. QED
    BY <1>1, <1>2, <1>3, <1>4, <1>5, CallbackKeepsProtocol, ReleaseKeepsProtocol DEF Next

-----------------------------------------------------------------------------
(* The native buffers.                                                     *)

IInv == TypeOK /\ EventsKnown /\ ReleaseProtocol /\ BuffersAccounted

\* An event that leaves the callback for the end of the fragment list is held
\* once there, and the other fragments are where they were.
LEMMA AppendedFragments ==
  ASSUME TypeOK, BuffersAccounted, cb # "idle", event \in Events,
         frags' = Append(frags, event)
  PROVE  /\ \A i \in DOMAIN frags' : frags'[i] = event \/ (i \in DOMAIN frags /\ frags'[i] = frags[i])
         /\ \A i, j \in DOMAIN frags' : frags'[i] = frags'[j] => i = j
         /\ FragmentEvents' = FragmentEvents \cup {event}
  <1>1. /\ DOMAIN frags = 1..Len(frags) /\ Len(frags) \in Nat
        /\ DOMAIN frags' = 1..(Len(frags) + 1)
        /\ frags'[Len(frags) + 1] = event
        /\ \A i \in DOMAIN frags : frags'[i] = frags[i]
    BY DEF TypeOK
  <1>2. \A i \in DOMAIN frags : frags[i] # event
    BY DEF BuffersAccounted, FragmentEvents
  <1>3. \A i \in DOMAIN frags' : i \in DOMAIN frags \/ i = Len(frags) + 1
    BY <1>1
  <1>4. \A i, j \in DOMAIN frags' : frags'[i] = frags'[j] => i = j
    BY <1>1, <1>2, <1>3 DEF BuffersAccounted
  <1>5. \A i \in DOMAIN frags : i \in DOMAIN frags'
    BY <1>1
  <1>6. FragmentEvents' = FragmentEvents \cup {event}
    BY <1>1, <1>3, <1>5 DEF FragmentEvents
  <1>7. QED BY <1>1, <1>3, <1>4, <1>6

LEMMA CallbackKeepsBuffers ==
  ASSUME IInv, PublishedData, TypeOK'
  PROVE  (EventsKnown /\ BuffersAccounted)'
  <1> USE SubscriberAssumption DEF IInv, EventsKnown, BuffersAccounted, InUse,
                                   gate, current, viewer
  <1>1. /\ cb # "idle" => event \in Events /\ event \notin FragmentEvents
        /\ \A i \in DOMAIN frags : frags[i] \in FragmentEvents /\ frags[i] \in Events
    <2>1. DOMAIN frags = 1..Len(frags) /\ Len(frags) \in Nat /\ frags \in Seq(Events)
      BY DEF TypeOK
    <2>2. QED BY <2>1 DEF TypeOK, FragmentEvents
  <1>2. buffer \in [Events -> Received \cup {Freed}] /\ FragmentEvents \subseteq Events
    BY <1>1 DEF TypeOK, FragmentEvents
  <1>3. ASSUME Discard, UNCHANGED frags, cb # "idle"
        PROVE  (EventsKnown /\ BuffersAccounted)'
    BY <1>1, <1>2, <1>3, ConstantFacts DEF Discard, Free, FragmentEvents
  <1>4. ASSUME AppendFragment, UNCHANGED buffer, cb \in {"classify", "advance"}
        PROVE  (EventsKnown /\ BuffersAccounted)'
    <2>1. /\ \A i \in DOMAIN frags' : frags'[i] = event \/ (i \in DOMAIN frags /\ frags'[i] = frags[i])
          /\ \A i, j \in DOMAIN frags' : frags'[i] = frags'[j] => i = j
          /\ FragmentEvents' = FragmentEvents \cup {event}
      BY <1>1, <1>4, AppendedFragments DEF AppendFragment
    <2>2. QED BY <1>1, <1>2, <1>4, <2>1, ConstantFacts DEF AppendFragment
  <1>5. CASE NotReceiving
    BY <1>3, <1>5 DEF NotReceiving
  <1>6. CASE FinReceived
    BY <1>1, <1>6 DEF FinReceived, FragmentEvents
  <1>7. CASE DataReceived
    BY <1>1, <1>7 DEF DataReceived, FragmentEvents, Received
  <1>8. CASE NextFragment
    BY <1>4, <1>8 DEF NextFragment
  <1>9. CASE LateOrDuplicate
    BY <1>3, <1>9 DEF LateOrDuplicate
  <1>10. CASE NewGranule
    BY <1>1, <1>10 DEF NewGranule, FragmentEvents
  <1>11. CASE GenerateBARtpPacket
    <2>1. FragmentEvents' = {} /\ frags' = <<>> /\ cb' = "advance" /\ event' = event /\ cb = "generate"
      BY <1>11 DEF GenerateBARtpPacket, FragmentEvents
    <2>2. buffer' = [e \in Events |-> IF e \in FragmentEvents THEN Freed ELSE buffer[e]]
      BY <1>11 DEF GenerateBARtpPacket, Free
    <2>3. QED BY <1>1, <1>2, <2>1, <2>2, ConstantFacts
  <1>12. CASE FirstFragment
    BY <1>4, <1>12 DEF FirstFragment
  <1>13. QED
    BY <1>5, <1>6, <1>7, <1>8, <1>9, <1>10, <1>11, <1>12 DEF PublishedData

LEMMA ReleaseKeepsBuffers ==
  ASSUME IInv, NEW r \in Threads, Release(r)
  PROVE  (EventsKnown /\ BuffersAccounted)'
  <1> USE SubscriberAssumption DEF IInv, EventsKnown, BuffersAccounted, InUse,
                                   gate, current, viewer
  <1>1. buffer \in [Events -> Received \cup {Freed}] /\ FragmentEvents \subseteq Events
    BY DEF TypeOK, FragmentEvents
  <1>2. ASSUME ReturnFromRelease(r), rel[r] # "idle", UNCHANGED <<buffer, frags>>
        PROVE  (EventsKnown /\ BuffersAccounted)'
    <2>1. r = "cb" => cb = "release" /\ buffer[event] \notin Packets
      BY <1>2, ConstantFacts DEF ReleaseProtocol
    <2>2. QED BY <1>2, <2>1 DEF ReturnFromRelease, FragmentEvents
  <1>3. CASE AlreadyReleased(r)
    BY <1>2, <1>3 DEF AlreadyReleased
  <1>4. CASE EnterRelease(r)
    BY <1>4 DEF EnterRelease, FragmentEvents
  <1>5. CASE MarkReleased(r)
    BY <1>5 DEF MarkReleased, FragmentEvents
  <1>6. CASE Unregister(r)
    BY <1>6 DEF Unregister, FragmentEvents
  <1>7. CASE FreeFragments(r)
    <2>1. FragmentEvents' = {} /\ frags' = <<>> /\ cb' = cb /\ event' = event
      BY <1>7 DEF FreeFragments, FragmentEvents
    <2>2. cb \in {"idle", "release"}
      BY <1>7 DEF FreeFragments, ReleaseProtocol
    <2>3. buffer' = [e \in Events |-> IF e \in FragmentEvents THEN Freed ELSE buffer[e]]
      BY <1>7 DEF FreeFragments, Free
    <2>4. QED BY <1>1, <2>1, <2>2, <2>3, ConstantFacts DEF TypeOK
  <1>8. CASE ClearQueue(r)
    BY <1>2, <1>8 DEF ClearQueue
  <1>9. QED
    BY <1>3, <1>4, <1>5, <1>6, <1>7, <1>8 DEF Release

LEMMA NextKeepsBuffers ==
  ASSUME IInv, Next, TypeOK'
  PROVE  (EventsKnown /\ BuffersAccounted)'
  <1> USE SubscriberAssumption DEF gate, current, viewer
  <1>1. ASSUME NEW e \in Events, NEW p \in Packets \cup {FIN}, Deliver(e, p)
        PROVE  (EventsKnown /\ BuffersAccounted)'
    <2>1. e \notin FragmentEvents
      BY <1>1, ConstantFacts DEF Deliver, IInv, EventsKnown, FragmentEvents
    <2>2. buffer' = [buffer EXCEPT ![e] = p] /\ p # Freed /\ buffer \in [Events -> Received \cup {Freed}]
      BY <1>1, ConstantFacts DEF Deliver, IInv, TypeOK
    <2>3. UNCHANGED frags /\ event' = e /\ cb' = "received" /\ cb = "idle"
      BY <1>1 DEF Deliver
    <2>4. FragmentEvents' = FragmentEvents /\ InUse' = FragmentEvents \cup {e} /\ InUse = FragmentEvents
      BY <2>3 DEF FragmentEvents, InUse
    <2>5. \A i \in DOMAIN frags : frags[i] \in FragmentEvents
      BY DEF FragmentEvents
    <2>6. FragmentEvents \subseteq Events
      BY DEF FragmentEvents, IInv, TypeOK
    <2>7. QED
      BY <2>1, <2>2, <2>3, <2>4, <2>5, <2>6 DEF IInv, EventsKnown, BuffersAccounted, Received
  <1>2. ASSUME UNCHANGED <<cb, event, buffer, frags>>
        PROVE  (EventsKnown /\ BuffersAccounted)'
    BY <1>2 DEF IInv, EventsKnown, BuffersAccounted, InUse, FragmentEvents
  <1>3. CASE CallRelease
    BY <1>2, <1>3 DEF CallRelease
  <1>4. ASSUME NEW on \in BOOLEAN, CallSetReceive(on)
        PROVE  (EventsKnown /\ BuffersAccounted)'
    BY <1>2, <1>4 DEF CallSetReceive
  <1>5. CASE SetReceive
    BY <1>2, <1>5 DEF SetReceive
  <1>6. CASE ReadMjpegFrame
    BY <1>2, <1>6 DEF ReadMjpegFrame, GetBARtpPacket, Poll, PollTimeout, SkipFrame, ShowFrame
  <1>7. QED
    BY <1>1, <1>3, <1>4, <1>5, <1>6, CallbackKeepsBuffers, ReleaseKeepsBuffers DEF Next

-----------------------------------------------------------------------------
(* The theorems.                                                           *)

LEMMA InitIInv == Init => IInv
  <1> SUFFICES ASSUME Init PROVE IInv
    OBVIOUS
  <1>1. ReleaseProtocol
    BY DEF Init, ReleaseProtocol, Threads
  <1>2. BuffersAccounted
    <2>1. FragmentEvents = {} /\ InUse = {}
      BY DEF Init, FragmentEvents, InUse
    <2>2. QED BY <2>1, ConstantFacts DEF Init, BuffersAccounted
  <1>3. QED BY <1>1, <1>2, InitTyped DEF IInv

LEMMA StepIInv == IInv /\ [Next]_vars => IInv'
  <1> SUFFICES ASSUME IInv, [Next]_vars PROVE IInv'
    OBVIOUS
  <1>1. CASE Next
    <2>1. TypeOK'
      BY <1>1, NextTyped DEF IInv
    <2>2. ReleaseProtocol'
      BY <1>1, NextKeepsProtocol DEF IInv
    <2>3. QED BY <1>1, <2>1, <2>2, NextKeepsBuffers DEF IInv
  <1>2. CASE UNCHANGED vars
    BY <1>2 DEF vars, gate, current, viewer, IInv, TypeOK, EventsKnown, ReleaseProtocol,
                BuffersAccounted, InUse, FragmentEvents
  <1>3. QED BY <1>1, <1>2

\* The subscriber's state is well typed in every reachable state and dataQueue
\* never exceeds its capacity, for any packets, events and capacity.
THEOREM TypeCorrect == Spec => []TypeOK
  <1>1. IInv => TypeOK
    BY DEF IInv
  <1>2. QED BY <1>1, InitIInv, StepIInv, PTL DEF Spec

\* No native buffer is used after it is freed, freed while another use of it
\* is pending, or lost: publishedData() and the two release() calls account
\* for every event.
THEOREM BuffersSafe == Spec => []BuffersAccounted
  <1>1. IInv => BuffersAccounted
    BY DEF IInv
  <1>2. QED BY <1>1, InitIInv, StepIInv, PTL DEF Spec

\* When the last release() in progress has returned, no callback runs, no
\* handler is registered and neither a fragment nor a frame is left.
THEOREM ReleaseSafe == Spec => []ReleasedIsQuiet
  <1>1. IInv => ReleasedIsQuiet
    BY DEF IInv, ReleaseProtocol, ReleasedIsQuiet, Threads
  <1>2. QED BY <1>1, InitIInv, StepIInv, PTL DEF Spec

-----------------------------------------------------------------------------
(* The order of frames.                                                    *)

\* Granule g is behind the one being collected, or is the frame just made of
\* it while publishedData() has yet to move on.
Reached(g) == g < curGranule \/ (g = curGranule /\ cb = "advance")

\* FramesInOrder piece by piece, and why the next frame will be later still.
OrderInv ==
  /\ \A i, j \in DOMAIN shown : i < j => shown[i] < shown[j]
  /\ \A i, j \in DOMAIN dataQueue : i < j => dataQueue[i].granule < dataQueue[j].granule
  /\ \A i \in DOMAIN shown : \A j \in DOMAIN dataQueue : shown[i] < dataQueue[j].granule
  /\ view = "judge" =>
       /\ \A i \in DOMAIN shown : shown[i] < pkt.granule
       /\ \A j \in DOMAIN dataQueue : pkt.granule < dataQueue[j].granule
       /\ Reached(pkt.granule)
  /\ \A i \in DOMAIN shown : Reached(shown[i])
  /\ \A j \in DOMAIN dataQueue : Reached(dataQueue[j].granule)
  /\ cb \in {"generate", "advance"} => buffer[event].granule > curGranule

LEMMA GranulesAreInt ==
  ASSUME TypeOK
  PROVE  /\ \A i \in DOMAIN shown : shown[i] \in Int
         /\ \A i \in DOMAIN dataQueue : dataQueue[i].granule \in Int
         /\ pkt.granule \in Int
  <1>1. \A i \in DOMAIN shown : shown[i] \in Int
    BY DEF TypeOK
  <1>2. \A i \in DOMAIN dataQueue : dataQueue[i] \in Frames
    BY DEF TypeOK
  <1>3. pkt \in Frames
    BY DEF TypeOK
  <1>4. \A f \in Frames : f.granule \in Int
    BY DEF Frames
  <1>5. QED BY <1>1, <1>2, <1>3, <1>4

LEMMA CallbackKeepsOrder ==
  ASSUME IInv, OrderInv, PublishedData
  PROVE  OrderInv'
  <1> USE DEF gate, current, viewer
  <1>1. /\ curGranule \in Int /\ shown \in Seq(Int) /\ dataQueue \in Seq(Frames) /\ pkt \in Frames
        /\ cb \in {"classify", "generate", "advance"} =>
             buffer[event].granule \in Int /\ event \in Events /\ event \notin FragmentEvents
    BY ConstantFacts DEF IInv, TypeOK, EventsKnown, BuffersAccounted
  <1>2. /\ \A i \in DOMAIN shown : shown[i] \in Int
        /\ \A i \in DOMAIN dataQueue : dataQueue[i].granule \in Int
        /\ pkt.granule \in Int
    BY GranulesAreInt DEF IInv
  <1>3. ASSUME UNCHANGED <<curGranule, dataQueue, viewer>>,
               cb # "advance", cb' \notin {"generate", "advance"}
        PROVE  OrderInv'
    BY <1>3 DEF OrderInv, Reached
  <1>4. CASE NotReceiving
    BY <1>3, <1>4 DEF NotReceiving, Discard
  <1>5. CASE FinReceived
    BY <1>3, <1>5 DEF FinReceived
  <1>6. CASE DataReceived
    BY <1>3, <1>6 DEF DataReceived
  <1>7. CASE NextFragment
    BY <1>3, <1>7 DEF NextFragment, AppendFragment
  <1>8. CASE LateOrDuplicate
    BY <1>3, <1>8 DEF LateOrDuplicate, Discard
  <1>9. CASE NewGranule
    BY <1>1, <1>9 DEF NewGranule, OrderInv, Reached
  <1>10. CASE GenerateBARtpPacket
    <2> DEFINE frame == [granule |-> curGranule, ts |-> FrameTimestamp,
                         data |-> [i \in DOMAIN frags |-> buffer[frags[i]]],
                         len |-> curRtpDataLen]
    <2>1. /\ cb = "generate" /\ cb' = "advance"
          /\ UNCHANGED <<curGranule, event, viewer>>
          /\ dataQueue' = dataQueue \/ dataQueue' = Append(dataQueue, frame)
          /\ frame.granule = curGranule
      BY <1>10 DEF GenerateBARtpPacket
    <2>2. buffer'[event] = buffer[event]
      BY <1>1, <1>10 DEF GenerateBARtpPacket, Free
    <2> HIDE DEF frame
    <2>3. /\ \A j \in DOMAIN dataQueue' :
               \/ j \in DOMAIN dataQueue /\ dataQueue'[j] = dataQueue[j]
               \/ j = Len(dataQueue) + 1 /\ dataQueue'[j].granule = curGranule
          /\ DOMAIN dataQueue = 1..Len(dataQueue) /\ Len(dataQueue) \in Nat
      <3>1. CASE dataQueue' = dataQueue
        BY <1>1, <3>1
      <3>2. CASE dataQueue' = Append(dataQueue, frame)
        <4>1. frame \in Frames
          BY FrameTyped DEF frame, FrameTimestamp, Frames, IInv, TypeOK
        <4>2. QED BY <1>1, <2>1, <3>2, <4>1
      <3>3. QED BY <2>1, <3>1, <3>2
    <2>4. \A j \in DOMAIN dataQueue : dataQueue[j].granule < curGranule
      BY <2>1 DEF OrderInv, Reached
    <2>5. \A i, j \in DOMAIN dataQueue' : i < j => dataQueue'[i].granule < dataQueue'[j].granule
      BY <2>3, <2>4 DEF OrderInv
    <2>6. \A i \in DOMAIN shown : shown[i] < curGranule
      BY <2>1 DEF OrderInv, Reached
    <2>7. QED
      BY <1>2, <2>1, <2>2, <2>3, <2>4, <2>5, <2>6 DEF OrderInv, Reached
  <1>11. CASE FirstFragment
    <2>1. /\ cb = "advance" /\ cb' = "idle" /\ curGranule' = buffer[event].granule
          /\ UNCHANGED <<dataQueue, viewer>>
      BY <1>11 DEF FirstFragment, AppendFragment
    <2>2. curGranule' > curGranule /\ curGranule' \in Int
      BY <1>1, <2>1 DEF OrderInv
    <2>3. /\ \A i \in DOMAIN shown : shown[i] < curGranule'
          /\ \A j \in DOMAIN dataQueue : dataQueue[j].granule < curGranule'
          /\ view = "judge" => pkt.granule < curGranule'
      <3>1. \A g \in Int : Reached(g) => g < curGranule'
        <4>1. curGranule \in Int
          BY <1>1
        <4>2. QED BY <2>2, <4>1 DEF Reached
      <3>2. QED BY <1>2, <3>1 DEF OrderInv
    <2>4. QED BY <2>1, <2>3 DEF OrderInv, Reached
  <1>12. QED
    BY <1>4, <1>5, <1>6, <1>7, <1>8, <1>9, <1>10, <1>11 DEF PublishedData

LEMMA ViewKeepsOrder ==
  ASSUME IInv, OrderInv, ReadMjpegFrame
  PROVE  OrderInv'
  <1> USE DEF gate, current, viewer
  <1>1. /\ curGranule \in Int /\ shown \in Seq(Int) /\ dataQueue \in Seq(Frames) /\ pkt \in Frames
        /\ DOMAIN shown = 1..Len(shown) /\ Len(shown) \in Nat
        /\ DOMAIN dataQueue = 1..Len(dataQueue) /\ Len(dataQueue) \in Nat
    BY DEF IInv, TypeOK
  <1>2. /\ \A i \in DOMAIN shown : shown[i] \in Int
        /\ \A i \in DOMAIN dataQueue : dataQueue[i].granule \in Int
        /\ pkt.granule \in Int
    BY GranulesAreInt DEF IInv
  <1>3. CASE GetBARtpPacket
    BY <1>3 DEF GetBARtpPacket, OrderInv, Reached
  <1>4. CASE Poll
    <2>1. /\ dataQueue # <<>> /\ pkt' = dataQueue[1] /\ 1 \in DOMAIN dataQueue
          /\ \A j \in DOMAIN dataQueue' :
               j + 1 \in DOMAIN dataQueue /\ 1 < j + 1 /\ dataQueue'[j] = dataQueue[j + 1] /\ j \in Int
          /\ UNCHANGED <<cb, event, buffer, curGranule, shown>>
      BY <1>1, <1>4 DEF Poll
    <2>2. \A i, j \in DOMAIN dataQueue' : i < j => dataQueue'[i].granule < dataQueue'[j].granule
      BY <2>1 DEF OrderInv
    <2>3. \A j \in DOMAIN dataQueue' : pkt'.granule < dataQueue'[j].granule
      BY <2>1 DEF OrderInv
    <2>4. QED BY <2>1, <2>2, <2>3 DEF OrderInv, Reached
  <1>5. CASE PollTimeout
    BY <1>5 DEF PollTimeout, OrderInv, Reached
  <1>6. CASE SkipFrame
    BY <1>6 DEF SkipFrame, OrderInv, Reached
  <1>7. CASE ShowFrame
    <2>1. /\ view = "judge" /\ view' = "call"
          /\ UNCHANGED <<cb, event, buffer, curGranule, dataQueue>>
          /\ \A i \in DOMAIN shown' :
               \/ i \in DOMAIN shown /\ shown'[i] = shown[i]
               \/ i = Len(shown) + 1 /\ shown'[i] = pkt.granule
      BY <1>1, <1>2, <1>7 DEF ShowFrame
    <2>2. \A i, j \in DOMAIN shown' : i < j => shown'[i] < shown'[j]
      BY <1>1, <2>1 DEF OrderInv
    <2>3. QED BY <2>1, <2>2 DEF OrderInv, Reached
  <1>8. QED
    BY <1>3, <1>4, <1>5, <1>6, <1>7 DEF ReadMjpegFrame

LEMMA StepOrder == IInv /\ OrderInv /\ [Next]_vars => OrderInv'
  <1> SUFFICES ASSUME IInv, OrderInv, [Next]_vars PROVE OrderInv'
    OBVIOUS
  <1> USE DEF gate, current, viewer
  <1>1. ASSUME UNCHANGED <<cb, event, buffer, curGranule, dataQueue, viewer>>
        PROVE  OrderInv'
    BY <1>1 DEF OrderInv, Reached
  <1>2. ASSUME NEW e \in Events, NEW p \in Packets \cup {FIN}, Deliver(e, p)
        PROVE  OrderInv'
    BY <1>2 DEF Deliver, OrderInv, Reached
  <1>3. ASSUME NEW r \in Threads, Release(r)
        PROVE  OrderInv'
    <2>1. CASE AlreadyReleased(r)
      <3>1. r = "cb" => cb = "release"
        BY <2>1 DEF AlreadyReleased, IInv, ReleaseProtocol
      <3>2. QED BY <2>1, <3>1 DEF AlreadyReleased, ReturnFromRelease, OrderInv, Reached
    <2>2. CASE EnterRelease(r)
      BY <1>1, <2>2 DEF EnterRelease
    <2>3. CASE MarkReleased(r)
      BY <1>1, <2>3 DEF MarkReleased
    <2>4. CASE Unregister(r)
      BY <1>1, <2>4 DEF Unregister
    <2>5. CASE FreeFragments(r)
      <3>1. cb \in {"idle", "release"}
        BY <2>5 DEF FreeFragments, IInv, ReleaseProtocol
      <3>2. QED BY <2>5, <3>1 DEF FreeFragments, OrderInv, Reached
    <2>6. CASE ClearQueue(r)
      <3>1. r = "cb" => cb = "release"
        BY <2>6 DEF ClearQueue, IInv, ReleaseProtocol
      <3>2. QED BY <2>6, <3>1 DEF ClearQueue, ReturnFromRelease, OrderInv, Reached
    <2>7. QED
      BY <1>3, <2>1, <2>2, <2>3, <2>4, <2>5, <2>6 DEF Release
  <1>4. CASE CallRelease
    BY <1>1, <1>4 DEF CallRelease
  <1>5. ASSUME NEW on \in BOOLEAN, CallSetReceive(on)
        PROVE  OrderInv'
    BY <1>1, <1>5 DEF CallSetReceive
  <1>6. CASE SetReceive
    BY <1>1, <1>6 DEF SetReceive
  <1>7. CASE UNCHANGED vars
    BY <1>1, <1>7 DEF vars
  <1>8. QED
    BY <1>2, <1>3, <1>4, <1>5, <1>6, <1>7, CallbackKeepsOrder, ViewKeepsOrder DEF Next

\* The pieces put together again: the place of every frame in the pipeline.
LEMMA OrderedPipeline ==
  ASSUME TypeOK, OrderInv
  PROVE  FramesInOrder
  <1> DEFINE P == IF view = "judge" THEN <<pkt.granule>> ELSE <<>>
             Q == [i \in DOMAIN dataQueue |-> dataQueue[i].granule]
             m == Len(shown)
             n == Len(P)
  <1>1. /\ shown \in Seq(Int) /\ dataQueue \in Seq(Frames) /\ pkt \in Frames /\ curGranule \in Int
        /\ DOMAIN shown = 1..m /\ m \in Nat
        /\ DOMAIN dataQueue = 1..Len(dataQueue) /\ Len(dataQueue) \in Nat
    BY DEF TypeOK
  <1>2. /\ \A i \in DOMAIN shown : shown[i] \in Int
        /\ \A i \in DOMAIN dataQueue : dataQueue[i].granule \in Int
        /\ pkt.granule \in Int
    BY GranulesAreInt
  <1>3. /\ P \in Seq(Int) /\ n \in {0, 1} /\ DOMAIN P = 1..n
        /\ n = 1 => view = "judge" /\ P[1] = pkt.granule
    <2>1. CASE view = "judge"
      <3>1. P = <<pkt.granule>>
        BY <2>1
      <3>2. QED BY <1>2, <2>1, <3>1
    <2>2. CASE view # "judge"
      <3>1. P = <<>>
        BY <2>2
      <3>2. QED BY <3>1
    <2>3. QED BY <2>1, <2>2
  <1>4. /\ Q \in Seq(Int) /\ Len(Q) = Len(dataQueue) /\ DOMAIN Q = DOMAIN dataQueue
        /\ \A i \in DOMAIN dataQueue : Q[i] = dataQueue[i].granule
    BY <1>1, <1>2
  <1>5. Pipeline = (shown \o P) \o Q
    BY DEF Pipeline
  <1> HIDE DEF P, Q, m, n
  <1>6. /\ (shown \o P) \in Seq(Int) /\ Len(shown \o P) = m + n
        /\ \A i \in 1..(m + n) : (shown \o P)[i] = IF i <= m THEN shown[i] ELSE P[i - m]
    BY <1>1, <1>3 DEF m, n
  <1>7. /\ DOMAIN Pipeline = 1..(m + n + Len(dataQueue))
        /\ \A i \in DOMAIN Pipeline :
             Pipeline[i] = IF i <= m + n THEN (shown \o P)[i] ELSE Q[i - (m + n)]
    <2> DEFINE S == shown \o P
    <2>1. S \in Seq(Int) /\ Len(S) = m + n /\ Q \in Seq(Int) /\ Len(Q) = Len(dataQueue)
      BY <1>4, <1>6
    <2>2. Pipeline = S \o Q
      BY <1>5
    <2> HIDE DEF S
    <2>3. /\ DOMAIN Pipeline = 1..(Len(S) + Len(Q))
          /\ \A i \in DOMAIN Pipeline : Pipeline[i] = IF i <= Len(S) THEN S[i] ELSE Q[i - Len(S)]
      BY <2>1, <2>2
    <2>4. QED BY <2>1, <2>3 DEF S
  <1>8. \A i \in DOMAIN Pipeline :
          \/ i \in DOMAIN shown /\ Pipeline[i] = shown[i]
          \/ view = "judge" /\ n = 1 /\ i = m + 1 /\ Pipeline[i] = pkt.granule
          \/ i - (m + n) \in DOMAIN dataQueue /\ Pipeline[i] = dataQueue[i - (m + n)].granule
    <2> SUFFICES ASSUME NEW i \in DOMAIN Pipeline
                 PROVE  \/ i \in DOMAIN shown /\ Pipeline[i] = shown[i]
                        \/ view = "judge" /\ n = 1 /\ i = m + 1 /\ Pipeline[i] = pkt.granule
                        \/ i - (m + n) \in DOMAIN dataQueue /\ Pipeline[i] = dataQueue[i - (m + n)].granule
      OBVIOUS
    <2>1. i \in Nat /\ i >= 1 /\ i <= m + n + Len(dataQueue) /\ m \in Nat /\ n \in Nat
      BY <1>1, <1>3, <1>7
    <2>2. CASE i <= m
      BY <1>1, <1>3, <1>6, <1>7, <2>1, <2>2
    <2>3. CASE i > m /\ i <= m + n
      <3>1. n = 1 /\ i = m + 1 /\ i - m = 1 /\ ~(i <= m) /\ i \in 1..(m + n)
        BY <1>3, <2>1, <2>3
      <3>2. Pipeline[i] = (shown \o P)[i]
        BY <1>7, <2>3
      <3>3. (shown \o P)[i] = P[i - m]
        BY <1>6, <3>1
      <3>4. QED BY <1>3, <3>1, <3>2, <3>3
    <2>4. CASE i > m + n
      BY <1>1, <1>3, <1>4, <1>7, <2>1, <2>4
    <2>5. QED BY <2>1, <2>2, <2>3, <2>4
  <1>9. \A i, j \in DOMAIN Pipeline : i < j => Pipeline[i] < Pipeline[j]
    <2> SUFFICES ASSUME NEW i \in DOMAIN Pipeline, NEW j \in DOMAIN Pipeline, i < j
                 PROVE  Pipeline[i] < Pipeline[j]
      OBVIOUS
    <2>1. i \in Nat /\ j \in Nat /\ m \in Nat /\ n \in {0, 1}
      BY <1>1, <1>3, <1>7
    <2>2. CASE i \in DOMAIN shown /\ Pipeline[i] = shown[i]
      BY <1>1, <1>8, <2>1, <2>2 DEF OrderInv
    <2>3. CASE view = "judge" /\ n = 1 /\ i = m + 1 /\ Pipeline[i] = pkt.granule
      BY <1>1, <1>8, <2>1, <2>3 DEF OrderInv
    <2>4. CASE i - (m + n) \in DOMAIN dataQueue /\ Pipeline[i] = dataQueue[i - (m + n)].granule
      <3>1. j - (m + n) \in DOMAIN dataQueue /\ Pipeline[j] = dataQueue[j - (m + n)].granule
        BY <1>1, <1>8, <2>1, <2>4
      <3>2. i - (m + n) < j - (m + n)
        BY <2>1
      <3>3. QED BY <2>4, <3>1, <3>2 DEF OrderInv
    <2>5. QED BY <1>8, <2>2, <2>3, <2>4
  <1>10. \A i \in DOMAIN Pipeline : Reached(Pipeline[i]) /\ Pipeline[i] \in Int
    BY <1>2, <1>8 DEF OrderInv
  <1>11. QED BY <1>1, <1>9, <1>10 DEF FramesInOrder, Reached

\* Frames are shown, polled and queued in strictly ascending granule order and
\* each at most once, for any packets in any order and number.
THEOREM OrderSafe == Spec => []FramesInOrder
  <1>1. Init => OrderInv
    BY DEF Init, OrderInv
  <1>2. IInv /\ OrderInv => FramesInOrder
    BY OrderedPipeline DEF IInv
  <1>3. QED BY <1>1, <1>2, InitIInv, StepIInv, StepOrder, PTL DEF Spec
=============================================================================

--------------------------- MODULE RtpSubscriber ---------------------------
(*****************************************************************************)
(* The receiving half of the video path: BARtpSubscriber, which reassembles  *)
(* RTP packets into frames, and MjpegDataInput.readMjpegFrame(), which the   *)
(* view thread uses to take frames out of it.                                *)
(*                                                                           *)
(* Four threads meet in a subscriber:                                        *)
(*   - the native event thread ("cb"), which runs publishedData() while the  *)
(*     classifier holds its handler table's monitor: cb # "idle" is that     *)
(*     monitor being held;                                                   *)
(*   - the UI thread ("ui"), which calls release() when receiving is         *)
(*     switched off;                                                         *)
(*   - whoever owns the scheduler's monitor, which calls setReceive();       *)
(*   - the view thread, which reads frames until the subscriber is released. *)
(* The network may deliver any packet at any time, any number of times, so   *)
(* loss, duplication and reordering are all included.                        *)
(*                                                                           *)
(* A BAEvent is a handle on a native buffer: buffer[e] is the packet in it,  *)
(* or Freed.  A freed handle may come back with another packet.              *)
(*****************************************************************************)
EXTENDS Integers, Sequences

CONSTANTS
  Packets,       (* the RTP packets the network can deliver                *)
  Events,        (* the native event buffers                               *)
  NoEvent,       (* no event                                               *)
  QueueSize,     (* capacity of dataQueue (15, the frame rate)             *)
  FrameTimeout   (* DEFAULT_FRAME_TIMEOUT of MjpegDataInput                *)

ASSUME SubscriberAssumption ==
  /\ Packets \subseteq [granule : Nat, seq : Nat, ts : Nat, len : Nat]
  /\ NoEvent \notin Events
  /\ QueueSize \in Nat \ {0}
  /\ FrameTimeout \in Nat

VARIABLES
  registered,    (* is this subscriber the classifier's handler of mRid    *)
  mReceive, released,
  cb,            (* where the event thread is in publishedData()           *)
  event,         (* the BAEvent publishedData() is working on              *)
  buffer,        (* buffer[e]: the packet in event e's native buffer       *)
  frags,         (* curGranuleFragmentQueue                                *)
  curRtpDataLen, curGranule, curSeq, curTimestamp,
  dataQueue,     (* the frames (BARtpPacket) ready for the view thread     *)
  rel,           (* rel[r]: where thread r is in release()                 *)
  sched,         (* where the scheduler's thread is in setReceive()        *)
  view,          (* where the view thread is in readMjpegFrame()           *)
  pkt,           (* the frame the view thread has polled                   *)
  shown          (* history: the granules handed to the decoder            *)

gate    == <<registered, mReceive, released>>
current == <<frags, curRtpDataLen, curGranule, curSeq, curTimestamp>>
viewer  == <<view, pkt, shown>>
vars    == <<gate, cb, event, buffer, current, dataQueue, rel, sched, viewer>>

Threads == {"cb", "ui"}
FIN     == [granule |-> -1, seq |-> -1, ts |-> -1, len |-> 0]
Freed   == [granule |-> -2, seq |-> -2, ts |-> -2, len |-> 0]
NoFrame == [granule |-> -1, ts |-> -1, data |-> <<>>, len |-> 0]

Init ==
  /\ registered = TRUE /\ mReceive = FALSE /\ released = FALSE
  /\ cb = "idle" /\ event = NoEvent
  /\ buffer = [e \in Events |-> Freed]
  /\ frags = <<>> /\ curRtpDataLen = 0
  /\ curGranule = -1 /\ curSeq = -1 /\ curTimestamp = -1
  /\ dataQueue = <<>>
  /\ rel = [r \in Threads |-> "idle"]
  /\ sched = "idle"
  /\ view = "call" /\ pkt = NoFrame /\ shown = <<>>

-----------------------------------------------------------------------------
(* The event thread: publishedData().                                      *)

\* The classifier finds the handler in its table and calls it under the
\* table's monitor.
Deliver(e, p) ==
  /\ cb = "idle" /\ registered
  /\ buffer[e] = Freed
  /\ buffer' = [buffer EXCEPT ![e] = p]
  /\ event' = e
  /\ cb' = "received"
  /\ UNCHANGED <<gate, current, dataQueue, rel, sched, viewer>>

\* freeNativeBuffer() of every event in S.
Free(S) == buffer' = [e \in Events |-> IF e \in S THEN Freed ELSE buffer[e]]

\* Mutation of Discard: the buffer is not freed.
DiscardLeaking ==
  /\ UNCHANGED buffer
  /\ cb' = "idle"
  /\ event' = NoEvent

\* The event is finished with: its buffer is freed and the callback returns.
Discard ==
  /\ Free({event})
  /\ cb' = "idle"
  /\ event' = NoEvent

NotReceiving ==
  /\ cb = "received" /\ ~mReceive
  /\ Discard
  /\ UNCHANGED <<gate, current, dataQueue, rel, sched, viewer>>

\* A zero-length event: release() in the callback; the event is not freed.
FinReceived ==
  /\ cb = "received" /\ mReceive
  /\ buffer[event] = FIN
  /\ cb' = "release"
  /\ rel' = [rel EXCEPT !["cb"] = "enter"]
  /\ UNCHANGED <<gate, event, buffer, current, dataQueue, sched, viewer>>

DataReceived ==
  /\ cb = "received" /\ mReceive
  /\ buffer[event] # FIN
  /\ cb' = "classify"
  /\ UNCHANGED <<gate, event, buffer, current, dataQueue, rel, sched, viewer>>

AppendFragment ==
  /\ frags' = Append(frags, event)
  /\ curRtpDataLen' = curRtpDataLen + buffer[event].len
  /\ curSeq' = buffer[event].seq
  /\ cb' = "idle"
  /\ event' = NoEvent

\* Mutation of InSequence: a duplicate is appended too.
InSequenceOrSame == buffer[event].seq >= curSeq

InSequence == buffer[event].seq > curSeq

NextFragment ==
  /\ cb = "classify"
  /\ buffer[event].granule = curGranule
  /\ InSequence
  /\ AppendFragment
  /\ UNCHANGED <<gate, buffer, curGranule, curTimestamp, dataQueue, rel, sched, viewer>>

LateOrDuplicate ==
  /\ cb = "classify"
  /\ \/ buffer[event].granule < curGranule
     \/ buffer[event].granule = curGranule /\ ~InSequence
  /\ Discard
  /\ UNCHANGED <<gate, current, dataQueue, rel, sched, viewer>>

\* Mutation of NewGranule: any other granule, a late one included, is taken
\* for a new one.
OtherGranule ==
  /\ cb = "classify"
  /\ buffer[event].granule # curGranule
  /\ cb' = "generate"
  /\ UNCHANGED <<gate, event, buffer, current, dataQueue, rel, sched, viewer>>

NewGranule ==
  /\ cb = "classify"
  /\ buffer[event].granule > curGranule
  /\ cb' = "generate"
  /\ UNCHANGED <<gate, event, buffer, current, dataQueue, rel, sched, viewer>>

FragmentEvents == {frags[i] : i \in DOMAIN frags}

\* Mutation of QueueHasRoom: the capacity is exceeded by one.
QueueMayOverflow == Len(dataQueue) <= QueueSize

QueueHasRoom == Len(dataQueue) < QueueSize

\* Mutation of FrameTimestamp: the timestamp of the packet just received.
NextTimestamp == buffer[event].ts

FrameTimestamp == curTimestamp

\* generateBARtpPacket(): copy the fragments out, free them, offer the frame.
GenerateBARtpPacket ==
  /\ cb = "generate"
  /\ LET frame == [granule |-> curGranule, ts |-> FrameTimestamp,
                   data |-> [i \in DOMAIN frags |-> buffer[frags[i]]],
                   len |-> curRtpDataLen]
     IN dataQueue' = IF frags # <<>> /\ QueueHasRoom
                     THEN Append(dataQueue, frame)
                     ELSE dataQueue
  /\ Free(FragmentEvents)
  /\ frags' = <<>>
  /\ curRtpDataLen' = IF frags # <<>> THEN 0 ELSE curRtpDataLen
  /\ cb' = "advance"
  /\ UNCHANGED <<gate, event, curGranule, curSeq, curTimestamp, rel, sched, viewer>>

FirstFragment ==
  /\ cb = "advance"
  /\ curGranule' = buffer[event].granule
  /\ curTimestamp' = buffer[event].ts
  /\ AppendFragment
  /\ UNCHANGED <<gate, buffer, dataQueue, rel, sched, viewer>>

PublishedData ==
  \/ NotReceiving \/ FinReceived \/ DataReceived
  \/ NextFragment \/ LateOrDuplicate \/ NewGranule
  \/ GenerateBARtpPacket \/ FirstFragment

-----------------------------------------------------------------------------
(* release(), by the UI thread or, for FIN, by the event thread.           *)

CallRelease ==
  /\ rel["ui"] = "idle"
  /\ rel' = [rel EXCEPT !["ui"] = "enter"]
  /\ UNCHANGED <<gate, cb, event, buffer, current, dataQueue, sched, viewer>>

\* The event thread's release() returns from publishedData() too.
ReturnFromRelease(r) ==
  /\ rel' = [rel EXCEPT ![r] = "idle"]
  /\ cb' = IF r = "cb" THEN "idle" ELSE cb
  /\ event' = IF r = "cb" THEN NoEvent ELSE event

AlreadyReleased(r) ==
  /\ rel[r] = "enter" /\ released
  /\ ReturnFromRelease(r)
  /\ UNCHANGED <<gate, buffer, current, dataQueue, sched, viewer>>

EnterRelease(r) ==
  /\ rel[r] = "enter" /\ ~released
  /\ rel' = [rel EXCEPT ![r] = "mark"]
  /\ UNCHANGED <<gate, cb, event, buffer, current, dataQueue, sched, viewer>>

MarkReleased(r) ==
  /\ rel[r] = "mark"
  /\ mReceive' = FALSE
  /\ released' = TRUE
  /\ rel' = [rel EXCEPT ![r] = "unregister"]
  /\ UNCHANGED <<registered, cb, event, buffer, current, dataQueue, sched, viewer>>

\* Mutation of Unregister: it does not wait for the callback in progress.
UnregisterAtOnce(r) ==
  /\ rel[r] = "unregister"
  /\ registered' = FALSE
  /\ rel' = [rel EXCEPT ![r] = "fragments"]
  /\ UNCHANGED <<mReceive, released, cb, event, buffer, current, dataQueue, sched, viewer>>

\* The classifier's table is locked while a callback runs; the event thread
\* itself re-enters the monitor.
Unregister(r) ==
  /\ rel[r] = "unregister"
  /\ r = "ui" => cb = "idle"
  /\ registered' = FALSE
  /\ rel' = [rel EXCEPT ![r] = "fragments"]
  /\ UNCHANGED <<mReceive, released, cb, event, buffer, current, dataQueue, sched, viewer>>

FreeFragments(r) ==
  /\ rel[r] = "fragments"
  /\ Free(FragmentEvents)
  /\ frags' = <<>>
  /\ rel' = [rel EXCEPT ![r] = "queue"]
  /\ UNCHANGED <<gate, cb, event, curRtpDataLen, curGranule, curSeq,
                 curTimestamp, dataQueue, sched, viewer>>

ClearQueue(r) ==
  /\ rel[r] = "queue"
  /\ dataQueue' = <<>>
  /\ ReturnFromRelease(r)
  /\ UNCHANGED <<gate, buffer, current, sched, viewer>>

Release(r) ==
  \/ AlreadyReleased(r) \/ EnterRelease(r) \/ MarkReleased(r)
  \/ Unregister(r) \/ FreeFragments(r) \/ ClearQueue(r)

-----------------------------------------------------------------------------
(* setReceive(), called under the scheduler's monitor.                     *)

\* The test of `released`; a released subscriber throws an IOException.
CallSetReceive(on) ==
  /\ sched = "idle" /\ ~released
  /\ sched' = IF on THEN "on" ELSE "off"
  /\ UNCHANGED <<gate, cb, event, buffer, current, dataQueue, rel, viewer>>

SetReceive ==
  /\ sched # "idle"
  /\ mReceive' = (sched = "on")
  /\ sched' = "idle"
  /\ UNCHANGED <<registered, released, cb, event, buffer, current, dataQueue, rel, viewer>>

-----------------------------------------------------------------------------
(* The view thread: readMjpegFrame() over getBARtpPacket().                *)

\* Mutation of GetBARtpPacket: it does not look at `released`.
GetBARtpPacketUnchecked ==
  /\ view = "call"
  /\ view' = "poll"
  /\ UNCHANGED <<gate, cb, event, buffer, current, dataQueue, rel, sched, pkt, shown>>

\* getBARtpPacket() throws an IOException once the subscriber is released,
\* which ends playback from this source.
GetBARtpPacket ==
  /\ view = "call"
  /\ view' = IF released THEN "stopped" ELSE "poll"
  /\ UNCHANGED <<gate, cb, event, buffer, current, dataQueue, rel, sched, pkt, shown>>

Poll ==
  /\ view = "poll" /\ dataQueue # <<>>
  /\ pkt' = Head(dataQueue)
  /\ dataQueue' = Tail(dataQueue)
  /\ view' = "judge"
  /\ UNCHANGED <<gate, cb, event, buffer, current, rel, sched, shown>>

\* poll(READ_TIMEOUT_MS) returned null: the loop calls again.
PollTimeout ==
  /\ view = "poll" /\ dataQueue = <<>>
  /\ view' = "call"
  /\ UNCHANGED <<gate, cb, event, buffer, current, dataQueue, rel, sched, pkt, shown>>

\* The frame's age is measured against the granule now being received.
TooOld == curTimestamp - pkt.ts > FrameTimeout

SkipFrame ==
  /\ view = "judge" /\ TooOld
  /\ view' = "call"
  /\ pkt' = NoFrame
  /\ UNCHANGED <<gate, cb, event, buffer, current, dataQueue, rel, sched, shown>>

ShowFrame ==
  /\ view = "judge" /\ ~TooOld
  /\ shown' = Append(shown, pkt.granule)
  /\ view' = "call"
  /\ pkt' = NoFrame
  /\ UNCHANGED <<gate, cb, event, buffer, current, dataQueue, rel, sched>>

ReadMjpegFrame == GetBARtpPacket \/ Poll \/ PollTimeout \/ SkipFrame \/ ShowFrame

-----------------------------------------------------------------------------
Next ==
  \/ \E e \in Events, p \in Packets \cup {FIN} : Deliver(e, p)
  \/ PublishedData
  \/ CallRelease
  \/ \E r \in Threads : Release(r)
  \/ \E on \in BOOLEAN : CallSetReceive(on)
  \/ SetReceive
  \/ ReadMjpegFrame

Spec == Init /\ [][Next]_vars

\* The view thread runs whenever it can: poll() has a timeout, so it is never
\* blocked for good.  Nothing is assumed of the network or of the UI.
FairSpec == Spec /\ WF_vars(ReadMjpegFrame)

-----------------------------------------------------------------------------
(* Properties.                                                             *)

Received  == Packets \cup {FIN}
TotalLen(data) ==
  LET total[n \in 0..Len(data)] == IF n = 0 THEN 0 ELSE total[n - 1] + data[n].len
  IN total[Len(data)]
Frames    == [granule : Int, ts : Int, data : Seq(Packets), len : Nat]

\* Every variable stays in its domain; dataQueue never exceeds its capacity.
TypeOK ==
  /\ registered \in BOOLEAN /\ mReceive \in BOOLEAN /\ released \in BOOLEAN
  /\ cb \in {"idle", "received", "release", "classify", "generate", "advance"}
  /\ event \in Events \cup {NoEvent}
  /\ buffer \in [Events -> Received \cup {Freed}]
  /\ frags \in Seq(Events)
  /\ curRtpDataLen \in Nat
  /\ curGranule \in Int /\ curSeq \in Int /\ curTimestamp \in Int
  /\ dataQueue \in Seq(Frames) /\ Len(dataQueue) <= QueueSize
  /\ rel \in [Threads -> {"idle", "enter", "mark", "unregister", "fragments", "queue"}]
  /\ sched \in {"idle", "on", "off"}
  /\ view \in {"call", "poll", "judge", "stopped"}
  /\ pkt \in Frames
  /\ shown \in Seq(Int)

\* The buffers this subscriber still has a use for.
InUse == FragmentEvents \cup (IF cb = "idle" THEN {} ELSE {event})

\* No use after free and no leak: an event waiting in the fragment list or in
\* the callback has its buffer, each such event is held once, and every other
\* buffer has been freed, the FIN event's (lines 84-88) apart.
BuffersAccounted ==
  /\ \A e \in InUse : buffer[e] # Freed
  /\ \A i, j \in DOMAIN frags : frags[i] = frags[j] => i = j
  /\ cb # "idle" => event \notin FragmentEvents
  /\ \A e \in Events : buffer[e] \in Packets => e \in InUse

Ascending(data) == \A i, j \in DOMAIN data : i < j => data[i].seq < data[j].seq

\* The fragments being collected are of one granule, the current one, in
\* ascending sequence order without duplicates, and curRtpDataLen is what
\* they add up to, so that generateBARtpPacket()'s array fits them.
FragmentsCoherent ==
  LET data == [i \in DOMAIN frags |-> buffer[frags[i]]]
  IN /\ \A i \in DOMAIN data : data[i].granule = curGranule
     /\ Ascending(data)
     /\ frags # <<>> => data[Len(data)].seq = curSeq
     /\ ~released => curRtpDataLen = TotalLen(data)

\* A frame is made of fragments of its own granule only, ascending, and its
\* recorded length and timestamp are those of its fragments.
Coherent(f) ==
  /\ f.data # <<>>
  /\ \A i \in DOMAIN f.data : f.data[i].granule = f.granule
  /\ Ascending(f.data)
  /\ f.ts = f.data[1].ts
  /\ f.len = TotalLen(f.data)

\* Every frame the decoder can be given is coherent.
FramesCoherent ==
  /\ \A i \in DOMAIN dataQueue : Coherent(dataQueue[i])
  /\ view = "judge" => Coherent(pkt)

\* The frames on their way to the screen, oldest first.
Pipeline ==
  shown \o (IF view = "judge" THEN <<pkt.granule>> ELSE <<>>)
        \o [i \in DOMAIN dataQueue |-> dataQueue[i].granule]

\* Frames are shown, polled and queued in strictly ascending granule order
\* and each at most once, whatever the network duplicates or reorders, and
\* the granule being collected is later than all of them.
FramesInOrder ==
  /\ \A i, j \in DOMAIN Pipeline : i < j => Pipeline[i] < Pipeline[j]
  /\ \A i \in DOMAIN Pipeline :
       /\ Pipeline[i] <= curGranule
       /\ Pipeline[i] = curGranule => cb = "advance"

Stream == INSTANCE FrameStream WITH
  frame   <- IF view = "judge" THEN pkt ELSE NoFrame,
  stopped <- view = "stopped"

\* Loss, duplication, reordering and release() included, the subscriber gives
\* the decoder what FrameStream promises.
RefinesFrameStream == Stream!Spec

\* Once a release() has returned and none is in progress the subscriber is
\* quiet for good: unregistered, no fragment held, no frame queued, although
\* publishedData(), setReceive() and a second release() may have been under
\* way when it started.
ReleasedIsQuiet ==
  (released /\ \A r \in Threads : rel[r] = "idle") =>
    /\ ~registered
    /\ cb = "idle"
    /\ frags = <<>>
    /\ dataQueue = <<>>

\* A view thread reading from a released subscriber gets out of
\* readMjpegFrame(), where it loops while no frame comes.
ReleaseStopsReader == released ~> view = "stopped"

\* "release receiver if FIN_PKT received" (BARtpSubscriber:83).  The code
\* breaks it: a FIN that arrives while mReceive is off is freed and forgotten.
FinReleases ==
  [][(cb = "received" /\ buffer[event] = FIN /\ cb' # "received") =>
       cb' = "release"]_vars
============================================================================

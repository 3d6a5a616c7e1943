---------------------------- MODULE RtpPublisher ----------------------------
(***************************************************************************)
(* The sending half of the video path: the encoder threads                 *)
(* (MjpegDataOutput) that compress camera frames into a packetising        *)
(* OutputStream (BARtpPublisherOutputStream), the item publisher           *)
(* (BAPacketPublisher) they share, the rendezvous' START/STOP_PUBLISH      *)
(* events that open and close its gate, and the UI thread that releases    *)
(* the recorder or, from surfaceChanged, starts another encoder on the     *)
(* same publisher.                                                         *)
(*                                                                         *)
(* One encoder is one MjpegDataOutput with its own output stream.  A byte  *)
(* of JPEG data is the triple <<encoder, granule, position>>, so that a    *)
(* packet shows which bytes of which frame it carries.  The sleep after a  *)
(* frame and the return of its buffer to the camera are not modelled here. *)
(***************************************************************************)
EXTENDS Naturals, Sequences

CONSTANTS
  PayloadSize,  (* PAYLOAD_SIZE: bytes of JPEG data in a full packet       *)
  NumEncoders,  (* bound: how often initPreview() starts an encoder        *)
  MaxFrames,    (* bound: frames encoded, by all encoders together         *)
  MaxLength     (* bound: bytes of one frame                               *)

ASSUME PublisherAssumption ==
  /\ PayloadSize \in Nat \ {0}
  /\ NumEncoders \in Nat \ {0}
  /\ MaxFrames \in Nat
  /\ MaxLength \in Nat

VARIABLES
  canPublish,   (* BAPacketPublisher.canPublish                            *)
  recorder,     (* where the UI thread is in VideoRecorder.release()       *)
  current,      (* VideoRecorder.mjpegDataOutput: the latest encoder       *)
  pc,           (* pc[e]: where encoder thread e is                        *)
  released,     (* released[e]: MjpegDataOutput.released                   *)
  curGranule,   (* curGranule[e]: number of the next frame                 *)
  header,       (* header[e]: granule and timestamp standing in mPktBuf    *)
  payload,      (* payload[e]: mPktBuf from HEADER_SIZE up to bufPtr       *)
  seq,          (* seq[e]: sequence number of the next packet              *)
  count,        (* count[e]: bytes left of the current write() call        *)
  clock,        (* System.currentTimeMillis(), a tick for every frame      *)
  frames,       (* history: frames[e][g + 1] is what frame g consists of   *)
  wire,         (* history: the packets handed to publishData()            *)
  dropped       (* history: the packets send() did not publish             *)

encoderVars == <<pc, released, curGranule, header, payload, seq, count,
                 clock, frames>>
vars == <<canPublish, recorder, current, encoderVars, wire, dropped>>

Encoders == 1..NumEncoders
FIN_PKT  == [by |-> 0, granule |-> 0, seq |-> 0, ts |-> 0, data |-> <<>>]
Lesser(a, b) == IF a < b THEN a ELSE b

Init ==
  /\ canPublish = FALSE
  /\ recorder = "live"
  /\ current = 1
  /\ pc = [e \in Encoders |-> IF e = 1 THEN "loop" ELSE "off"]
  /\ released = [e \in Encoders |-> FALSE]
  /\ curGranule = [e \in Encoders |-> 0]
  /\ header = [e \in Encoders |-> [granule |-> 0, ts |-> 0]]
  /\ payload = [e \in Encoders |-> <<>>]
  /\ seq = [e \in Encoders |-> 0]
  /\ count = [e \in Encoders |-> 0]
  /\ clock = 0
  /\ frames = [e \in Encoders |-> <<>>]
  /\ wire = {}
  /\ dropped = {}

-----------------------------------------------------------------------------
(* BAPacketPublisher: the event thread's handlers and send().              *)

HandlerRegistered == recorder # "gone"

StartPublish ==
  /\ HandlerRegistered
  /\ canPublish' = TRUE
  /\ UNCHANGED <<recorder, current, encoderVars, wire, dropped>>

StopPublish ==
  /\ HandlerRegistered
  /\ canPublish' = FALSE
  /\ UNCHANGED <<recorder, current, encoderVars, wire, dropped>>

Send(pkt) ==
  /\ wire' = IF canPublish THEN wire \cup {pkt} ELSE wire
  /\ dropped' = IF canPublish THEN dropped ELSE dropped \cup {pkt}

-----------------------------------------------------------------------------
(* BARtpPublisherOutputStream.                                             *)

\* Mutation of SendPkt: seq is not advanced.
SendPktSameSeq(e, data) ==
  /\ Send([by |-> e, granule |-> header[e].granule, seq |-> seq[e],
           ts |-> header[e].ts, data |-> data])
  /\ payload' = [payload EXCEPT ![e] = <<>>]
  /\ UNCHANGED seq

\* sendPkt(): the header's granule and timestamp are already in the buffer.
SendPkt(e, data) ==
  /\ Send([by |-> e, granule |-> header[e].granule, seq |-> seq[e],
           ts |-> header[e].ts, data |-> data])
  /\ payload' = [payload EXCEPT ![e] = <<>>]
  /\ seq' = [seq EXCEPT ![e] = @ + 1]

\* Mutation of CreateNewRtpPkt: seq keeps counting from the last frame.
CreateNewRtpPktKeepSeq(e, granule, ts) ==
  /\ header' = [header EXCEPT ![e] = [granule |-> granule, ts |-> ts]]
  /\ UNCHANGED seq

\* createNewRtpPkt(): the payload already buffered is not touched.
CreateNewRtpPkt(e, granule, ts) ==
  /\ header' = [header EXCEPT ![e] = [granule |-> granule, ts |-> ts]]
  /\ seq' = [seq EXCEPT ![e] = 0]

\* The bytes of e's current frame that follow the `written` first ones.
NextBytes(e, written, n) ==
  [i \in 1..n |-> <<e, curGranule[e] - 1, written + i>>]

Remain(e) == PayloadSize - Len(payload[e])

\* Mutation of FillsPacket: a packet exactly filled waits for the next byte.
OverfillsPacket(e) == count[e] > Remain(e)

FillsPacket(e) == count[e] >= Remain(e)

\* One turn of the loop of write(buffer, offset, count).
FillPacket(e) ==
  /\ pc[e] = "write"
  /\ LET n    == Lesser(count[e], Remain(e))
         data == payload[e] \o NextBytes(e, frames[e][curGranule[e]].len, n)
     IN /\ IF FillsPacket(e)
           THEN SendPkt(e, data)
           ELSE /\ payload' = [payload EXCEPT ![e] = data]
                /\ UNCHANGED <<seq, wire, dropped>>
        /\ frames' = [frames EXCEPT ![e][curGranule[e]].len = @ + n]
        /\ count' = [count EXCEPT ![e] = @ - n]
        /\ pc' = [pc EXCEPT ![e] = IF count[e] = n THEN "compress" ELSE "write"]
  /\ UNCHANGED <<canPublish, recorder, current, released, curGranule, header, clock>>

\* Mutation of ForceSend: a tail of one byte is left in the buffer.
ForceSendOffByOne(e) ==
  IF Len(payload[e]) > 1
  THEN SendPkt(e, payload[e])
  ELSE UNCHANGED <<payload, seq, wire, dropped>>

ForceSend(e) ==
  IF payload[e] # <<>>
  THEN SendPkt(e, payload[e])
  ELSE UNCHANGED <<payload, seq, wire, dropped>>

-----------------------------------------------------------------------------
(* MjpegDataOutput: the encoder thread.                                    *)

\* while (!released)
CheckReleased(e) ==
  /\ pc[e] = "loop"
  /\ pc' = [pc EXCEPT ![e] = IF released[e] THEN "done" ELSE "take"]
  /\ UNCHANGED <<canPublish, recorder, current, released, curGranule, header,
                 payload, seq, count, clock, frames, wire, dropped>>

\* The wait() for a frame ends with the interrupt() at the end of release().
Interrupted(e) ==
  /\ pc[e] = "take"
  /\ recorder = "gone" /\ e = current
  /\ pc' = [pc EXCEPT ![e] = "done"]
  /\ UNCHANGED <<canPublish, recorder, current, released, curGranule, header,
                 payload, seq, count, clock, frames, wire, dropped>>

\* A camera frame was polled: encodeFrame() up to compressToJpeg().
EncodeFrame(e) ==
  /\ pc[e] = "take"
  /\ clock < MaxFrames
  /\ clock' = clock + 1
  /\ CreateNewRtpPkt(e, curGranule[e], clock)
  /\ frames' = [frames EXCEPT ![e] = Append(@, [len |-> 0, ts |-> clock])]
  /\ curGranule' = [curGranule EXCEPT ![e] = @ + 1]
  /\ pc' = [pc EXCEPT ![e] = "compress"]
  /\ UNCHANGED <<canPublish, recorder, current, released, payload, count, wire, dropped>>

\* compressToJpeg() calls write() with the next n bytes.
Write(e, n) ==
  /\ pc[e] = "compress"
  /\ frames[e][curGranule[e]].len + n <= MaxLength
  /\ count' = [count EXCEPT ![e] = n]
  /\ pc' = [pc EXCEPT ![e] = "write"]
  /\ UNCHANGED <<canPublish, recorder, current, released, curGranule, header,
                 payload, seq, clock, frames, wire, dropped>>

\* compressToJpeg() has returned: the rest of encodeFrame().
FinishFrame(e) ==
  /\ pc[e] = "compress"
  /\ ForceSend(e)
  /\ pc' = [pc EXCEPT ![e] = "loop"]
  /\ UNCHANGED <<canPublish, recorder, current, released, curGranule, header, count,
                 clock, frames>>

-----------------------------------------------------------------------------
(* The UI thread: VideoRecorder.                                           *)

\* surfaceChanged(): initPreview() makes another MjpegDataOutput on the same
\* sender; the one before it is neither released nor interrupted.
InitPreview ==
  /\ recorder = "live"
  /\ current < NumEncoders
  /\ current' = current + 1
  /\ pc' = [pc EXCEPT ![current + 1] = "loop"]
  /\ UNCHANGED <<canPublish, recorder, released, curGranule, header, payload,
                 seq, count, clock, frames, wire, dropped>>

\* release() down to MjpegDataOutput.release() setting its flag.
ReleaseEncoder ==
  /\ recorder = "live"
  /\ recorder' = "closing"
  /\ released' = [released EXCEPT ![current] = TRUE]
  /\ UNCHANGED <<canPublish, current, pc, curGranule, header, payload, seq,
                 count, clock, frames, wire, dropped>>

\* BAPacketPublisher.release(): the termination mark.
SendFin ==
  /\ recorder = "closing"
  /\ recorder' = "unpublishing"
  /\ Send(FIN_PKT)
  /\ UNCHANGED <<canPublish, current, encoderVars>>

\* The rest of the release: unpublish, unregister the handler, interrupt().
Unpublish ==
  /\ recorder = "unpublishing"
  /\ recorder' = "gone"
  /\ UNCHANGED <<canPublish, current, encoderVars, wire, dropped>>

Encoder(e) ==
  \/ CheckReleased(e)
  \/ Interrupted(e)
  \/ EncodeFrame(e)
  \/ \E n \in 1..MaxLength : Write(e, n)
  \/ FillPacket(e)
  \/ FinishFrame(e)

Next ==
  \/ StartPublish
  \/ StopPublish
  \/ \E e \in Encoders : Encoder(e)
  \/ InitPreview
  \/ ReleaseEncoder
  \/ SendFin
  \/ Unpublish

Spec == Init /\ [][Next]_vars

-----------------------------------------------------------------------------
(* Properties.                                                             *)

Bytes == Encoders \X (0..MaxFrames) \X (1..MaxLength)
Packets == [by : 0..NumEncoders, granule : Nat, seq : Nat, ts : Nat, data : Seq(Bytes)]

\* Every variable stays in its domain; in particular the packet buffer is
\* never left full: a full packet is sent by the write() that filled it.
TypeOK ==
  /\ canPublish \in BOOLEAN
  /\ recorder \in {"live", "closing", "unpublishing", "gone"}
  /\ current \in Encoders
  /\ pc \in [Encoders -> {"off", "loop", "take", "compress", "write", "done"}]
  /\ released \in [Encoders -> BOOLEAN]
  /\ curGranule \in [Encoders -> 0..MaxFrames]
  /\ header \in [Encoders -> [granule : Nat, ts : Nat]]
  /\ payload \in [Encoders -> Seq(Bytes)]
  /\ \A e \in Encoders : Len(payload[e]) < PayloadSize
  /\ seq \in [Encoders -> Nat]
  /\ count \in [Encoders -> 0..MaxLength]
  /\ clock \in Nat
  /\ frames \in [Encoders -> Seq([len : 0..MaxLength, ts : Nat])]
  /\ \A e \in Encoders : Len(frames[e]) = curGranule[e]
  /\ wire \subseteq Packets
  /\ dropped \subseteq Packets

SentBy(e) == {p \in wire \cup dropped : p.by = e}

\* The bytes that packet s of frame g of encoder e has to carry: the frame's
\* s-th slice of PayloadSize bytes, the last slice being what is left.
Slice(e, g, s) ==
  [i \in 1..Lesser(PayloadSize, frames[e][g + 1].len - s * PayloadSize) |->
     <<e, g, s * PayloadSize + i>>]

\* A packet's payload is exactly the slice of the frame its header names, so
\* that concatenating by sequence number rebuilds the frame: no byte of an
\* earlier frame is carried over in mPktBuf, none is skipped or repeated,
\* and the timestamp is the one of that frame, however compressToJpeg() cuts
\* its write() calls and whatever the other encoder does meanwhile.
FragmentsTile ==
  \A e \in Encoders : \A p \in SentBy(e) :
    /\ p.data = Slice(e, p.granule, p.seq)
    /\ p.ts = frames[e][p.granule + 1].ts

\* Once a frame is encoded every slice of it was offered to publishData()
\* (or withheld by a closed gate): forceSend() leaves no tail behind.
FramesWhole ==
  \A e \in Encoders : \A g \in 0..(Len(frames[e]) - 1) :
    (g + 1 < curGranule[e] \/ pc[e] \in {"loop", "take", "done"}) =>
      \A s \in 0..MaxLength : (s * PayloadSize < frames[e][g + 1].len) =>
        \E p \in SentBy(e) : p.granule = g /\ p.seq = s

\* The packets a step hands to publishData().
NewOnWire == wire' \ wire

\* One encoder's packets leave in increasing order of (granule, seq), which
\* is what the subscriber's duplicate and late-arrival tests rely on.
EncoderOrdered ==
  [][\A p \in NewOnWire : \A q \in wire : (q.by = p.by /\ p # FIN_PKT) =>
       \/ q.granule < p.granule
       \/ q.granule = p.granule /\ q.seq < p.seq]_vars

\* "send(FIN_PKT, 0); // termination mark" (BAPacketPublisher:89): nothing
\* follows the termination mark.  The code breaks it: release() leaves
\* canPublish set, and the encoder may be inside a frame.
FinIsLast == [][(FIN_PKT \in wire) => (NewOnWire = {})]_vars
=============================================================================

---------------------------- MODULE FrameStream ----------------------------
(***************************************************************************)
(* What the receiving half of the video path promises a view, whatever the *)
(* network does: the decoder gets one frame at a time, each put together   *)
(* from fragments of one frame of the peer, in their order and without     *)
(* duplicates (some may be missing); the frames shown get ever later; and  *)
(* once the source has stopped nothing more comes out of it.               *)
(***************************************************************************)
EXTENDS Integers, Sequences

CONSTANTS
  Packets,   (* the fragments the peer has sent: granule, seq and timestamp *)
  NoFrame    (* no frame                                                    *)

VARIABLES
  frame,     (* the frame the decoder has been given, or NoFrame            *)
  shown,     (* the granules of the frames shown so far                     *)
  stopped    (* has the source stopped                                      *)

vars == <<frame, shown, stopped>>

\* A sequence of fragments of one frame.
OneFrame(granule, data) ==
  /\ data \in Seq(Packets) /\ data # <<>>
  /\ \A i \in DOMAIN data : data[i].granule = granule
  /\ \A i, j \in DOMAIN data : i < j => data[i].seq < data[j].seq

Init == frame = NoFrame /\ shown = <<>> /\ stopped = FALSE

Take ==
  /\ frame = NoFrame /\ ~stopped
  /\ frame' # NoFrame
  /\ OneFrame(frame'.granule, frame'.data)
  /\ frame'.ts = frame'.data[1].ts
  /\ \A i \in DOMAIN shown : shown[i] < frame'.granule
  /\ UNCHANGED <<shown, stopped>>

Show ==
  /\ frame # NoFrame
  /\ shown' = Append(shown, frame.granule)
  /\ frame' = NoFrame
  /\ UNCHANGED stopped

\* The frame is too old to be shown.
Skip == frame # NoFrame /\ frame' = NoFrame /\ UNCHANGED <<shown, stopped>>

Stop == frame = NoFrame /\ stopped' = TRUE /\ UNCHANGED <<frame, shown>>

Next == Take \/ Show \/ Skip \/ Stop

Spec == Init /\ [][Next]_vars
=============================================================================

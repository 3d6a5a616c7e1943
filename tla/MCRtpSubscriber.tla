-------------------------- MODULE MCRtpSubscriber --------------------------
(* Model checking instance of RtpSubscriber: four frames, the first two in *)
(* fragments of different lengths, sent one time unit apart.               *)
EXTENDS RtpSubscriber

Frag(g, s, n) == [granule |-> g, seq |-> s, ts |-> 10 + g, len |-> n]
MCPackets == {Frag(0, 0, 2), Frag(0, 1, 1), Frag(1, 0, 2), Frag(1, 1, 1), Frag(2, 0, 1), Frag(3, 0, 1)}
============================================================================

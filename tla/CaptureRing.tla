----------------------------- MODULE CaptureRing -----------------------------
(****************************************************************************)
(* Capturing video: one VideoRecorder with its camera, the MjpegDataOutput  *)
(* encoder threads it starts, and the capture buffers that go round between *)
(* a camera, its encoder's queue and the encoder.                           *)
(*                                                                          *)
(* Threads:                                                                 *)
(*   - Rec, the VideoRecorder's own thread: run() with its initPreview();   *)
(*   - Main, the UI thread: the surface callbacks, setSend(false) and, for  *)
(*     it is the looper the camera posts to, onPreviewFrame();              *)
(*   - one encoder thread per initPreview().                                *)
(* `at` says where Rec and Main are.  initPreview() is not synchronised and *)
(* may run on both at once, for run() registers the surface callback before *)
(* it: `raced` remembers that it did.  release() runs on Main alone.        *)
(*                                                                          *)
(* External (the Android camera): one can be open at a time, open() throws  *)
(* otherwise; a camera fills the buffers it was given; addCallbackBuffer()  *)
(* after release() does nothing; setPreviewDisplay() may fail without a     *)
(* surface.  What an encoder sends is RtpPublisher's subject: nothing in    *)
(* encodeFrame() throws an IOException, so onError() is never called.       *)
(****************************************************************************)
EXTENDS Naturals, Sequences, FiniteSets

CONSTANTS
  NumBuffers,    (* VideoRecorder.FRAME_BUFFER_SIZE                        *)
  MaxPreviews    (* bound: initPreview() calls that open a camera          *)

ASSUME CaptureAssumption ==
  /\ NumBuffers \in Nat \ {0}
  /\ MaxPreviews \in Nat

Cameras  == 1..MaxPreviews
Encoders == 1..MaxPreviews
None     == 0               (* null                                        *)
Rec      == "rec"
Main     == "main"

\* Capture buffers, by the encoder that made them and index.
Buffers  == Encoders \X (1..NumBuffers)
NoBuffer == <<0, 0>>

\* Mutation of BuffersOf: one buffer more than the queue has room for.
BuffersOneMore(g) == {g} \X (0..NumBuffers)

\* getYuvBuffer(): the buffers encoder g makes.
BuffersOf(g) == {g} \X (1..NumBuffers)

VARIABLES
  at,                 (* at[t]: where Rec and Main are                      *)
  recorder,           (* does VideoProxy still refer to the recorder?       *)
  released,           (* VideoRecorder.released                             *)
  mCamera, mjpegDataOutput, mSurfaceHolder,   (* its fields; the last is    *)
                      (* TRUE if not null                                   *)
  callback,           (* is its surface callback registered?                *)
  surface,            (* does the preview surface exist?                    *)
  opened, open,       (* cameras opened so far; those open now              *)
  previewing,         (* cameras with a preview callback                    *)
  cameraBuffers,      (* cameraBuffers[c]: buffers camera c may fill        *)
  made,               (* encoders made so far                               *)
  pc,                 (* pc[g]: where encoder g's thread is                 *)
  mCam,               (* MjpegDataOutput.mCam                               *)
  encodeQueue,        (* MjpegDataOutput.encodeQueue                        *)
  hand,               (* the buffer encoder g is encoding                   *)
  encReleased,        (* MjpegDataOutput.released                           *)
  interrupted,        (* the interrupt flag of its thread                   *)
  called,             (* the encoder whose addFrame() or release() Main is in *)
  crashed,            (* an uncaught exception has ended the process        *)
  raced               (* history: initPreview() was on both threads at once *)

recFields == <<recorder, released, mCamera, mjpegDataOutput, mSurfaceHolder>>
screen    == <<callback, surface>>
camera    == <<opened, open, previewing, cameraBuffers>>
encoder   == <<made, pc, mCam, encodeQueue, hand, encReleased, interrupted>>
vars == <<at, recFields, screen, camera, encoder, called, crashed, raced>>

Init ==
  /\ at = [t \in {Rec, Main} |-> IF t = Rec THEN "run" ELSE "idle"]
  /\ recorder = TRUE /\ released = FALSE
  /\ mCamera = None /\ mjpegDataOutput = None /\ mSurfaceHolder = FALSE
  /\ callback = FALSE /\ surface \in BOOLEAN
  /\ opened = 0 /\ open = {} /\ previewing = {}
  /\ cameraBuffers = [c \in Cameras |-> {}]
  /\ made = 0
  /\ pc = [g \in Encoders |-> "none"]
  /\ mCam = [g \in Encoders |-> None]
  /\ encodeQueue = [g \in Encoders |-> <<>>]
  /\ hand = [g \in Encoders |-> NoBuffer]
  /\ encReleased = [g \in Encoders |-> FALSE]
  /\ interrupted = [g \in Encoders |-> FALSE]
  /\ called = None
  /\ crashed = "no" /\ raced = FALSE

\* Where a thread is in initPreview().
InPreview == {"reopen", "open", "display", "encoder", "start", "buffers", "preview"}

Goto(t, place) == at' = [at EXCEPT ![t] = place]
Crash(why) == crashed' = why /\ UNCHANGED <<at, recFields, screen, camera, encoder, called>>

-----------------------------------------------------------------------------
(* VideoRecorder.run() and initPreview().                                  *)

Run ==
  /\ at[Rec] = "run"
  /\ released' = FALSE
  /\ mSurfaceHolder' = TRUE
  /\ Goto(Rec, "callback")
  /\ UNCHANGED <<recorder, mCamera, mjpegDataOutput, screen, camera, encoder, called, crashed>>

AddCallback ==
  /\ at[Rec] = "callback"
  /\ callback' = TRUE
  /\ Goto(Rec, "reopen")
  /\ UNCHANGED <<recFields, surface, camera, encoder, called, crashed>>

\* releaseCamera(), which does nothing without one.
ReleaseCamera ==
  /\ open' = open \ {mCamera}
  /\ previewing' = previewing \ {mCamera}
  /\ mCamera' = None
  /\ cameraBuffers' = [c \in Cameras |-> IF c = mCamera THEN {} ELSE cameraBuffers[c]]
  /\ UNCHANGED opened

\* initPreview() by thread t: the holder, and the old camera is released, ...
Reopen(t) ==
  /\ at[t] = "reopen"
  /\ mSurfaceHolder' = TRUE
  /\ ReleaseCamera
  /\ Goto(t, "open")
  /\ UNCHANGED <<recorder, released, mjpegDataOutput, screen, encoder, called, crashed>>

\* ... Camera.open(), ...
Open(t) ==
  /\ at[t] = "open"
  /\ opened < MaxPreviews
  /\ IF open # {}
     THEN Crash("open")
     ELSE /\ opened' = opened + 1
          /\ open' = {opened + 1}
          /\ mCamera' = opened + 1
          /\ Goto(t, "display")
          /\ UNCHANGED <<recorder, released, mjpegDataOutput, mSurfaceHolder,
                         screen, previewing, cameraBuffers, encoder, called, crashed>>

\* ... setPreviewDisplay(), whose failure ends initPreview(), ...
SetDisplay(t) ==
  /\ at[t] = "display"
  /\ IF mCamera = None
     THEN Crash("null")
     ELSE /\ \/ Goto(t, "encoder")
             \/ ~surface /\ Goto(t, "idle")
          /\ UNCHANGED <<recFields, screen, camera, encoder, called, crashed>>

\* Mutation of NewEncoder: an encoder that is there already is kept.
NewEncoderOnce(t) ==
  /\ at[t] = "encoder"
  /\ IF made = 0
     THEN /\ made' = 1
          /\ mjpegDataOutput' = 1
          /\ mCam' = [mCam EXCEPT ![1] = mCamera]
          /\ Goto(t, "start")
     ELSE Goto(t, "buffers") /\ UNCHANGED <<made, mjpegDataOutput, mCam>>
  /\ UNCHANGED <<recorder, released, mCamera, mSurfaceHolder, screen, camera, pc,
                 encodeQueue, hand, encReleased, interrupted, called, crashed>>

\* ... a new MjpegDataOutput on the camera, ...
NewEncoder(t) ==
  /\ at[t] = "encoder"
  /\ made' = made + 1
  /\ mjpegDataOutput' = made + 1
  /\ mCam' = [mCam EXCEPT ![made + 1] = mCamera]
  /\ Goto(t, "start")
  /\ UNCHANGED <<recorder, released, mCamera, mSurfaceHolder, screen, camera, pc,
                 encodeQueue, hand, encReleased, interrupted, called, crashed>>

\* ... which is started: a thread can be only once, ...
StartEncoder(t) ==
  /\ at[t] = "start"
  /\ IF pc[mjpegDataOutput] # "none"
     THEN Crash("started")
     ELSE /\ pc' = [pc EXCEPT ![mjpegDataOutput] = "top"]
          /\ Goto(t, "buffers")
          /\ UNCHANGED <<recFields, screen, camera, made, mCam, encodeQueue, hand,
                         encReleased, interrupted, called, crashed>>

\* ... all its buffers to the camera, ...
AddBuffers(t) ==
  /\ at[t] = "buffers"
  /\ IF mCamera = None
     THEN Crash("null")
     ELSE /\ cameraBuffers' = [cameraBuffers EXCEPT ![mCamera] = @ \cup BuffersOf(mjpegDataOutput)]
          /\ Goto(t, "preview")
          /\ UNCHANGED <<recFields, screen, opened, open, previewing, encoder, called, crashed>>

\* ... and the preview starts.
StartPreview(t) ==
  /\ at[t] = "preview"
  /\ IF mCamera = None
     THEN Crash("null")
     ELSE /\ previewing' = previewing \cup {mCamera}
          /\ Goto(t, "idle")
          /\ UNCHANGED <<recFields, screen, opened, open, cameraBuffers, encoder, called, crashed>>

InitPreview(t) ==
  \/ Reopen(t) \/ Open(t) \/ SetDisplay(t)
  \/ NewEncoder(t) \/ StartEncoder(t) \/ AddBuffers(t) \/ StartPreview(t)

-----------------------------------------------------------------------------
(* The main thread.                                                        *)

\* Bound: no more previews than MaxPreviews, Rec's own included.
PreviewsLeft == opened + (IF at[Rec] \in {"reopen", "open"} THEN 1 ELSE 0) < MaxPreviews

SurfaceCreated ==
  /\ at[Main] = "idle" /\ callback
  /\ ~surface
  /\ surface' = TRUE
  /\ mSurfaceHolder' = TRUE
  /\ UNCHANGED <<at, recorder, released, mCamera, mjpegDataOutput, callback,
                 camera, encoder, called, crashed>>

SurfaceChanged ==
  /\ at[Main] = "idle" /\ callback
  /\ PreviewsLeft
  /\ surface
  /\ mSurfaceHolder' = TRUE
  /\ Goto(Main, "reopen")
  /\ UNCHANGED <<recorder, released, mCamera, mjpegDataOutput, screen, camera,
                 encoder, called, crashed>>

SurfaceDestroyed ==
  /\ at[Main] = "idle" /\ callback
  /\ surface
  /\ surface' = FALSE
  /\ mSurfaceHolder' = FALSE
  /\ Goto(Main, "release")
  /\ UNCHANGED <<recorder, released, mCamera, mjpegDataOutput, callback, camera,
                 encoder, called, crashed>>

\* VideoProxy.setSend(false): recorder.release(); recorder = null.
SwitchOff ==
  /\ at[Main] = "idle"
  /\ recorder
  /\ recorder' = FALSE
  /\ Goto(Main, "release")
  /\ UNCHANGED <<released, mCamera, mjpegDataOutput, mSurfaceHolder, screen,
                 camera, encoder, called, crashed>>

\* release(): nothing the second time; otherwise the camera first, ...
ReleaseRecorder ==
  /\ at[Main] = "release"
  /\ released' = TRUE
  /\ IF released
     THEN /\ Goto(Main, "idle")
          /\ UNCHANGED <<mCamera, camera>>
     ELSE /\ ReleaseCamera
          /\ Goto(Main, "mark")
  /\ UNCHANGED <<recorder, mjpegDataOutput, mSurfaceHolder, screen, encoder, called, crashed>>

\* ... then MjpegDataOutput.release(): its flag (and the stream's end), ...
MarkEncoder ==
  /\ at[Main] = "mark"
  /\ LET g == mjpegDataOutput
     IN IF g = None \/ (g # None /\ encReleased[g])
        THEN Goto(Main, "holder") /\ UNCHANGED <<encReleased, called>>
        ELSE /\ encReleased' = [encReleased EXCEPT ![g] = TRUE]
             /\ called' = g
             /\ Goto(Main, "interrupt")
  /\ UNCHANGED <<recFields, screen, camera, made, pc, mCam, encodeQueue, hand,
                 interrupted, crashed>>

\* Mutation of RaiseInterrupt: the encoder is left in wait().
RaiseNoInterrupt(g) == UNCHANGED interrupted

RaiseInterrupt(g) == interrupted' = [interrupted EXCEPT ![g] = (@ \/ pc[g] \notin {"none", "dead"})]

\* ... its interrupt(), ...
InterruptEncoder ==
  /\ at[Main] = "interrupt"
  /\ RaiseInterrupt(called)
  /\ called' = None
  /\ Goto(Main, "holder")
  /\ UNCHANGED <<recFields, screen, camera, made, pc, mCam, encodeQueue, hand,
                 encReleased, crashed>>

\* ... and the surface callback, unless surfaceDestroyed() has cleared the
\* holder.
RemoveCallback ==
  /\ at[Main] = "holder"
  /\ callback' = (callback /\ ~mSurfaceHolder)
  /\ mSurfaceHolder' = FALSE
  /\ Goto(Main, "idle")
  /\ UNCHANGED <<recorder, released, mCamera, mjpegDataOutput, surface, camera,
                 encoder, called, crashed>>

ReleaseSteps == ReleaseRecorder \/ MarkEncoder \/ InterruptEncoder \/ RemoveCallback

\* onPreviewFrame() with a buffer camera c has filled: addFrame() on whatever
\* encoder is the recorder's now.  A released one, or one whose queue is full,
\* throws, and the buffer is out of the ring.
OnPreviewFrame(c, b) ==
  /\ at[Main] = "idle"
  /\ c \in open \cap previewing
  /\ b \in cameraBuffers[c]
  /\ cameraBuffers' = [cameraBuffers EXCEPT ![c] = @ \ {b}]
  /\ LET g == mjpegDataOutput
     IN IF encReleased[g] \/ Len(encodeQueue[g]) = NumBuffers
        THEN UNCHANGED <<at, encodeQueue, called>>
        ELSE /\ encodeQueue' = [encodeQueue EXCEPT ![g] = Append(@, b)]
             /\ called' = g
             /\ Goto(Main, "notify")
  /\ UNCHANGED <<recFields, screen, opened, open, previewing, made, pc, mCam,
                 hand, encReleased, interrupted, crashed>>

\* Mutation of MonitorFree: notify() without the queue's monitor.
MonitorIgnored(g) == TRUE

\* The queue's monitor is held by its encoder between the test and wait().
MonitorFree(g) == pc[g] # "empty"

\* encodeQueue.notify()
Notify ==
  /\ at[Main] = "notify"
  /\ MonitorFree(called)
  /\ pc' = [pc EXCEPT ![called] = IF @ = "wait" THEN "woken" ELSE @]
  /\ called' = None
  /\ Goto(Main, "idle")
  /\ UNCHANGED <<recFields, screen, camera, made, mCam, encodeQueue, hand,
                 encReleased, interrupted, crashed>>

-----------------------------------------------------------------------------
(* The thread of encoder g: MjpegDataOutput.run().  The loop's test and      *)
(* what follows it up to the frame, or up to wait(), are one step, and so is *)
(* encodeFrame(): whatever another thread does in between comes to the same  *)
(* as if it had come before or after.                                        *)

EncoderStep(g, from, to) ==
  /\ pc[g] = from
  /\ pc' = [pc EXCEPT ![g] = to]
  /\ UNCHANGED <<at, recFields, screen, opened, open, previewing, made, mCam,
                 encReleased, called, crashed>>

NoData == UNCHANGED <<cameraBuffers, encodeQueue, hand, interrupted>>

\* A thread that has ended has no interrupt flag.
Ends(g) ==
  /\ interrupted' = [interrupted EXCEPT ![g] = FALSE]
  /\ UNCHANGED <<cameraBuffers, encodeQueue, hand>>

Poll(g) ==
  /\ hand' = [hand EXCEPT ![g] = Head(encodeQueue[g])]
  /\ encodeQueue' = [encodeQueue EXCEPT ![g] = Tail(@)]
  /\ UNCHANGED <<cameraBuffers, interrupted>>

\* while (!released): the thread ends, ...
Leave(g) ==
  /\ encReleased[g]
  /\ EncoderStep(g, "top", "dead")
  /\ Ends(g)

\* ... or it tests the queue's size inside the monitor and takes a frame, ...
CheckSize(g) ==
  /\ ~encReleased[g]
  /\ IF encodeQueue[g] = <<>>
     THEN EncoderStep(g, "top", "empty") /\ NoData
     ELSE EncoderStep(g, "top", "encode") /\ Poll(g)

\* ... or waits.  encodeQueue.wait() begins, ...
Wait(g) == EncoderStep(g, "empty", "wait") /\ NoData

\* ... is interrupted: the thread ends, ...
Interrupted(g) ==
  /\ interrupted[g]
  /\ EncoderStep(g, "wait", "dead")
  /\ Ends(g)

\* ... or wakes up for no reason, which Java allows, ...
WakeUp(g) == EncoderStep(g, "wait", "woken") /\ NoData

\* ... or has been notified: back to the loop if there is no frame.
Woken(g) ==
  IF encodeQueue[g] = <<>>
  THEN EncoderStep(g, "woken", "top") /\ NoData
  ELSE EncoderStep(g, "woken", "encode") /\ Poll(g)

\* Mutation of GiveBack: the buffer is not returned to the camera.
KeepBuffer(g) == UNCHANGED cameraBuffers

\* addCallbackBuffer(data)
GiveBack(g) ==
  cameraBuffers' = IF mCam[g] \in open
                   THEN [cameraBuffers EXCEPT ![mCam[g]] = @ \cup {hand[g]}]
                   ELSE cameraBuffers

\* encodeFrame(): the image is looked up by its buffer among the encoder's own,
\* the sleep swallows an interrupt, and the buffer goes back.
EncodeFrame(g) ==
  IF pc[g] = "encode" /\ (hand[g] \notin BuffersOf(g) \/ mCam[g] = None)
  THEN Crash("null")
  ELSE /\ EncoderStep(g, "encode", "top")
       /\ GiveBack(g)
       /\ hand' = [hand EXCEPT ![g] = NoBuffer]
       /\ \E flag \in {interrupted[g], FALSE} : interrupted' = [interrupted EXCEPT ![g] = flag]
       /\ UNCHANGED encodeQueue

Encoder(g) ==
  \/ Leave(g) \/ CheckSize(g) \/ Wait(g) \/ Interrupted(g) \/ Woken(g) \/ EncodeFrame(g)

-----------------------------------------------------------------------------

RecThread == Run \/ AddCallback \/ InitPreview(Rec)

\* What Main has begun it goes on with; the rest is up to the user, the screen
\* and the camera.
MainGoesOn == InitPreview(Main) \/ ReleaseSteps \/ Notify

MainThread ==
  \/ MainGoesOn
  \/ SurfaceCreated \/ SurfaceChanged \/ SurfaceDestroyed \/ SwitchOff
  \/ \E c \in Cameras, b \in Buffers : OnPreviewFrame(c, b)

\* History: is Main in initPreview() while Rec is still in run()?
Noted == raced' = (raced \/ (at'[Rec] # "idle" /\ at'[Main] \in InPreview))

Next ==
  /\ crashed = "no"
  /\ RecThread \/ MainThread \/ \E g \in Encoders : Encoder(g) \/ WakeUp(g)
  /\ Noted

Spec == Init /\ [][Next]_vars

Fairness ==
  /\ WF_vars(crashed = "no" /\ RecThread /\ Noted)
  /\ WF_vars(crashed = "no" /\ MainGoesOn /\ Noted)
  /\ \A g \in Encoders : WF_vars(crashed = "no" /\ Encoder(g) /\ Noted)

FairSpec == Spec /\ Fairness

-----------------------------------------------------------------------------
(* Properties.                                                             *)

\* Every variable stays in its domain.
TypeOK ==
  /\ at[Rec] \in InPreview \cup {"idle", "run", "callback"}
  /\ at[Main] \in InPreview \cup {"idle", "release", "mark", "interrupt", "holder", "notify"}
  /\ recorder \in BOOLEAN /\ released \in BOOLEAN /\ mSurfaceHolder \in BOOLEAN
  /\ mCamera \in Cameras \cup {None}
  /\ mjpegDataOutput \in Encoders \cup {None}
  /\ callback \in BOOLEAN /\ surface \in BOOLEAN
  /\ opened \in 0..MaxPreviews /\ open \subseteq Cameras /\ previewing \subseteq Cameras
  /\ cameraBuffers \in [Cameras -> SUBSET Buffers]
  /\ made \in 0..MaxPreviews
  /\ pc \in [Encoders -> {"none", "top", "empty", "wait", "woken", "encode", "dead"}]
  /\ mCam \in [Encoders -> Cameras \cup {None}]
  /\ encodeQueue \in [Encoders -> Seq(Buffers)]
  /\ hand \in [Encoders -> Buffers \cup {NoBuffer}]
  /\ encReleased \in [Encoders -> BOOLEAN]
  /\ interrupted \in [Encoders -> BOOLEAN]
  /\ called \in Encoders \cup {None}
  /\ crashed \in {"no", "open", "started", "null"} /\ raced \in BOOLEAN

Queued(g) == {encodeQueue[g][i] : i \in DOMAIN encodeQueue[g]}

\* Frames of a camera go to the encoder that made its buffers and returns them
\* to it, also after surfaceChanged() has replaced both: otherwise the encoder
\* would not find the image (MjpegDataOutput:96) or the ring would run dry.
\* It takes initPreview() on two threads at once to break this.
FramesMeetTheirEncoder == ~raced =>
  \A c \in open \cap previewing :
    /\ mjpegDataOutput # None
    /\ mCam[mjpegDataOutput] = c
    /\ cameraBuffers[c] \subseteq BuffersOf(mjpegDataOutput)

\* As long as a camera is previewing and its encoder not released, each of its
\* buffers is in exactly one place: with the camera, in the queue, or being
\* encoded.  None is lost, so the capture never stalls, unless initPreview()
\* was on two threads at once.
RingConserved == ~raced =>
  \A c \in open \cap previewing :
    LET g == mjpegDataOutput
    IN (g # None /\ ~encReleased[g]) =>
         /\ BuffersOf(g) = cameraBuffers[c] \cup Queued(g) \cup ({hand[g]} \ {NoBuffer})
         /\ cameraBuffers[c] \cap Queued(g) = {}
         /\ hand[g] \notin cameraBuffers[c] \cup Queued(g)
         /\ Cardinality(Queued(g)) = Len(encodeQueue[g])

\* "consumer only add buffer back after a frame is processed, should not be
\* problem to offer data" (MjpegDataOutput:122): no filled buffer finds the
\* encoder's queue full, so no frame is refused and no buffer dropped, unless
\* initPreview() was on two threads at once.
OfferHasRoom == ~raced =>
  \A c \in open \cap previewing :
    (cameraBuffers[c] # {} /\ mjpegDataOutput # None) =>
      Len(encodeQueue[mjpegDataOutput]) < NumBuffers

\* A queued frame is taken by the encoder, for notify() cannot fall between
\* its test of the queue and its wait(); unless it is released first.
QueuedFrameIsTaken ==
  \A g \in Encoders :
    encodeQueue[g] # <<>> ~> (pc[g] = "encode" \/ encReleased[g] \/ crashed # "no")

\* The thread of a released encoder ends, although the sleep in encodeFrame()
\* swallows the interrupt that is to end its wait().
ReleasedEncoderEnds ==
  \A g \in Encoders : encReleased[g] ~> (pc[g] = "dead" \/ crashed # "no")

\* "stop streaming" (VideoProxy:141), "Video recorder released!"
\* (VideoRecorder:163): once setSend(false) has returned and run() has ended,
\* the camera is closed.  The code breaks it: run() forgets a release() that
\* came first, and initPreview() never looks at `released`.
OffClosesCamera ==
  (~recorder /\ at[Main] = "idle" /\ at[Rec] = "idle") => open = {}
=============================================================================

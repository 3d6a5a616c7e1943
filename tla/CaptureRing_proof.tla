-------------------------- MODULE CaptureRing_proof --------------------------
(***************************************************************************)
(* Theorems about CaptureRing: its variables stay typed whatever the user  *)
(* and the screen do; and until initPreview() has been on both threads at  *)
(* once, frames meet their own encoder, no capture buffer is lost and no   *)
(* encoder queue overflows.                                                *)
(***************************************************************************)
EXTENDS CaptureRing, FiniteSetTheorems, TLAPS

Threads == {Rec, Main}

-----------------------------------------------------------------------------
(* The inductive invariant, first part: types, and how far each initPreview *)
(* and each encoder has come.                                               *)

Pending(t) == IF at[t] \in {"display", "encoder"} THEN 1 ELSE 0

\* Every camera opened is for one encoder, made later by the same thread.
Counted ==
  /\ DOMAIN at = Threads
  /\ made + Pending(Rec) + Pending(Main) <= opened
  /\ mjpegDataOutput <= made
  /\ mCamera <= opened
  /\ \A g \in Encoders : mCam[g] <= opened

HasEncoder ==
  /\ \A t \in Threads : at[t] \in {"start", "buffers", "preview"} => mjpegDataOutput # None
  /\ previewing # {} => mjpegDataOutput # None

\* An encoder has a frame in hand just while it encodes it.
Filled ==
  \A g \in Encoders :
    /\ pc[g] = "encode" <=> hand[g] # NoBuffer
    /\ g > made => pc[g] = "none" /\ mCam[g] = None /\ encodeQueue[g] = <<>>


(* Second part, until `raced`: who runs initPreview() when, whose camera is *)
(* open, and where the buffers of each encoder are.                         *)

\* Rec's run() and Main's initPreview() do not overlap; a camera previews
\* only between them.
TurnsTaken ==
  /\ at[Rec] # "idle" =>
       /\ at[Main] \in {"idle", "release", "mark", "interrupt", "holder"}
       /\ previewing = {}
  /\ at[Main] \in {"open", "display", "encoder", "start", "buffers", "preview"} => previewing = {}

OneCamera ==
  /\ open = {mCamera} \ {None}
  /\ previewing \subseteq open
  /\ \A t \in Threads : at[t] = "open" => mCamera = None

\* Each camera serves one encoder, and has no buffers before.
CamerasFresh ==
  /\ \A g, h \in Encoders : (mCam[g] = mCam[h] /\ mCam[g] # None) => g = h
  /\ \A c \in Cameras : (\A g \in Encoders : mCam[g] # c) => cameraBuffers[c] = {}

\* How far an initPreview() has come with the camera it opened, if that is
\* still there.
PreviewPlace ==
  \A t \in Threads :
    /\ (at[t] \in {"display", "encoder"} /\ mCamera # None) => \A g \in Encoders : mCam[g] # mCamera
    /\ at[t] \in {"start", "buffers", "preview"} =>
         /\ encodeQueue[mjpegDataOutput] = <<>>
         /\ hand[mjpegDataOutput] = NoBuffer
         /\ mCamera # None =>
              /\ mCam[mjpegDataOutput] = mCamera
              /\ cameraBuffers[mCamera] = IF at[t] = "preview" THEN BuffersOf(mjpegDataOutput) ELSE {}

PreviewsOwn == previewing # {} => mCam[mjpegDataOutput] = mCamera

\* The buffers of encoder g are in its queue, in its hand or with its camera,
\* none in two places.
RingOf(g) ==
  /\ \A i \in DOMAIN encodeQueue[g] : encodeQueue[g][i] \in BuffersOf(g) /\ encodeQueue[g][i] # hand[g]
  /\ \A i, j \in DOMAIN encodeQueue[g] : encodeQueue[g][i] = encodeQueue[g][j] => i = j
  /\ hand[g] \in BuffersOf(g) \cup {NoBuffer}
  /\ mCam[g] # None =>
       /\ cameraBuffers[mCam[g]] \subseteq BuffersOf(g)
       /\ hand[g] \notin cameraBuffers[mCam[g]]
       /\ \A i \in DOMAIN encodeQueue[g] : encodeQueue[g][i] \notin cameraBuffers[mCam[g]]

\* While a camera previews for an encoder not released, none is missing.
NoneMissing ==
  (previewing # {} /\ ~encReleased[mjpegDataOutput]) =>
    \A b \in BuffersOf(mjpegDataOutput) :
      \/ b \in cameraBuffers[mCamera]
      \/ b = hand[mjpegDataOutput]
      \/ \E i \in DOMAIN encodeQueue[mjpegDataOutput] : encodeQueue[mjpegDataOutput][i] = b

RingInv ==
  /\ TurnsTaken
  /\ OneCamera
  /\ CamerasFresh
  /\ PreviewPlace
  /\ PreviewsOwn
  /\ \A g \in Encoders : RingOf(g)
  /\ NoneMissing

-----------------------------------------------------------------------------
(* Typing.                                                                 *)

FlagsOK ==
  /\ recorder \in BOOLEAN /\ released \in BOOLEAN /\ mSurfaceHolder \in BOOLEAN
  /\ callback \in BOOLEAN /\ surface \in BOOLEAN
  /\ encReleased \in [Encoders -> BOOLEAN]
  /\ interrupted \in [Encoders -> BOOLEAN]

PlacesOK ==
  /\ at[Rec] \in InPreview \cup {"idle", "run", "callback"}
  /\ at[Main] \in InPreview \cup {"idle", "release", "mark", "interrupt", "holder", "notify"}
  /\ crashed \in {"no", "open", "started", "null"}

CamerasOK ==
  /\ mCamera \in Cameras \cup {None}
  /\ mjpegDataOutput \in Encoders \cup {None}
  /\ opened \in 0..MaxPreviews /\ open \subseteq Cameras /\ previewing \subseteq Cameras
  /\ cameraBuffers \in [Cameras -> SUBSET Buffers]

EncodersOK ==
  /\ made \in 0..MaxPreviews
  /\ pc \in [Encoders -> {"none", "top", "empty", "wait", "woken", "encode", "dead"}]
  /\ mCam \in [Encoders -> Cameras \cup {None}]
  /\ encodeQueue \in [Encoders -> Seq(Buffers)]
  /\ hand \in [Encoders -> Buffers \cup {NoBuffer}]
  /\ called \in Encoders \cup {None}

TypeInv == FlagsOK /\ PlacesOK /\ CamerasOK /\ EncodersOK /\ Counted /\ HasEncoder /\ Filled

LEMMA ConstantFacts ==
  /\ NumBuffers \in Nat /\ NumBuffers > 0 /\ MaxPreviews \in Nat
  /\ Cameras = 1..MaxPreviews /\ Encoders = 1..MaxPreviews /\ None = 0
  /\ None \notin Cameras /\ None \notin Encoders
  /\ NoBuffer \notin Buffers
  /\ \A g \in Encoders : BuffersOf(g) \subseteq Buffers
  /\ \A g, h \in Encoders : \A b \in BuffersOf(g) : b \in BuffersOf(h) => g = h
  /\ Threads = {Rec, Main} /\ Rec \in Threads /\ Main \in Threads /\ Rec # Main
  BY CaptureAssumption DEF Cameras, Encoders, None, NoBuffer, Buffers, BuffersOf, Threads, Rec, Main

LEMMA GotoFacts ==
  ASSUME DOMAIN at = Threads, NEW t \in Threads, NEW place, Goto(t, place)
  PROVE  DOMAIN at' = Threads /\ at'[t] = place /\ \A u \in Threads : u # t => at'[u] = at[u]
  BY DEF Goto

\* What a thread's step leaves alone.
LEMMA EncodersKept ==
  ASSUME EncodersOK, Filled, UNCHANGED <<made, pc, mCam, encodeQueue, hand>>,
         called' \in Encoders \cup {None, called}
  PROVE  EncodersOK' /\ Filled'
  BY DEF EncodersOK, Filled

LEMMA CamerasKept ==
  ASSUME CamerasOK, UNCHANGED <<mCamera, mjpegDataOutput, opened, open, previewing, cameraBuffers>>
  PROVE  CamerasOK'
  BY DEF CamerasOK

LEMMA InitTypes == Init => TypeInv
  <1> SUFFICES ASSUME Init PROVE TypeInv
    OBVIOUS
  <1>1. FlagsOK
    BY Zenon DEF Init, FlagsOK
  <1>2. PlacesOK /\ DOMAIN at = Threads /\ Pending(Rec) = 0 /\ Pending(Main) = 0
    BY ConstantFacts DEF Init, PlacesOK, InPreview, Pending
  <1>3. CamerasOK /\ EncodersOK
    BY ConstantFacts DEF Init, CamerasOK, EncodersOK
  <1>4. Counted
    BY <1>2, ConstantFacts DEF Init, Counted
  <1>5. HasEncoder /\ Filled
    BY ConstantFacts DEF Init, HasEncoder, Filled
  <1>6. QED BY <1>1, <1>2, <1>3, <1>4, <1>5 DEF TypeInv

LEMMA CrashKeepsTypes ==
  ASSUME TypeInv, NEW why \in {"open", "started", "null"}, Crash(why)
  PROVE  TypeInv'
  <1>1. UNCHANGED <<at, recFields, screen, camera, encoder, called>> /\ crashed' = why
    BY DEF Crash
  <1>2. FlagsOK /\ PlacesOK /\ CamerasOK /\ EncodersOK
    BY DEF TypeInv
  <1>3. FlagsOK'
    BY <1>1, <1>2, Zenon DEF FlagsOK, recFields, screen, encoder
  <1>4. PlacesOK' /\ CamerasOK'
    BY <1>1, <1>2 DEF PlacesOK, CamerasOK, recFields, camera
  <1>5. EncodersOK' /\ Filled'
    BY <1>1, <1>2, EncodersKept DEF TypeInv, encoder
  <1>6. Counted' /\ HasEncoder'
    BY <1>1 DEF TypeInv, Counted, Pending, HasEncoder, recFields, camera, encoder
  <1>7. QED BY <1>3, <1>4, <1>5, <1>6 DEF TypeInv

\* Steps of Rec and Main that touch no camera and no encoder but its flags.
Walk(t, place) ==
  /\ Goto(t, place)
  /\ UNCHANGED <<mCamera, mjpegDataOutput, camera, made, pc, mCam, encodeQueue, hand, crashed>>

LEMMA WalkKeepsTypes ==
  ASSUME TypeInv, NEW t \in Threads, NEW place, Walk(t, place), FlagsOK',
         called' \in Encoders \cup {None, called},
         \/ t = Rec /\ place \in InPreview \cup {"idle", "run", "callback"}
         \/ t = Main /\ place \in InPreview \cup {"idle", "release", "mark", "interrupt", "holder", "notify"},
         place \notin {"start", "buffers", "preview"},
         place \in {"display", "encoder"} => at[t] \in {"display", "encoder"}
  PROVE  TypeInv'
  <1>1. PlacesOK /\ CamerasOK /\ EncodersOK /\ DOMAIN at = Threads
    BY DEF TypeInv, Counted
  <1>2. /\ DOMAIN at' = Threads /\ at'[t] = place /\ \A u \in Threads : u # t => at'[u] = at[u]
        /\ UNCHANGED <<mCamera, mjpegDataOutput, camera, made, pc, mCam, encodeQueue, hand, crashed>>
    BY <1>1, GotoFacts DEF Walk
  <1>3. PlacesOK'
    BY <1>1, <1>2, ConstantFacts DEF PlacesOK
  <1>4. CamerasOK' /\ EncodersOK' /\ Filled'
    BY <1>1, <1>2, CamerasKept, EncodersKept DEF TypeInv, camera
  <1>5. Counted'
    <2>1. \A u \in Threads : Pending(u)' <= Pending(u) /\ Pending(u)' \in {0, 1} /\ Pending(u) \in {0, 1}
      BY <1>2 DEF Pending
    <2>2. made + Pending(Rec)' + Pending(Main)' <= opened
      BY <1>1, <2>1, ConstantFacts DEF TypeInv, Counted, CamerasOK, EncodersOK
    <2>3. QED BY <1>2, <2>2 DEF TypeInv, Counted, camera
  <1>6. HasEncoder'
    BY <1>2 DEF TypeInv, HasEncoder, camera
  <1>7. QED BY <1>3, <1>4, <1>5, <1>6 DEF TypeInv

LEMMA RunTypes ==
  ASSUME TypeInv, Run \/ AddCallback
  PROVE  TypeInv'
  <1>1. FlagsOK
    BY DEF TypeInv
  <1>2. CASE Run
    <2>1. Walk(Rec, "callback") /\ UNCHANGED called
      BY <1>2 DEF Run, Walk, encoder
    <2>2. /\ released' = FALSE /\ mSurfaceHolder' = TRUE
          /\ UNCHANGED <<recorder, callback, surface, encReleased, interrupted>>
      BY <1>2 DEF Run, screen, encoder
    <2>3. FlagsOK'
      BY <1>1, <2>2, Zenon DEF FlagsOK
    <2>4. QED BY <2>1, <2>3, WalkKeepsTypes, ConstantFacts
  <1>3. CASE AddCallback
    <2>1. Walk(Rec, "reopen") /\ UNCHANGED called
      BY <1>3 DEF AddCallback, Walk, recFields, encoder
    <2>2. callback' = TRUE /\ UNCHANGED <<recorder, released, mSurfaceHolder, surface, encReleased, interrupted>>
      BY <1>3 DEF AddCallback, recFields, encoder
    <2>3. FlagsOK'
      BY <1>1, <2>2, Zenon DEF FlagsOK
    <2>4. QED BY <2>1, <2>3, WalkKeepsTypes, ConstantFacts DEF InPreview
  <1>4. QED BY <1>2, <1>3

\* releaseCamera() keeps the camera's part of the invariant.
LEMMA ReleaseCameraTypes ==
  ASSUME CamerasOK, Counted, HasEncoder, ReleaseCamera
  PROVE  /\ mCamera' \in Cameras \cup {None} /\ mCamera' = None /\ mCamera' <= opened
         /\ open' \subseteq Cameras /\ previewing' \subseteq Cameras
         /\ previewing' # {} => mjpegDataOutput # None
         /\ cameraBuffers' \in [Cameras -> SUBSET Buffers]
         /\ UNCHANGED opened
  BY ConstantFacts DEF ReleaseCamera, CamerasOK, HasEncoder

LEMMA ReopenTypes ==
  ASSUME TypeInv, NEW t \in Threads, Reopen(t)
  PROVE  TypeInv'
  <1>1. FlagsOK /\ PlacesOK /\ CamerasOK /\ EncodersOK /\ DOMAIN at = Threads
    BY DEF TypeInv, Counted
  <1>2. /\ at[t] = "reopen" /\ DOMAIN at' = Threads /\ at'[t] = "open"
        /\ \A u \in Threads : u # t => at'[u] = at[u]
        /\ UNCHANGED <<recorder, released, mjpegDataOutput, callback, surface, made, pc, mCam,
                       encodeQueue, hand, encReleased, interrupted, called, crashed>>
        /\ mSurfaceHolder' = TRUE
        /\ ReleaseCamera
    BY <1>1, GotoFacts DEF Reopen, screen, encoder
  <1>3. /\ mCamera' \in Cameras \cup {None} /\ mCamera' = None /\ mCamera' <= opened
        /\ open' \subseteq Cameras /\ previewing' \subseteq Cameras
        /\ previewing' # {} => mjpegDataOutput # None
        /\ cameraBuffers' \in [Cameras -> SUBSET Buffers]
        /\ UNCHANGED opened
    BY <1>1, <1>2, ReleaseCameraTypes DEF TypeInv
  <1>4. FlagsOK'
    BY <1>1, <1>2, Zenon DEF FlagsOK
  <1>5. PlacesOK'
    BY <1>1, <1>2, ConstantFacts DEF PlacesOK, InPreview
  <1>6. CamerasOK' /\ EncodersOK' /\ Filled'
    BY <1>1, <1>2, <1>3, EncodersKept DEF TypeInv, CamerasOK
  <1>7. Pending(Rec)' = Pending(Rec) /\ Pending(Main)' = Pending(Main)
    BY <1>2, ConstantFacts DEF Pending
  <1>8. Counted' /\ HasEncoder'
    BY <1>2, <1>3, <1>7 DEF TypeInv, Counted, HasEncoder
  <1>9. QED BY <1>4, <1>5, <1>6, <1>8 DEF TypeInv

LEMMA OpenTypes ==
  ASSUME TypeInv, NEW t \in Threads, Open(t)
  PROVE  TypeInv'
  <1>1. FlagsOK /\ PlacesOK /\ CamerasOK /\ EncodersOK /\ DOMAIN at = Threads
    BY DEF TypeInv, Counted
  <1>2. CASE open # {}
    BY <1>2, CrashKeepsTypes DEF Open
  <1>3. CASE open = {}
    <2>1. /\ at[t] = "open" /\ DOMAIN at' = Threads /\ at'[t] = "display"
          /\ \A u \in Threads : u # t => at'[u] = at[u]
          /\ UNCHANGED <<recorder, released, mjpegDataOutput, mSurfaceHolder, callback, surface,
                         previewing, cameraBuffers, made, pc, mCam,
                         encodeQueue, hand, encReleased, interrupted, called, crashed>>
          /\ opened < MaxPreviews
          /\ opened' = opened + 1 /\ open' = {opened + 1} /\ mCamera' = opened + 1
      BY <1>1, <1>3, GotoFacts DEF Open, screen, encoder
    <2>2. opened + 1 \in Cameras /\ opened' \in 0..MaxPreviews /\ opened \in Nat
      BY <1>1, <2>1, ConstantFacts DEF CamerasOK
    <2>3. FlagsOK'
      BY <1>1, <2>1, Zenon DEF FlagsOK
    <2>4. PlacesOK'
      BY <1>1, <2>1, ConstantFacts DEF PlacesOK, InPreview
    <2>5. CamerasOK' /\ EncodersOK' /\ Filled'
      BY <1>1, <2>1, <2>2, EncodersKept DEF TypeInv, CamerasOK
    <2>6. Counted'
      <3>1. /\ Pending(t)' = Pending(t) + 1
            /\ \A u \in Threads : u # t => Pending(u)' = Pending(u)
            /\ Pending(Rec) \in {0, 1} /\ Pending(Main) \in {0, 1}
        BY <2>1 DEF Pending
      <3>2. Pending(Rec)' + Pending(Main)' = Pending(Rec) + Pending(Main) + 1
        BY <3>1, ConstantFacts
      <3>3. made' + Pending(Rec)' + Pending(Main)' <= opened'
        BY <1>1, <2>1, <2>2, <3>1, <3>2, ConstantFacts DEF TypeInv, Counted, EncodersOK
      <3>4. \A g \in Encoders : mCam'[g] <= opened'
        <4>1. \A g \in Encoders : mCam[g] \in Int /\ mCam[g] <= opened
          BY <1>1, ConstantFacts DEF TypeInv, Counted, EncodersOK
        <4>2. QED BY <2>1, <2>2, <4>1
      <3>5. QED BY <2>1, <2>2, <3>3, <3>4 DEF TypeInv, Counted
    <2>7. HasEncoder'
      BY <2>1 DEF TypeInv, HasEncoder
    <2>8. QED BY <2>3, <2>4, <2>5, <2>6, <2>7 DEF TypeInv
  <1>4. QED BY <1>2, <1>3

LEMMA SetDisplayTypes ==
  ASSUME TypeInv, NEW t \in Threads, SetDisplay(t)
  PROVE  TypeInv'
  <1>1. CASE mCamera = None
    BY <1>1, CrashKeepsTypes DEF SetDisplay
  <1>2. CASE mCamera # None
    <2>1. /\ Walk(t, "encoder") \/ Walk(t, "idle")
          /\ at[t] = "display"
          /\ UNCHANGED <<recFields, screen, encoder, called>>
      BY <1>2 DEF SetDisplay, Walk, recFields, encoder
    <2>2. FlagsOK'
      BY <2>1, Zenon DEF TypeInv, FlagsOK, recFields, screen, encoder
    <2>3. t = Rec \/ t = Main
      BY DEF Threads
    <2>4. CASE Walk(t, "encoder")
      BY <2>1, <2>2, <2>3, <2>4, WalkKeepsTypes DEF InPreview
    <2>5. CASE Walk(t, "idle")
      BY <2>1, <2>2, <2>3, <2>5, WalkKeepsTypes DEF InPreview
    <2>6. QED BY <2>1, <2>4, <2>5
  <1>3. QED BY <1>1, <1>2

LEMMA NewEncoderTypes ==
  ASSUME TypeInv, NEW t \in Threads, NewEncoder(t)
  PROVE  TypeInv'
  <1> DEFINE g == made + 1
  <1>1. FlagsOK /\ PlacesOK /\ CamerasOK /\ EncodersOK /\ DOMAIN at = Threads
    BY DEF TypeInv, Counted
  <1>2. /\ at[t] = "encoder" /\ DOMAIN at' = Threads /\ at'[t] = "start"
        /\ \A u \in Threads : u # t => at'[u] = at[u]
        /\ made' = g /\ mjpegDataOutput' = g
        /\ mCam' = [mCam EXCEPT ![g] = mCamera]
        /\ UNCHANGED <<recorder, released, mCamera, mSurfaceHolder, callback, surface, camera, pc,
                       encodeQueue, hand, encReleased, interrupted, called, crashed>>
    BY <1>1, GotoFacts DEF NewEncoder, screen
  <1>3. g = made + 1 /\ made \in Nat /\ opened \in Nat
    BY <1>1, ConstantFacts DEF EncodersOK, CamerasOK
  <1> HIDE DEF g
  <1>4. /\ Pending(t)' = 0 /\ Pending(t) = 1
        /\ \A u \in Threads : u # t => Pending(u)' = Pending(u)
        /\ Pending(Rec) \in {0, 1} /\ Pending(Main) \in {0, 1}
    BY <1>2 DEF Pending
  <1>5. g <= opened /\ g \in Encoders
    BY <1>1, <1>3, <1>4, ConstantFacts DEF TypeInv, Counted, CamerasOK
  <1>6. FlagsOK'
    BY <1>1, <1>2, Zenon DEF FlagsOK
  <1>7. PlacesOK'
    BY <1>1, <1>2, ConstantFacts DEF PlacesOK, InPreview
  <1>8. CamerasOK'
    BY <1>1, <1>2, <1>5 DEF CamerasOK, camera
  <1>9. EncodersOK'
    BY <1>1, <1>2, <1>3, <1>5, ConstantFacts DEF EncodersOK, CamerasOK
  <1>10. Filled'
    <2>1. ASSUME NEW h \in Encoders, h > made'
          PROVE  mCam'[h] = mCam[h] /\ h > made
      BY <1>1, <1>2, <1>3, <1>5, <2>1, ConstantFacts DEF EncodersOK
    <2>2. QED BY <1>2, <2>1 DEF TypeInv, Filled
  <1>11. Counted'
    <2>1. made' + Pending(Rec)' + Pending(Main)' <= opened'
      BY <1>2, <1>3, <1>4, ConstantFacts DEF TypeInv, Counted, camera
    <2>2. \A h \in Encoders : mCam'[h] <= opened'
      BY <1>1, <1>2, <1>3, <1>5 DEF TypeInv, Counted, EncodersOK, camera
    <2>3. QED BY <1>2, <1>3, <2>1, <2>2 DEF TypeInv, Counted, camera
  <1>12. HasEncoder'
    BY <1>2, <1>5, ConstantFacts DEF TypeInv, HasEncoder, camera
  <1>13. QED BY <1>6, <1>7, <1>8, <1>9, <1>10, <1>11, <1>12 DEF TypeInv

LEMMA StartEncoderTypes ==
  ASSUME TypeInv, NEW t \in Threads, StartEncoder(t)
  PROVE  TypeInv'
  <1> DEFINE g == mjpegDataOutput
  <1>1. FlagsOK /\ PlacesOK /\ CamerasOK /\ EncodersOK /\ DOMAIN at = Threads
    BY DEF TypeInv, Counted
  <1>2. g \in Encoders /\ ~(g > made)
    BY <1>1, ConstantFacts DEF StartEncoder, TypeInv, Counted, HasEncoder, CamerasOK, EncodersOK
  <1>3. CASE pc[g] # "none"
    BY <1>3, CrashKeepsTypes DEF StartEncoder
  <1>4. CASE pc[g] = "none"
    <2>1. /\ at[t] = "start" /\ DOMAIN at' = Threads /\ at'[t] = "buffers"
          /\ \A u \in Threads : u # t => at'[u] = at[u]
          /\ pc' = [pc EXCEPT ![g] = "top"]
          /\ UNCHANGED <<recFields, screen, camera, made, mCam, encodeQueue, hand,
                         encReleased, interrupted, called, crashed>>
      BY <1>1, <1>4, GotoFacts DEF StartEncoder
    <2> HIDE DEF g
    <2>2. FlagsOK'
      BY <1>1, <2>1, Zenon DEF FlagsOK, recFields, screen
    <2>3. PlacesOK'
      BY <1>1, <2>1, ConstantFacts DEF PlacesOK, InPreview
    <2>4. CamerasOK' /\ EncodersOK'
      BY <1>1, <1>2, <2>1, CamerasKept DEF EncodersOK, recFields, camera
    <2>5. Filled'
      <3>1. pc'[g] = "top" /\ \A h \in Encoders : h # g => pc'[h] = pc[h]
        BY <1>1, <1>2, <2>1 DEF EncodersOK
      <3>2. QED BY <1>2, <1>4, <2>1, <3>1 DEF TypeInv, Filled
    <2>6. Pending(Rec)' = Pending(Rec) /\ Pending(Main)' = Pending(Main)
      BY <2>1, ConstantFacts DEF Pending
    <2>7. Counted' /\ HasEncoder'
      BY <1>2, <2>1, <2>6, ConstantFacts DEF TypeInv, Counted, HasEncoder, recFields, camera, g
    <2>8. QED BY <2>2, <2>3, <2>4, <2>5, <2>7 DEF TypeInv
  <1>5. QED BY <1>3, <1>4

LEMMA AddBuffersTypes ==
  ASSUME TypeInv, NEW t \in Threads, AddBuffers(t)
  PROVE  TypeInv'
  <1>1. FlagsOK /\ PlacesOK /\ CamerasOK /\ EncodersOK /\ DOMAIN at = Threads
    BY DEF TypeInv, Counted
  <1>2. CASE mCamera = None
    BY <1>2, CrashKeepsTypes DEF AddBuffers
  <1>3. CASE mCamera # None
    <2>1. /\ at[t] = "buffers" /\ DOMAIN at' = Threads /\ at'[t] = "preview"
          /\ \A u \in Threads : u # t => at'[u] = at[u]
          /\ cameraBuffers' = [cameraBuffers EXCEPT ![mCamera] = @ \cup BuffersOf(mjpegDataOutput)]
          /\ UNCHANGED <<recFields, screen, opened, open, previewing, encoder, called, crashed>>
      BY <1>1, <1>3, GotoFacts DEF AddBuffers
    <2>2. mjpegDataOutput \in Encoders /\ BuffersOf(mjpegDataOutput) \subseteq Buffers
      BY <1>1, <2>1, ConstantFacts DEF TypeInv, HasEncoder, CamerasOK
    <2>3. FlagsOK'
      BY <1>1, <2>1, Zenon DEF FlagsOK, recFields, screen, encoder
    <2>4. PlacesOK'
      BY <1>1, <2>1, ConstantFacts DEF PlacesOK, InPreview
    <2>5. CamerasOK'
      BY <1>1, <1>3, <2>1, <2>2 DEF CamerasOK, recFields
    <2>6. EncodersOK' /\ Filled'
      BY <1>1, <2>1, EncodersKept DEF TypeInv, encoder
    <2>7. Pending(Rec)' = Pending(Rec) /\ Pending(Main)' = Pending(Main)
      BY <2>1, ConstantFacts DEF Pending
    <2>8. Counted' /\ HasEncoder'
      BY <2>1, <2>2, <2>7, ConstantFacts DEF TypeInv, Counted, HasEncoder, recFields, encoder
    <2>9. QED BY <2>3, <2>4, <2>5, <2>6, <2>8 DEF TypeInv
  <1>4. QED BY <1>2, <1>3

LEMMA StartPreviewTypes ==
  ASSUME TypeInv, NEW t \in Threads, StartPreview(t)
  PROVE  TypeInv'
  <1>1. FlagsOK /\ PlacesOK /\ CamerasOK /\ EncodersOK /\ DOMAIN at = Threads
    BY DEF TypeInv, Counted
  <1>2. CASE mCamera = None
    BY <1>2, CrashKeepsTypes DEF StartPreview
  <1>3. CASE mCamera # None
    <2>1. /\ at[t] = "preview" /\ DOMAIN at' = Threads /\ at'[t] = "idle"
          /\ \A u \in Threads : u # t => at'[u] = at[u]
          /\ previewing' = previewing \cup {mCamera}
          /\ UNCHANGED <<recFields, screen, opened, open, cameraBuffers, encoder, called, crashed>>
      BY <1>1, <1>3, GotoFacts DEF StartPreview
    <2>2. FlagsOK'
      BY <1>1, <2>1, Zenon DEF FlagsOK, recFields, screen, encoder
    <2>3. PlacesOK'
      BY <1>1, <2>1, ConstantFacts DEF PlacesOK, InPreview
    <2>4. CamerasOK'
      BY <1>1, <1>3, <2>1 DEF CamerasOK, recFields
    <2>5. EncodersOK' /\ Filled'
      BY <1>1, <2>1, EncodersKept DEF TypeInv, encoder
    <2>6. Pending(Rec)' = Pending(Rec) /\ Pending(Main)' = Pending(Main)
      BY <2>1, ConstantFacts DEF Pending
    <2>7. Counted' /\ HasEncoder'
      BY <2>1, <2>6, ConstantFacts DEF TypeInv, Counted, HasEncoder, recFields, encoder
    <2>8. QED BY <2>2, <2>3, <2>4, <2>5, <2>7 DEF TypeInv
  <1>4. QED BY <1>2, <1>3

LEMMA SurfaceTypes ==
  ASSUME TypeInv, SurfaceCreated \/ SurfaceChanged \/ SurfaceDestroyed \/ SwitchOff
  PROVE  TypeInv'
  <1>1. FlagsOK /\ PlacesOK /\ CamerasOK /\ EncodersOK /\ DOMAIN at = Threads
    BY DEF TypeInv, Counted
  <1>2. CASE SurfaceCreated
    <2>1. /\ surface' = TRUE /\ mSurfaceHolder' = TRUE
          /\ UNCHANGED <<at, recorder, released, mCamera, mjpegDataOutput, callback,
                         camera, encoder, called, crashed>>
      BY <1>2 DEF SurfaceCreated
    <2>2. FlagsOK'
      BY <1>1, <2>1, Zenon DEF FlagsOK, encoder
    <2>3. PlacesOK' /\ CamerasOK' /\ EncodersOK' /\ Filled'
      BY <1>1, <2>1, CamerasKept, EncodersKept DEF TypeInv, PlacesOK, camera, encoder
    <2>4. Counted' /\ HasEncoder'
      BY <2>1 DEF TypeInv, Counted, Pending, HasEncoder, camera, encoder
    <2>5. QED BY <2>2, <2>3, <2>4 DEF TypeInv
  <1>3. CASE SurfaceChanged
    <2>1. /\ Walk(Main, "reopen") /\ mSurfaceHolder' = TRUE
          /\ UNCHANGED <<recorder, released, callback, surface, encReleased, interrupted, called>>
      BY <1>3 DEF SurfaceChanged, Walk, screen, encoder
    <2>2. FlagsOK'
      BY <1>1, <2>1, Zenon DEF FlagsOK
    <2>3. QED BY <2>1, <2>2, WalkKeepsTypes, ConstantFacts DEF InPreview
  <1>4. CASE SurfaceDestroyed
    <2>1. /\ Walk(Main, "release") /\ mSurfaceHolder' = FALSE /\ surface' = FALSE
          /\ UNCHANGED <<recorder, released, callback, encReleased, interrupted, called>>
      BY <1>4 DEF SurfaceDestroyed, Walk, encoder
    <2>2. FlagsOK'
      BY <1>1, <2>1, Zenon DEF FlagsOK
    <2>3. QED BY <2>1, <2>2, WalkKeepsTypes, ConstantFacts
  <1>5. CASE SwitchOff
    <2>1. /\ Walk(Main, "release") /\ recorder' = FALSE
          /\ UNCHANGED <<released, mSurfaceHolder, callback, surface, encReleased, interrupted, called>>
      BY <1>5 DEF SwitchOff, Walk, screen, encoder
    <2>2. FlagsOK'
      BY <1>1, <2>1, Zenon DEF FlagsOK
    <2>3. QED BY <2>1, <2>2, WalkKeepsTypes, ConstantFacts
  <1>6. QED BY <1>2, <1>3, <1>4, <1>5

LEMMA ReleaseTypes ==
  ASSUME TypeInv, ReleaseSteps
  PROVE  TypeInv'
  <1>1. FlagsOK /\ PlacesOK /\ CamerasOK /\ EncodersOK /\ DOMAIN at = Threads
    BY DEF TypeInv, Counted
  <1>2. CASE ReleaseRecorder
    <2>1. /\ released' = TRUE
          /\ UNCHANGED <<recorder, mjpegDataOutput, mSurfaceHolder, callback, surface, made, pc, mCam,
                         encodeQueue, hand, encReleased, interrupted, called, crashed>>
      BY <1>2 DEF ReleaseRecorder, screen, encoder
    <2>2. FlagsOK'
      BY <1>1, <2>1, Zenon DEF FlagsOK
    <2>3. CASE released
      <3>1. Walk(Main, "idle")
        BY <1>2, <2>1, <2>3 DEF ReleaseRecorder, Walk
      <3>2. QED BY <2>1, <2>2, <3>1, WalkKeepsTypes, ConstantFacts DEF InPreview
    <2>4. CASE ~released
      <3>1. /\ at[Main] = "release" /\ DOMAIN at' = Threads /\ at'[Main] = "mark"
            /\ \A u \in Threads : u # Main => at'[u] = at[u]
            /\ ReleaseCamera
        BY <1>1, <1>2, <2>4, GotoFacts, ConstantFacts DEF ReleaseRecorder
      <3>2. /\ mCamera' \in Cameras \cup {None} /\ mCamera' = None /\ mCamera' <= opened
            /\ open' \subseteq Cameras /\ previewing' \subseteq Cameras
            /\ previewing' # {} => mjpegDataOutput # None
            /\ cameraBuffers' \in [Cameras -> SUBSET Buffers]
            /\ UNCHANGED opened
        BY <1>1, <3>1, ReleaseCameraTypes DEF TypeInv
      <3>3. PlacesOK'
        BY <1>1, <2>1, <3>1, ConstantFacts DEF PlacesOK
      <3>4. CamerasOK' /\ EncodersOK' /\ Filled'
        BY <1>1, <2>1, <3>2, EncodersKept DEF TypeInv, CamerasOK
      <3>5. Pending(Rec)' = Pending(Rec) /\ Pending(Main)' = Pending(Main)
        BY <3>1, ConstantFacts DEF Pending
      <3>6. Counted' /\ HasEncoder'
        BY <2>1, <3>1, <3>2, <3>5 DEF TypeInv, Counted, HasEncoder
      <3>7. QED BY <2>2, <3>3, <3>4, <3>6 DEF TypeInv
    <2>5. QED BY <2>3, <2>4
  <1>3. CASE MarkEncoder
    <2>1. /\ Walk(Main, "holder") \/ Walk(Main, "interrupt")
          /\ UNCHANGED <<recorder, released, mSurfaceHolder, callback, surface, interrupted>>
          /\ \/ encReleased' = encReleased /\ called' = called
             \/ /\ encReleased' = [encReleased EXCEPT ![mjpegDataOutput] = TRUE]
                /\ mjpegDataOutput # None /\ called' = mjpegDataOutput
      BY <1>3 DEF MarkEncoder, Walk, recFields, screen
    <2>2. FlagsOK'
      BY <1>1, <2>1, Zenon DEF FlagsOK
    <2>3. called' \in Encoders \cup {None, called}
      BY <1>1, <2>1 DEF CamerasOK
    <2>4. QED BY <2>1, <2>2, <2>3, WalkKeepsTypes, ConstantFacts DEF InPreview
  <1>4. CASE InterruptEncoder
    <2>1. /\ Walk(Main, "holder")
          /\ UNCHANGED <<recorder, released, mSurfaceHolder, callback, surface, encReleased>>
          /\ called' = None
          /\ RaiseInterrupt(called)
      BY <1>4 DEF InterruptEncoder, Walk, recFields, screen
    <2> DEFINE flag == interrupted[called] \/ pc[called] \notin {"none", "dead"}
    <2>2. interrupted' \in [Encoders -> BOOLEAN]
      <3>1. interrupted' = [interrupted EXCEPT ![called] = flag] /\ flag \in BOOLEAN
        BY <2>1, Zenon DEF RaiseInterrupt
      <3>2. QED BY <1>1, <3>1, Zenon DEF FlagsOK
    <2>3. FlagsOK'
      BY <1>1, <2>1, <2>2, Zenon DEF FlagsOK
    <2>4. QED BY <2>1, <2>3, WalkKeepsTypes, ConstantFacts
  <1>5. CASE RemoveCallback
    <2>1. /\ Walk(Main, "idle") /\ mSurfaceHolder' = FALSE
          /\ UNCHANGED <<recorder, released, surface, encReleased, interrupted, called>>
      BY <1>5 DEF RemoveCallback, Walk, encoder
    <2>2. callback' \in BOOLEAN
      BY <1>5, Zenon DEF RemoveCallback
    <2>3. FlagsOK'
      BY <1>1, <2>1, <2>2, Zenon DEF FlagsOK
    <2>4. QED BY <2>1, <2>3, WalkKeepsTypes, ConstantFacts DEF InPreview
  <1>6. QED BY <1>2, <1>3, <1>4, <1>5 DEF ReleaseSteps

LEMMA FrameTypes ==
  ASSUME TypeInv, NEW c \in Cameras, NEW b \in Buffers, OnPreviewFrame(c, b)
  PROVE  TypeInv'
  <1> DEFINE g == mjpegDataOutput
  <1>1. FlagsOK /\ PlacesOK /\ CamerasOK /\ EncodersOK /\ DOMAIN at = Threads
    BY DEF TypeInv, Counted
  <1>2. g \in Encoders
    BY <1>1 DEF OnPreviewFrame, TypeInv, HasEncoder, CamerasOK
  <1>3. /\ cameraBuffers' = [cameraBuffers EXCEPT ![c] = @ \ {b}]
        /\ UNCHANGED <<recFields, screen, opened, open, previewing, made, pc, mCam,
                       hand, encReleased, interrupted, crashed>>
        /\ \/ UNCHANGED <<at, encodeQueue, called>>
           \/ /\ encodeQueue' = [encodeQueue EXCEPT ![g] = Append(@, b)]
              /\ called' = g
              /\ Goto(Main, "notify") /\ at[Main] = "idle"
    BY DEF OnPreviewFrame
  <1> HIDE DEF g
  <1>4. FlagsOK'
    BY <1>1, <1>3, Zenon DEF FlagsOK, recFields, screen
  <1>5. CamerasOK'
    BY <1>1, <1>3 DEF CamerasOK, recFields
  <1>6. UNCHANGED <<made, pc, mCam, hand>> /\ called' \in Encoders \cup {None}
    BY <1>1, <1>2, <1>3 DEF EncodersOK
  <1>7. /\ encodeQueue' \in [Encoders -> Seq(Buffers)]
        /\ \A h \in Encoders : h # g => encodeQueue'[h] = encodeQueue[h]
        /\ encodeQueue[g] # <<>> => encodeQueue'[g] # <<>>
    <2>1. CASE UNCHANGED encodeQueue
      BY <1>1, <2>1 DEF EncodersOK
    <2>2. CASE encodeQueue' = [encodeQueue EXCEPT ![g] = Append(@, b)]
      <3>1. encodeQueue[g] \in Seq(Buffers) /\ encodeQueue \in [Encoders -> Seq(Buffers)]
        BY <1>1, <1>2 DEF EncodersOK
      <3>2. Append(encodeQueue[g], b) \in Seq(Buffers) /\ Append(encodeQueue[g], b) # <<>>
        BY <3>1
      <3>3. QED BY <1>2, <2>2, <3>1, <3>2
    <2>3. QED BY <1>3, <2>1, <2>2
  <1>8. EncodersOK'
    BY <1>1, <1>6, <1>7 DEF EncodersOK
  <1>9. g <= made /\ g \in Nat /\ made \in Nat
    BY <1>1, <1>2, ConstantFacts DEF TypeInv, Counted, EncodersOK, g
  <1>10. Filled'
    <2>1. \A h \in Encoders : h > made => h # g
      BY <1>9, ConstantFacts
    <2>2. QED BY <1>6, <1>7, <2>1 DEF TypeInv, Filled
  <1>11. /\ DOMAIN at' = Threads /\ PlacesOK'
         /\ \A u \in Threads : at'[u] = at[u] \/ (at'[u] = "notify" /\ at[u] = "idle")
    <2>1. CASE UNCHANGED at
      BY <1>1, <1>3, <2>1 DEF PlacesOK
    <2>2. CASE Goto(Main, "notify") /\ at[Main] = "idle"
      BY <1>1, <1>3, <2>2, GotoFacts, ConstantFacts DEF PlacesOK
    <2>3. QED BY <1>3, <2>1, <2>2
  <1>12. Pending(Rec)' = Pending(Rec) /\ Pending(Main)' = Pending(Main)
    BY <1>11, ConstantFacts DEF Pending
  <1>13. Counted' /\ HasEncoder'
    BY <1>3, <1>11, <1>12 DEF TypeInv, Counted, HasEncoder, recFields
  <1>14. QED BY <1>4, <1>5, <1>8, <1>10, <1>11, <1>13 DEF TypeInv

LEMMA NotifyTypes ==
  ASSUME TypeInv, Notify
  PROVE  TypeInv'
  <1>1. FlagsOK /\ PlacesOK /\ CamerasOK /\ EncodersOK /\ DOMAIN at = Threads
    BY DEF TypeInv, Counted
  <1>2. /\ at[Main] = "notify" /\ DOMAIN at' = Threads /\ at'[Main] = "idle"
        /\ \A u \in Threads : u # Main => at'[u] = at[u]
        /\ pc' = [pc EXCEPT ![called] = IF @ = "wait" THEN "woken" ELSE @]
        /\ called' = None
        /\ UNCHANGED <<recFields, screen, camera, made, mCam, encodeQueue, hand,
                       encReleased, interrupted, crashed>>
    BY <1>1, GotoFacts, ConstantFacts DEF Notify
  <1>3. FlagsOK'
    BY <1>1, <1>2, Zenon DEF FlagsOK, recFields, screen
  <1>4. PlacesOK' /\ CamerasOK'
    BY <1>1, <1>2, CamerasKept, ConstantFacts DEF PlacesOK, InPreview, recFields, camera
  <1>5. \A g \in Encoders : pc'[g] = pc[g] \/ (pc[g] = "wait" /\ pc'[g] = "woken")
    BY <1>1, <1>2 DEF EncodersOK
  <1>6. EncodersOK'
    BY <1>1, <1>2 DEF EncodersOK
  <1>7. Filled'
    BY <1>2, <1>5 DEF TypeInv, Filled
  <1>8. Pending(Rec)' = Pending(Rec) /\ Pending(Main)' = Pending(Main)
    BY <1>2, ConstantFacts DEF Pending
  <1>9. Counted' /\ HasEncoder'
    BY <1>2, <1>8, ConstantFacts DEF TypeInv, Counted, HasEncoder, recFields, camera
  <1>10. QED BY <1>3, <1>4, <1>6, <1>7, <1>9 DEF TypeInv

LEMMA EncoderTypes ==
  ASSUME TypeInv, NEW g \in Encoders, Encoder(g) \/ WakeUp(g)
  PROVE  TypeInv'
  <1>1. FlagsOK /\ PlacesOK /\ CamerasOK /\ EncodersOK /\ DOMAIN at = Threads
    BY DEF TypeInv, Counted
  <1>2. ASSUME Crash("null")
        PROVE  TypeInv'
    BY <1>2, CrashKeepsTypes
  <1>3. ASSUME NEW from \in {"top", "empty", "wait", "woken", "encode"},
               NEW to \in {"top", "empty", "wait", "woken", "encode", "dead"},
               EncoderStep(g, from, to),
               interrupted' \in [Encoders -> BOOLEAN],
               cameraBuffers' \in [Cameras -> SUBSET Buffers],
               encodeQueue' \in [Encoders -> Seq(Buffers)],
               hand' \in [Encoders -> Buffers \cup {NoBuffer}],
               \A h \in Encoders : h # g => encodeQueue'[h] = encodeQueue[h] /\ hand'[h] = hand[h],
               to = "encode" <=> hand'[g] # NoBuffer
        PROVE  TypeInv'
    <2>1. /\ pc[g] = from /\ pc' = [pc EXCEPT ![g] = to]
          /\ UNCHANGED <<at, recFields, screen, opened, open, previewing, made, mCam,
                         encReleased, called, crashed>>
      BY <1>3 DEF EncoderStep
    <2>2. FlagsOK'
      BY <1>1, <1>3, <2>1, Zenon DEF FlagsOK, recFields, screen
    <2>3. PlacesOK' /\ CamerasOK' /\ EncodersOK'
      BY <1>1, <1>3, <2>1 DEF PlacesOK, CamerasOK, EncodersOK, recFields
    <2>4. Counted' /\ HasEncoder'
      BY <2>1 DEF TypeInv, Counted, Pending, HasEncoder, recFields
    <2>5. Filled'
      <3>1. \A h \in Encoders : h # g => pc'[h] = pc[h]
        BY <1>1, <2>1 DEF EncodersOK
      <3>2. pc'[g] = to /\ ~(g > made)
        BY <1>1, <1>3, <2>1 DEF TypeInv, Filled, EncodersOK
      <3>3. QED BY <1>3, <2>1, <3>1, <3>2 DEF TypeInv, Filled
    <2>6. QED BY <2>2, <2>3, <2>4, <2>5 DEF TypeInv
  <1>4. /\ interrupted \in [Encoders -> BOOLEAN] /\ cameraBuffers \in [Cameras -> SUBSET Buffers]
        /\ encodeQueue \in [Encoders -> Seq(Buffers)] /\ hand \in [Encoders -> Buffers \cup {NoBuffer}]
    BY <1>1 DEF FlagsOK, CamerasOK, EncodersOK
  <1>5. pc[g] = "encode" <=> hand[g] # NoBuffer
    BY DEF TypeInv, Filled
  <1>6. ASSUME NoData, NEW from \in {"top", "empty", "wait", "woken"},
               NEW to \in {"top", "empty", "wait", "woken"}, EncoderStep(g, from, to)
        PROVE  TypeInv'
    <2>1. UNCHANGED <<cameraBuffers, encodeQueue, hand, interrupted>> /\ pc[g] = from
      BY <1>6 DEF NoData, EncoderStep
    <2>2. QED BY <1>3, <1>4, <1>5, <1>6, <2>1
  <1>7. ASSUME Ends(g), NEW from \in {"top", "wait"}, EncoderStep(g, from, "dead")
        PROVE  TypeInv'
    <2>1. UNCHANGED <<cameraBuffers, encodeQueue, hand>> /\ pc[g] = from
      BY <1>7 DEF Ends, EncoderStep
    <2>2. interrupted' \in [Encoders -> BOOLEAN]
      BY <1>4, <1>7, Zenon DEF Ends
    <2>3. QED BY <1>3, <1>4, <1>5, <1>7, <2>1, <2>2
  <1>8. ASSUME Poll(g), NEW from \in {"top", "woken"}, EncoderStep(g, from, "encode"),
               encodeQueue[g] # <<>>
        PROVE  TypeInv'
    <2>1. encodeQueue[g] \in Seq(Buffers)
      BY <1>4
    <2>2. Head(encodeQueue[g]) \in Buffers /\ Tail(encodeQueue[g]) \in Seq(Buffers)
      BY <1>8, <2>1
    <2>3. /\ hand' = [hand EXCEPT ![g] = Head(encodeQueue[g])]
          /\ encodeQueue' = [encodeQueue EXCEPT ![g] = Tail(encodeQueue[g])]
          /\ UNCHANGED <<cameraBuffers, interrupted>>
      BY <1>8 DEF Poll
    <2>4. hand'[g] # NoBuffer
      BY <1>4, <2>2, <2>3, ConstantFacts
    <2>5. QED BY <1>3, <1>4, <1>8, <2>2, <2>3, <2>4
  <1>9. CASE Leave(g) \/ Interrupted(g)
    BY <1>7, <1>9 DEF Leave, Interrupted
  <1>10. CASE CheckSize(g)
    BY <1>6, <1>8, <1>10 DEF CheckSize
  <1>11. CASE Woken(g)
    BY <1>6, <1>8, <1>11 DEF Woken
  <1>12. CASE Wait(g) \/ WakeUp(g)
    BY <1>6, <1>12 DEF Wait, WakeUp
  <1>13. CASE EncodeFrame(g)
    <2>1. CASE pc[g] = "encode" /\ (hand[g] \notin BuffersOf(g) \/ mCam[g] = None)
      BY <1>2, <1>13, <2>1 DEF EncodeFrame
    <2>2. CASE ~(pc[g] = "encode" /\ (hand[g] \notin BuffersOf(g) \/ mCam[g] = None))
      <3>1. /\ EncoderStep(g, "encode", "top") /\ pc[g] = "encode" /\ GiveBack(g)
            /\ hand' = [hand EXCEPT ![g] = NoBuffer]
            /\ \E flag \in {interrupted[g], FALSE} : interrupted' = [interrupted EXCEPT ![g] = flag]
            /\ UNCHANGED encodeQueue
        BY <1>13, <2>2 DEF EncodeFrame, EncoderStep
      <3>2. interrupted' \in [Encoders -> BOOLEAN]
        BY <1>4, <3>1, Zenon
      <3>3. hand[g] \in Buffers
        BY <1>4, <1>5, <3>1
      <3>4. cameraBuffers' \in [Cameras -> SUBSET Buffers]
        BY <1>4, <3>1, <3>3 DEF GiveBack
      <3>5. hand'[g] = NoBuffer /\ hand' \in [Encoders -> Buffers \cup {NoBuffer}]
        BY <1>4, <3>1
      <3>6. QED BY <1>3, <1>4, <3>1, <3>2, <3>4, <3>5
    <2>3. QED BY <2>1, <2>2
  <1>14. QED BY <1>9, <1>10, <1>11, <1>12, <1>13 DEF Encoder

LEMMA NextTypes ==
  ASSUME TypeInv, Next
  PROVE  TypeInv'
  <1>1. ASSUME NEW t \in Threads, InitPreview(t)
        PROVE  TypeInv'
    BY <1>1, ReopenTypes, OpenTypes, SetDisplayTypes, NewEncoderTypes, StartEncoderTypes,
       AddBuffersTypes, StartPreviewTypes DEF InitPreview
  <1>2. CASE RecThread
    BY <1>1, <1>2, RunTypes, ConstantFacts DEF RecThread
  <1>3. CASE MainThread
    BY <1>1, <1>3, ReleaseTypes, NotifyTypes, SurfaceTypes, FrameTypes, ConstantFacts
    DEF MainThread, MainGoesOn
  <1>4. QED BY <1>2, <1>3, EncoderTypes DEF Next

LEMMA StutterTypes ==
  ASSUME TypeInv, UNCHANGED vars
  PROVE  TypeInv'
  <1>1. FlagsOK /\ PlacesOK /\ CamerasOK /\ EncodersOK
    BY DEF TypeInv
  <1>2. UNCHANGED <<at, recFields, screen, camera, encoder, called, crashed>>
    BY DEF vars
  <1>3. FlagsOK'
    BY <1>1, <1>2, Zenon DEF FlagsOK, recFields, screen, encoder
  <1>4. PlacesOK' /\ CamerasOK' /\ EncodersOK' /\ Filled'
    BY <1>1, <1>2, CamerasKept, EncodersKept DEF TypeInv, PlacesOK, recFields, camera, encoder
  <1>5. Counted' /\ HasEncoder'
    BY <1>2 DEF TypeInv, Counted, Pending, HasEncoder, recFields, camera, encoder
  <1>6. QED BY <1>3, <1>4, <1>5 DEF TypeInv

-----------------------------------------------------------------------------
(* Counting buffers.                                                       *)

\* A sequence without repetitions has as many elements as places.
LEMMA DistinctCount ==
  ASSUME NEW S, NEW s \in Seq(S),
         \A i, j \in DOMAIN s : s[i] = s[j] => i = j
  PROVE  /\ IsFiniteSet({s[i] : i \in DOMAIN s})
         /\ Cardinality({s[i] : i \in DOMAIN s}) = Len(s)
  <1> DEFINE R == {s[i] : i \in DOMAIN s}
  <1>1. DOMAIN s = 1..Len(s) /\ Len(s) \in Nat /\ s \in [1..Len(s) -> S]
    OBVIOUS
  <1>2. s \in [1..Len(s) -> R]
    BY <1>1
  <1>3. \A r \in R : \E i \in 1..Len(s) : s[i] = r
    BY <1>1
  <1>4. \A i, j \in 1..Len(s) : s[i] = s[j] => i = j
    BY <1>1
  <1> HIDE DEF R
  <1>5. s \in Bijection(1..Len(s), R)
    BY <1>2, <1>3, <1>4, Zenon DEF Bijection, Injection, Surjection, IsInjective
  <1>6. ExistsBijection(1..Len(s), R)
    BY <1>5 DEF ExistsBijection
  <1>7. Cardinality(R) = Len(s) /\ IsFiniteSet(R)
    BY <1>1, <1>6, FS_CountingElements, FS_NatBijection
  <1>8. QED BY <1>7 DEF R

LEMMA BufferCount ==
  ASSUME NEW g \in Encoders
  PROVE  IsFiniteSet(BuffersOf(g)) /\ Cardinality(BuffersOf(g)) = NumBuffers
  <1> DEFINE f == [i \in 1..NumBuffers |-> <<g, i>>]
  <1>1. f \in [1..NumBuffers -> BuffersOf(g)]
    BY DEF BuffersOf
  <1>2. \A b \in BuffersOf(g) : \E i \in 1..NumBuffers : f[i] = b
    BY DEF BuffersOf
  <1>3. \A i, j \in 1..NumBuffers : f[i] = f[j] => i = j
    OBVIOUS
  <1> HIDE DEF f
  <1>4. f \in Bijection(1..NumBuffers, BuffersOf(g))
    BY <1>1, <1>2, <1>3, Zenon DEF Bijection, Injection, Surjection, IsInjective
  <1>5. ExistsBijection(1..NumBuffers, BuffersOf(g))
    BY <1>4 DEF ExistsBijection
  <1>6. QED BY <1>5, FS_CountingElements, FS_NatBijection, ConstantFacts

\* A queue of distinct buffers of one encoder that lacks one of them has room.
LEMMA RoomForOne ==
  ASSUME NEW g \in Encoders, NEW s \in Seq(Buffers), NEW b \in BuffersOf(g),
         \A i, j \in DOMAIN s : s[i] = s[j] => i = j,
         \A i \in DOMAIN s : s[i] \in BuffersOf(g) /\ s[i] # b
  PROVE  Len(s) < NumBuffers
  <1> DEFINE R == {s[i] : i \in DOMAIN s}
  <1>1. IsFiniteSet(R) /\ Cardinality(R) = Len(s)
    BY DistinctCount
  <1>2. R \subseteq BuffersOf(g) \ {b}
    OBVIOUS
  <1>3. IsFiniteSet(BuffersOf(g) \ {b}) /\ Cardinality(BuffersOf(g) \ {b}) = NumBuffers - 1
    BY BufferCount, FS_RemoveElement
  <1> HIDE DEF R
  <1>4. Cardinality(R) <= NumBuffers - 1
    BY <1>2, <1>3, FS_Subset
  <1>5. Len(s) \in Nat
    OBVIOUS
  <1>6. QED BY <1>1, <1>4, <1>5, ConstantFacts

-----------------------------------------------------------------------------
(* The ring.                                                               *)

LEMMA InitRing == Init => RingInv
  <1> SUFFICES ASSUME Init PROVE RingInv
    OBVIOUS
  <1>1. \A t \in Threads : at[t] \in {"run", "idle"}
    BY DEF Init, Threads
  <1>2. TurnsTaken /\ OneCamera
    BY <1>1, ConstantFacts DEF Init, TurnsTaken, OneCamera
  <1>3. CamerasFresh /\ PreviewPlace /\ PreviewsOwn /\ NoneMissing
    BY <1>1, ConstantFacts DEF Init, CamerasFresh, PreviewPlace, PreviewsOwn, NoneMissing
  <1>4. \A g \in Encoders : RingOf(g)
    BY ConstantFacts DEF Init, RingOf
  <1>5. QED BY <1>2, <1>3, <1>4 DEF RingInv

\* Typing as the ring needs it.
LEMMA RingTypes ==
  ASSUME TypeInv
  PROVE  /\ DOMAIN at = Threads
         /\ mCamera \in Cameras \cup {None} /\ opened \in 0..MaxPreviews
         /\ mjpegDataOutput \in Encoders \cup {None}
         /\ previewing # {} => mjpegDataOutput \in Encoders
         /\ \A t \in Threads : at[t] \in {"start", "buffers", "preview"} => mjpegDataOutput \in Encoders
         /\ cameraBuffers \in [Cameras -> SUBSET Buffers]
         /\ mCam \in [Encoders -> Cameras \cup {None}]
         /\ encodeQueue \in [Encoders -> Seq(Buffers)]
         /\ hand \in [Encoders -> Buffers \cup {NoBuffer}]
         /\ encReleased \in [Encoders -> BOOLEAN]
  BY DEF TypeInv, FlagsOK, CamerasOK, EncodersOK, Counted, HasEncoder

LEMMA RingOfKept ==
  ASSUME NEW g \in Encoders, RingOf(g),
         UNCHANGED <<encodeQueue[g], hand[g], mCam[g]>>,
         mCam[g] # None => cameraBuffers'[mCam[g]] = cameraBuffers[mCam[g]]
  PROVE  RingOf(g)'
  BY DEF RingOf

\* A step of t that moves no buffer, camera or encoder.
Idles(t, place) ==
  /\ at[t] = place => at' = at
  /\ at[t] # place => Goto(t, place)
  /\ UNCHANGED <<mCamera, mjpegDataOutput, open, previewing, cameraBuffers, mCam, encodeQueue, hand>>
  /\ \A g \in Encoders : encReleased[g] => encReleased'[g]

LEMMA IdlesKeepsRing ==
  ASSUME TypeInv, RingInv, NEW t \in Threads, NEW place, Idles(t, place),
         place \notin {"open", "display", "start", "buffers", "preview"} \/ place = at[t]
           \/ (place = "buffers" /\ at[t] = "start"),
         place = "encoder" => at[t] \in {"display", "encoder"},
         t = Rec => at[Rec] = place \/ at[Rec] # "idle",
         t = Main => \/ at[Main] = place
                     \/ place \in {"idle", "release", "mark", "interrupt", "holder"}
                     \/ at[Rec] = "idle"
  PROVE  RingInv'
  <1>1. /\ at'[t] = place /\ \A u \in Threads : u # t => at'[u] = at[u]
        /\ UNCHANGED <<mCamera, mjpegDataOutput, open, previewing, cameraBuffers, mCam, encodeQueue, hand>>
        /\ \A g \in Encoders : encReleased[g] => encReleased'[g]
    BY RingTypes, GotoFacts DEF Idles
  <1>2. TurnsTaken'
    <2>1. CASE t = Rec
      BY <1>1, <2>1, ConstantFacts DEF RingInv, TurnsTaken
    <2>2. CASE t = Main
      BY <1>1, <2>2, ConstantFacts DEF RingInv, TurnsTaken
    <2>3. QED BY <2>1, <2>2 DEF Threads
  <1>3. OneCamera'
    BY <1>1 DEF RingInv, OneCamera
  <1>4. CamerasFresh' /\ PreviewsOwn'
    BY <1>1 DEF RingInv, CamerasFresh, PreviewsOwn
  <1>5. PreviewPlace'
    <2>1. ASSUME NEW u \in Threads
          PROVE  /\ at'[u] \in {"start", "buffers", "preview"} =>
                      at[u] = at'[u] \/ (at'[u] = "buffers" /\ at[u] = "start")
                 /\ at'[u] \in {"display", "encoder"} => at[u] \in {"display", "encoder"}
      BY <1>1
    <2>2. QED BY <1>1, <2>1 DEF RingInv, PreviewPlace
  <1>6. \A g \in Encoders : RingOf(g)'
    BY <1>1, RingOfKept DEF RingInv
  <1>7. NoneMissing'
    BY <1>1, RingTypes DEF RingInv, NoneMissing
  <1>8. QED BY <1>2, <1>3, <1>4, <1>5, <1>6, <1>7 DEF RingInv

LEMMA CrashKeepsRing ==
  ASSUME TypeInv, RingInv, NEW why, Crash(why)
  PROVE  RingInv'
  <1>1. Idles(Main, at[Main])
    BY DEF Crash, Idles, recFields, camera, encoder
  <1>2. QED BY <1>1, IdlesKeepsRing, ConstantFacts

\* releaseCamera(), on the way into initPreview() or in release().
LEMMA CameraGoneRing ==
  ASSUME TypeInv, RingInv, NEW t \in Threads, NEW place, Goto(t, place), ReleaseCamera,
         UNCHANGED <<mjpegDataOutput, mCam, encodeQueue, hand>>,
         \/ place = "mark" /\ t = Main
         \/ place = "open" /\ at[t] = "reopen"
  PROVE  RingInv'
  <1>1. /\ at'[t] = place /\ \A u \in Threads : u # t => at'[u] = at[u]
    BY RingTypes, GotoFacts
  <1>2. /\ mCamera' = None /\ open' = {} /\ previewing' = {}
        /\ cameraBuffers' = [c \in Cameras |-> IF c = mCamera THEN {} ELSE cameraBuffers[c]]
        /\ UNCHANGED <<mjpegDataOutput, mCam, encodeQueue, hand>>
    BY DEF ReleaseCamera, RingInv, OneCamera
  <1>3. TurnsTaken'
    BY <1>1, <1>2, ConstantFacts DEF RingInv, TurnsTaken
  <1>4. OneCamera' /\ PreviewsOwn' /\ NoneMissing'
    BY <1>2 DEF OneCamera, PreviewsOwn, NoneMissing
  <1>5. CamerasFresh'
    BY <1>2 DEF RingInv, CamerasFresh
  <1>6. PreviewPlace'
    <2>1. ASSUME NEW u \in Threads
          PROVE  at'[u] \in {"start", "buffers", "preview"} => at'[u] = at[u]
      BY <1>1
    <2>2. QED BY <1>2, <2>1 DEF RingInv, PreviewPlace
  <1>7. ASSUME NEW g \in Encoders
        PROVE  RingOf(g)'
    <2>1. mCam[g] # None => cameraBuffers'[mCam[g]] \in {{}, cameraBuffers[mCam[g]]}
      BY <1>2, RingTypes
    <2>2. RingOf(g)
      BY DEF RingInv
    <2>3. QED BY <1>2, <2>1, <2>2 DEF RingOf
  <1>8. QED BY <1>3, <1>4, <1>5, <1>6, <1>7 DEF RingInv

LEMMA OpenRing ==
  ASSUME TypeInv, RingInv, NEW t \in Threads, Open(t)
  PROVE  RingInv'
  <1>1. CASE open # {}
    BY <1>1, CrashKeepsRing DEF Open
  <1>2. CASE open = {}
    <2>1. /\ at[t] = "open" /\ at'[t] = "display" /\ \A u \in Threads : u # t => at'[u] = at[u]
          /\ opened < MaxPreviews
          /\ opened' = opened + 1 /\ open' = {opened + 1} /\ mCamera' = opened + 1
          /\ UNCHANGED <<mjpegDataOutput, previewing, cameraBuffers, mCam, encodeQueue, hand, encReleased>>
      BY <1>2, RingTypes, GotoFacts DEF Open, encoder
    <2>2. /\ previewing = {} /\ previewing' = {} /\ mCamera' # None
          /\ \A g \in Encoders : mCam[g] # mCamera'
      <3>1. \A g \in Encoders : mCam[g] \in Int /\ mCam[g] <= opened
        BY RingTypes, ConstantFacts DEF TypeInv, Counted
      <3>2. opened \in Nat
        BY RingTypes, ConstantFacts
      <3>3. QED BY <1>2, <2>1, <3>1, <3>2, ConstantFacts DEF RingInv, OneCamera
    <2>3. \A u \in Threads : u # t => at[u] \notin {"open", "display", "encoder", "start", "buffers", "preview"}
      BY <2>1, ConstantFacts DEF RingInv, TurnsTaken, Threads
    <2>4. TurnsTaken'
      BY <2>1, <2>2, ConstantFacts DEF RingInv, TurnsTaken
    <2>5. OneCamera'
      BY <2>1, <2>2, <2>3 DEF OneCamera
    <2>6. CamerasFresh' /\ PreviewsOwn' /\ NoneMissing'
      BY <2>1, <2>2 DEF RingInv, CamerasFresh, PreviewsOwn, NoneMissing
    <2>7. PreviewPlace'
      BY <2>1, <2>2, <2>3 DEF PreviewPlace
    <2>8. \A g \in Encoders : RingOf(g)'
      BY <2>1, RingOfKept DEF RingInv
    <2>9. QED BY <2>4, <2>5, <2>6, <2>7, <2>8 DEF RingInv
  <1>3. QED BY <1>1, <1>2

LEMMA NewEncoderRing ==
  ASSUME TypeInv, RingInv, NEW t \in Threads, NewEncoder(t)
  PROVE  RingInv'
  <1>1. /\ at[t] = "encoder" /\ at'[t] = "start" /\ \A u \in Threads : u # t => at'[u] = at[u]
        /\ mjpegDataOutput' = made + 1 /\ mCam' = [mCam EXCEPT ![made + 1] = mCamera]
        /\ UNCHANGED <<mCamera, open, previewing, cameraBuffers, encodeQueue, hand, encReleased>>
    BY RingTypes, GotoFacts DEF NewEncoder, camera
  <1>2. PICK g \in Encoders : g = made + 1 /\ g > made
    <2>1. /\ made \in Nat /\ opened \in 0..MaxPreviews
          /\ made + Pending(Rec) + Pending(Main) <= opened
      BY DEF TypeInv, CamerasOK, EncodersOK, Counted
    <2>2. Pending(t) = 1 /\ Pending(Rec) \in {0, 1} /\ Pending(Main) \in {0, 1}
      BY <1>1 DEF Pending
    <2>3. Pending(Rec) + Pending(Main) >= 1
      BY <2>2 DEF Threads
    <2>4. QED BY <2>1, <2>2, <2>3, ConstantFacts
  <1>3. encodeQueue[g] = <<>> /\ hand[g] = NoBuffer /\ mCam[g] = None
    BY <1>2 DEF TypeInv, Filled
  <1>4. previewing = {} /\ (mCamera # None => \A h \in Encoders : mCam[h] # mCamera)
    BY <1>1, ConstantFacts DEF RingInv, TurnsTaken, PreviewPlace, Threads
  <1>5. \A u \in Threads : u # t => at[u] \notin {"display", "encoder", "start", "buffers", "preview"}
    BY <1>1, ConstantFacts DEF RingInv, TurnsTaken, Threads
  <1>6. mCam'[g] = mCamera /\ \A h \in Encoders : h # g => mCam'[h] = mCam[h]
    BY <1>1, <1>2, RingTypes
  <1>7. mCamera # None => cameraBuffers[mCamera] = {}
    BY <1>4, RingTypes DEF RingInv, CamerasFresh
  <1>8. TurnsTaken'
    BY <1>1, <1>4, ConstantFacts DEF RingInv, TurnsTaken
  <1>9. OneCamera'
    BY <1>1 DEF RingInv, OneCamera
  <1>10. CamerasFresh'
    <2>1. \A h, k \in Encoders : (mCam'[h] = mCam'[k] /\ mCam'[h] # None) => h = k
      BY <1>4, <1>6 DEF RingInv, CamerasFresh
    <2>2. ASSUME NEW c \in Cameras, \A h \in Encoders : mCam'[h] # c
          PROVE  cameraBuffers[c] = {}
      <3>1. \A h \in Encoders : mCam[h] # c
        BY <1>3, <1>6, <2>2, ConstantFacts
      <3>2. QED BY <3>1 DEF RingInv, CamerasFresh
    <2>3. QED BY <1>1, <2>1, <2>2 DEF CamerasFresh
  <1>11. PreviewPlace'
    <2>1. \A u \in Threads : u # t => at'[u] \notin {"display", "encoder", "start", "buffers", "preview"}
      BY <1>1, <1>5
    <2>2. QED BY <1>1, <1>2, <1>3, <1>6, <1>7, <2>1 DEF PreviewPlace
  <1>12. PreviewsOwn' /\ NoneMissing'
    BY <1>1, <1>4 DEF PreviewsOwn, NoneMissing
  <1>13. RingOf(g)'
    BY <1>1, <1>3, <1>6, <1>7 DEF RingOf
  <1>14. ASSUME NEW h \in Encoders, h # g
         PROVE  RingOf(h)'
    BY <1>1, <1>6, <1>14, RingOfKept DEF RingInv
  <1>15. QED BY <1>8, <1>9, <1>10, <1>11, <1>12, <1>13, <1>14 DEF RingInv

LEMMA AddBuffersRing ==
  ASSUME TypeInv, RingInv, NEW t \in Threads, AddBuffers(t)
  PROVE  RingInv'
  <1>1. CASE mCamera = None
    BY <1>1, CrashKeepsRing DEF AddBuffers
  <1>2. CASE mCamera # None
    <2>1. /\ at[t] = "buffers" /\ at'[t] = "preview" /\ \A u \in Threads : u # t => at'[u] = at[u]
          /\ cameraBuffers' = [cameraBuffers EXCEPT ![mCamera] = cameraBuffers[mCamera] \cup BuffersOf(mjpegDataOutput)]
          /\ UNCHANGED <<mCamera, mjpegDataOutput, open, previewing, mCam, encodeQueue, hand, encReleased>>
      BY <1>2, RingTypes, GotoFacts DEF AddBuffers, recFields, encoder
    <2>2. PICK g \in Encoders : g = mjpegDataOutput /\ mCamera \in Cameras
      BY <1>2, <2>1, RingTypes
    <2>3. /\ encodeQueue[g] = <<>> /\ hand[g] = NoBuffer /\ mCam[g] = mCamera
          /\ cameraBuffers[mCamera] = {} /\ previewing = {}
      BY <1>2, <2>1, <2>2, ConstantFacts DEF RingInv, PreviewPlace, TurnsTaken, Threads
    <2>4. \A u \in Threads : u # t => at[u] \notin {"display", "encoder", "start", "buffers", "preview"}
      BY <2>1, ConstantFacts DEF RingInv, TurnsTaken, Threads
    <2>5. cameraBuffers'[mCamera] = BuffersOf(g) /\ \A c \in Cameras : c # mCamera => cameraBuffers'[c] = cameraBuffers[c]
      BY <2>1, <2>2, <2>3, RingTypes
    <2>6. TurnsTaken' /\ OneCamera'
      BY <2>1, <2>3, ConstantFacts DEF RingInv, TurnsTaken, OneCamera
    <2>7. CamerasFresh'
      BY <2>1, <2>2, <2>3, <2>5 DEF RingInv, CamerasFresh
    <2>8. PreviewPlace'
      <3>1. \A u \in Threads : u # t => at'[u] \notin {"display", "encoder", "start", "buffers", "preview"}
        BY <2>1, <2>4
      <3>2. QED BY <2>1, <2>2, <2>3, <2>5, <3>1 DEF PreviewPlace
    <2>9. PreviewsOwn' /\ NoneMissing'
      BY <2>1, <2>3 DEF PreviewsOwn, NoneMissing
    <2>10. RingOf(g)'
      BY <2>1, <2>2, <2>3, <2>5, ConstantFacts DEF RingOf
    <2>11. ASSUME NEW h \in Encoders, h # g
           PROVE  RingOf(h)'
      <3>1. mCam[h] # None => mCam[h] # mCamera /\ mCam[h] \in Cameras
        BY <1>2, <2>2, <2>3, <2>11, RingTypes DEF RingInv, CamerasFresh
      <3>2. QED BY <2>1, <2>5, <3>1, RingOfKept DEF RingInv
    <2>12. QED BY <2>6, <2>7, <2>8, <2>9, <2>10, <2>11 DEF RingInv
  <1>3. QED BY <1>1, <1>2

LEMMA StartPreviewRing ==
  ASSUME TypeInv, RingInv, NEW t \in Threads, StartPreview(t)
  PROVE  RingInv'
  <1>1. CASE mCamera = None
    BY <1>1, CrashKeepsRing DEF StartPreview
  <1>2. CASE mCamera # None
    <2>1. /\ at[t] = "preview" /\ at'[t] = "idle" /\ \A u \in Threads : u # t => at'[u] = at[u]
          /\ previewing' = previewing \cup {mCamera}
          /\ UNCHANGED <<mCamera, mjpegDataOutput, open, cameraBuffers, mCam, encodeQueue, hand, encReleased>>
      BY <1>2, RingTypes, GotoFacts DEF StartPreview, recFields, encoder
    <2>2. \A u \in Threads : u # t => at[u] \notin {"open", "display", "encoder", "start", "buffers", "preview"}
      BY <2>1, ConstantFacts DEF RingInv, TurnsTaken, Threads
    <2>3. \A u \in Threads : at'[u] \notin {"open", "display", "encoder", "start", "buffers", "preview"}
      BY <2>1, <2>2
    <2>4. at'[Rec] = "idle"
      BY <2>1, ConstantFacts DEF RingInv, TurnsTaken, Threads
    <2>5. /\ mCam[mjpegDataOutput] = mCamera
          /\ cameraBuffers[mCamera] = BuffersOf(mjpegDataOutput)
      BY <1>2, <2>1 DEF RingInv, PreviewPlace
    <2>6. TurnsTaken'
      BY <2>3, <2>4, ConstantFacts DEF TurnsTaken
    <2>7. OneCamera'
      BY <1>2, <2>1, <2>3 DEF RingInv, OneCamera
    <2>8. CamerasFresh' /\ PreviewsOwn' /\ NoneMissing'
      BY <2>1, <2>5 DEF RingInv, CamerasFresh, PreviewsOwn, NoneMissing
    <2>9. PreviewPlace'
      BY <2>3 DEF PreviewPlace
    <2>10. \A g \in Encoders : RingOf(g)'
      BY <2>1, RingOfKept DEF RingInv
    <2>11. QED BY <2>6, <2>7, <2>8, <2>9, <2>10 DEF RingInv
  <1>3. QED BY <1>1, <1>2

LEMMA InitPreviewRing ==
  ASSUME TypeInv, RingInv, NEW t \in Threads, InitPreview(t)
  PROVE  RingInv'
  <1>1. CASE Reopen(t)
    <2>1. /\ at[t] = "reopen" /\ Goto(t, "open") /\ ReleaseCamera
          /\ UNCHANGED <<mjpegDataOutput, mCam, encodeQueue, hand>>
      BY <1>1 DEF Reopen, encoder
    <2>2. QED BY <2>1, CameraGoneRing
  <1>2. CASE StartEncoder(t)
    <2>1. CASE pc[mjpegDataOutput] # "none"
      BY <1>2, <2>1, CrashKeepsRing DEF StartEncoder
    <2>2. CASE pc[mjpegDataOutput] = "none"
      <3>1. at[t] = "start" /\ Idles(t, "buffers")
        BY <1>2, <2>2 DEF StartEncoder, Idles, recFields, camera
      <3>2. t = Main => at[Rec] = "idle"
        BY <3>1, ConstantFacts DEF RingInv, TurnsTaken
      <3>3. QED BY <3>1, <3>2, IdlesKeepsRing
    <2>3. QED BY <2>1, <2>2
  <1>3. CASE SetDisplay(t)
    <2>1. CASE mCamera = None
      BY <1>3, <2>1, CrashKeepsRing DEF SetDisplay
    <2>2. CASE mCamera # None
      <3>1. at[t] = "display" /\ (Idles(t, "encoder") \/ Idles(t, "idle"))
        BY <1>3, <2>2 DEF SetDisplay, Idles, recFields, camera, encoder
      <3>2. t = Main => at[Rec] = "idle"
        BY <3>1, ConstantFacts DEF RingInv, TurnsTaken
      <3>3. QED BY <3>1, <3>2, IdlesKeepsRing
    <2>3. QED BY <2>1, <2>2
  <1>4. QED BY <1>1, <1>2, <1>3, OpenRing, NewEncoderRing, AddBuffersRing, StartPreviewRing DEF InitPreview

LEMMA RunRing ==
  ASSUME TypeInv, RingInv, Run \/ AddCallback
  PROVE  RingInv'
  <1>1. at[Rec] \in {"run", "callback"} /\ (Idles(Rec, "callback") \/ Idles(Rec, "reopen"))
    BY DEF Run, AddCallback, Idles, recFields, camera, encoder
  <1>2. QED BY <1>1, IdlesKeepsRing, ConstantFacts

LEMMA ReleaseRing ==
  ASSUME TypeInv, RingInv, ReleaseSteps
  PROVE  RingInv'
  <1>1. CASE ReleaseRecorder
    <2>1. CASE released
      <3>1. Idles(Main, "idle")
        BY <1>1, <2>1 DEF ReleaseRecorder, Idles, camera, encoder
      <3>2. QED BY <3>1, IdlesKeepsRing, ConstantFacts
    <2>2. CASE ~released
      <3>1. Goto(Main, "mark") /\ ReleaseCamera /\ UNCHANGED <<mjpegDataOutput, mCam, encodeQueue, hand>>
        BY <1>1, <2>2 DEF ReleaseRecorder, encoder
      <3>2. QED BY <3>1, CameraGoneRing, ConstantFacts
    <2>3. QED BY <2>1, <2>2
  <1>2. CASE MarkEncoder
    <2>1. /\ at[Main] = "mark"
          /\ Goto(Main, "holder") \/ Goto(Main, "interrupt")
          /\ UNCHANGED <<mCamera, mjpegDataOutput, open, previewing, cameraBuffers, mCam, encodeQueue, hand>>
      BY <1>2 DEF MarkEncoder, recFields, camera
    <2>2. \A g \in Encoders : encReleased[g] => encReleased'[g]
      BY <1>2, RingTypes DEF MarkEncoder
    <2>3. Idles(Main, "holder") \/ Idles(Main, "interrupt")
      BY <2>1, <2>2 DEF Idles
    <2>4. QED BY <2>3, IdlesKeepsRing, ConstantFacts
  <1>3. CASE InterruptEncoder \/ RemoveCallback
    <2>1. Idles(Main, "holder") \/ Idles(Main, "idle")
      BY <1>3 DEF InterruptEncoder, RemoveCallback, Idles, recFields, camera, encoder
    <2>2. QED BY <2>1, IdlesKeepsRing, ConstantFacts
  <1>4. QED BY <1>1, <1>2, <1>3 DEF ReleaseSteps

LEMMA NotifyRing ==
  ASSUME TypeInv, RingInv, Notify
  PROVE  RingInv'
  <1>1. Idles(Main, "idle")
    BY DEF Notify, Idles, recFields, camera
  <1>2. QED BY <1>1, IdlesKeepsRing, ConstantFacts

\* Only here does it matter that the surface has not changed during run().
LEMMA SurfaceRing ==
  ASSUME TypeInv, RingInv, Noted, ~raced',
         SurfaceCreated \/ SurfaceChanged \/ SurfaceDestroyed \/ SwitchOff
  PROVE  RingInv'
  <1>1. CASE SurfaceCreated
    <2>1. at[Main] = "idle" /\ Idles(Main, "idle")
      BY <1>1 DEF SurfaceCreated, Idles, camera, encoder
    <2>2. QED BY <2>1, IdlesKeepsRing, ConstantFacts
  <1>2. CASE SurfaceChanged
    <2>1. at[Main] = "idle" /\ Goto(Main, "reopen") /\ Idles(Main, "reopen")
      BY <1>2 DEF SurfaceChanged, Idles, camera, encoder
    <2>2. at'[Main] = "reopen" /\ at'[Rec] = at[Rec]
      BY <2>1, RingTypes, GotoFacts, ConstantFacts
    <2>3. at[Rec] = "idle"
      BY <2>2 DEF Noted, InPreview
    <2>4. QED BY <2>1, <2>3, IdlesKeepsRing, ConstantFacts
  <1>3. CASE SurfaceDestroyed \/ SwitchOff
    <2>1. at[Main] = "idle" /\ Idles(Main, "release")
      BY <1>3 DEF SurfaceDestroyed, SwitchOff, Idles, camera, encoder
    <2>2. QED BY <2>1, IdlesKeepsRing, ConstantFacts
  <1>4. QED BY <1>1, <1>2, <1>3

LEMMA FrameRing ==
  ASSUME TypeInv, RingInv, NEW c \in Cameras, NEW b \in Buffers, OnPreviewFrame(c, b)
  PROVE  RingInv'
  <1>1. /\ at[Main] = "idle" /\ c \in open /\ previewing # {} /\ b \in cameraBuffers[c]
        /\ cameraBuffers' = [cameraBuffers EXCEPT ![c] = cameraBuffers[c] \ {b}]
        /\ UNCHANGED <<mCamera, mjpegDataOutput, open, previewing, mCam, hand, encReleased>>
    BY DEF OnPreviewFrame, recFields
  <1>2. PICK g \in Encoders : g = mjpegDataOutput
    BY <1>1, RingTypes
  <1>3. at[Rec] = "idle" /\ c = mCamera /\ mCam[g] = c /\ c # None
    BY <1>1, <1>2, ConstantFacts DEF RingInv, TurnsTaken, OneCamera, PreviewsOwn
  <1>4. /\ RingOf(g) /\ b \in BuffersOf(g) /\ encodeQueue[g] \in Seq(Buffers)
        /\ \A i, j \in DOMAIN encodeQueue[g] : encodeQueue[g][i] = encodeQueue[g][j] => i = j
        /\ \A i \in DOMAIN encodeQueue[g] : encodeQueue[g][i] \in BuffersOf(g) /\ encodeQueue[g][i] # b
    BY <1>1, <1>3, RingTypes DEF RingInv, RingOf
  <1>5. Len(encodeQueue[g]) < NumBuffers
    BY <1>4, RoomForOne
  <1>6. /\ cameraBuffers'[c] = cameraBuffers[c] \ {b}
        /\ \A d \in Cameras : d # c => cameraBuffers'[d] = cameraBuffers[d]
    BY <1>1, RingTypes
  <1>7. /\ \A t \in Threads : at[t] = "idle"
        /\ \A t \in Threads : at'[t] \in {"idle", "notify"}
        /\ at'[Rec] = "idle"
    BY <1>1, <1>3, RingTypes, GotoFacts, ConstantFacts DEF OnPreviewFrame, Threads
  <1>8. TurnsTaken' /\ PreviewPlace'
    BY <1>7, ConstantFacts DEF TurnsTaken, PreviewPlace
  <1>9. OneCamera' /\ PreviewsOwn'
    BY <1>1, <1>7 DEF RingInv, OneCamera, PreviewsOwn
  <1>10. CamerasFresh'
    <2>1. \A d \in Cameras : (\A h \in Encoders : mCam[h] # d) => d # c
      BY <1>3
    <2>2. QED BY <1>1, <1>6, <2>1 DEF RingInv, CamerasFresh
  <1>11. ASSUME NEW h \in Encoders, h # g, UNCHANGED encodeQueue[h]
         PROVE  RingOf(h)'
    <2>1. mCam[h] # None => mCam[h] # c /\ mCam[h] \in Cameras
      BY <1>3, <1>11, RingTypes DEF RingInv, CamerasFresh
    <2>2. QED BY <1>1, <1>6, <1>11, <2>1, RingOfKept DEF RingInv
  <1>12. CASE encReleased[g] \/ Len(encodeQueue[g]) = NumBuffers
    <2>1. encReleased[g] /\ UNCHANGED encodeQueue
      BY <1>2, <1>4, <1>5, <1>12, ConstantFacts DEF OnPreviewFrame
    <2>2. RingOf(g)'
      BY <1>1, <1>3, <1>4, <1>6, <2>1 DEF RingOf
    <2>3. NoneMissing'
      BY <1>1, <1>2, <2>1 DEF NoneMissing
    <2>4. QED BY <1>8, <1>9, <1>10, <1>11, <2>1, <2>2, <2>3 DEF RingInv
  <1>13. CASE ~(encReleased[g] \/ Len(encodeQueue[g]) = NumBuffers)
    <2> DEFINE q == encodeQueue[g]
               p == Append(q, b)
    <2>1. encodeQueue' = [encodeQueue EXCEPT ![g] = Append(encodeQueue[g], b)]
      BY <1>2, <1>13 DEF OnPreviewFrame
    <2>2. encodeQueue'[g] = p /\ \A h \in Encoders : h # g => encodeQueue'[h] = encodeQueue[h]
      BY <2>1, RingTypes
    <2>3. /\ DOMAIN p = 1..(Len(q) + 1) /\ DOMAIN q = 1..Len(q) /\ Len(q) \in Nat
          /\ p[Len(q) + 1] = b /\ \A i \in DOMAIN q : p[i] = q[i]
      BY <1>4
    <2>4. b # hand[g]
      BY <1>1, <1>3, <1>4 DEF RingOf
    <2> HIDE DEF p, q
    <2>5. /\ \A i \in DOMAIN q : q[i] \in BuffersOf(g) /\ q[i] # hand[g] /\ q[i] # b /\ q[i] \notin cameraBuffers[c]
          /\ \A i, j \in DOMAIN q : q[i] = q[j] => i = j
          /\ hand[g] \in BuffersOf(g) \cup {NoBuffer}
          /\ cameraBuffers[c] \subseteq BuffersOf(g) /\ hand[g] \notin cameraBuffers[c]
      BY <1>3, <1>4 DEF RingOf, q
    <2>6. \A i \in DOMAIN p : \/ i \in DOMAIN q /\ p[i] = q[i]
                              \/ i = Len(q) + 1 /\ p[i] = b
      BY <2>3
    <2>7. RingOf(g)'
      <3>1. \A i \in DOMAIN p : p[i] \in BuffersOf(g) /\ p[i] # hand[g] /\ p[i] \notin cameraBuffers'[c]
        BY <1>4, <1>6, <2>4, <2>5, <2>6
      <3>2. \A i, j \in DOMAIN p : p[i] = p[j] => i = j
        BY <2>5, <2>6
      <3>3. hand[g] \notin cameraBuffers'[c] /\ cameraBuffers'[c] \subseteq BuffersOf(g)
        BY <1>6, <2>5
      <3>4. QED BY <1>1, <1>3, <2>2, <2>5, <3>1, <3>2, <3>3 DEF RingOf
    <2>8. NoneMissing'
      <3>1. ASSUME NEW e \in BuffersOf(g)
            PROVE  \/ e \in cameraBuffers'[c]
                   \/ e = hand[g]
                   \/ \E i \in DOMAIN p : p[i] = e
        <4>1. e \in cameraBuffers[c] \/ e = hand[g] \/ \E i \in DOMAIN q : q[i] = e
          BY <1>1, <1>2, <1>3, <1>13 DEF RingInv, NoneMissing, q
        <4>2. \A i \in DOMAIN q : i \in DOMAIN p /\ p[i] = q[i]
          BY <2>3
        <4>3. Len(q) + 1 \in DOMAIN p
          BY <2>3
        <4>4. QED BY <1>6, <2>3, <4>1, <4>2, <4>3
      <3>2. QED BY <1>1, <1>2, <1>3, <2>2, <3>1 DEF NoneMissing
    <2>9. QED BY <1>8, <1>9, <1>10, <1>11, <2>2, <2>7, <2>8 DEF RingInv
  <1>14. QED BY <1>12, <1>13

LEMMA PollRing ==
  ASSUME TypeInv, RingInv, NEW g \in Encoders, NEW from \in {"top", "woken"},
         EncoderStep(g, from, "encode"), encodeQueue[g] # <<>>, Poll(g)
  PROVE  RingInv'
  <1> DEFINE q == encodeQueue[g]
             p == Tail(q)
  <1>1. /\ pc[g] # "encode"
        /\ hand' = [hand EXCEPT ![g] = Head(encodeQueue[g])]
        /\ encodeQueue' = [encodeQueue EXCEPT ![g] = Tail(encodeQueue[g])]
        /\ UNCHANGED <<at, mCamera, mjpegDataOutput, open, previewing, cameraBuffers, mCam, encReleased>>
    BY DEF Poll, EncoderStep, recFields
  <1>2. q \in Seq(Buffers) /\ q # <<>> /\ hand[g] = NoBuffer
    BY <1>1, RingTypes DEF TypeInv, Filled
  <1>3. /\ Len(q) \in Nat /\ DOMAIN q = 1..Len(q) /\ 1 \in DOMAIN q
        /\ DOMAIN p = 1..(Len(q) - 1) /\ \A i \in DOMAIN p : p[i] = q[i + 1]
        /\ Head(q) = q[1]
    BY <1>2
  <1>4. /\ hand'[g] = q[1] /\ encodeQueue'[g] = p
        /\ \A h \in Encoders : h # g => hand'[h] = hand[h] /\ encodeQueue'[h] = encodeQueue[h]
    BY <1>1, <1>3, RingTypes
  <1>5. /\ \A i \in DOMAIN q : q[i] \in BuffersOf(g)
        /\ \A i, j \in DOMAIN q : q[i] = q[j] => i = j
        /\ mCam[g] # None =>
             /\ cameraBuffers[mCam[g]] \subseteq BuffersOf(g)
             /\ \A i \in DOMAIN q : q[i] \notin cameraBuffers[mCam[g]]
    BY DEF RingInv, RingOf
  <1> HIDE DEF p, q
  <1>6. \A i \in DOMAIN p : i \in Int /\ i + 1 \in DOMAIN q /\ i + 1 # 1 /\ p[i] = q[i + 1]
    BY <1>3
  <1>7. TurnsTaken' /\ OneCamera' /\ CamerasFresh' /\ PreviewsOwn'
    BY <1>1 DEF RingInv, TurnsTaken, OneCamera, CamerasFresh, PreviewsOwn
  <1>8. PreviewPlace'
    <2>1. ASSUME NEW t \in Threads, at[t] \in {"start", "buffers", "preview"}
          PROVE  mjpegDataOutput # g /\ mjpegDataOutput \in Encoders
      BY <1>2, <2>1, RingTypes DEF RingInv, PreviewPlace, q
    <2>2. QED BY <1>1, <1>4, <2>1 DEF RingInv, PreviewPlace
  <1>9. RingOf(g)'
    <2>1. \A i \in DOMAIN p : p[i] \in BuffersOf(g) /\ p[i] # q[1]
      BY <1>3, <1>5, <1>6
    <2>2. \A i, j \in DOMAIN p : p[i] = p[j] => i = j
      BY <1>5, <1>6
    <2>3. mCam[g] # None => \A i \in DOMAIN p : p[i] \notin cameraBuffers[mCam[g]]
      BY <1>5, <1>6
    <2>4. QED BY <1>1, <1>3, <1>4, <1>5, <2>1, <2>2, <2>3 DEF RingOf
  <1>10. ASSUME NEW h \in Encoders, h # g
         PROVE  RingOf(h)'
    BY <1>1, <1>4, <1>10, RingOfKept DEF RingInv
  <1>11. NoneMissing'
    <2>1. CASE mjpegDataOutput = g
      <3>1. ASSUME NEW b \in BuffersOf(g), b # q[1], NEW i \in DOMAIN q, q[i] = b
            PROVE  \E j \in DOMAIN p : p[j] = b
        <4>1. i - 1 \in DOMAIN p /\ p[i - 1] = q[(i - 1) + 1]
          BY <1>3, <3>1
        <4>2. (i - 1) + 1 = i
          BY <1>3
        <4>3. QED BY <3>1, <4>1, <4>2
      <3>2. \A b \in BuffersOf(g) : b # hand[g]
        BY <1>2, ConstantFacts
      <3>3. ASSUME previewing # {}, ~encReleased[g], NEW b \in BuffersOf(g)
            PROVE  b \in cameraBuffers[mCamera] \/ b = q[1] \/ \E j \in DOMAIN p : p[j] = b
        <4>1. b \in cameraBuffers[mCamera] \/ \E i \in DOMAIN q : q[i] = b
          BY <2>1, <3>2, <3>3 DEF RingInv, NoneMissing, q
        <4>2. QED BY <3>1, <4>1
      <3>4. SUFFICES ASSUME previewing # {}, ~encReleased[g], NEW b \in BuffersOf(g)
                     PROVE  \/ b \in cameraBuffers[mCamera]
                            \/ b = hand'[g]
                            \/ \E j \in DOMAIN encodeQueue'[g] : encodeQueue'[g][j] = b
        BY <1>1, <2>1 DEF NoneMissing
      <3>5. QED BY <1>4, <3>3, <3>4
    <2>2. CASE mjpegDataOutput # g
      BY <1>1, <1>4, <2>2, RingTypes DEF RingInv, NoneMissing
    <2>3. QED BY <2>1, <2>2
  <1>12. QED BY <1>7, <1>8, <1>9, <1>10, <1>11 DEF RingInv

LEMMA EncodeRing ==
  ASSUME TypeInv, RingInv, NEW g \in Encoders, EncodeFrame(g)
  PROVE  RingInv'
  <1>1. CASE pc[g] = "encode" /\ (hand[g] \notin BuffersOf(g) \/ mCam[g] = None)
    BY <1>1, CrashKeepsRing DEF EncodeFrame
  <1>2. CASE ~(pc[g] = "encode" /\ (hand[g] \notin BuffersOf(g) \/ mCam[g] = None))
    <2>1. /\ pc[g] = "encode" /\ mCam[g] # None /\ GiveBack(g)
          /\ hand' = [hand EXCEPT ![g] = NoBuffer]
          /\ UNCHANGED <<at, mCamera, mjpegDataOutput, open, previewing, mCam, encodeQueue, encReleased>>
      BY <1>2 DEF EncodeFrame, EncoderStep, recFields
    <2>2. /\ hand'[g] = NoBuffer /\ \A h \in Encoders : h # g => hand'[h] = hand[h]
          /\ hand[g] \in BuffersOf(g) /\ mCam[g] \in Cameras
      BY <2>1, RingTypes DEF TypeInv, Filled, RingInv, RingOf
    <2>3. /\ cameraBuffers'[mCam[g]] = cameraBuffers[mCam[g]]
               \cup (IF mCam[g] \in open THEN {hand[g]} ELSE {})
          /\ \A c \in Cameras : c # mCam[g] => cameraBuffers'[c] = cameraBuffers[c]
      BY <2>1, <2>2, RingTypes DEF GiveBack
    <2>4. TurnsTaken' /\ OneCamera' /\ PreviewsOwn'
      BY <2>1 DEF RingInv, TurnsTaken, OneCamera, PreviewsOwn
    <2>5. CamerasFresh'
      BY <2>1, <2>3 DEF RingInv, CamerasFresh
    <2>6. PreviewPlace'
      <3>1. ASSUME NEW t \in Threads, at[t] \in {"start", "buffers", "preview"}
            PROVE  /\ mjpegDataOutput \in Encoders /\ mjpegDataOutput # g
                   /\ mCamera # None => mCamera # mCam[g] /\ mCamera \in Cameras
        <4>1. mjpegDataOutput \in Encoders /\ hand[mjpegDataOutput] = NoBuffer
          BY <3>1, RingTypes DEF RingInv, PreviewPlace
        <4>2. mjpegDataOutput # g
          BY <2>2, <4>1, ConstantFacts
        <4>3. QED BY <2>1, <3>1, <4>1, <4>2, RingTypes DEF RingInv, PreviewPlace, CamerasFresh
      <3>2. QED BY <2>1, <2>2, <2>3, <3>1 DEF RingInv, PreviewPlace
    <2>7. RingOf(g)'
      <3>1. hand'[g] \notin BuffersOf(g)
        BY <2>2, ConstantFacts
      <3>2. /\ \A i \in DOMAIN encodeQueue[g] : encodeQueue[g][i] \in BuffersOf(g) /\ encodeQueue[g][i] # hand[g]
            /\ cameraBuffers[mCam[g]] \subseteq BuffersOf(g)
            /\ \A i \in DOMAIN encodeQueue[g] : encodeQueue[g][i] \notin cameraBuffers[mCam[g]]
        BY <2>1 DEF RingInv, RingOf
      <3>3. /\ cameraBuffers'[mCam[g]] \subseteq BuffersOf(g)
            /\ \A i \in DOMAIN encodeQueue[g] : encodeQueue[g][i] \notin cameraBuffers'[mCam[g]]
        BY <2>2, <2>3, <3>2
      <3>4. QED BY <2>1, <2>2, <3>1, <3>2, <3>3 DEF RingInv, RingOf
    <2>8. ASSUME NEW h \in Encoders, h # g
          PROVE  RingOf(h)'
      <3>1. mCam[h] # None => mCam[h] # mCam[g] /\ mCam[h] \in Cameras
        BY <2>1, <2>8, RingTypes DEF RingInv, CamerasFresh
      <3>2. QED BY <2>1, <2>2, <2>3, <2>8, <3>1, RingOfKept DEF RingInv
    <2>9. NoneMissing'
      <3>1. CASE previewing = {}
        BY <2>1, <3>1 DEF NoneMissing
      <3>2. CASE previewing # {}
        <4>1. mjpegDataOutput \in Encoders /\ mCam[mjpegDataOutput] = mCamera /\ mCamera \in open
          BY <3>2, RingTypes DEF RingInv, OneCamera, PreviewsOwn
        <4>2. mCamera \in Cameras
          BY <4>1, RingTypes DEF RingInv, OneCamera
        <4>3. cameraBuffers[mCamera] \subseteq cameraBuffers'[mCamera]
          BY <2>3, <4>2
        <4>4. mjpegDataOutput = g => hand[g] \in cameraBuffers'[mCamera]
          BY <2>3, <4>1
        <4>5. mjpegDataOutput # g => hand'[mjpegDataOutput] = hand[mjpegDataOutput]
          BY <2>2, <4>1
        <4>6. QED BY <2>1, <4>3, <4>4, <4>5 DEF RingInv, NoneMissing
      <3>3. QED BY <3>1, <3>2
    <2>10. QED BY <2>4, <2>5, <2>6, <2>7, <2>8, <2>9 DEF RingInv
  <1>3. QED BY <1>1, <1>2

LEMMA EncoderRing ==
  ASSUME TypeInv, RingInv, NEW g \in Encoders, Encoder(g) \/ WakeUp(g)
  PROVE  RingInv'
  <1>1. ASSUME NoData \/ Ends(g), NEW from, NEW to, EncoderStep(g, from, to)
        PROVE  RingInv'
    <2>1. Idles(Main, at[Main])
      BY <1>1 DEF NoData, Ends, EncoderStep, Idles, recFields
    <2>2. QED BY <2>1, IdlesKeepsRing, ConstantFacts
  <1>2. CASE Leave(g) \/ Wait(g) \/ Interrupted(g) \/ WakeUp(g)
    BY <1>1, <1>2 DEF Leave, Wait, Interrupted, WakeUp
  <1>3. CASE CheckSize(g)
    BY <1>1, <1>3, PollRing DEF CheckSize
  <1>4. CASE Woken(g)
    BY <1>1, <1>4, PollRing DEF Woken
  <1>5. QED BY <1>2, <1>3, <1>4, EncodeRing DEF Encoder

LEMMA NextRing ==
  ASSUME TypeInv, RingInv, Next, ~raced'
  PROVE  RingInv'
  <1>1. CASE RecThread
    BY <1>1, RunRing, InitPreviewRing, ConstantFacts DEF RecThread
  <1>2. CASE MainThread
    <2>1. ASSUME SurfaceCreated \/ SurfaceChanged \/ SurfaceDestroyed \/ SwitchOff
          PROVE  RingInv'
      BY <2>1, SurfaceRing DEF Next
    <2>2. QED BY <1>2, <2>1, InitPreviewRing, ReleaseRing, NotifyRing, FrameRing, ConstantFacts
              DEF MainThread, MainGoesOn
  <1>3. QED BY <1>1, <1>2, EncoderRing DEF Next

LEMMA StutterRing ==
  ASSUME TypeInv, RingInv, UNCHANGED vars
  PROVE  RingInv'
  <1>1. Idles(Main, at[Main])
    BY DEF vars, Idles, recFields, camera, encoder
  <1>2. QED BY <1>1, IdlesKeepsRing, ConstantFacts

-----------------------------------------------------------------------------
(* The theorems.                                                           *)

\* The inductive invariant: the ring is whole until initPreview() has been on
\* both threads at once.
IInv ==
  /\ TypeInv
  /\ raced \in BOOLEAN
  /\ ~raced => RingInv

LEMMA InvHolds == Spec => []IInv
  <1>1. Init => IInv
    BY InitTypes, InitRing DEF Init, IInv
  <1>2. IInv /\ [Next]_vars => IInv'
    <2> SUFFICES ASSUME IInv, [Next]_vars PROVE IInv'
      OBVIOUS
    <2>1. TypeInv'
      BY NextTypes, StutterTypes DEF IInv
    <2>2. CASE Next
      <3>1. raced' = (raced \/ (at'[Rec] # "idle" /\ at'[Main] \in InPreview))
        BY <2>2 DEF Next, Noted
      <3>2. raced' \in BOOLEAN
        BY <3>1, Zenon
      <3>3. ~raced' => ~raced
        BY <3>1, Zenon
      <3>4. QED BY <2>1, <2>2, <3>2, <3>3, NextRing DEF IInv
    <2>3. CASE UNCHANGED vars
      <3>1. raced' = raced
        BY <2>3 DEF vars
      <3>2. QED BY <2>1, <2>3, <3>1, StutterRing DEF IInv
    <2>4. QED BY <2>2, <2>3
  <1>3. QED BY <1>1, <1>2, PTL DEF Spec

\* Every variable of the recorder, its cameras and its encoders stays in its
\* domain, for any number of buffers and previews, also when the surface
\* changes while run() is opening the first camera.
THEOREM TypeCorrect == Spec => []TypeOK
  <1>1. IInv => TypeOK
    BY Zenon DEF IInv, TypeInv, TypeOK, FlagsOK, PlacesOK, CamerasOK, EncodersOK
  <1>2. QED BY <1>1, InvHolds, PTL

\* What the invariant says of a camera that previews.
LEMMA Previewing ==
  ASSUME TypeInv, RingInv, NEW c \in open \cap previewing
  PROVE  /\ c \in Cameras /\ c = mCamera /\ previewing # {}
         /\ mjpegDataOutput \in Encoders /\ mCam[mjpegDataOutput] = c
         /\ cameraBuffers[c] \subseteq BuffersOf(mjpegDataOutput)
  <1>1. c \in Cameras /\ c # None
    BY ConstantFacts DEF TypeInv, CamerasOK
  <1>2. c = mCamera /\ mjpegDataOutput \in Encoders /\ mCam[mjpegDataOutput] = c
    BY RingTypes DEF RingInv, OneCamera, PreviewsOwn
  <1>3. QED BY <1>1, <1>2 DEF RingInv, RingOf

\* Frames of the camera that previews go to the encoder that made its buffers,
\* and come back to that camera, however often surfaceChanged() replaces both
\* (VideoRecorder.initPreview(), onPreviewFrame()).
THEOREM FramesMeet == Spec => []FramesMeetTheirEncoder
  <1>1. IInv => FramesMeetTheirEncoder
    BY Previewing, ConstantFacts DEF IInv, FramesMeetTheirEncoder
  <1>2. QED BY <1>1, InvHolds, PTL

\* No capture buffer is lost or in two places while a camera previews for an
\* encoder that is not released, whatever the number of buffers, and however
\* the encoder thread and the preview callback interleave.
THEOREM NoBufferLost == Spec => []RingConserved
  <1>1. ASSUME TypeInv, RingInv PROVE RingConserved
    <2> SUFFICES ASSUME NEW c \in open \cap previewing, ~encReleased[mjpegDataOutput]
                 PROVE  LET g == mjpegDataOutput
                        IN /\ BuffersOf(g) = cameraBuffers[c] \cup Queued(g) \cup ({hand[g]} \ {NoBuffer})
                           /\ cameraBuffers[c] \cap Queued(g) = {}
                           /\ hand[g] \notin cameraBuffers[c] \cup Queued(g)
                           /\ Cardinality(Queued(g)) = Len(encodeQueue[g])
      BY DEF RingConserved
    <2>1. PICK g \in Encoders : g = mjpegDataOutput
      BY <1>1, Previewing
    <2>2. /\ mCam[g] = c /\ c # None /\ c = mCamera
          /\ encodeQueue[g] \in Seq(Buffers)
          /\ RingOf(g)
      BY <1>1, <2>1, Previewing, RingTypes, ConstantFacts DEF RingInv
    <2>3. /\ cameraBuffers[c] \cap Queued(g) = {}
          /\ hand[g] \notin cameraBuffers[c] \cup Queued(g)
          /\ cameraBuffers[c] \cup Queued(g) \cup ({hand[g]} \ {NoBuffer}) \subseteq BuffersOf(g)
      BY <2>2 DEF RingOf, Queued
    <2>4. ASSUME NEW b \in BuffersOf(g)
          PROVE  b \in cameraBuffers[c] \cup Queued(g) \cup ({hand[g]} \ {NoBuffer})
      <3>1. b # NoBuffer
        BY ConstantFacts
      <3>2. b \in cameraBuffers[c] \/ b = hand[g] \/ \E i \in DOMAIN encodeQueue[g] : encodeQueue[g][i] = b
        BY <1>1, <2>1, <2>2 DEF RingInv, NoneMissing
      <3>3. QED BY <3>1, <3>2 DEF Queued
    <2>5. Cardinality(Queued(g)) = Len(encodeQueue[g])
      BY <2>2, DistinctCount DEF RingOf, Queued
    <2>6. QED BY <2>1, <2>3, <2>4, <2>5
  <1>2. IInv => RingConserved
    BY <1>1 DEF IInv, RingConserved
  <1>3. QED BY <1>2, InvHolds, PTL

\* A frame the camera delivers always finds room in its encoder's queue, so
\* MjpegDataOutput.addFrame() never refuses one of a live encoder.
THEOREM QueueHasRoom == Spec => []OfferHasRoom
  <1>1. ASSUME TypeInv, RingInv PROVE OfferHasRoom
    <2> SUFFICES ASSUME NEW c \in open \cap previewing, NEW b \in cameraBuffers[c]
                 PROVE  Len(encodeQueue[mjpegDataOutput]) < NumBuffers
      BY DEF OfferHasRoom
    <2>1. PICK g \in Encoders : g = mjpegDataOutput
      BY <1>1, Previewing
    <2>2. /\ encodeQueue[g] \in Seq(Buffers) /\ b \in BuffersOf(g)
          /\ mCam[g] = c /\ c # None /\ RingOf(g)
      BY <1>1, <2>1, Previewing, RingTypes, ConstantFacts DEF RingInv
    <2>3. /\ \A i, j \in DOMAIN encodeQueue[g] : encodeQueue[g][i] = encodeQueue[g][j] => i = j
          /\ \A i \in DOMAIN encodeQueue[g] : encodeQueue[g][i] \in BuffersOf(g) /\ encodeQueue[g][i] # b
      BY <2>2 DEF RingOf
    <2>4. QED BY <2>1, <2>2, <2>3, RoomForOne
  <1>2. IInv => OfferHasRoom
    BY <1>1 DEF IInv, OfferHasRoom
  <1>3. QED BY <1>2, InvHolds, PTL
=============================================================================

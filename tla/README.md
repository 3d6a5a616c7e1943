# BlackadderCom: formal models

BlackadderCom is an Android voice and video conference over the Blackadder
publish/subscribe network. This directory models its concurrent core in TLA+,
checks it with TLC and proves its safety with TLAPS. It also models netperf, the
measuring tool the repository carries and builds. Paths below are relative to the
repository; `P` is `src/uk/ac/cam/cl/xf214/blackadderCom`, `Q` is
`src/de/mjpegsample`.

## 1. Inventory

### Threads

| thread | runs |
|---|---|
| native event thread (one) | every callback of the Blackadder wrapper: `publishedData()`, `newData()`, `startPublish()`, `stopPublish()` |
| UI thread | the proxies' `setSend()`, `setReceive()`, `release()`; surface callbacks; camera callbacks |
| one drawing thread per view | `MjpegView.MjpegViewThread.run()`, and through `onError()` the scheduler |
| encoder thread(s) | `MjpegDataOutput.run()` |
| voice player thread per stream, voice recorder thread | `VoicePlayer.run()`, `VoiceRecorder.run()` |
| video recorder thread | `VideoRecorder.run()` with its `initPreview()` |

The wrapper's `HashClassifierCallback` (a library, not in the repository) gives an
incoming event to the data handler registered under its id, holding the data
table's monitor during the call; an event without a data handler goes to the
control handler of its longest prefix, under another monitor. Unregistering takes
the same monitor, so it waits for a callback in progress on another thread and is
re-entrant on the event thread itself. A `BAEvent` owns a native buffer;
`freeNativeBuffer()` may be called twice.

### Components

| component | state | operations | what makes it correct |
|---|---|---|---|
| `P/net/BARtpPublisherOutputStream` | packet buffer, fill pointer, sequence number | `createNewRtpPkt`, `write`, `forceSend`, `close` | packets are exactly the consecutive slices of the frame their header names |
| `P/net/BAPacketPublisher` | `canPublish`, `released` | `startPublish`, `stopPublish`, `send`, `release` | nothing leaves a closed gate; the termination mark ends the stream |
| `Q/MjpegDataOutput` | frame queue, `released`, `curGranule` | `run`, `encodeFrame`, `addFrame`, `release` | frames numbered in order; every camera buffer goes back |
| `P/androidVideo/VideoRecorder` | camera, encoder, surface, `released` | `run`, `initPreview`, `release`, surface callbacks | one camera, one encoder at a time, both released |
| `P/net/BARtpSubscriber` | fragment list, current granule/seq/timestamp, frame queue, `mReceive`, `released` | `publishedData`, `setReceive`, `getBARtpPacket`, `release` | frames coherent, in order, once; every native buffer freed once; quiet after release |
| `Q/MjpegDataInput` | none | `readMjpegFrame` | old frames skipped; ends when the subscriber is released |
| `P/androidVideo/FCFSViewScheduler` | view queue, wait queue, player set | `addStream`, `removeStream` | first come first served, no view lost, none idle while a player waits |
| `P/androidVideo/VideoPlayer` | view, `released` | `setView`, `release`, `onError` | shown while it holds a view |
| `Q/MjpegView` | `mIn`, `mOnErrorListener`, `mPause`, `mRun`, thread | `run`, `startPlayback`, `pausePlayback`, `doPause`, `stopPlayback`, `setSource` | the drawing thread reads the stream its view was given, and wakes when given one |
| `P/androidVideo/VideoProxy` | stream table, `send`, `receive`, recorder | `newData`, `streamFinished`, `setSend`, `setReceive`, `release` | table, scheduler and classifier agree; nothing lives on after switching off |
| `P/androidVoice/VoiceProxy`, `VoicePlayer`, `P/net/BAPacketSubscriber` | stream table, event queue, `released` flags | `newData`, `streamFinished`, `setReceive` (joins players), `run`, `release` | every event freed, every player ends, switching off returns |
| `P/androidVoice/VoiceRecorder` | `released` | `run`, `release` | nothing is sent after the mark |
| socket adapters, `BARtpPublisher`, `MjpegInputStream`/`MjpegOutputStream` | | | without a caller in the program |
| `P/BlackadderComActivity`, `BANode` | proxies, wake lock | widgets' listeners, `connect`, `onDestroy` | wake lock balanced |
| `jni/netperf` (netperf, netserver) | control and data connection, `times_up`, counters, a SIGALRM timer at each end | `send_request`, `recv_response`, `send_*`/`recv_*` per test, `start_timer`, `catcher` | requests and responses in step, both ends count the same transfer, a good run does not fail, both processes end |
| `jni/` (speex, libjpeg, pubsub), `libs/` | | | vendored code or loops of one call: not modelled |

### How they interact

Sending: camera callback -> `MjpegDataOutput.encodeQueue` -> encoder thread ->
`BARtpPublisherOutputStream` -> `BAPacketPublisher.send()` -> network.
Receiving: event thread -> `BARtpSubscriber.publishedData()` -> `dataQueue` ->
drawing thread -> screen. Streams come and go: the first packet of an unknown
stream reaches `VideoProxy.newData()`, which makes a subscriber and a player and
gives the player to the scheduler; a termination mark or `setReceive(false)`
releases the subscriber, the view's drawing thread gets an `IOException` on its
next read, pauses itself, and calls `onError()`, which removes the player and may
hand the view to a waiting one.

Voice is the same path without reassembly: event thread -> `BAPacketSubscriber`'s queue
-> one `VoicePlayer` thread per stream -> `AudioTrack`. A player ends by itself on a
termination mark, or because `setReceive(false)` releases and joins it; both go through
the same `release()`, on two threads. Capturing is a ring: the camera fills one of three
buffers, `onPreviewFrame()` queues it, the encoder gives it back with
`addCallbackBuffer()`. Its camera, encoder and surface callback are made and undone by
the recorder's own thread and the UI thread.

netperf stands apart. It asks a netserver child over a control connection to set up a
test, transfers data over a second connection until a SIGALRM timer or a count ends the
loop, and asks for the results. The requests carry no number; both ends run a timer and
decide on their own that the transfer is over.

The hard parts are the hand-overs between those threads, with a monitor in some
places and plain fields in others; releases that race deliveries; and a network
that loses, duplicates and reorders. `PROJECT.json` lists the hazards one by one,
each with its line and the properties that cover it.

## 2. Modules

| module | models | kind |
|---|---|---|
| `RtpPublisher` | `BARtpPublisherOutputStream`, `BAPacketPublisher`, the encoder threads of `MjpegDataOutput`, `VideoRecorder`'s start of a further encoder and its release | detailed |
| `RtpPublisher_proof` | theorems about it | proofs |
| `RtpSubscriber`, `MCRtpSubscriber` | `BARtpSubscriber`, `MjpegDataInput` | detailed |
| `FrameStream` | what the receiving half promises a view | abstract, refined by `RtpSubscriber` |
| `RtpSubscriber_proof` | theorems about it: buffers, release, order | proofs |
| `RtpFrames_proof` | theorems about its fragments and frames, and that it implements `FrameStream` | proofs |
| `ViewPool` | what `FCFSViewScheduler` promises | abstract |
| `ViewPool_proof` | theorems about it | proofs |
| `ViewPlayback`, `MCViewPlayback` | `VideoProxy` (receiving), `FCFSViewScheduler`, `VideoPlayer`, `MjpegView`, and each player's receiver as a handler with two flags | detailed composition, refines `ViewPool` |
| `ViewPlayback_proof` | theorems about it, and that it implements `ViewPool` | proofs |
| `VoiceReception` | `VoiceProxy` (receiving), `VoicePlayer`, `BAPacketSubscriber` | detailed composition |
| `VoiceReception_proof` | theorems about it | proofs |
| `CaptureRing` | `VideoRecorder`, the threads and queue of `MjpegDataOutput`, the camera | detailed composition |
| `CaptureRing_proof` | theorems about it | proofs |
| `NetperfTest` | netperf and a netserver child | detailed, with faults |
| `NetperfTest_proof` | theorems about it | proofs |

Every operation is an action, or several where another thread can look in between.
Definitions carry the source's names; `PROJECT.json` maps each to its lines. An
operator whose comment begins "Mutation of" is a wrong variant of the next
definition; no specification uses it.

**RtpPublisher.** A byte of JPEG data is `<<encoder, granule, position>>`, so a
packet shows which bytes of which frame it carries. `Write(e, n)` is
`compressToJpeg()` calling `write()` with n bytes, for any n; `FillPacket` is one
turn of the loop in `write(byte[], int, int)`. `header[e]` is the granule and
timestamp standing in the packet buffer, which `createNewRtpPkt()` overwrites without
touching the payload. `wire` and `dropped` are history variables: what passed the
gate and what did not. START_PUBLISH and STOP_PUBLISH come at any time while the
handler is registered. Time is a counter of frames.

**RtpSubscriber.** `Deliver` is the classifier's call and can bring any packet at any
time, again and in any order, so loss, duplication and reordering are all there, and
so is any sender, including one that restarts its frame numbers.
`cb # "idle"` is the event thread being in `publishedData()` with the classifier's
monitor held; `publishedData()` is cut where another thread's effect could fall in
between (after the test of `mReceive`, around `generateBARtpPacket()`). `release()`
has a step per statement and two callers (`rel["ui"]`, `rel["cb"]`); its
unregistration waits for a callback on the other thread. `setReceive()` tests
`released` and assigns `mReceive` in two steps. `buffer[e]` is the packet in event
e's native buffer or `Freed`, and freed handles are used again, so a double free or a
use after free would hit another packet. `shown` is a history variable.

**FrameStream.** Take, Show, Skip or Stop: the decoder gets one frame at a time, made of
fragments of one frame in their order, ever later ones, and nothing after the source has
stopped. `RtpSubscriber` implements it with the polled frame for `frame`, its history
for `shown` and the end of the reader for `stopped` (`RefinesFrameStream`).

**ViewPlayback.** Three monitors are variables that name their owner: the classifier's over its
control handlers (`controlLock`) and over its data handlers (`dataLock`), and `mStreamMap`'s
(`lock`). They are taken where the code takes them: `Dispatch` is the classifier calling
`newData()` with the first held, `KnownStream` and `NewData` its block on the third, in which
the new `BARtpSubscriber` registers under the second; `FinArrives` and `FinUnregisters` are
`publishedData()` with the second held; `UnregisterControl`, `ListPlayers` and
`UnregisterData` are where `setReceive(false)` waits for them, one after the other. The
scheduler's own monitor is only ever taken inside `mStreamMap`'s, and the UI thread alone takes
the proxy's. Updates of the table and of the scheduler happen under `lock` and are one step;
`setView()` writes to the view's fields, which the drawing thread reads without a monitor, and
so is four steps (`SetSource`, `SetOnErrorListener`, `StartPlayback`, `SetReceive`), of which the
owner of `lock` does the last before it leaves the monitors. The drawing thread of view v goes
through `pc[v]`:

    new    --StartPlayback--> top --BeginRead--> read --DrawFrame or ReadFails--> top
    top    --DoPause, with mPause set--> error --CallOnError--> finish
    finish --StreamFinished--> clear, or
           --StreamFinished--> handover (view given to a waiting player) --SetReceive--> clear
    clear  --ClearListener--> nosignal --EnterWait--> wait --StartPlayback or WakeUp--> top

From "wait" it goes on when `startPlayback()` notifies it, or, `MaxWakeUps` times, for no reason
(`WakeUp`): `doPause()` has no loop around `wait()`. Then `mPause` may still be set and the listener
null, which `CallOnError` finds out. `StreamFinished` is `onError()` up to the removal from
the scheduler, and includes the hand-over: the next player's `setView()` then runs on this
drawing thread, with the lock. A player's receiver is only `mReceive`, `released` and the
handler table here: its inside is `RtpSubscriber`. `VideoPlayer.released` is left out, for all it
does is keep a second `release()` from calling one that returns at once. `crashed` records an
uncaught exception, after which the process is gone; the runs therefore switch deadlock
checking off. `wakeUps`, `early` and `evicted` are history variables: unnotified wake-ups, a
`setView()` about a view whose thread was still in `doPause()`, and players taken out of the
table alive.

**ViewPool.** Views have a holder, players wait in a queue, an arrival takes a free
view or queues, a departure frees its view or hands it to the head of the queue.

**VoiceReception.** `step[t]` is where thread t is in `VoicePlayer.release()` (the UI
thread, or the player itself), `ui` where the UI thread is in `setReceive()`; each monitor
is held for one step. `pc[p]` follows `playbackPCM()`: the blocking `take()`, the resync
that drains the whole queue, the termination mark, the interrupt flag. An event is a
number; `fins`, `freed` and `lost` say which are termination marks, which have had their
native buffer freed and which a full queue refused. An `AudioTrack` takes all it is given.

**CaptureRing.** `at` says where the recorder's thread and the main thread are: both can
be in `initPreview()`, which is not synchronised, only Main in `release()`. `run()` registers the
surface callback before it calls `initPreview()`, so nothing keeps `surfaceChanged()` from
coming in between; the history variable `raced` says whether `initPreview()` has been on
both threads at once. A buffer is in one of `cameraBuffers`, `encodeQueue` and `hand`; `pc[g]` follows
encoder g through its loop, `wait()` and `encodeFrame()`. The test of `released`, the test of the
queue and `poll()` are one step, and so is `encodeFrame()` with its sleep: only the encoder takes
from its queue, a frame queued in between is as if queued before, a `release()` in
between as if it came after, and the interrupt it sends is swallowed or kept by a choice in
`EncodeFrame`. `wait()` may also return unnotified (`WakeUp`), which is harmless here: the size of
the queue is tested again. The camera is external: one open at a time, a released one takes no
buffers.

**NetperfTest.** One action per step of `send_*()` at the client and of `recv_*()` at the
server, for TCP_STREAM, TCP_MAERTS, TCP_RR, TCP_CRR, TCP_CC, UDP_STREAM, UDP_RR and the CPU
calibration. `io[p]` is "call" from the test of the loop's condition to the return of the
call, so that an alarm may come in time to interrupt the call or just too early for that.
`AcceptAlarm` is the SIGALRM of `recv_tcp_maerts()`, which starts its timer before `accept()`
(`nettest_bsd.c:4776`) and clears `times_up` after it (4810): the alarm ends the server without a
response, or is forgotten. The history variable `early` remembers it.
`flow` are the units on their way, `side` the two ends of the data connection, `toServer` and
`toClient` the control connection; a response carries its iteration as a history value. The
timed loops are bounded by `MaxCount`. A counted UDP_STREAM is left out: the program says
"Sorry, UDP_STREAM tests must be timed." and goes on with a loop that has no end.

## 3. Runs

| run | instance | checks | result |
|---|---|---|---|
| `rtp_publisher` | 2 encoders, 3 frames of up to 3 bytes, packets of 2 bytes | `TypeOK`, `FragmentsTile`, `FramesWhole`, `EncoderOrdered` | holds, 1.02 million states |
| `rtp_publisher_fin` | 1 encoder, 1 frame | `FinIsLast` | violated |
| `rtp_subscriber` | 6 packets of 4 frames, 3 native buffers, queue of 2 | `TypeOK`, `BuffersAccounted`, `FragmentsCoherent`, `FramesCoherent`, `FramesInOrder`, `ReleasedIsQuiet`, refinement of `FrameStream` (`RefinesFrameStream`), `ReleaseStopsReader` | holds, 705 000 states |
| `rtp_subscriber_fin` | same | `FinReleases` | violated |
| `view_playback` | 4 streams, 2 views, 4 players, 1 unnotified wake-up, streams symmetric | `TypeOK`, `ViewsConserved`, `TableMatchesScheduler`, `LivePlayerHears`, `OffIsQuiet`, `RunningIsConfigured` | holds, 2.73 million states |
| `view_liveness` | 3 streams, 1 view, 3 players, 1 unnotified wake-up | `ReleasedPlayerLeaves`, `SwitchOffReturns`, refinement of `ViewPool` (`RefinesPool`) | holds, 99 900 states |
| `view_handover` | 2 streams, 1 view | `HandoverIsShown` | violated |
| `voice_reception` | 2 streams, 2 players, 3 events, queue of 2, resync above 1 | `TypeOK`, `BuffersAccounted`, `ListenerIsListed`, `EmptyAfterJoin`, `OffIsQuiet`, `SwitchOffReturns` | holds, 618 000 states |
| `voice_reception_fin` | 1 stream, 1 player | `MarkEndsPlayer` | violated |
| `capture_ring` | 2 previews of 2 buffers each | `TypeOK`, `FramesMeetTheirEncoder`, `RingConserved`, `OfferHasRoom`, `QueuedFrameIsTaken`, `ReleasedEncoderEnds` | holds, 627 000 states |
| `capture_release` | same | `OffClosesCamera` | violated |
| `netperf_test` | 8 tests, timed and counted, up to 3 iterations, one fault | `TypeOK`, `InStep`, `CountsAgree`, `AlarmsOff`, `NoFalseFailure`, `ClientEnds`, `ServerEnds` | holds, 83 600 states |

Each property of a passing run has a mutant: one definition replaced by a wrong
variant a slip in the code could produce, which makes TLC find the property violated.

### Bounds, and why they are enough

- `PayloadSize = 2`, frames up to 3 bytes: empty, shorter than a packet, exactly one
  packet, one packet and a tail, under every way of cutting `write()`. Three frames
  over two encoders: a frame after a frame on one encoder, and an encoder that is
  mid-frame while the other starts. Sequence numbers stay below `Short.MAX_VALUE` in
  the code for frames up to 45 MB, so their wrap-around is not modelled.
- Six packets: two frames of two fragments of different length (an incomplete, a
  complete, a swapped and a duplicated frame), and two more frames so that the queue
  of two is filled and overflows. Three native buffers: two collected fragments and
  one in the callback. The timestamps are one apart with a time-out of one, so frames
  both in time and too old occur. FIN at any point.
- Two views and four players: both views taken with two players waiting, a hand-over
  while the other view also ends, and a recycled view taken by a new player. Streams
  are interchangeable, hence the symmetry in the safety run. The liveness run has none, and one
  view: three players on it are one shown and two waiting, which is what a hand-over and the order
  of the queue need.
- One unnotified wake-up (`MaxWakeUps`): each of the places at which a drawing thread may be
  woken, with everything that can follow from it.
- Voice: three events fill the queue of two, overflow it, and let a mark come before,
  between or after sound; a resync happens from a queue of two on. Two players are one
  after another of one stream (a late `release()` of the first beside the second) or one
  of each of two streams (two to join).
- Capture: two previews are a first encoder and its replacement. Two buffers each suffice
  for one in the encoder's hand and one in the queue or the camera; the source has three,
  and the model is symmetric in them.
- netperf: a counted length of 5 is odd, so that a message of two units overshoots it; a
  window of 3 fills with a message in half; 6 units are enough for a timed transfer of
  three messages. Three iterations show a response of one meeting the wait of a later one.
  At most one fault per run: client or server killed, the server's host lost, a setup
  refused; each at any step.
- `MaxPlayers`, `MaxWakeUps`, `MaxEvents`, `MaxFrames`, `NumEncoders`, `MaxLength`, `MaxPreviews` and
  `MaxCount` bound the counters; they appear in the guards of `Dispatch`, `WakeUp`, `PublishedData`,
  `EncodeFrame`, `InitPreview`, `Write`, `SurfaceChanged` (`PreviewsLeft`) and `GoesOn`.

### Fairness

`RtpSubscriber!FairSpec` is weakly fair to `ReadMjpegFrame`: the view thread's poll has
a time-out, so it is always able to take its next step, and Android schedules runnable
threads. `ViewPlayback!Fairness` is weakly fair to each drawing thread (not to its unnotified
wake-ups), to the owner of the table's monitor, to a callback begun and to a
`setReceive(false)` in progress. It is strongly fair to `UnregisterControl`, which waits for the
control handlers' monitor: the event thread may take and leave that monitor again and again, but
only as long as events of the scope are left, and `unsubscribeScope()` has come first, so they
are finitely many, which is not in the model's state. Nothing is assumed of the network, the
peers or the user: no frame need arrive, nobody need press a button. `StreamFinished` waits for a monitor, and weak
fairness suffices there because the monitor is only held by steps that are themselves
fair and between which no one else need act; the run shows it. With the order of the monitors
changed, the block on `mStreamMap` begun before the classifier is called (`UnsubscribeInTable`),
TLC finds the UI thread and the event thread waiting for each other.

`VoiceReception!FairSpec` is weakly fair to each player thread (a blocked `take()` is not
enabled) and to a `setReceive(false)` in progress; `CaptureRing!FairSpec` to the recorder's
thread, to Main within a callback or `release()`, and to each encoder. No packet, picture or
button is promised. `NetperfTest!LiveSpec` is weakly fair to each process's steps and to
timers running out; it promises no error to who waits for a datagram, or for data of a lost
host to which nothing is left to resend (`LostUnnoticed`). Time enters as order only: a timer of
the test's length may end at any moment of the transfer and of `recv_tcp_maerts()`'s `accept()`,
one with `PAD_TIME` added only when nothing else can happen in the transfer or the peer's timer was
forgotten (`Untimed`), and the control connection's 120 and 60 s only if the host is lost.

### What the violated properties show

1. **`HandoverIsShown`** (`FCFSViewScheduler:16`: a waiting player "will be allocated a
   view as long as there is any becomes available"). `MjpegView.doPause()` runs
   `onError()`, which gives this very view to the waiting player and calls
   `startPlayback()`: `mPause` is cleared and nobody is waiting yet. Then `doPause()`
   clears the new player's listener and calls `wait()`. Nothing notifies it any more.
2. **`FinReleases`** (`BARtpSubscriber:83`). The test of `mReceive` precedes the test
   for FIN: the end of a stream whose player waits for a view is missed.
3. **`FinIsLast`** (`BAPacketPublisher:89`, "termination mark"). `release()` does not
   close the gate and does not wait for the encoder.
4. **`MarkEndsPlayer`** (`VoicePlayer:106`, "FIN_PKT received: terminating player"). The resync
   (lines 95-98) drains the whole queue, the mark with it; the player blocks in `take()`, and
   nothing more comes from a peer that has stopped.
5. **`OffClosesCamera`** (`VideoRecorder:163`, "Video recorder released!"; `VideoProxy:141`). `run()`
   sets `released = false` and `initPreview()` never looks at it: a `release()` before or during
   the start is lost, and the camera stays open after `setSend(false)`.

Five more things the code does are visible in passing runs, each as an exception that a property
names:

- `MjpegView.startPlayback()` can throw "Source or OnErrorListener not set" in the event thread when
  `newData()` takes the recycled view between `onError()` and `mOnErrorListener = null` (`crashed =
  "start"` in `ViewPlayback`). Every property excuses what would come after.
- When `wait()` in `doPause()` returns unnotified, as Java allows, `doPause()` runs again: it calls
  `onError()` on null (`crashed = "null"`), or, if `setView()` has set a listener but not yet cleared
  `mPause`, it takes a live player out of the table, whose subscriber stays registered (`evicted`).
  `RunningIsConfigured` says which of its parts hold in any case and which only until then
  (`Notified`).
- `initPreview()` on two threads at once: the second `Camera.open()` throws, one encoder is
  started twice, or the frames of one camera reach the other's encoder. `FramesMeetTheirEncoder`, `RingConserved` and `OfferHasRoom` hold
  until then.
- The counted TCP_CRR of netperf fails: the loop in which the server reads the request has
  `!times_up` for a condition, which is false from the start in a counted test (`nettest_bsd.c:8921`),
  so it answers and closes with the request unread, and the reset reaches netperf in its last
  `recv()`.
- A TCP_MAERTS fails when the server's timer runs out before it has sent anything: in
  `accept()`, of a netperf that was held up or whose SYN had to be sent again, or just after it, when
  the alarm is forgotten and the server sends for ever. `NoFalseFailure` names this (`early`) and
  the counted TCP_CRR, beside an untimed TCP_MAERTS, which netperf itself refuses.

`ClientEnds` and `ServerEnds` name the hangs: `send_tcp_rr()` calling `recv()` for ever on a closed
connection, the last `recv()` of `send_tcp_stream()`, a counted UDP_RR, and `accept()` without a
timer.

## 4. Proofs

Every invariant a passing run checks, both refinements and the one action property are
theorems, for every value of the constants that the module's named assumption admits. Each
proof has the same shape: an inductive invariant, one lemma for an action or a group of
actions, and a last temporal step. TLC found each inductive invariant to hold on the run's
instance before it was proved.

`ViewPool_proof` proves `PoolCorrect`: for any sets of players and views (with `None`
not a player) the pool's typing, exclusiveness and work conservation, by induction over
the two actions. It is about the abstract specification; `SchedulerImplementsPool` below
carries it to the program's scheduler.

`RtpPublisher_proof` proves, from `PublisherAssumption` only (any packet size above 0, any number
of encoders above 0, any bounds on frames and their length), every property of the run:
`PublisherTypeOK` (`TypeOK`), `PublisherTiles` (`FragmentsTile`), `PublisherWhole` (`FramesWhole`)
and the action property `PublisherOrdered` (`EncoderOrdered`).

`IInv` is `TypeOK`, the bound on the clock, `Unstarted` (an encoder `initPreview()` has not made
yet has no thread, so starting it finds it untouched) and `EncoderInv(e)` for each encoder:

- `Placed`: the header in the buffer is the current frame's, the buffer is empty between frames;
- `Buffered`: inside a frame its length is `seq * PayloadSize` plus what is in the buffer, and
  the buffer is the slice of number `seq`;
- `SentSoFar` and `NoneSkipped`: the packets of the current frame sent so far are exactly those
  of a number below `seq`;
- `Tiles` and `Whole`: the two properties for one encoder.

`FragmentsTile` alone is not inductive: a frame grows after its first packets were sent, and
their slices stay what they were only because `SentSoFar` puts them wholly inside what was
written then. `FramesWhole` needs `NoneSkipped` for the full packets and `Buffered` to know that
`forceSend()` finds a tail exactly if there is one. Bytes are handled as runs
(`Run(e, g, b, k)`), with one lemma on joining two and two on the slices that are runs. A step of
one encoder leaves the others' invariant alone (`OthersKeep`), since packets carry their encoder.
TLC finds `IInv` to hold on the run's instance, and with frames of up to 5 bytes.

`RtpSubscriber_proof` proves, from `SubscriberAssumption` only (any packets with natural
fields, any set of events, any queue size above 0, any time-out):

- `TypeCorrect`: `TypeOK`, in particular the bound of `dataQueue`;
- `BuffersSafe`: `BuffersAccounted`, the native buffers' life cycle;
- `ReleaseSafe`: `ReleasedIsQuiet`;
- `OrderSafe`: `FramesInOrder`, whatever the network duplicates, loses or reorders.

The inductive invariant is `IInv == TypeOK /\ EventsKnown /\ ReleaseProtocol /\
BuffersAccounted`. `TypeOK` alone is not inductive: a frame is a sequence of packets only
because no fragment's buffer has been freed, which `EventsKnown` records (what the
callback knows of its buffer at each step, and that every collected event still holds a
packet). `BuffersAccounted` needs that no release frees the list under a callback that
uses it. `ReleaseProtocol` gives that: a thread past the unregistration has
`registered = FALSE`, and then the callback is idle or is itself the releasing one;
between setting the flags and unregistering, some thread is at "unregister"; whatever
fragment or frame is left after unregistration has a releasing thread still to remove
it. One lemma per group of actions shows each conjunct preserved.

`OrderSafe` adds `OrderInv`, which takes `FramesInOrder` apart (order within what was
shown, within the queue, between the two and the polled frame) and strengthens it: a
granule that has become a frame is behind `curGranule`, or equal to it only until
`publishedData()` moves on, and the packet that made it move on is of a later granule.
It is inductive relative to `IInv`, which it needs for the buffer of the packet being
handled to survive the freeing of the fragments (`BuffersAccounted`) and for a concurrent
release not to run between the callback's steps (`ReleaseProtocol`). `OrderedPipeline`
puts the pieces together again.

`VoiceReception_proof` proves, from `VoiceAssumption` only (any streams, any number of players
and packets, any queue size above 0 and any threshold), all the safety invariants of the run:

- `TypeCorrect` (`TypeOK`), `BuffersSafe` (`BuffersAccounted`), `ListenerSafe`
  (`ListenerIsListed`), `EmptyAfterJoinSafe` (`EmptyAfterJoin`) and `OffSafe` (`OffIsQuiet`).

All follow from `Invariance == Spec => []IInv`, with `IInv == TypeOK /\ BuffersAccounted /\
Protocol`. `Protocol` is what the threads know of each other in `release()` and `setReceive()`:

- `UIPlace`: the control handler, the wake lock, the list of players and the UI thread's own
  `release()` fit the place it is at in `setReceive()`;
- `PlayerPlace`: a thread holds an event only while it handles one, is in its own `release()`
  only where the loop has ended, and a player not yet made has no state;
- `TablesName`: the tables name players that exist, under their own stream, and handlers
  only receivers that are not released;
- `ReceiverReleased`: past its unregistration a `release()` has marked the receiver, and what
  is then still queued has a thread about to drain it;
- `TableWanted`: nobody takes the place in the table of a player that `setReceive(false)` is
  after, and then the table holds nobody else;
- `EntryLeaves`: a player in the table is untouched by any `release()`, or one is bound to
  take it out;
- `LivingIsListed`: a player that is not over is in the table, or the UI thread waits for it;
- `ListenerIsListed` itself, without which a late `release()` could take the entry of a newer
  player of the same stream.

None is inductive alone: that the join leaves the table empty needs that no player is created
once the control handler is gone, that the list held all of the table, and that a released
player always gets as far as `streamFinished()`. One lemma per group of actions shows each
conjunct preserved.

`RtpFrames_proof` continues `RtpSubscriber_proof`, from the same assumption:

- `FragmentsSafe` (`FragmentsCoherent`): the fragments collected are of one granule, ascending,
  and `curRtpDataLen` is the sum of their lengths;
- `FramesSafe` (`FramesCoherent`): so is every frame queued or polled, with its length and the
  timestamp of its first fragment;
- `SubscriberImplementsStream`: `Spec => RefinesFrameStream`, each step of the subscriber and
  its reader being a step of `FrameStream` or a stutter.

A sum over a sequence is defined by recursion, and the library's induction theorems take an
operator as parameter, which the provers cannot instantiate. The induction is therefore done
over a set: the numbers for which a sum is right contain 0 and the successor of each member
(`SetInduction`, from well-foundedness of `<`). `TotalLenSums` and `SumsAgree` say that
`TotalLen` exists, is unique and grows by the length of what is appended. `FragInv` is inductive
relative to `IInv` and `OrderInv`: a fragment is only appended behind those of its own granule
and below its number because the callback's tests and the append are one monitor's work
(`ReleaseProtocol` again), and its packet is still what it was because its buffer has not
been freed.

`ViewPlayback_proof` proves, from `PlaybackAssumption` only (any streams, any number of views
and players), all the safety invariants of the run and the refinement:

- `TypeCorrect` (`TypeOK`), `NoViewLost` (`ViewsConserved`), `TableInStep`
  (`TableMatchesScheduler`), `NoLivePlayerIsDeaf` (`LivePlayerHears`), `DrawingIsConfigured`
  (`RunningIsConfigured`), `SwitchedOffIsQuiet` (`OffIsQuiet`);
- `SchedulerImplementsPool`: `Spec => RefinesPool`; `newData()` is an arrival,
  `streamFinished()` a departure, everything else leaves the allocation alone.

`IInv` is these properties with `TablesName` (tables name existing players under their own
stream), `SwitchPlace` and `EventPlace` (where `setReceive()` and the event thread are, which
monitors the latter holds, whom they are after), `NoneForgotten` (a player neither released nor
evicted is in the table, and on the list of a `setReceive(false)` in progress),
`LiveIsRegistered` and `ReleasedIsDeaf`, `ListenersHold` (a listener holds its view until its
`onError()` has passed it on) and `JobPlace` (which steps of `setView()` are done, under whose
monitor). All these hold whatever `wait()` does, and carry the table, the scheduler, the
classifier and the refinement. Two more hold as long as `Notified`: `Stopped` (a free view has
no running thread, and a thread stops only for a released player) and `JobUndisturbed` (a
`setView()` finds the fields as it has set them, unless the thread was still in `doPause()`).
`RunningIsConfigured` needs both: that a thread reads only the player that holds its view is
because nothing starts it before `setView()` is through, and that is what an unnotified
wake-up breaks.
`OffIsQuiet` alone is not inductive: that nobody is left at the end needs `NoneForgotten` all the
way through; nor is `ViewsConserved`: that a hand-over gives a view to a player that has none
needs the table and the scheduler to agree. `HolderOf` in the refinement needs one view
for each player and one player for each view, which `OneViewEach` states.

`CaptureRing_proof` proves, from `CaptureAssumption`:

- `TypeCorrect` (`TypeOK`);
- `FramesMeet` (`FramesMeetTheirEncoder`), `NoBufferLost` (`RingConserved`) and `QueueHasRoom`
  (`OfferHasRoom`), for any number of buffers, previews and encoders.

No surface change is assumed away: each of the last three says what holds until `initPreview()`
has been on both threads at once, and so does the inductive invariant, `IInv == TypeInv /\ raced \in
BOOLEAN /\ (~raced => RingInv)`. `TypeInv` adds to the types that each camera opened is for one encoder
yet to be made (`Counted`), that an encoder exists where one is used (`HasEncoder`) and that an
encoder holds a frame just while it encodes one (`Filled`); it holds with both threads in
`initPreview()`. `RingInv` is the protocol between the two threads: `TurnsTaken` (at most one is in
`initPreview()`, and no camera previews meanwhile), `OneCamera`, `CamerasFresh`, `PreviewPlace` (how far it has come),
`PreviewsOwn`, `RingOf(g)` (the buffers of encoder g are in its queue, its hand or its camera,
none twice) and `NoneMissing`. `RingConserved` and `OfferHasRoom` count buffers;
`DistinctCount` and the library's theorems on cardinality connect the two.

`NetperfTest_proof` proves, from `NetperfAssumption` only (any set of tests, any lengths, number
of iterations, window and faults), all the safety invariants of the run:

- `TypeCorrect` (`TypeOK`), `RequestsInStep` (`InStep`), `FiguresAgree` (`CountsAgree`),
  `TimersStop` (`AlarmsOff`) and `FailuresHaveReasons` (`NoFalseFailure`).

`IInv` has six parts. `TypeInv` is the types, with one bound on each counter. `Control` says
what may be on the control connection at each place of the two processes: nothing between
iterations, a request only before anything was transferred, one response of the awaited kind
(`Between`, `Asked`, `Untouched`, `Connects`, `OneAnswer`, `Ways`). `Reasons` and
`NoFalseFailure` say why a process has ended. `Timers` says who has a timer running in which
loop, and ties `times_up` to the counters of counted and timed loops. `Books` is the invariant
of each test: what was counted at one end, what is on its way and what was counted at the
other (`StreamBooks`, `MaertsBooks`, `UdpBooks`, `Rr...`, `Conn...`). None holds alone. That
a SIGALRM does not fail the control connection needs to know in which loops a timer runs; that
a timeout of netserver is no false alarm needs the books, for a server only times out when the
client has stopped or both ends wait for a datagram that was lost; and the figures agree
because the response carries the server's count, which the books relate to the client's.
`Excused` and `MaertsBooks` carry `early`: without it a server in its loop has its timer running or
`times_up` set, so the client's padded timer never has to end the transfer; with it that
run's failure is excused, while its books go on to be kept. `FiguresAgree` adds that nothing else brings netperf to the end of an iteration with a figure.
Ends of processes and data steps have lemmas of their own (`ClientGone`, `ServerGone`,
`Calls`, `Leaves`, `Answers`); the per-test lemmas then only keep that test's books.

`TotalLen` is a recursive function and not a fold, because the provers can reason about the
former.

Only model-checked: liveness (`ReleaseStopsReader`, `ReleasedPlayerLeaves`, the two
`SwitchOffReturns`, `QueuedFrameIsTaken`, `ReleasedEncoderEnds`, `ClientEnds`, `ServerEnds`), which is out
of the prover's reach, as is ENABLED.

## 5. Not modelled, and why

JPEG coding, drawing, layout, logging and the encoding of ids and headers (fixed-width
fields at fixed offsets). Java's memory model for plain fields: each read or write is
atomic and immediately visible, except that checks and the updates that follow them are
separate steps. So a torn read of the `long` timestamp and a plain
`released` flag seen late are outside these models, and `PROJECT.json` lists neither. Unnotified returns of
`Object.wait()` are in them, in `ViewPlayback` and `CaptureRing`.

- Vendored code: libjpeg and speex (signal processing), the netperf families whose source is
  compiled to nothing here (SCTP, XTI, DLPI, SDP, Unix: their `WANT_` macros are not set), and of
  the built part of netperf netserver's accept loop, socket options, CPU measurement and
  output, and `recv_udp_stream()` with `local_connected` set (`nettest_bsd.c:6477-6509`, off by
  default: a first `recvfrom()` that counts whatever it returns, then `connect()`). This is most of the repository's lines; little of it has state that the
  program's own logic depends on.
- The `pubsub` tools: loops of one library call.
- `VoiceRecorder`: `read()` and `send()` in a loop in front of the gate that `RtpPublisher` models.
  What is left is whether `join(500)` is long enough, a matter of real time.
- `MjpegView`'s surface callbacks and `stopPlayback()`: the view is destroyed with the activity.
- `VoiceProxy.setSend()` and the proxies' `release()`: each calls the modelled setters in order.
- Classes without a caller: socket adapters, `BARtpPublisher`, `MjpegInputStream`,
  `MjpegOutputStream`.

## 6. Plan

In order of importance:

1. **RtpChannel**: `RtpPublisher`, a lossy, duplicating and reordering network and
   `RtpSubscriber`, refining `FrameStream` end to end.
2. **ProxyControl**: `setSend`/`setReceive`/`release` of both proxies, the wake lock, and
   `VoiceRecorder` as a second client of the publisher.
3. **ViewSurface**: `MjpegView` with `stopPlayback()` and surface callbacks, and the re-enabled
   stream of a player that never had a view.
4. netserver's accept loop with its children.
5. Pure algorithms: `MjpegInputStream`'s marker scan and `BARtpPublisher`'s split.

Proofs, in order: what the refinements carry over (`PoolCorrect` for the scheduler's own queues,
frames shown at most once from `FrameStream` alone); the state invariants that the liveness
arguments rest on (no step of a release is waited for by its own thread); the new modules'
invariants as they are written.

---------------------------- MODULE ViewPlayback ----------------------------
(*****************************************************************************)
(* Showing incoming video streams on a few screen views: VideoProxy's        *)
(* stream table, FCFSViewScheduler, VideoPlayer, and the MjpegView drawing   *)
(* threads, down to the classifier's handler tables.                         *)
(*                                                                           *)
(* Threads:                                                                  *)
(*   - the native event thread runs newData() for the first packet of an     *)
(*     unregistered stream and delivers the FIN of a registered one;         *)
(*   - one drawing thread per view;                                          *)
(*   - the UI thread runs setReceive(true) and setReceive(false).            *)
(* Monitors, each a variable that names its owner: the classifier's over its *)
(* control handlers (`controlLock`, held by the event thread throughout      *)
(* newData()) and over its data handlers (`dataLock`, held throughout        *)
(* publishedData()), and mStreamMap's (`lock`), which newData() takes inside *)
(* the first.  The scheduler's own is only ever taken inside mStreamMap's,   *)
(* and the UI thread alone takes the proxy's.  What the owner of `lock` does *)
(* to the table and the scheduler is one step, for nobody can look in        *)
(* between; handing a view to a player is several, for MjpegView's fields    *)
(* are shared with the drawing thread.                                       *)
(*                                                                           *)
(* doPause() calls wait() outside a loop, so the drawing thread may also go  *)
(* on without a notification (WakeUp).                                       *)
(*                                                                           *)
(* A player is one VideoPlayer with its BARtpSubscriber (see RtpSubscriber   *)
(* for the inside of the latter).  VideoPlayer.released is left out: it      *)
(* only keeps the UI thread from calling a release() that would return at    *)
(* once.  Surfaces stay alive: stopPlayback() is not modelled.               *)
(*****************************************************************************)
EXTENDS Naturals, Sequences, FiniteSets

CONSTANTS
  Streams,       (* the rids of the peers' streams                         *)
  NumViews,      (* how many MjpegViews there are; a view is its view id   *)
  MaxPlayers,    (* bound: VideoPlayers ever created                       *)
  MaxWakeUps,    (* bound: unnotified returns of wait()                    *)
  None           (* null                                                   *)

Views   == 1..NumViews
Players == 1..MaxPlayers

ASSUME PlaybackAssumption ==
  /\ NumViews \in Nat
  /\ MaxPlayers \in Nat
  /\ MaxWakeUps \in Nat
  /\ None \notin Players \cup Views \cup Streams

VARIABLES
  control,       (* is the scope's newData() handler registered            *)
  handler,       (* handler[s]: the player whose subscriber is registered  *)
  created,       (* players made so far                                    *)
  rid,           (* rid[p]: the stream of player p                         *)
  rcvReleased,   (* rcvReleased[p]: BARtpSubscriber.released               *)
  mReceive,      (* mReceive[p]: BARtpSubscriber.mReceive                  *)
  streamMap,     (* mStreamMap                                             *)
  lock,          (* owner of its monitor: "none", "cb" or "view"           *)
  controlLock, dataLock,  (* owners of the classifier's two monitors       *)
  event,         (* the stream of the event the event thread handles       *)
  allPlayer,     (* FCFSViewScheduler.mAllPlayer                           *)
  waitQueue,     (* FCFSViewScheduler.mPlayerWaitQueue                     *)
  viewQueue,     (* FCFSViewScheduler.mViewQueue, polled by least view id  *)
  mView,         (* mView[p]: the view of VideoPlayer p                    *)
  job,           (* the lock owner's setView() under way                   *)
  mIn, mOnErrorListener, mPause,  (* the fields of each MjpegView          *)
  pc,            (* pc[v]: where view v's drawing thread is                *)
  current,       (* current[v]: the player it reads from, or whose         *)
                 (* onError() it has called                                *)
  ui,            (* where the UI thread is in setReceive()                 *)
  playerList,    (* the players setReceive(false) has still to release     *)
  releasing,     (* the player it is releasing                             *)
  crashed,       (* an uncaught exception has ended the process            *)
  (* History variables.                                                    *)
  wakeUps,       (* how many wait()s have returned without a notification  *)
  early,         (* is the setView() under way about a view whose thread   *)
                 (* was still in doPause() when it was given away          *)
  evicted        (* players taken out of the table without being released  *)

proxy     == <<control, streamMap>>
receivers == <<handler, rcvReleased, mReceive>>
scheduler == <<allPlayer, waitQueue, viewQueue, mView>>
fields    == <<mIn, mOnErrorListener, mPause>>
drawing   == <<pc, current>>
dispatch  == <<controlLock, dataLock, event>>
uiVars    == <<ui, playerList, releasing>>
history   == <<wakeUps, early, evicted>>
vars == <<proxy, receivers, created, rid, lock, dispatch, scheduler, job, fields,
          drawing, uiVars, crashed, history>>

NoJob == [step |-> "none", player |-> None, view |-> None]

Init ==
  /\ control = FALSE
  /\ handler = [s \in Streams |-> None]
  /\ created = 0 /\ rid = [p \in Players |-> None]
  /\ rcvReleased = [p \in Players |-> FALSE]
  /\ mReceive = [p \in Players |-> FALSE]
  /\ streamMap = [s \in Streams |-> None]
  /\ lock = "none" /\ controlLock = "none" /\ dataLock = "none" /\ event = None
  /\ allPlayer = {} /\ waitQueue = <<>> /\ viewQueue = Views
  /\ mView = [p \in Players |-> None]
  /\ job = NoJob
  /\ mIn = [v \in Views |-> None]
  /\ mOnErrorListener = [v \in Views |-> None]
  /\ mPause = [v \in Views |-> FALSE]
  /\ pc = [v \in Views |-> "new"]
  /\ current = [v \in Views |-> None]
  /\ ui = "off" /\ playerList = {} /\ releasing = None
  /\ crashed = "no"
  /\ wakeUps = 0 /\ early = FALSE /\ evicted = {}

\* A monitor is free, or already this thread's: monitors are re-entrant.
CanEnter(monitor, thread) == monitor \in {"none", thread}

Least(S) == CHOOSE v \in S : \A w \in S : v <= w

\* The end of newData(): the classifier's monitor is left.
LeaveNewData == controlLock' = "none" /\ event' = None /\ UNCHANGED dataLock

-----------------------------------------------------------------------------
(* setView(view) with a view, by the owner of the lock.                    *)

StartJob(owner, p, v) ==
  /\ lock' = owner
  /\ job' = [step |-> "source", player |-> p, view |-> v]
  /\ early' = (pc[v] = "clear")

SetSource ==
  /\ job.step = "source"
  /\ mIn' = [mIn EXCEPT ![job.view] = job.player]
  /\ job' = [job EXCEPT !.step = "listener"]
  /\ UNCHANGED <<proxy, receivers, created, rid, lock, dispatch, scheduler,
                 mOnErrorListener, mPause, drawing, uiVars, crashed, history>>

SetOnErrorListener ==
  /\ job.step = "listener"
  /\ mOnErrorListener' = [mOnErrorListener EXCEPT ![job.view] = job.player]
  /\ job' = [job EXCEPT !.step = "start"]
  /\ UNCHANGED <<proxy, receivers, created, rid, lock, dispatch, scheduler, mIn,
                 mPause, drawing, uiVars, crashed, history>>

\* startPlayback(): starts a new drawing thread, or clears mPause and wakes
\* the thread if it is waiting.
StartPlayback ==
  /\ job.step = "start"
  /\ LET v == job.view
     IN IF mIn[v] = None \/ mOnErrorListener[v] = None
        THEN /\ crashed' = "start"
             /\ UNCHANGED <<job, mPause, pc>>
        ELSE /\ job' = [job EXCEPT !.step = "receive"]
             /\ mPause' = [mPause EXCEPT ![v] = FALSE]
             /\ pc' = [pc EXCEPT ![v] = IF @ = "new" \/ (@ = "wait" /\ mPause[v])
                                        THEN "top" ELSE @]
             /\ UNCHANGED crashed
  /\ UNCHANGED <<proxy, receivers, created, rid, lock, dispatch, scheduler, mIn,
                 mOnErrorListener, current, uiVars, history>>

\* setReceive(true), which throws (and is only logged) once released; then
\* the monitors are left: mStreamMap's, and the classifier's by newData().
SetReceive ==
  /\ job.step = "receive"
  /\ mReceive' = [mReceive EXCEPT ![job.player] = IF rcvReleased[job.player] THEN @ ELSE TRUE]
  /\ pc' = [v \in Views |-> IF pc[v] = "handover" THEN "clear" ELSE pc[v]]
  /\ job' = NoJob
  /\ lock' = "none" /\ early' = FALSE
  /\ IF lock = "cb" THEN LeaveNewData ELSE UNCHANGED dispatch
  /\ UNCHANGED <<proxy, handler, rcvReleased, created, rid, scheduler, fields,
                 current, uiVars, crashed, wakeUps, evicted>>

SetView == SetSource \/ SetOnErrorListener \/ StartPlayback \/ SetReceive

-----------------------------------------------------------------------------
(* The event thread.                                                       *)

\* A data packet of stream s no handler is registered for: the classifier
\* calls newData() under the control handlers' monitor.
Dispatch(s) ==
  /\ event = None
  /\ created < MaxPlayers
  /\ control /\ handler[s] = None
  /\ CanEnter(dataLock, "cb") /\ CanEnter(controlLock, "cb")
  /\ controlLock' = "cb"
  /\ event' = s
  /\ UNCHANGED <<proxy, receivers, created, rid, lock, dataLock, scheduler, job,
                 fields, drawing, uiVars, crashed, history>>

\* addStream(player)
AddStream(p) ==
  /\ allPlayer' = allPlayer \cup {p}
  /\ IF viewQueue # {}
     THEN LET v == Least(viewQueue)
          IN /\ viewQueue' = viewQueue \ {v}
             /\ mView' = [mView EXCEPT ![p] = v]
             /\ StartJob("cb", p, v)
             /\ UNCHANGED <<waitQueue, dispatch>>
     ELSE /\ waitQueue' = Append(waitQueue, p)
          /\ LeaveNewData
          /\ UNCHANGED <<viewQueue, mView, lock, job, early>>

\* newData() inside mStreamMap's monitor, for a stream that is in the table ...
KnownStream ==
  /\ controlLock = "cb" /\ lock = "none"
  /\ streamMap[event] # None
  /\ LeaveNewData
  /\ UNCHANGED <<proxy, receivers, created, rid, lock, scheduler, job, fields,
                 drawing, uiVars, crashed, history>>

\* ... and for a new one: initStream(), whose constructor of BARtpSubscriber
\* registers the data handler under the third monitor.
NewData(s) ==
  /\ controlLock = "cb" /\ event = s
  /\ lock = "none" /\ CanEnter(dataLock, "cb")
  /\ streamMap[s] = None
  /\ LET p == created + 1
     IN /\ created' = p
        /\ rid' = [rid EXCEPT ![p] = s]
        /\ handler' = [handler EXCEPT ![s] = p]
        /\ streamMap' = [streamMap EXCEPT ![s] = p]
        /\ AddStream(p)
  /\ UNCHANGED <<control, rcvReleased, mReceive, fields, drawing, uiVars, crashed,
                 wakeUps, evicted>>

\* publishedData() with a FIN, under the data handlers' monitor:
\* BARtpSubscriber.release() if it is receiving (otherwise the FIN is dropped)
\* sets the flags ...
FinArrives(s) ==
  /\ event = None /\ CanEnter(dataLock, "cb")
  /\ handler[s] # None
  /\ mReceive[handler[s]]
  /\ rcvReleased' = [rcvReleased EXCEPT ![handler[s]] = TRUE]
  /\ mReceive' = [mReceive EXCEPT ![handler[s]] = FALSE]
  /\ dataLock' = "cb" /\ event' = s
  /\ UNCHANGED <<proxy, handler, created, rid, lock, controlLock, scheduler, job,
                 fields, drawing, uiVars, crashed, history>>

\* ... and unregisters the handler of its rid.
FinUnregisters ==
  /\ dataLock = "cb"
  /\ handler' = [handler EXCEPT ![event] = None]
  /\ dataLock' = "none" /\ event' = None
  /\ UNCHANGED <<proxy, rcvReleased, mReceive, created, rid, lock, controlLock,
                 scheduler, job, fields, drawing, uiVars, crashed, history>>

-----------------------------------------------------------------------------
(* The drawing thread of view v: MjpegViewThread.run().                    *)

\* What a step of a drawing thread outside onError() leaves alone.
Elsewhere == <<proxy, receivers, created, rid, lock, dispatch, scheduler, job,
               uiVars, early, evicted>>

\* Top of the loop, not paused: mIn.readMjpegFrame() begins.
BeginRead(v) ==
  /\ pc[v] = "top" /\ ~mPause[v]
  /\ IF mIn[v] = None
     THEN crashed' = "null" /\ UNCHANGED drawing
     ELSE /\ current' = [current EXCEPT ![v] = mIn[v]]
          /\ pc' = [pc EXCEPT ![v] = "read"]
          /\ UNCHANGED crashed
  /\ UNCHANGED <<Elsewhere, fields, wakeUps>>

\* A frame came and was drawn.
DrawFrame(v) ==
  /\ pc[v] = "read"
  /\ mReceive[current[v]]
  /\ pc' = [pc EXCEPT ![v] = "top"]
  /\ current' = [current EXCEPT ![v] = None]
  /\ UNCHANGED <<Elsewhere, fields, crashed, wakeUps>>

\* Mutation of PausePlayback: the failed read is only logged.
KeepPlaying(v) == UNCHANGED mPause

PausePlayback(v) == mPause' = [mPause EXCEPT ![v] = TRUE]

\* The subscriber is released: IOException, caught by pausePlayback().
ReadFails(v) ==
  /\ pc[v] = "read"
  /\ rcvReleased[current[v]]
  /\ PausePlayback(v)
  /\ pc' = [pc EXCEPT ![v] = "top"]
  /\ current' = [current EXCEPT ![v] = None]
  /\ UNCHANGED <<Elsewhere, mIn, mOnErrorListener, crashed, wakeUps>>

\* Mutation of DoPause: the listener is cleared together with the source.
DoPauseClearsBoth(v) ==
  /\ pc[v] = "top" /\ mPause[v]
  /\ mIn' = [mIn EXCEPT ![v] = None]
  /\ mOnErrorListener' = [mOnErrorListener EXCEPT ![v] = None]
  /\ pc' = [pc EXCEPT ![v] = "error"]
  /\ UNCHANGED <<Elsewhere, mPause, current, crashed, wakeUps>>

\* doPause(): mIn = null, ...
DoPause(v) ==
  /\ pc[v] = "top" /\ mPause[v]
  /\ mIn' = [mIn EXCEPT ![v] = None]
  /\ pc' = [pc EXCEPT ![v] = "error"]
  /\ UNCHANGED <<Elsewhere, mOnErrorListener, mPause, current, crashed, wakeUps>>

\* ... mOnErrorListener.onError(), which ...
CallOnError(v) ==
  /\ pc[v] = "error"
  /\ IF mOnErrorListener[v] = None
     THEN crashed' = "null" /\ UNCHANGED drawing
     ELSE /\ current' = [current EXCEPT ![v] = mOnErrorListener[v]]
          /\ pc' = [pc EXCEPT ![v] = "finish"]
          /\ UNCHANGED crashed
  /\ UNCHANGED <<Elsewhere, fields, wakeUps>>

\* Mutation of Recycled: the old view is dropped instead of queued.
RecycledNot(p) == viewQueue

\* mViewQueue with the view p had offered back.
Recycled(p) == viewQueue \cup ({mView[p]} \ {None})

\* Mutation of NextWaiting: last come, first served.
LastWaiting == waitQueue[Len(waitQueue)]

NextWaiting == Head(waitQueue)

\* removeStream(p) by the thread of view v: p's view goes back to the queue
\* and, if a player is waiting, from there to the first one.
RemoveStream(v, p) ==
  LET freed == Recycled(p)
  IN /\ allPlayer' = allPlayer \ {p}
     /\ evicted' = IF rcvReleased[p] THEN evicted ELSE evicted \cup {p}
     /\ mReceive' = [mReceive EXCEPT ![p] = IF mView[p] # None /\ ~rcvReleased[p] THEN FALSE ELSE @]
     /\ IF waitQueue # <<>> /\ freed # {}
        THEN /\ waitQueue' = Tail(waitQueue)
             /\ viewQueue' = freed \ {Least(freed)}
             /\ mView' = [mView EXCEPT ![p] = None, ![NextWaiting] = Least(freed)]
             /\ StartJob("view", NextWaiting, Least(freed))
             /\ pc' = [pc EXCEPT ![v] = "handover"]
        ELSE /\ viewQueue' = freed
             /\ mView' = [mView EXCEPT ![p] = None]
             /\ pc' = [pc EXCEPT ![v] = "clear"]
             /\ UNCHANGED <<waitQueue, lock, job, early>>

\* Mutation of Forget: the stream stays in the table.
ForgetNot(s) == UNCHANGED streamMap

Forget(s) == streamMap' = [streamMap EXCEPT ![s] = None]

\* ... is streamFinished() with the rid of the player it was called on.
StreamFinished(v) ==
  /\ pc[v] = "finish"
  /\ lock = "none"
  /\ current' = [current EXCEPT ![v] = None]
  /\ LET s == rid[current[v]]
     IN IF streamMap[s] = None
        THEN /\ pc' = [pc EXCEPT ![v] = "clear"]
             /\ UNCHANGED <<streamMap, lock, scheduler, mReceive, job, early, evicted>>
        ELSE /\ Forget(s)
             /\ RemoveStream(v, streamMap[s])
  /\ UNCHANGED <<control, handler, rcvReleased, created, rid, dispatch, fields,
                 uiVars, crashed, wakeUps>>

\* Back in doPause(): mOnErrorListener = null ...
ClearListener(v) ==
  /\ pc[v] = "clear"
  /\ mOnErrorListener' = [mOnErrorListener EXCEPT ![v] = None]
  /\ pc' = [pc EXCEPT ![v] = "nosignal"]
  /\ UNCHANGED <<Elsewhere, mIn, mPause, current, crashed, wakeUps>>

\* ... and pauseWait.wait(), until startPlayback() notifies ...
EnterWait(v) ==
  /\ pc[v] = "nosignal"
  /\ pc' = [pc EXCEPT ![v] = "wait"]
  /\ UNCHANGED <<Elsewhere, fields, current, crashed, wakeUps>>

\* ... or wait() returns without a notification: there is no loop around it.
WakeUp(v) ==
  /\ pc[v] = "wait" /\ wakeUps < MaxWakeUps
  /\ pc' = [pc EXCEPT ![v] = "top"]
  /\ wakeUps' = wakeUps + 1
  /\ UNCHANGED <<Elsewhere, fields, current, crashed>>

Draw(v) ==
  \/ BeginRead(v) \/ DrawFrame(v) \/ ReadFails(v)
  \/ DoPause(v) \/ CallOnError(v) \/ StreamFinished(v) \/ ClearListener(v) \/ EnterWait(v)

-----------------------------------------------------------------------------
(* The UI thread: VideoProxy.setReceive().                                 *)

StartReceiving ==
  /\ ui = "off" /\ CanEnter(controlLock, "ui")
  /\ control' = TRUE
  /\ ui' = "on"
  /\ UNCHANGED <<streamMap, receivers, created, rid, lock, dispatch, scheduler, job,
                 fields, drawing, playerList, releasing, crashed, history>>

\* Mutation of UnsubscribeScope: the block on mStreamMap begins here, around
\* the call of the classifier.
UnsubscribeInTable ==
  /\ ui = "on" /\ CanEnter(lock, "ui")
  /\ lock' = "ui"
  /\ ui' = "unsubscribe"
  /\ UNCHANGED <<proxy, receivers, created, rid, dispatch, scheduler, job,
                 fields, drawing, playerList, releasing, crashed, history>>

\* setReceive(false) begins.
UnsubscribeScope ==
  /\ ui = "on"
  /\ ui' = "unsubscribe"
  /\ UNCHANGED <<proxy, receivers, created, rid, lock, dispatch, scheduler, job,
                 fields, drawing, playerList, releasing, crashed, history>>

\* Mutation of UnregisterControl: newData() stays registered meanwhile.
UnregisterControlLate ==
  /\ ui = "unsubscribe" /\ CanEnter(controlLock, "ui")
  /\ ui' = "list"
  /\ UNCHANGED <<proxy, receivers, created, rid, lock, dispatch, scheduler, job,
                 fields, drawing, playerList, releasing, crashed, history>>

\* unregisterControlEventHandler() waits for a newData() in progress.
UnregisterControl ==
  /\ ui = "unsubscribe" /\ CanEnter(controlLock, "ui")
  /\ control' = FALSE
  /\ ui' = "list"
  /\ UNCHANGED <<streamMap, receivers, created, rid, lock, dispatch, scheduler, job,
                 fields, drawing, playerList, releasing, crashed, history>>

\* Mutation of TablePlayers: the array has entries nobody filled in.
TableEntries == {streamMap[s] : s \in Streams}

TablePlayers == {streamMap[s] : s \in Streams} \ {None}

\* synchronized(mStreamMap) { ... }
ListPlayers ==
  /\ ui = "list" /\ CanEnter(lock, "ui")
  /\ playerList' = TablePlayers
  /\ lock' = "none"
  /\ ui' = "release"
  /\ UNCHANGED <<proxy, receivers, created, rid, dispatch, scheduler, job, fields,
                 drawing, releasing, crashed, history>>

\* Mutation of AlreadyReleased: a player that is not receiving is skipped too.
NotReceiving(p) == rcvReleased[p] \/ ~mReceive[p]

AlreadyReleased(p) == rcvReleased[p]

\* BARtpSubscriber.release() of the next player p: the test, ...
ReleasePlayer(p) ==
  /\ ui = "release"
  /\ p \in playerList
  /\ playerList' = playerList \ {p}
  /\ IF AlreadyReleased(p)
     THEN UNCHANGED <<ui, releasing>>
     ELSE ui' = "mark" /\ releasing' = p
  /\ UNCHANGED <<proxy, receivers, created, rid, lock, dispatch, scheduler, job,
                 fields, drawing, crashed, history>>

\* ... the flags, ...
MarkReleased ==
  /\ ui = "mark"
  /\ rcvReleased' = [rcvReleased EXCEPT ![releasing] = TRUE]
  /\ mReceive' = [mReceive EXCEPT ![releasing] = FALSE]
  /\ ui' = "unregister"
  /\ UNCHANGED <<proxy, handler, created, rid, lock, dispatch, scheduler, job, fields,
                 drawing, playerList, releasing, crashed, history>>

\* ... and unregistering whatever handler its rid has, which waits for a
\* publishedData() in progress.
UnregisterData ==
  /\ ui = "unregister" /\ CanEnter(dataLock, "ui")
  /\ handler' = [handler EXCEPT ![rid[releasing]] = None]
  /\ releasing' = None
  /\ ui' = "release"
  /\ UNCHANGED <<proxy, rcvReleased, mReceive, created, rid, lock, dispatch, scheduler,
                 job, fields, drawing, playerList, crashed, history>>

StopReceiving ==
  /\ ui = "release" /\ playerList = {}
  /\ ui' = "off"
  /\ UNCHANGED <<proxy, receivers, created, rid, lock, dispatch, scheduler, job, fields,
                 drawing, playerList, releasing, crashed, history>>

-----------------------------------------------------------------------------

InCallback == KnownStream \/ (\E s \in Streams : NewData(s)) \/ FinUnregisters

EventThread == InCallback \/ \E s \in Streams : Dispatch(s) \/ FinArrives(s)

SwitchOff ==
  \/ UnregisterControl \/ ListPlayers
  \/ \E p \in Players : ReleasePlayer(p)
  \/ MarkReleased \/ UnregisterData \/ StopReceiving

UIThread == StartReceiving \/ UnsubscribeScope \/ SwitchOff

Next ==
  /\ crashed = "no"
  /\ \/ SetView
     \/ EventThread
     \/ \E v \in Views : Draw(v) \/ WakeUp(v)
     \/ UIThread

Spec == Init /\ [][Next]_vars

\* Every drawing thread, the owner of mStreamMap's monitor, a callback and a
\* setReceive(false) once begun keep running; nothing is assumed of the network,
\* the user or unnotified wake-ups.  The control handlers' monitor is only taken
\* by newData() as long as events of the unsubscribed scope are left, which are
\* finitely many, so the UI thread gets it in the end.
Fairness ==
  /\ WF_vars(crashed = "no" /\ SetView)
  /\ WF_vars(crashed = "no" /\ InCallback)
  /\ WF_vars(crashed = "no" /\ SwitchOff)
  /\ SF_vars(crashed = "no" /\ UnregisterControl)
  /\ \A v \in Views : WF_vars(crashed = "no" /\ Draw(v))

FairSpec == Spec /\ Fairness

-----------------------------------------------------------------------------
(* Properties.                                                             *)

MaybePlayer == Players \cup {None}

\* Every variable stays in its domain.
TypeOK ==
  /\ control \in BOOLEAN
  /\ handler \in [Streams -> MaybePlayer]
  /\ created \in 0..MaxPlayers
  /\ rid \in [Players -> Streams \cup {None}]
  /\ rcvReleased \in [Players -> BOOLEAN]
  /\ mReceive \in [Players -> BOOLEAN]
  /\ streamMap \in [Streams -> MaybePlayer]
  /\ lock \in {"none", "cb", "view"}
  /\ controlLock \in {"none", "cb"}
  /\ dataLock \in {"none", "cb"}
  /\ event \in Streams \cup {None}
  /\ allPlayer \subseteq Players
  /\ waitQueue \in Seq(Players)
  /\ viewQueue \subseteq Views
  /\ mView \in [Players -> Views \cup {None}]
  /\ job \in [step : {"none", "source", "listener", "start", "receive"},
              player : MaybePlayer, view : Views \cup {None}]
  /\ mIn \in [Views -> MaybePlayer]
  /\ mOnErrorListener \in [Views -> MaybePlayer]
  /\ mPause \in [Views -> BOOLEAN]
  /\ pc \in [Views -> {"new", "top", "read", "error", "finish", "handover", "clear",
                       "nosignal", "wait"}]
  /\ current \in [Views -> MaybePlayer]
  /\ ui \in {"off", "on", "unsubscribe", "list", "release", "mark", "unregister"}
  /\ playerList \subseteq Players
  /\ releasing \in MaybePlayer
  /\ crashed \in {"no", "start", "null"}
  /\ wakeUps \in 0..MaxWakeUps /\ early \in BOOLEAN
  /\ evicted \subseteq Players

Waiting == {waitQueue[i] : i \in DOMAIN waitQueue}
Holders == {p \in Players : mView[p] # None}

\* No view is lost or given out twice: each is either in mViewQueue or held by
\* exactly one player; a known player either holds a view or waits for one,
\* waits once, and waits only while no view is free.
ViewsConserved ==
  /\ \A v \in Views : v \in viewQueue <=> \A p \in Players : mView[p] # v
  /\ \A p, q \in Holders : mView[p] = mView[q] => p = q
  /\ allPlayer = Holders \cup Waiting
  /\ Waiting \cap Holders = {}
  /\ \A i, j \in DOMAIN waitQueue : waitQueue[i] = waitQueue[j] => i = j
  /\ waitQueue # <<>> => viewQueue = {}

\* mStreamMap and the scheduler know the same players, each under its rid.
TableMatchesScheduler ==
  /\ allPlayer = TablePlayers
  /\ \A s \in Streams : streamMap[s] # None => rid[streamMap[s]] = s

\* Some release() of player p has set the flags and is about to unregister.
Unregistering(p) ==
  \/ ui = "unregister" /\ releasing = p
  \/ dataLock = "cb" /\ handler[event] = p

\* A player in the table that nobody has released is the registered handler
\* of its stream: no late unregister of an earlier player of the same stream
\* makes it deaf.  And a handler of a player no longer in the table is about
\* to be unregistered, unless a drawing thread woken without a notification
\* took the live player out.
LivePlayerHears ==
  \A s \in Streams :
    /\ (streamMap[s] # None /\ ~rcvReleased[streamMap[s]]) => handler[s] = streamMap[s]
    /\ (handler[s] # None /\ handler[s] # streamMap[s]) =>
         Unregistering(handler[s]) \/ handler[s] \in evicted

\* After setReceive(false) has returned, every player ever made is released and
\* no subscriber is registered, but for one whose FIN is just being handled,
\* whatever newData() and the drawing threads were doing.  Those that an
\* unnotified wake-up took out of the table are left over.
OffIsQuiet ==
  ui = "off" =>
    /\ \A p \in 1..created : rcvReleased[p] \/ p \in evicted
    /\ \A s \in Streams : handler[s] # None =>
         Unregistering(handler[s]) \/ handler[s] \in evicted

Notified == wakeUps = 0

\* MjpegView's fields, which the scheduler writes and the drawing thread reads
\* and clears without a monitor, fail in two ways only.  startPlayback() throws
\* "Source or OnErrorListener not set" only for a view that newData() took from
\* the queue between onError() and mOnErrorListener = null.  The drawing thread
\* calls null, reads another player's frames or takes a live player out of the
\* table only once wait() has returned without a notification.  In any case
\* onError() is called on the player that holds the view.
RunningIsConfigured ==
  /\ crashed = "start" => ~Notified \/ (lock = "cb" /\ early)
  /\ (crashed = "null" \/ evicted # {}) => ~Notified
  /\ \A v \in Views : pc[v] = "finish" => current[v] # None /\ mView[current[v]] = v
  /\ \A v \in Views : (Notified /\ pc[v] \in {"top", "read", "error", "finish"}) =>
       /\ mOnErrorListener[v] # None
       /\ mView[mOnErrorListener[v]] = v
       /\ pc[v] \in {"top", "read"} => mIn[v] = mOnErrorListener[v]
       /\ pc[v] = "read" => current[v] = mIn[v]

Pool == INSTANCE ViewPool WITH
  holder <- [v \in Views |-> IF \E p \in Players : mView[p] = v
                             THEN CHOOSE p \in Players : mView[p] = v ELSE None],
  queue  <- waitQueue

\* The scheduler implements the first-come-first-served pool of views.
RefinesPool == Pool!Spec

\* When the subscriber a view is reading from is released, the view's thread
\* finds out and takes the player out of the table and the scheduler.
ReleasedPlayerLeaves ==
  \A p \in Players :
    (rcvReleased[p] /\ \E v \in Views : pc[v] = "read" /\ current[v] = p)
      ~> (p \notin allPlayer \/ crashed # "no")

\* setReceive(false) returns: the UI thread gets the classifier's monitor over
\* the control handlers, mStreamMap's and the one over the data handlers, one
\* after the other, although newData() takes the second inside the first and
\* the callback and drawing threads hold them through a whole setView().
SwitchOffReturns == ui = "unsubscribe" ~> (ui = "off" \/ crashed # "no")

\* "the waiting VideoPlayer will be allocated a view as long as there is any
\* becomes available" (FCFSViewScheduler:16): a waiting player handed a view by
\* another's departure is shown on it, unless it is released first.  The code
\* breaks it: doPause() goes on to wait() after the hand-over, with mPause
\* already cleared, so that no later startPlayback() notifies it.
HandoverIsShown ==
  \A p \in Players :
    (lock = "view" /\ job.player = p)
      ~> \/ \E v \in Views : pc[v] = "read" /\ current[v] = p
         \/ rcvReleased[p]
         \/ crashed # "no"
=============================================================================

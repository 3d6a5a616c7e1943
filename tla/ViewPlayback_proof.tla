------------------------- MODULE ViewPlayback_proof -------------------------
(***************************************************************************)
(* Theorems about ViewPlayback: the safety invariants of the stream table, *)
(* the scheduler, the classifier and the drawing threads, from one         *)
(* inductive invariant, and that the scheduler implements ViewPool.  What  *)
(* holds only as long as every wait() of a drawing thread was notified is  *)
(* a part of its own (Stopped, JobUndisturbed).                            *)
(***************************************************************************)
EXTENDS ViewPlayback, WellFoundedInduction, TLAPS

-----------------------------------------------------------------------------
(* The inductive invariant.                                                *)

Born == 1..created

\* The tables name players that exist, under their own stream; a player not
\* yet made has not been released.
TablesName ==
  /\ \A p \in Players : p \in Born => rid[p] \in Streams
  /\ \A p \in Players : p \notin Born => ~rcvReleased[p]
  /\ \A s \in Streams : streamMap[s] # None => streamMap[s] \in Born
  /\ \A s \in Streams : handler[s] # None => handler[s] \in Born /\ rid[handler[s]] = s
  /\ playerList \subseteq Born
  /\ releasing # None => releasing \in Born

Ending == {"release", "mark", "unregister"}

\* Where the UI thread is in setReceive(), and which players it is after.
SwitchPlace ==
  /\ control <=> ui \in {"on", "unsubscribe"}
  /\ releasing # None <=> ui \in {"mark", "unregister"}
  /\ playerList # {} => ui \in Ending
  /\ ui = "unregister" => rcvReleased[releasing]
  /\ \A p \in Players : (p \in playerList \/ p = releasing) => streamMap[rid[p]] \in {p, None}

\* Where the event thread is: in newData(), which keeps the scope subscribed, in
\* publishedData() with a FIN, or in no callback.
EventPlace ==
  /\ event = None <=> controlLock = "none" /\ dataLock = "none"
  /\ controlLock = "none" \/ dataLock = "none"
  /\ controlLock = "cb" => ui \in {"on", "unsubscribe"}
  /\ lock = "cb" => controlLock = "cb"
  /\ (controlLock = "cb" /\ lock # "cb") => created < MaxPlayers
  /\ dataLock = "cb" => handler[event] # None /\ rcvReleased[handler[event]]

\* Nobody who is neither released nor evicted is forgotten: not by the table,
\* nor by a setReceive(false) in progress, nor after it.
NoneForgotten ==
  \A p \in Born : (~rcvReleased[p] /\ p \notin evicted) =>
    /\ streamMap[rid[p]] = p
    /\ ui # "off"
    /\ ui \in Ending => p \in playerList \/ p = releasing

\* A live player in the table is registered.
LiveIsRegistered ==
  \A s \in Streams :
    (streamMap[s] # None /\ ~rcvReleased[streamMap[s]]) => handler[s] = streamMap[s]

\* A released player is only still registered while it is unregistered.
ReleasedIsDeaf ==
  \A s \in Streams : (handler[s] # None /\ rcvReleased[handler[s]]) => Unregistering(handler[s])

\* A view's listener holds the view, but for the end of its onError().
ListenersHold ==
  \A v \in Views : (mOnErrorListener[v] # None /\ pc[v] \notin {"handover", "clear"}) =>
    mView[mOnErrorListener[v]] = v

\* A setView() in progress: whose monitors it is in, for whom, and whether the
\* view's thread may still clear the listener.
JobPlace ==
  /\ job.step = "none" <=> lock = "none"
  /\ job.step # "none" =>
       /\ job.player \in Players /\ job.view \in Views
       /\ mView[job.player] = job.view
       /\ early => lock = "cb"
       /\ ~early => pc[job.view] # "clear"

Running == {"top", "read", "error", "finish"}

\* A free view has no running thread; a thread does not read while paused, and
\* only stops for a player that was released.
Stopped ==
  /\ \A v \in viewQueue : pc[v] \notin Running
  /\ \A v \in Views : pc[v] = "read" => ~mPause[v]
  /\ \A v \in Views : (pc[v] = "error" \/ (pc[v] = "top" /\ mPause[v])) =>
       rcvReleased[mOnErrorListener[v]]
  /\ \A v \in Views : pc[v] = "finish" => rcvReleased[current[v]]

\* The drawing thread does not run under a setView(), which finds the fields
\* as it has set them, unless the thread was still in doPause().
JobUndisturbed ==
  /\ job.step \in {"source", "listener", "start"} => pc[job.view] \notin Running
  /\ job.step \in {"listener", "start"} => mIn[job.view] = job.player
  /\ job.step = "start" => \/ mOnErrorListener[job.view] = job.player
                           \/ mOnErrorListener[job.view] = None /\ early

IInv ==
  /\ TypeOK
  /\ ViewsConserved
  /\ TableMatchesScheduler
  /\ TablesName
  /\ SwitchPlace
  /\ EventPlace
  /\ NoneForgotten
  /\ LiveIsRegistered
  /\ ReleasedIsDeaf
  /\ ListenersHold
  /\ JobPlace
  /\ RunningIsConfigured
  /\ Notified => Stopped
  /\ Notified => JobUndisturbed

-----------------------------------------------------------------------------
(* Typing.                                                                 *)

FlagsOK ==
  /\ control \in BOOLEAN
  /\ rcvReleased \in [Players -> BOOLEAN]
  /\ mReceive \in [Players -> BOOLEAN]
  /\ mPause \in [Views -> BOOLEAN]
  /\ early \in BOOLEAN

ProxyOK ==
  /\ handler \in [Streams -> MaybePlayer]
  /\ created \in 0..MaxPlayers
  /\ rid \in [Players -> Streams \cup {None}]
  /\ streamMap \in [Streams -> MaybePlayer]
  /\ lock \in {"none", "cb", "view"}
  /\ controlLock \in {"none", "cb"}
  /\ dataLock \in {"none", "cb"}
  /\ event \in Streams \cup {None}
  /\ ui \in {"off", "on", "unsubscribe", "list", "release", "mark", "unregister"}
  /\ playerList \subseteq Players
  /\ releasing \in MaybePlayer
  /\ evicted \subseteq Players

SchedulerOK ==
  /\ allPlayer \subseteq Players
  /\ waitQueue \in Seq(Players)
  /\ viewQueue \subseteq Views
  /\ mView \in [Players -> Views \cup {None}]
  /\ job \in [step : {"none", "source", "listener", "start", "receive"},
              player : MaybePlayer, view : Views \cup {None}]

DrawingOK ==
  /\ mIn \in [Views -> MaybePlayer]
  /\ mOnErrorListener \in [Views -> MaybePlayer]
  /\ pc \in [Views -> {"new", "top", "read", "error", "finish", "handover", "clear",
                       "nosignal", "wait"}]
  /\ current \in [Views -> MaybePlayer]
  /\ crashed \in {"no", "start", "null"}
  /\ wakeUps \in 0..MaxWakeUps

LEMMA TypeParts == TypeOK <=> FlagsOK /\ ProxyOK /\ SchedulerOK /\ DrawingOK
  BY Zenon DEF TypeOK, FlagsOK, ProxyOK, SchedulerOK, DrawingOK

LEMMA TypePartsNext == TypeOK' <=> FlagsOK' /\ ProxyOK' /\ SchedulerOK' /\ DrawingOK'
  BY Zenon DEF TypeOK, FlagsOK, ProxyOK, SchedulerOK, DrawingOK

LEMMA ConstantFacts ==
  /\ None \notin Players /\ None \notin Views /\ None \notin Streams
  /\ Players = 1..MaxPlayers /\ Views = 1..NumViews
  /\ MaxPlayers \in Nat /\ NumViews \in Nat /\ MaxWakeUps \in Nat
  BY PlaybackAssumption DEF Players, Views

\* The least view id of a nonempty set of views is one of them: PriorityQueue.poll().
LEMMA LeastView ==
  ASSUME NEW S \in SUBSET Views, S # {}
  PROVE  Least(S) \in S
  <1>1. S \subseteq Nat
    BY ConstantFacts
  <1>2. \E v \in S : \A w \in S : ~(<<w, v>> \in OpToRel(<, Nat))
    BY <1>1, NatLessThanWellFounded, WFMin, Zenon
  <1>3. \A v, w \in Nat : w < v => <<w, v>> \in OpToRel(<, Nat)
    BY DEF OpToRel
  <1>4. \E v \in S : \A w \in S : ~(w < v)
    BY <1>1, <1>2, <1>3, Zenon
  <1>5. \E v \in S : \A w \in S : v <= w
    BY <1>1, <1>4
  <1>6. QED BY <1>5 DEF Least

LEMMA LeastOfOne ==
  ASSUME NEW v \in Views
  PROVE  Least({v}) = v
  BY LeastView

LEMMA NoJobTyped ==
  NoJob \in [step : {"none", "source", "listener", "start", "receive"},
             player : MaybePlayer, view : Views \cup {None}]
  BY DEF NoJob, MaybePlayer

LEMMA HeadAndTail ==
  ASSUME NEW S, NEW s \in Seq(S), s # <<>>
  PROVE  /\ Head(s) \in S /\ Head(s) = s[1] /\ 1 \in DOMAIN s
         /\ Tail(s) \in Seq(S)
         /\ DOMAIN s = 1..Len(s) /\ Len(s) \in Nat
         /\ DOMAIN Tail(s) = 1..(Len(s) - 1)
         /\ \A i \in DOMAIN Tail(s) : i + 1 \in DOMAIN s /\ Tail(s)[i] = s[i + 1]
  <1>1. Len(s) \in Nat /\ Len(s) # 0 /\ DOMAIN s = 1..Len(s)
    OBVIOUS
  <1>2. /\ Head(s) = s[1] /\ 1 \in DOMAIN s /\ Tail(s) \in Seq(S)
        /\ Len(Tail(s)) = Len(s) - 1 /\ DOMAIN Tail(s) = 1..(Len(s) - 1)
    BY <1>1
  <1>3. \A i \in DOMAIN Tail(s) : i + 1 \in DOMAIN s /\ Tail(s)[i] = s[i + 1]
    BY <1>1, <1>2
  <1>4. QED BY <1>1, <1>2, <1>3

-----------------------------------------------------------------------------
(* What a step leaves alone keeps its part of the invariant.               *)

LEMMA ViewsKept ==
  ASSUME ViewsConserved, UNCHANGED scheduler
  PROVE  ViewsConserved'
  BY DEF ViewsConserved, Waiting, Holders, scheduler

LEMMA TableKept ==
  ASSUME TableMatchesScheduler, UNCHANGED <<allPlayer, streamMap, rid>>
  PROVE  TableMatchesScheduler'
  BY DEF TableMatchesScheduler, TablePlayers

LEMMA HearingKept ==
  ASSUME LiveIsRegistered, ReleasedIsDeaf,
         UNCHANGED <<streamMap, handler, rcvReleased, ui, releasing, dataLock, event>>
  PROVE  LiveIsRegistered' /\ ReleasedIsDeaf'
  BY DEF LiveIsRegistered, ReleasedIsDeaf, Unregistering

LEMMA PlacesKept ==
  ASSUME TablesName, SwitchPlace, NoneForgotten,
         UNCHANGED <<control, created, rid, rcvReleased, streamMap, handler, uiVars, evicted>>
  PROVE  TablesName' /\ SwitchPlace' /\ NoneForgotten'
  <1>1. TablesName'
    BY DEF TablesName, Born, uiVars
  <1>2. SwitchPlace'
    BY Zenon DEF SwitchPlace, Ending, uiVars
  <1>3. NoneForgotten'
    BY DEF NoneForgotten, Born, Ending, uiVars
  <1>4. QED BY <1>1, <1>2, <1>3

LEMMA EventKept ==
  ASSUME EventPlace, UNCHANGED <<dispatch, created, ui, lock, handler, rcvReleased>>
  PROVE  EventPlace'
  BY DEF EventPlace, dispatch

LEMMA DrawingKept ==
  ASSUME RunningIsConfigured, ListenersHold, Notified => Stopped,
         UNCHANGED <<crashed, drawing, fields, mView, viewQueue, rcvReleased, lock, history>>
  PROVE  RunningIsConfigured' /\ ListenersHold' /\ (Notified => Stopped)'
  BY DEF RunningIsConfigured, ListenersHold, Notified, Stopped, Running, drawing, fields, history

LEMMA JobKept ==
  ASSUME JobPlace, Notified => JobUndisturbed,
         UNCHANGED <<job, lock, mView, pc, mIn, mOnErrorListener, early, wakeUps>>
  PROVE  JobPlace' /\ (Notified => JobUndisturbed)'
  BY DEF JobPlace, JobUndisturbed, Running, Notified

LEMMA InitInv == Init => IInv
  <1> SUFFICES ASSUME Init PROVE IInv
    OBVIOUS
  <1>1. FlagsOK
    BY Zenon DEF Init, FlagsOK
  <1>2. ProxyOK /\ SchedulerOK /\ DrawingOK
    BY ConstantFacts, NoJobTyped DEF Init, ProxyOK, SchedulerOK, DrawingOK, MaybePlayer
  <1>3. ViewsConserved
    BY ConstantFacts DEF Init, ViewsConserved, Holders, Waiting
  <1>4. TableMatchesScheduler
    BY DEF Init, TableMatchesScheduler, TablePlayers
  <1>5. LiveIsRegistered /\ ReleasedIsDeaf /\ EventPlace
    BY DEF Init, LiveIsRegistered, ReleasedIsDeaf, EventPlace
  <1>6. RunningIsConfigured /\ ListenersHold /\ Stopped
    BY DEF Init, RunningIsConfigured, ListenersHold, Stopped, Running
  <1>7. TablesName
    BY ConstantFacts DEF Init, TablesName, Born
  <1>8. SwitchPlace
    <2>1. ui = "off" /\ control = FALSE /\ releasing = None /\ playerList = {}
      BY DEF Init
    <2>2. \A p \in Players : ~(p \in playerList \/ p = releasing)
      BY <2>1, ConstantFacts
    <2>3. QED BY <2>1, <2>2 DEF SwitchPlace, Ending
  <1>9. NoneForgotten
    BY ConstantFacts DEF Init, NoneForgotten, Born
  <1>10. JobPlace /\ JobUndisturbed
    BY DEF Init, JobPlace, JobUndisturbed, NoJob
  <1>11. QED
    BY <1>1, <1>2, <1>3, <1>4, <1>5, <1>6, <1>7, <1>8, <1>9, <1>10, TypeParts DEF IInv

-----------------------------------------------------------------------------
(* setView().                                                              *)

LEMMA SetSourceKeeps ==
  ASSUME IInv, SetSource
  PROVE  IInv'
  <1> USE DEF SetSource, proxy, receivers
  <1>1. TypeOK'
    <2>1. job.player \in MaybePlayer /\ job.view \in Views
      BY DEF IInv, JobPlace, TypeOK
    <2>2. FlagsOK'
      BY TypeParts, Zenon DEF IInv, FlagsOK, fields, history
    <2>3. ProxyOK' /\ SchedulerOK' /\ DrawingOK'
      BY TypeParts, <2>1 DEF IInv, ProxyOK, SchedulerOK, DrawingOK, scheduler, drawing, uiVars,
                             dispatch, history
    <2>4. QED BY <2>2, <2>3, TypePartsNext
  <1>2. ViewsConserved' /\ TableMatchesScheduler'
    BY ViewsKept, TableKept DEF IInv, scheduler
  <1>3. LiveIsRegistered' /\ ReleasedIsDeaf' /\ EventPlace'
    BY HearingKept, EventKept DEF IInv, uiVars, dispatch
  <1>4. TablesName' /\ SwitchPlace' /\ NoneForgotten'
    BY PlacesKept DEF IInv, history
  <1>5. RunningIsConfigured' /\ ListenersHold' /\ (Notified => Stopped)'
    <2>1. ListenersHold'
      BY DEF IInv, ListenersHold, drawing, scheduler
    <2>2. RunningIsConfigured'
      BY DEF IInv, TypeOK, RunningIsConfigured, Notified, Running, JobUndisturbed, drawing,
             scheduler, history
    <2>3. (Notified => Stopped)'
      BY DEF IInv, Stopped, Notified, Running, drawing, scheduler, history
    <2>4. QED BY <2>1, <2>2, <2>3
  <1>6. JobPlace' /\ (Notified => JobUndisturbed)'
    <2>1. job' = [job EXCEPT !.step = "listener"] /\ job.view \in Views
      BY DEF IInv, JobPlace
    <2>2. JobPlace'
      BY <2>1 DEF IInv, TypeOK, JobPlace, drawing, scheduler, history
    <2>3. (Notified => JobUndisturbed)'
      BY <2>1 DEF IInv, TypeOK, JobUndisturbed, Notified, Running, drawing, scheduler, history
    <2>4. QED BY <2>2, <2>3
  <1>7. QED BY <1>1, <1>2, <1>3, <1>4, <1>5, <1>6 DEF IInv

LEMMA SetOnErrorListenerKeeps ==
  ASSUME IInv, SetOnErrorListener
  PROVE  IInv'
  <1> USE DEF SetOnErrorListener, proxy, receivers
  <1>0. job.player \in MaybePlayer /\ job.view \in Views /\ mView[job.player] = job.view
    BY DEF IInv, JobPlace, TypeOK
  <1>1. TypeOK'
    <2>2. FlagsOK'
      BY TypeParts, Zenon DEF IInv, FlagsOK, fields, history
    <2>3. ProxyOK' /\ SchedulerOK' /\ DrawingOK'
      BY TypeParts, <1>0 DEF IInv, ProxyOK, SchedulerOK, DrawingOK, scheduler, drawing, uiVars,
                             dispatch, history
    <2>4. QED BY <2>2, <2>3, TypePartsNext
  <1>2. ViewsConserved' /\ TableMatchesScheduler'
    BY ViewsKept, TableKept DEF IInv, scheduler
  <1>3. LiveIsRegistered' /\ ReleasedIsDeaf' /\ EventPlace'
    BY HearingKept, EventKept DEF IInv, uiVars, dispatch
  <1>4. TablesName' /\ SwitchPlace' /\ NoneForgotten'
    BY PlacesKept DEF IInv, history
  <1>5. RunningIsConfigured' /\ ListenersHold' /\ (Notified => Stopped)'
    <2>1. ListenersHold'
      BY <1>0 DEF IInv, TypeOK, ListenersHold, drawing, scheduler
    <2>2. RunningIsConfigured'
      BY <1>0 DEF IInv, TypeOK, RunningIsConfigured, Notified, Running, JobUndisturbed, drawing,
             scheduler, history
    <2>3. (Notified => Stopped)'
      BY <1>0 DEF IInv, TypeOK, Stopped, Notified, Running, JobUndisturbed, drawing, scheduler, history
    <2>4. QED BY <2>1, <2>2, <2>3
  <1>6. JobPlace' /\ (Notified => JobUndisturbed)'
    <2>1. job' = [job EXCEPT !.step = "start"] /\ job.view \in Views
      BY DEF IInv, JobPlace
    <2>2. JobPlace'
      BY <2>1 DEF IInv, TypeOK, JobPlace, drawing, scheduler, history
    <2>3. (Notified => JobUndisturbed)'
      BY <2>1 DEF IInv, TypeOK, JobUndisturbed, Notified, Running, drawing, scheduler, history
    <2>4. QED BY <2>2, <2>3
  <1>7. QED BY <1>1, <1>2, <1>3, <1>4, <1>5, <1>6 DEF IInv

LEMMA StartPlaybackKeeps ==
  ASSUME IInv, StartPlayback
  PROVE  IInv'
  <1> USE DEF StartPlayback, proxy, receivers
  <1> DEFINE v == job.view
  <1>1. /\ job.player \in Players /\ v \in Views /\ mView[job.player] = v
        /\ job.step = "start" /\ v \notin viewQueue
    <2>1. job.player \in Players /\ v \in Views /\ mView[job.player] = v /\ job.step = "start"
      BY DEF IInv, JobPlace
    <2>2. QED BY <2>1 DEF IInv, TypeOK, ViewsConserved
  <1>2. TypeOK'
    <2>1. FlagsOK'
      <3>1. CASE mPause' = [mPause EXCEPT ![job.view] = FALSE]
        BY TypeParts, <1>1, <3>1, Zenon DEF IInv, FlagsOK, history
      <3>2. CASE UNCHANGED mPause
        BY TypeParts, <3>2, Zenon DEF IInv, FlagsOK, history
      <3>3. QED BY <3>1, <3>2
    <2>2. ProxyOK' /\ SchedulerOK' /\ DrawingOK'
      BY TypeParts, <1>1 DEF IInv, ProxyOK, SchedulerOK, DrawingOK, scheduler, drawing, uiVars,
                             dispatch, history
    <2>3. QED BY <2>1, <2>2, TypePartsNext
  <1>3. ViewsConserved' /\ TableMatchesScheduler'
    BY ViewsKept, TableKept DEF IInv, scheduler
  <1>4. LiveIsRegistered' /\ ReleasedIsDeaf' /\ EventPlace'
    BY HearingKept, EventKept DEF IInv, uiVars, dispatch
  <1>5. TablesName' /\ SwitchPlace' /\ NoneForgotten'
    BY PlacesKept DEF IInv, history
  <1>6. Notified => /\ mIn[v] = job.player /\ mIn[v] # None /\ pc[v] \notin Running
                    /\ \/ mOnErrorListener[v] = job.player
                       \/ mOnErrorListener[v] = None /\ early
    BY <1>1, ConstantFacts DEF IInv, JobUndisturbed
  <1>7. CASE mIn[v] = None \/ mOnErrorListener[v] = None
    <2>1. crashed' = "start" /\ UNCHANGED <<job, mPause, pc>>
      BY <1>7
    <2>2. early => lock = "cb"
      BY <1>1 DEF IInv, JobPlace
    <2>3. Notified => early
      BY <1>1, <1>6, <1>7, ConstantFacts
    <2>4. RunningIsConfigured'
      BY <2>1, <2>2, <2>3 DEF IInv, TypeOK, RunningIsConfigured, Notified, scheduler, history
    <2>5. ListenersHold' /\ (Notified => Stopped)'
      BY <2>1 DEF IInv, ListenersHold, Stopped, Running, Notified, scheduler, history
    <2>6. JobPlace' /\ (Notified => JobUndisturbed)'
      BY <2>1, JobKept DEF IInv, scheduler, history
    <2>7. QED BY <1>2, <1>3, <1>4, <1>5, <2>4, <2>5, <2>6 DEF IInv
  <1>8. CASE ~(mIn[v] = None \/ mOnErrorListener[v] = None)
    <2>1. /\ job' = [job EXCEPT !.step = "receive"]
          /\ mPause' = [mPause EXCEPT ![v] = FALSE]
          /\ UNCHANGED <<crashed, mView, viewQueue, mIn, mOnErrorListener, current, rcvReleased, lock,
                         wakeUps, early, evicted>>
      BY <1>8 DEF scheduler, history
    <2>2. /\ \A w \in Views : w # v => pc'[w] = pc[w] /\ (mPause'[w] <=> mPause[w])
          /\ ~mPause'[v]
          /\ \/ pc'[v] = pc[v]
             \/ pc'[v] = "top" /\ pc[v] \in {"new", "wait"}
      BY <1>1, <1>8, <2>1 DEF IInv, TypeOK
    <2> HIDE DEF v
    <2>3. ListenersHold'
      BY <2>1, <2>2 DEF IInv, ListenersHold
    <2>4. RunningIsConfigured'
      BY <1>1, <1>6, <1>8, <2>1, <2>2 DEF IInv, RunningIsConfigured, Running, Notified
    <2>5. (Notified => Stopped)'
      BY <1>1, <1>6, <2>1, <2>2 DEF IInv, TypeOK, Stopped, Running, Notified
    <2>6. JobPlace' /\ (Notified => JobUndisturbed)'
      BY <1>1, <2>1, <2>2 DEF IInv, TypeOK, JobPlace, JobUndisturbed, v
    <2>7. QED BY <1>2, <1>3, <1>4, <1>5, <2>3, <2>4, <2>5, <2>6 DEF IInv
  <1>9. QED BY <1>7, <1>8

LEMMA SetReceiveKeeps ==
  ASSUME IInv, SetReceive, crashed = "no"
  PROVE  IInv'
  <1> USE DEF SetReceive, proxy
  <1>1. job.player \in Players
    BY DEF IInv, JobPlace
  <1>2. \/ /\ lock = "cb" /\ controlLock' = "none" /\ event' = None /\ dataLock' = dataLock
           /\ controlLock = "cb" /\ dataLock = "none"
        \/ lock # "cb" /\ UNCHANGED dispatch
    BY TypeParts DEF LeaveNewData, IInv, EventPlace, ProxyOK
  <1>3. TypeOK'
    <2>1. FlagsOK'
      <3>1. \E b \in BOOLEAN : mReceive' = [mReceive EXCEPT ![job.player] = b]
        BY <1>1, TypeParts, Zenon DEF IInv, FlagsOK
      <3>2. QED BY <3>1, TypeParts, Zenon DEF IInv, FlagsOK, fields
    <2>2. ProxyOK' /\ SchedulerOK' /\ DrawingOK'
      BY TypeParts, NoJobTyped, <1>2 DEF IInv, ProxyOK, SchedulerOK, DrawingOK, scheduler, fields,
                                         uiVars, dispatch
    <2>3. QED BY <2>1, <2>2, TypePartsNext
  <1>4. ViewsConserved' /\ TableMatchesScheduler'
    BY ViewsKept, TableKept DEF IInv, scheduler
  <1>5. LiveIsRegistered' /\ ReleasedIsDeaf' /\ EventPlace'
    <2>1. dataLock' = dataLock /\ (dataLock = "cb" => event' = event)
      BY <1>2 DEF dispatch
    <2>2. LiveIsRegistered' /\ ReleasedIsDeaf'
      BY <2>1 DEF IInv, LiveIsRegistered, ReleasedIsDeaf, Unregistering, uiVars
    <2>3. EventPlace'
      BY <1>2 DEF IInv, EventPlace, dispatch, uiVars
    <2>4. QED BY <2>2, <2>3
  <1>6. TablesName' /\ SwitchPlace' /\ NoneForgotten'
    BY PlacesKept DEF IInv
  <1>7. RunningIsConfigured' /\ ListenersHold' /\ (Notified => Stopped)'
    <2>1. \A v \in Views : pc'[v] = pc[v] \/ (pc[v] = "handover" /\ pc'[v] = "clear")
      BY DEF IInv, TypeOK
    <2>2. RunningIsConfigured'
      BY <2>1 DEF IInv, RunningIsConfigured, Notified, fields, scheduler
    <2>3. ListenersHold'
      BY <2>1 DEF IInv, ListenersHold, fields, scheduler
    <2>4. (Notified => Stopped)'
      BY <2>1 DEF IInv, TypeOK, Stopped, Running, Notified, fields, scheduler
    <2>5. QED BY <2>2, <2>3, <2>4
  <1>8. JobPlace' /\ JobUndisturbed'
    BY DEF JobPlace, JobUndisturbed, NoJob
  <1>9. QED BY <1>3, <1>4, <1>5, <1>6, <1>7, <1>8 DEF IInv

-----------------------------------------------------------------------------
(* The drawing threads.                                                    *)

\* A step of a drawing thread that touches no player and no monitor.
LEMMA AsideKeeps ==
  ASSUME IInv, UNCHANGED Elsewhere
  PROVE  /\ ProxyOK /\ SchedulerOK /\ FlagsOK /\ DrawingOK
         /\ ProxyOK' /\ SchedulerOK'
         /\ ViewsConserved' /\ TableMatchesScheduler'
         /\ LiveIsRegistered' /\ ReleasedIsDeaf' /\ EventPlace'
         /\ TablesName' /\ SwitchPlace' /\ NoneForgotten'
         /\ UNCHANGED <<mView, viewQueue, job, lock, rcvReleased, control, mReceive, early, evicted>>
  <1> USE DEF Elsewhere, proxy, receivers
  <1>1. ProxyOK /\ SchedulerOK /\ FlagsOK /\ DrawingOK
    BY TypeParts DEF IInv
  <1>2. ProxyOK' /\ SchedulerOK'
    BY <1>1 DEF ProxyOK, SchedulerOK, scheduler, uiVars, dispatch
  <1>3. ViewsConserved' /\ TableMatchesScheduler'
    BY ViewsKept, TableKept DEF IInv, scheduler
  <1>4. LiveIsRegistered' /\ ReleasedIsDeaf' /\ EventPlace'
    BY HearingKept, EventKept DEF IInv, uiVars, dispatch
  <1>5. TablesName' /\ SwitchPlace' /\ NoneForgotten'
    BY PlacesKept DEF IInv
  <1>6. QED BY <1>1, <1>2, <1>3, <1>4, <1>5 DEF scheduler

LEMMA AsideTyped ==
  ASSUME IInv, UNCHANGED Elsewhere, DrawingOK',
         UNCHANGED mPause \/ \E v \in Views : mPause' = [mPause EXCEPT ![v] = TRUE]
  PROVE  TypeOK'
  <1>1. /\ FlagsOK /\ ProxyOK' /\ SchedulerOK'
        /\ UNCHANGED <<control, rcvReleased, mReceive, early>>
    BY AsideKeeps
  <1>2. FlagsOK'
    BY <1>1, Zenon DEF FlagsOK
  <1>3. QED BY <1>1, <1>2, TypePartsNext

LEMMA BeginReadKeeps ==
  ASSUME IInv, NEW v \in Views, BeginRead(v)
  PROVE  IInv'
  <1>1. /\ UNCHANGED Elsewhere /\ UNCHANGED <<fields, wakeUps>> /\ mPause' = mPause
        /\ pc[v] = "top" /\ ~mPause[v]
        /\ \/ crashed' = "null" /\ UNCHANGED drawing /\ mIn[v] = None
           \/ /\ current' = [current EXCEPT ![v] = mIn[v]] /\ pc' = [pc EXCEPT ![v] = "read"]
              /\ UNCHANGED crashed
    BY DEF BeginRead, fields
  <1>2. Notified => mIn[v] # None
    BY <1>1 DEF IInv, RunningIsConfigured
  <1>3. DrawingOK'
    BY <1>1, AsideKeeps DEF DrawingOK, MaybePlayer, fields, drawing
  <1>4. TypeOK'
    BY <1>1, <1>3, AsideTyped
  <1>5. RunningIsConfigured'
    BY <1>1, <1>2, AsideKeeps DEF IInv, DrawingOK, RunningIsConfigured, Notified, Stopped, fields, drawing
  <1>6. ListenersHold'
    BY <1>1, AsideKeeps DEF IInv, DrawingOK, ListenersHold, fields, drawing
  <1>7. (Notified => Stopped)'
    <2>1. CASE UNCHANGED drawing
      BY <1>1, <2>1, AsideKeeps DEF IInv, Stopped, Running, Notified, fields, drawing
    <2>2. CASE ~UNCHANGED drawing
      BY <1>1, <2>2, AsideKeeps DEF IInv, DrawingOK, SchedulerOK, Stopped, Running, Notified, fields, drawing
    <2>3. QED BY <2>1, <2>2
  <1>8. JobPlace'
    BY <1>1, AsideKeeps DEF IInv, DrawingOK, JobPlace, fields, drawing
  <1>9. (Notified => JobUndisturbed)'
    BY <1>1, <1>2, AsideKeeps DEF IInv, DrawingOK, JobUndisturbed, JobPlace, Running, Notified, fields, drawing
  <1>10. QED BY <1>1, <1>4, <1>5, <1>6, <1>7, <1>8, <1>9, AsideKeeps DEF IInv

LEMMA DrawFrameKeeps ==
  ASSUME IInv, NEW v \in Views, DrawFrame(v)
  PROVE  IInv'
  <1>1. /\ UNCHANGED Elsewhere /\ UNCHANGED <<fields, wakeUps, crashed>> /\ mPause' = mPause
        /\ pc[v] = "read"
        /\ current' = [current EXCEPT ![v] = None] /\ pc' = [pc EXCEPT ![v] = "top"]
    BY DEF DrawFrame, fields
  <1>2. DrawingOK'
    BY <1>1, AsideKeeps DEF DrawingOK, MaybePlayer, fields, drawing
  <1>3. TypeOK'
    BY <1>1, <1>2, AsideTyped
  <1>4. RunningIsConfigured'
    BY <1>1, AsideKeeps DEF IInv, DrawingOK, RunningIsConfigured, Notified, Stopped, fields, drawing
  <1>5. ListenersHold'
    BY <1>1, AsideKeeps DEF IInv, DrawingOK, ListenersHold, fields, drawing
  <1>6. (Notified => Stopped)'
    BY <1>1, AsideKeeps DEF IInv, DrawingOK, Stopped, Running, Notified, fields, drawing
  <1>7. JobPlace'
    BY <1>1, AsideKeeps DEF IInv, DrawingOK, JobPlace, fields, drawing
  <1>8. (Notified => JobUndisturbed)'
    BY <1>1, AsideKeeps DEF IInv, DrawingOK, JobUndisturbed, JobPlace, Running, Notified, fields, drawing
  <1>9. QED BY <1>1, <1>3, <1>4, <1>5, <1>6, <1>7, <1>8, AsideKeeps DEF IInv

LEMMA ReadFailsKeeps ==
  ASSUME IInv, NEW v \in Views, ReadFails(v)
  PROVE  IInv'
  <1>1. /\ UNCHANGED Elsewhere /\ UNCHANGED <<mIn, mOnErrorListener, wakeUps, crashed>>
        /\ pc[v] = "read" /\ rcvReleased[current[v]]
        /\ mPause' = [mPause EXCEPT ![v] = TRUE]
        /\ current' = [current EXCEPT ![v] = None] /\ pc' = [pc EXCEPT ![v] = "top"]
    BY DEF ReadFails, PausePlayback
  <1>2. Notified => rcvReleased[mOnErrorListener[v]]
    BY <1>1 DEF IInv, RunningIsConfigured
  <1>3. \A w \in Views : w # v => (mPause'[w] <=> mPause[w])
    BY <1>1, AsideKeeps DEF FlagsOK
  <1>4. DrawingOK'
    BY <1>1, AsideKeeps DEF DrawingOK, MaybePlayer, fields, drawing
  <1>5. TypeOK'
    BY <1>1, <1>4, AsideTyped
  <1>6. RunningIsConfigured'
    BY <1>1, <1>2, <1>3, AsideKeeps DEF IInv, DrawingOK, RunningIsConfigured, Notified, Stopped, fields, drawing
  <1>7. ListenersHold'
    BY <1>1, AsideKeeps DEF IInv, DrawingOK, ListenersHold, fields, drawing
  <1>8. (Notified => Stopped)'
    BY <1>1, <1>2, <1>3, AsideKeeps DEF IInv, DrawingOK, Stopped, Running, Notified, fields, drawing
  <1>9. JobPlace'
    BY <1>1, AsideKeeps DEF IInv, DrawingOK, JobPlace, fields, drawing
  <1>10. (Notified => JobUndisturbed)'
    BY <1>1, <1>2, <1>3, AsideKeeps DEF IInv, DrawingOK, JobUndisturbed, JobPlace, Running, Notified, fields, drawing
  <1>11. QED BY <1>1, <1>5, <1>6, <1>7, <1>8, <1>9, <1>10, AsideKeeps DEF IInv

LEMMA DoPauseKeeps ==
  ASSUME IInv, NEW v \in Views, DoPause(v)
  PROVE  IInv'
  <1>1. /\ UNCHANGED Elsewhere /\ UNCHANGED <<mOnErrorListener, mPause, current, wakeUps, crashed>>
        /\ pc[v] = "top" /\ mPause[v]
        /\ mIn' = [mIn EXCEPT ![v] = None] /\ pc' = [pc EXCEPT ![v] = "error"]
    BY DEF DoPause
  <1>2. DrawingOK'
    BY <1>1, AsideKeeps DEF DrawingOK, MaybePlayer, fields, drawing
  <1>3. TypeOK'
    BY <1>1, <1>2, AsideTyped
  <1>4. RunningIsConfigured'
    BY <1>1, AsideKeeps DEF IInv, DrawingOK, RunningIsConfigured, Notified, Stopped, fields, drawing
  <1>5. ListenersHold'
    BY <1>1, AsideKeeps DEF IInv, DrawingOK, ListenersHold, fields, drawing
  <1>6. (Notified => Stopped)'
    BY <1>1, AsideKeeps DEF IInv, DrawingOK, Stopped, Running, Notified, fields, drawing
  <1>7. JobPlace'
    BY <1>1, AsideKeeps DEF IInv, DrawingOK, JobPlace, fields, drawing
  <1>8. (Notified => JobUndisturbed)'
    BY <1>1, AsideKeeps DEF IInv, DrawingOK, JobUndisturbed, JobPlace, Running, Notified, fields, drawing
  <1>9. QED BY <1>1, <1>3, <1>4, <1>5, <1>6, <1>7, <1>8, AsideKeeps DEF IInv

LEMMA CallOnErrorKeeps ==
  ASSUME IInv, NEW v \in Views, CallOnError(v)
  PROVE  IInv'
  <1>1. /\ UNCHANGED Elsewhere /\ UNCHANGED <<fields, wakeUps>> /\ mPause' = mPause
        /\ pc[v] = "error"
        /\ \/ crashed' = "null" /\ UNCHANGED drawing /\ mOnErrorListener[v] = None
           \/ /\ mOnErrorListener[v] # None
              /\ current' = [current EXCEPT ![v] = mOnErrorListener[v]]
              /\ pc' = [pc EXCEPT ![v] = "finish"]
              /\ UNCHANGED crashed
    BY DEF CallOnError, fields
  <1>2. Notified => mOnErrorListener[v] # None
    BY <1>1 DEF IInv, RunningIsConfigured
  <1>3. DrawingOK'
    BY <1>1, AsideKeeps DEF DrawingOK, MaybePlayer, fields, drawing
  <1>4. TypeOK'
    BY <1>1, <1>3, AsideTyped
  <1>5. RunningIsConfigured'
    BY <1>1, <1>2, AsideKeeps DEF IInv, DrawingOK, RunningIsConfigured, ListenersHold, Notified, Stopped, fields, drawing
  <1>6. ListenersHold'
    BY <1>1, AsideKeeps DEF IInv, DrawingOK, ListenersHold, fields, drawing
  <1>7. (Notified => Stopped)'
    <2>1. CASE UNCHANGED drawing
      BY <1>1, <2>1, AsideKeeps DEF IInv, Stopped, Running, Notified, fields, drawing
    <2>2. CASE ~UNCHANGED drawing
      BY <1>1, <2>2, AsideKeeps DEF IInv, DrawingOK, SchedulerOK, Stopped, Running, Notified, fields, drawing
    <2>3. QED BY <2>1, <2>2
  <1>8. JobPlace'
    BY <1>1, AsideKeeps DEF IInv, DrawingOK, JobPlace, fields, drawing
  <1>9. (Notified => JobUndisturbed)'
    BY <1>1, <1>2, AsideKeeps DEF IInv, DrawingOK, JobUndisturbed, JobPlace, Running, Notified, fields, drawing
  <1>10. QED BY <1>1, <1>4, <1>5, <1>6, <1>7, <1>8, <1>9, AsideKeeps DEF IInv

LEMMA ClearListenerKeeps ==
  ASSUME IInv, NEW v \in Views, ClearListener(v)
  PROVE  IInv'
  <1>1. /\ UNCHANGED Elsewhere /\ UNCHANGED <<mIn, mPause, current, wakeUps, crashed>>
        /\ pc[v] = "clear"
        /\ mOnErrorListener' = [mOnErrorListener EXCEPT ![v] = None]
        /\ pc' = [pc EXCEPT ![v] = "nosignal"]
    BY DEF ClearListener
  <1>2. DrawingOK'
    BY <1>1, AsideKeeps DEF DrawingOK, MaybePlayer, fields, drawing
  <1>3. TypeOK'
    BY <1>1, <1>2, AsideTyped
  <1>4. RunningIsConfigured'
    BY <1>1, AsideKeeps DEF IInv, DrawingOK, RunningIsConfigured, Notified, Stopped, fields, drawing
  <1>5. ListenersHold'
    BY <1>1, AsideKeeps DEF IInv, DrawingOK, ListenersHold, fields, drawing
  <1>6. (Notified => Stopped)'
    BY <1>1, AsideKeeps DEF IInv, DrawingOK, Stopped, Running, Notified, fields, drawing
  <1>7. JobPlace'
    BY <1>1, AsideKeeps DEF IInv, DrawingOK, JobPlace, fields, drawing
  <1>8. (Notified => JobUndisturbed)'
    BY <1>1, AsideKeeps DEF IInv, DrawingOK, JobUndisturbed, JobPlace, Running, Notified, fields, drawing
  <1>9. QED BY <1>1, <1>3, <1>4, <1>5, <1>6, <1>7, <1>8, AsideKeeps DEF IInv

LEMMA EnterWaitKeeps ==
  ASSUME IInv, NEW v \in Views, EnterWait(v)
  PROVE  IInv'
  <1>1. /\ UNCHANGED Elsewhere /\ UNCHANGED <<fields, current, wakeUps, crashed>> /\ mPause' = mPause
        /\ pc[v] = "nosignal" /\ pc' = [pc EXCEPT ![v] = "wait"]
    BY DEF EnterWait, fields
  <1>2. DrawingOK'
    BY <1>1, AsideKeeps DEF DrawingOK, MaybePlayer, fields, drawing
  <1>3. TypeOK'
    BY <1>1, <1>2, AsideTyped
  <1>4. RunningIsConfigured'
    BY <1>1, AsideKeeps DEF IInv, DrawingOK, RunningIsConfigured, Notified, Stopped, fields, drawing
  <1>5. ListenersHold'
    BY <1>1, AsideKeeps DEF IInv, DrawingOK, ListenersHold, fields, drawing
  <1>6. (Notified => Stopped)'
    BY <1>1, AsideKeeps DEF IInv, DrawingOK, Stopped, Running, Notified, fields, drawing
  <1>7. JobPlace'
    BY <1>1, AsideKeeps DEF IInv, DrawingOK, JobPlace, fields, drawing
  <1>8. (Notified => JobUndisturbed)'
    BY <1>1, AsideKeeps DEF IInv, DrawingOK, JobUndisturbed, JobPlace, Running, Notified, fields, drawing
  <1>9. QED BY <1>1, <1>3, <1>4, <1>5, <1>6, <1>7, <1>8, AsideKeeps DEF IInv

LEMMA WakeUpKeeps ==
  ASSUME IInv, NEW v \in Views, WakeUp(v)
  PROVE  IInv'
  <1>1. /\ UNCHANGED Elsewhere /\ UNCHANGED <<fields, current, crashed>> /\ mPause' = mPause
        /\ pc[v] = "wait" /\ pc' = [pc EXCEPT ![v] = "top"]
        /\ wakeUps < MaxWakeUps /\ wakeUps' = wakeUps + 1
    BY DEF WakeUp, fields
  <1>2. wakeUps \in 0..MaxWakeUps /\ wakeUps' \in 0..MaxWakeUps /\ ~Notified'
    BY <1>1, AsideKeeps, ConstantFacts DEF DrawingOK, Notified
  <1>3. DrawingOK'
    BY <1>1, <1>2, AsideKeeps DEF DrawingOK, fields
  <1>4. TypeOK'
    BY <1>1, <1>2, <1>3, AsideTyped
  <1>5. RunningIsConfigured'
    BY <1>1, <1>2, AsideKeeps DEF IInv, DrawingOK, RunningIsConfigured, Notified, Stopped, fields, drawing
  <1>6. ListenersHold'
    BY <1>1, <1>2, AsideKeeps DEF IInv, DrawingOK, ListenersHold, fields, drawing
  <1>7. (Notified => Stopped)'
    BY <1>2
  <1>8. JobPlace'
    BY <1>1, <1>2, AsideKeeps DEF IInv, DrawingOK, JobPlace, fields, drawing
  <1>9. (Notified => JobUndisturbed)'
    BY <1>2
  <1>10. QED BY <1>1, <1>4, <1>5, <1>6, <1>7, <1>8, <1>9, AsideKeeps DEF IInv

-----------------------------------------------------------------------------
(* The UI thread.                                                          *)

\* A step that leaves the scheduler, the views and the drawing threads alone.
Offstage == UNCHANGED <<created, rid, streamMap, lock, scheduler, job, fields, drawing, crashed,
                        history>>

LEMMA OffstageKeeps ==
  ASSUME IInv, Offstage,
         \A p \in Players : rcvReleased[p] => rcvReleased'[p]
  PROVE  /\ ProxyOK /\ SchedulerOK /\ FlagsOK /\ DrawingOK
         /\ SchedulerOK' /\ DrawingOK'
         /\ ViewsConserved' /\ TableMatchesScheduler'
         /\ RunningIsConfigured' /\ ListenersHold' /\ (Notified => Stopped)'
         /\ JobPlace' /\ (Notified => JobUndisturbed)'
         /\ UNCHANGED <<created, rid, streamMap, lock, crashed, mPause, early, evicted>>
  <1> USE DEF Offstage
  <1>1. ProxyOK /\ SchedulerOK /\ FlagsOK /\ DrawingOK
    BY TypeParts DEF IInv
  <1>2. SchedulerOK' /\ DrawingOK'
    BY <1>1 DEF SchedulerOK, DrawingOK, scheduler, fields, drawing, history
  <1>3. ViewsConserved' /\ TableMatchesScheduler'
    BY ViewsKept, TableKept DEF IInv, scheduler
  <1>4. RunningIsConfigured' /\ ListenersHold'
    BY DEF IInv, RunningIsConfigured, ListenersHold, Notified, drawing, fields, scheduler, history
  <1>5. (Notified => Stopped)'
    <2>1. Notified => \A v \in Views : pc[v] \in {"top", "read", "error"} => mOnErrorListener[v] \in Players
      BY <1>1 DEF IInv, RunningIsConfigured, DrawingOK, MaybePlayer
    <2>2. \A v \in Views : pc[v] = "finish" => current[v] \in Players
      BY <1>1 DEF IInv, RunningIsConfigured, DrawingOK, MaybePlayer
    <2>3. QED BY <2>1, <2>2 DEF IInv, Stopped, Running, Notified, drawing, fields, scheduler, history
  <1>6. JobPlace' /\ (Notified => JobUndisturbed)'
    BY JobKept DEF IInv, scheduler, fields, drawing, history
  <1>7. QED BY <1>1, <1>2, <1>3, <1>4, <1>5, <1>6 DEF fields, history

LEMMA OffstageTyped ==
  ASSUME IInv, Offstage, \A p \in Players : rcvReleased[p] => rcvReleased'[p],
         ProxyOK', control' \in BOOLEAN,
         \/ UNCHANGED <<rcvReleased, mReceive>>
         \/ \E p : /\ rcvReleased' = [rcvReleased EXCEPT ![p] = TRUE]
                   /\ mReceive' = [mReceive EXCEPT ![p] = FALSE]
  PROVE  TypeOK'
  <1>1. FlagsOK /\ SchedulerOK' /\ DrawingOK' /\ UNCHANGED <<mPause, early>>
    BY OffstageKeeps
  <1>2. FlagsOK'
    BY <1>1, Zenon DEF FlagsOK
  <1>3. QED BY <1>1, <1>2, TypePartsNext

\* The players in the table are players, each under its own stream; one
\* neither released nor evicted is in the table.
LEMMA TableFacts ==
  ASSUME IInv
  PROVE  /\ TablePlayers \subseteq Players
         /\ \A p \in TablePlayers : p \in Born /\ rid[p] \in Streams /\ streamMap[rid[p]] = p
         /\ \A p \in Born : p \in Players /\ rid[p] \in Streams
         /\ \A p \in Born : (~rcvReleased[p] /\ p \notin evicted) => p \in TablePlayers
         /\ allPlayer = TablePlayers
  <1>1. ProxyOK
    BY TypeParts DEF IInv
  <1>2. Born \subseteq Players
    BY <1>1, ConstantFacts DEF Born, ProxyOK
  <1>3. \A p \in TablePlayers :
          \E s \in Streams : streamMap[s] = p /\ p # None /\ p \in Born /\ rid[p] = s
    BY DEF TablePlayers, IInv, TableMatchesScheduler, TablesName
  <1>4. \A p \in Born : p \in Players /\ rid[p] \in Streams
    BY <1>2 DEF IInv, TablesName
  <1>5. \A p \in Born : (~rcvReleased[p] /\ p \notin evicted) => p \in TablePlayers
    BY <1>2, <1>4, ConstantFacts DEF IInv, NoneForgotten, TablePlayers
  <1>6. QED BY <1>2, <1>3, <1>4, <1>5 DEF IInv, TableMatchesScheduler

LEMMA StartReceivingKeeps ==
  ASSUME IInv, StartReceiving
  PROVE  IInv'
  <1>1. /\ Offstage /\ UNCHANGED <<handler, rcvReleased, mReceive, dispatch, playerList, releasing>>
        /\ ui = "off" /\ ui' = "on" /\ control' = TRUE
    BY TypeParts DEF StartReceiving, CanEnter, Offstage, proxy, receivers, IInv, ProxyOK
  <1>2. TypeOK'
    <2>1. ProxyOK'
      BY <1>1, OffstageKeeps DEF ProxyOK, dispatch
    <2>2. control' \in BOOLEAN
      BY <1>1, OffstageKeeps, Zenon DEF FlagsOK
    <2>3. QED BY <1>1, <2>1, <2>2, OffstageTyped
  <1>3. LiveIsRegistered' /\ ReleasedIsDeaf' /\ EventPlace'
    BY <1>1, OffstageKeeps DEF IInv, LiveIsRegistered, ReleasedIsDeaf, Unregistering, EventPlace, dispatch
  <1>4. TablesName'
    BY <1>1, OffstageKeeps DEF IInv, TablesName, Born
  <1>5. NoneForgotten'
    BY <1>1, OffstageKeeps DEF IInv, NoneForgotten, Born, Ending
  <1>6. SwitchPlace'
    BY <1>1, OffstageKeeps DEF IInv, SwitchPlace, Ending
  <1>7. QED BY <1>1, <1>2, <1>3, <1>4, <1>5, <1>6, OffstageKeeps DEF IInv

LEMMA UnsubscribeScopeKeeps ==
  ASSUME IInv, UnsubscribeScope
  PROVE  IInv'
  <1>1. /\ Offstage /\ UNCHANGED <<handler, rcvReleased, mReceive, dispatch, playerList, releasing>>
        /\ ui = "on" /\ ui' = "unsubscribe" /\ control' = control
    BY TypeParts DEF UnsubscribeScope, CanEnter, Offstage, proxy, receivers, IInv, ProxyOK
  <1>2. TypeOK'
    <2>1. ProxyOK'
      BY <1>1, OffstageKeeps DEF ProxyOK, dispatch
    <2>2. control' \in BOOLEAN
      BY <1>1, OffstageKeeps, Zenon DEF FlagsOK
    <2>3. QED BY <1>1, <2>1, <2>2, OffstageTyped
  <1>3. LiveIsRegistered' /\ ReleasedIsDeaf' /\ EventPlace'
    BY <1>1, OffstageKeeps DEF IInv, LiveIsRegistered, ReleasedIsDeaf, Unregistering, EventPlace, dispatch
  <1>4. TablesName'
    BY <1>1, OffstageKeeps DEF IInv, TablesName, Born
  <1>5. NoneForgotten'
    BY <1>1, OffstageKeeps DEF IInv, NoneForgotten, Born, Ending
  <1>6. SwitchPlace'
    BY <1>1, OffstageKeeps DEF IInv, SwitchPlace, Ending
  <1>7. QED BY <1>1, <1>2, <1>3, <1>4, <1>5, <1>6, OffstageKeeps DEF IInv

LEMMA UnregisterControlKeeps ==
  ASSUME IInv, UnregisterControl
  PROVE  IInv'
  <1>1. /\ Offstage /\ UNCHANGED <<handler, rcvReleased, mReceive, dispatch, playerList, releasing>>
        /\ ui = "unsubscribe" /\ ui' = "list" /\ control' = FALSE /\ controlLock = "none"
    BY TypeParts DEF UnregisterControl, CanEnter, Offstage, proxy, receivers, IInv, ProxyOK
  <1>2. TypeOK'
    <2>1. ProxyOK'
      BY <1>1, OffstageKeeps DEF ProxyOK, dispatch
    <2>2. control' \in BOOLEAN
      BY <1>1, OffstageKeeps, Zenon DEF FlagsOK
    <2>3. QED BY <1>1, <2>1, <2>2, OffstageTyped
  <1>3. LiveIsRegistered' /\ ReleasedIsDeaf' /\ EventPlace'
    BY <1>1, OffstageKeeps DEF IInv, LiveIsRegistered, ReleasedIsDeaf, Unregistering, EventPlace, dispatch
  <1>4. TablesName'
    BY <1>1, OffstageKeeps DEF IInv, TablesName, Born
  <1>5. NoneForgotten'
    BY <1>1, OffstageKeeps DEF IInv, NoneForgotten, Born, Ending
  <1>6. SwitchPlace'
    BY <1>1, OffstageKeeps DEF IInv, SwitchPlace, Ending
  <1>7. QED BY <1>1, <1>2, <1>3, <1>4, <1>5, <1>6, OffstageKeeps DEF IInv

LEMMA StopReceivingKeeps ==
  ASSUME IInv, StopReceiving
  PROVE  IInv'
  <1>1. /\ Offstage /\ UNCHANGED <<handler, rcvReleased, mReceive, dispatch, playerList, releasing>>
        /\ ui = "release" /\ ui' = "off" /\ playerList = {} /\ control' = control
    BY TypeParts DEF StopReceiving, CanEnter, Offstage, proxy, receivers, IInv, ProxyOK
  <1>2. TypeOK'
    <2>1. ProxyOK'
      BY <1>1, OffstageKeeps DEF ProxyOK, dispatch
    <2>2. control' \in BOOLEAN
      BY <1>1, OffstageKeeps, Zenon DEF FlagsOK
    <2>3. QED BY <1>1, <2>1, <2>2, OffstageTyped
  <1>3. LiveIsRegistered' /\ ReleasedIsDeaf' /\ EventPlace'
    BY <1>1, OffstageKeeps DEF IInv, LiveIsRegistered, ReleasedIsDeaf, Unregistering, EventPlace, dispatch
  <1>4. TablesName'
    BY <1>1, OffstageKeeps DEF IInv, TablesName, Born
  <1>5. releasing = None /\ controlLock # "cb"
    BY <1>1 DEF IInv, SwitchPlace, EventPlace
  <1>6. NoneForgotten'
    <2>1. \A p \in Born : rcvReleased[p] \/ p \in evicted
      BY <1>1, <1>5, ConstantFacts, TableFacts DEF IInv, NoneForgotten, Ending
    <2>2. QED BY <1>1, <2>1, OffstageKeeps DEF NoneForgotten, Born
  <1>7. SwitchPlace'
    BY <1>1, <1>5, OffstageKeeps, ConstantFacts DEF IInv, SwitchPlace, Ending
  <1>8. QED BY <1>1, <1>2, <1>3, <1>4, <1>6, <1>7, OffstageKeeps DEF IInv

LEMMA ListPlayersKeeps ==
  ASSUME IInv, ListPlayers
  PROVE  IInv'
  <1>1. /\ Offstage /\ UNCHANGED <<control, handler, rcvReleased, mReceive, dispatch, releasing>>
        /\ ui = "list" /\ ui' = "release" /\ playerList' = TablePlayers
    BY TypeParts DEF ListPlayers, CanEnter, Offstage, receivers, proxy, IInv, ProxyOK
  <1>2. TypeOK'
    <2>1. ProxyOK'
      BY <1>1, OffstageKeeps, TableFacts DEF ProxyOK, dispatch
    <2>2. control' \in BOOLEAN
      BY <1>1, OffstageKeeps, Zenon DEF FlagsOK
    <2>3. QED BY <1>1, <2>1, <2>2, OffstageTyped
  <1>3. LiveIsRegistered' /\ ReleasedIsDeaf' /\ EventPlace'
    BY <1>1, OffstageKeeps DEF IInv, LiveIsRegistered, ReleasedIsDeaf, Unregistering, EventPlace, dispatch
  <1>4. TablesName'
    BY <1>1, OffstageKeeps, TableFacts DEF IInv, TablesName, Born
  <1>5. NoneForgotten'
    BY <1>1, OffstageKeeps, TableFacts DEF IInv, NoneForgotten, Born, Ending
  <1>6. SwitchPlace'
    <2>1. releasing = None /\ ~control
      BY <1>1 DEF IInv, SwitchPlace
    <2>2. \A p \in Players : (p \in playerList' \/ p = releasing') => streamMap'[rid'[p]] = p
      BY <1>1, <2>1, OffstageKeeps, TableFacts, ConstantFacts
    <2>3. QED BY <1>1, <2>1, <2>2 DEF SwitchPlace, Ending
  <1>7. QED BY <1>1, <1>2, <1>3, <1>4, <1>5, <1>6, OffstageKeeps DEF IInv

LEMMA ReleasePlayerKeeps ==
  ASSUME IInv, NEW p \in Players, ReleasePlayer(p)
  PROVE  IInv'
  <1>1. /\ Offstage /\ UNCHANGED <<control, handler, rcvReleased, mReceive, dispatch>>
        /\ ui = "release" /\ p \in playerList /\ playerList' = playerList \ {p}
        /\ \/ rcvReleased[p] /\ ui' = ui /\ releasing' = releasing
           \/ ~rcvReleased[p] /\ ui' = "mark" /\ releasing' = p
    BY DEF ReleasePlayer, AlreadyReleased, Offstage, receivers, proxy
  <1>2. TypeOK'
    <2>1. ProxyOK'
      BY <1>1, OffstageKeeps DEF ProxyOK, MaybePlayer, dispatch
    <2>2. control' \in BOOLEAN
      BY <1>1, OffstageKeeps, Zenon DEF FlagsOK
    <2>3. QED BY <1>1, <2>1, <2>2, OffstageTyped
  <1>3. LiveIsRegistered' /\ ReleasedIsDeaf' /\ EventPlace'
    BY <1>1, OffstageKeeps DEF IInv, LiveIsRegistered, ReleasedIsDeaf, Unregistering, EventPlace, dispatch
  <1>4. TablesName'
    BY <1>1, OffstageKeeps DEF IInv, TablesName, Born
  <1>5. releasing = None
    BY <1>1 DEF IInv, SwitchPlace
  <1>6. NoneForgotten'
    BY <1>1, <1>5, OffstageKeeps, ConstantFacts, TableFacts DEF IInv, NoneForgotten, Born, Ending
  <1>7. SwitchPlace'
    BY <1>1, <1>5, OffstageKeeps, ConstantFacts DEF IInv, SwitchPlace, Ending
  <1>8. QED BY <1>1, <1>2, <1>3, <1>4, <1>6, <1>7, OffstageKeeps DEF IInv

LEMMA MarkReleasedKeeps ==
  ASSUME IInv, MarkReleased
  PROVE  IInv'
  <1>1. /\ Offstage /\ UNCHANGED <<control, handler, playerList, releasing, dispatch>>
        /\ ui = "mark" /\ ui' = "unregister"
        /\ rcvReleased' = [rcvReleased EXCEPT ![releasing] = TRUE]
        /\ mReceive' = [mReceive EXCEPT ![releasing] = FALSE]
    BY DEF MarkReleased, Offstage, proxy
  <1>2. releasing \in Players /\ releasing \in Born
    BY <1>1, TableFacts DEF IInv, SwitchPlace, TablesName
  <1>3. FlagsOK /\ ProxyOK
    BY TypeParts DEF IInv
  <1>4. /\ \A p \in Players : p # releasing => (rcvReleased'[p] <=> rcvReleased[p])
        /\ rcvReleased'[releasing]
    BY <1>1, <1>2, <1>3 DEF FlagsOK
  <1>5. \A p \in Players : rcvReleased[p] => rcvReleased'[p]
    BY <1>4
  <1>6. TypeOK'
    <2>1. ProxyOK'
      BY <1>1, <1>5, OffstageKeeps DEF ProxyOK, dispatch
    <2>2. control' \in BOOLEAN
      BY <1>1, <1>3, Zenon DEF FlagsOK
    <2>3. QED BY <1>1, <1>5, <2>1, <2>2, OffstageTyped
  <1>7. \A s \in Streams : streamMap[s] \in MaybePlayer /\ handler[s] \in MaybePlayer
    BY <1>3 DEF ProxyOK
  <1>8. LiveIsRegistered' /\ ReleasedIsDeaf'
    BY <1>1, <1>4, <1>5, <1>7, OffstageKeeps
    DEF IInv, LiveIsRegistered, ReleasedIsDeaf, Unregistering, MaybePlayer, dispatch
  <1>9. EventPlace'
    <2>1. dataLock = "cb" => event \in Streams
      BY <1>3 DEF IInv, EventPlace, ProxyOK
    <2>2. QED BY <1>1, <1>5, <1>7, <2>1, OffstageKeeps DEF IInv, EventPlace, MaybePlayer, SwitchPlace, dispatch
  <1>10. TablesName'
    BY <1>1, <1>2, <1>4, <1>5, OffstageKeeps DEF IInv, TablesName, Born
  <1>11. NoneForgotten'
    BY <1>1, <1>4, <1>5, OffstageKeeps, TableFacts DEF IInv, NoneForgotten, Born, Ending
  <1>12. SwitchPlace'
    BY <1>1, <1>4, <1>5, OffstageKeeps DEF IInv, SwitchPlace, Ending
  <1>13. QED BY <1>1, <1>5, <1>6, <1>8, <1>9, <1>10, <1>11, <1>12, OffstageKeeps DEF IInv

LEMMA UnregisterDataKeeps ==
  ASSUME IInv, UnregisterData
  PROVE  IInv'
  <1>1. /\ Offstage /\ UNCHANGED <<control, rcvReleased, mReceive, playerList, dispatch>>
        /\ ui = "unregister" /\ ui' = "release" /\ releasing' = None /\ dataLock = "none"
        /\ handler' = [handler EXCEPT ![rid[releasing]] = None]
    BY TypeParts DEF UnregisterData, CanEnter, Offstage, proxy, IInv, ProxyOK
  <1>2. /\ releasing \in Players /\ rid[releasing] \in Streams
        /\ rcvReleased[releasing]
        /\ streamMap[rid[releasing]] \in {releasing, None}
    BY <1>1, TableFacts DEF IInv, SwitchPlace, TablesName
  <1>3. /\ \A s \in Streams : s # rid[releasing] => handler'[s] = handler[s]
        /\ handler'[rid[releasing]] = None
        /\ handler' \in [Streams -> MaybePlayer]
    BY <1>1, <1>2, TypeParts DEF IInv, ProxyOK, MaybePlayer
  <1>4. TypeOK'
    <2>1. ProxyOK'
      BY <1>1, <1>3, OffstageKeeps DEF ProxyOK, MaybePlayer, dispatch
    <2>2. control' \in BOOLEAN
      BY <1>1, OffstageKeeps, Zenon DEF FlagsOK
    <2>3. QED BY <1>1, <2>1, <2>2, OffstageTyped
  <1>5. LiveIsRegistered' /\ ReleasedIsDeaf'
    BY <1>1, <1>2, <1>3, OffstageKeeps
    DEF IInv, LiveIsRegistered, ReleasedIsDeaf, Unregistering, TablesName, dispatch
  <1>6. EventPlace'
    BY <1>1, OffstageKeeps DEF IInv, EventPlace, dispatch
  <1>7. TablesName'
    BY <1>1, <1>3, OffstageKeeps DEF IInv, TablesName, Born
  <1>8. NoneForgotten'
    BY <1>1, <1>2, OffstageKeeps, TableFacts DEF IInv, NoneForgotten, Born, Ending
  <1>9. SwitchPlace'
    BY <1>1, OffstageKeeps, ConstantFacts DEF IInv, SwitchPlace, Ending
  <1>10. QED BY <1>1, <1>4, <1>5, <1>6, <1>7, <1>8, <1>9, OffstageKeeps DEF IInv

-----------------------------------------------------------------------------
(* The event thread.                                                       *)

LEMMA DispatchKeeps ==
  ASSUME IInv, NEW s \in Streams, Dispatch(s)
  PROVE  IInv'
  <1>1. /\ Offstage /\ UNCHANGED <<control, handler, rcvReleased, mReceive, uiVars, dataLock>>
        /\ control /\ dataLock = "none" /\ controlLock' = "cb" /\ event' = s
        /\ created < MaxPlayers
    BY DEF Dispatch, Offstage, proxy, receivers, IInv, EventPlace
  <1>2. TypeOK'
    <2>1. ProxyOK'
      BY <1>1, OffstageKeeps DEF ProxyOK, uiVars
    <2>2. control' \in BOOLEAN
      BY <1>1, OffstageKeeps, Zenon DEF FlagsOK
    <2>3. QED BY <1>1, <2>1, <2>2, OffstageTyped
  <1>3. LiveIsRegistered' /\ ReleasedIsDeaf'
    BY <1>1, OffstageKeeps DEF IInv, LiveIsRegistered, ReleasedIsDeaf, Unregistering, uiVars
  <1>4. EventPlace'
    BY <1>1, OffstageKeeps, ConstantFacts DEF IInv, EventPlace, SwitchPlace, uiVars
  <1>5. TablesName' /\ SwitchPlace' /\ NoneForgotten'
    BY <1>1, PlacesKept, OffstageKeeps DEF IInv
  <1>6. QED BY <1>1, <1>2, <1>3, <1>4, <1>5, OffstageKeeps DEF IInv

LEMMA KnownStreamKeeps ==
  ASSUME IInv, KnownStream
  PROVE  IInv'
  <1>1. /\ Offstage /\ UNCHANGED <<control, handler, rcvReleased, mReceive, uiVars, dataLock>>
        /\ controlLock = "cb" /\ lock = "none" /\ dataLock = "none"
        /\ controlLock' = "none" /\ event' = None
    BY DEF KnownStream, LeaveNewData, Offstage, proxy, receivers, IInv, EventPlace
  <1>2. TypeOK'
    <2>1. ProxyOK'
      BY <1>1, OffstageKeeps DEF ProxyOK, uiVars
    <2>2. control' \in BOOLEAN
      BY <1>1, OffstageKeeps, Zenon DEF FlagsOK
    <2>3. QED BY <1>1, <2>1, <2>2, OffstageTyped
  <1>3. LiveIsRegistered' /\ ReleasedIsDeaf'
    BY <1>1, OffstageKeeps DEF IInv, LiveIsRegistered, ReleasedIsDeaf, Unregistering, uiVars
  <1>4. EventPlace'
    BY <1>1, OffstageKeeps DEF EventPlace
  <1>5. TablesName' /\ SwitchPlace' /\ NoneForgotten'
    BY <1>1, PlacesKept, OffstageKeeps DEF IInv
  <1>6. QED BY <1>1, <1>2, <1>3, <1>4, <1>5, OffstageKeeps DEF IInv

LEMMA FinArrivesKeeps ==
  ASSUME IInv, NEW s \in Streams, FinArrives(s)
  PROVE  IInv'
  <1> DEFINE h == handler[s]
  <1>1. /\ Offstage /\ UNCHANGED <<control, handler, uiVars, controlLock>>
        /\ h # None /\ controlLock = "none" /\ dataLock = "none" /\ dataLock' = "cb" /\ event' = s
        /\ rcvReleased' = [rcvReleased EXCEPT ![h] = TRUE]
        /\ mReceive' = [mReceive EXCEPT ![h] = FALSE]
    BY DEF FinArrives, Offstage, proxy, IInv, EventPlace
  <1>2. h \in Players /\ h \in Born /\ rid[h] = s
    BY <1>1, TableFacts DEF IInv, TablesName
  <1>3. handler[s] = h
    OBVIOUS
  <1> HIDE DEF h
  <1>4. FlagsOK /\ ProxyOK
    BY TypeParts DEF IInv
  <1>5. /\ \A p \in Players : p # h => (rcvReleased'[p] <=> rcvReleased[p])
        /\ rcvReleased'[h]
    BY <1>1, <1>2, <1>4 DEF FlagsOK
  <1>6. \A p \in Players : rcvReleased[p] => rcvReleased'[p]
    BY <1>5
  <1>7. TypeOK'
    <2>1. ProxyOK'
      BY <1>1, <1>6, OffstageKeeps DEF ProxyOK, uiVars
    <2>2. control' \in BOOLEAN
      BY <1>1, <1>4, Zenon DEF FlagsOK
    <2>3. QED BY <1>1, <1>6, <2>1, <2>2, OffstageTyped
  <1>8. \A t \in Streams : streamMap[t] \in MaybePlayer /\ handler[t] \in MaybePlayer
    BY <1>4 DEF ProxyOK
  <1>9. LiveIsRegistered' /\ ReleasedIsDeaf' /\ EventPlace'
    <2>1. LiveIsRegistered'
      BY <1>1, <1>5, <1>6, <1>8, OffstageKeeps DEF IInv, LiveIsRegistered, MaybePlayer
    <2>2. ReleasedIsDeaf'
      BY <1>1, <1>3, <1>5, <1>8, OffstageKeeps
      DEF IInv, ReleasedIsDeaf, Unregistering, MaybePlayer, uiVars
    <2>3. EventPlace'
      BY <1>1, <1>3, <1>5, <1>6, OffstageKeeps, ConstantFacts DEF IInv, EventPlace
    <2>4. QED BY <2>1, <2>2, <2>3
  <1>10. TablesName'
    BY <1>1, <1>2, <1>5, <1>6, OffstageKeeps DEF IInv, TablesName, Born, uiVars
  <1>11. NoneForgotten'
    BY <1>1, <1>5, <1>6, OffstageKeeps, TableFacts DEF IInv, NoneForgotten, Born, Ending, uiVars
  <1>12. SwitchPlace'
    <2>1. UNCHANGED <<control, ui, playerList, releasing, streamMap, rid>>
      BY <1>1, <1>6, OffstageKeeps DEF uiVars
    <2>2. ui = "unregister" => rcvReleased'[releasing]
      BY <1>6, <2>1, TableFacts DEF IInv, SwitchPlace, TablesName
    <2>3. QED BY <2>1, <2>2 DEF IInv, SwitchPlace, Ending
  <1>13. QED BY <1>1, <1>6, <1>7, <1>9, <1>10, <1>11, <1>12, OffstageKeeps DEF IInv

LEMMA FinUnregistersKeeps ==
  ASSUME IInv, FinUnregisters
  PROVE  IInv'
  <1>1. /\ Offstage /\ UNCHANGED <<control, rcvReleased, mReceive, uiVars, controlLock>>
        /\ dataLock = "cb" /\ controlLock = "none" /\ dataLock' = "none" /\ event' = None
        /\ handler' = [handler EXCEPT ![event] = None]
        /\ handler[event] # None /\ rcvReleased[handler[event]] /\ event # None
    BY DEF FinUnregisters, Offstage, proxy, IInv, EventPlace
  <1>2. ProxyOK
    BY TypeParts DEF IInv
  <1>3. /\ event \in Streams /\ handler'[event] = None
        /\ \A t \in Streams : t # event => handler'[t] = handler[t]
        /\ handler' \in [Streams -> MaybePlayer]
    BY <1>1, <1>2 DEF ProxyOK, MaybePlayer
  <1>4. TypeOK'
    <2>1. ProxyOK'
      BY <1>1, <1>3, OffstageKeeps DEF ProxyOK, uiVars
    <2>2. control' \in BOOLEAN
      BY <1>1, OffstageKeeps, Zenon DEF FlagsOK
    <2>3. QED BY <1>1, <2>1, <2>2, OffstageTyped
  <1>5. LiveIsRegistered' /\ ReleasedIsDeaf' /\ EventPlace'
    <2>1. LiveIsRegistered'
      BY <1>1, <1>3, OffstageKeeps DEF IInv, LiveIsRegistered
    <2>2. ReleasedIsDeaf'
      <3>1. \A t \in Streams : (t # event /\ handler[t] # None) => handler[t] # handler[event]
        BY <1>1, <1>3 DEF IInv, TablesName
      <3>2. QED BY <1>1, <1>3, <3>1, OffstageKeeps DEF IInv, ReleasedIsDeaf, Unregistering, uiVars
    <2>3. EventPlace'
      BY <1>1, OffstageKeeps DEF IInv, EventPlace, uiVars
    <2>4. QED BY <2>1, <2>2, <2>3
  <1>6. TablesName'
    BY <1>1, <1>3, OffstageKeeps DEF IInv, TablesName, Born, uiVars
  <1>7. NoneForgotten'
    BY <1>1, OffstageKeeps DEF IInv, NoneForgotten, Born, Ending, uiVars
  <1>8. SwitchPlace'
    BY <1>1, OffstageKeeps, Zenon DEF IInv, SwitchPlace, Ending, uiVars
  <1>9. QED BY <1>1, <1>4, <1>5, <1>6, <1>7, <1>8, OffstageKeeps DEF IInv

-----------------------------------------------------------------------------
(* newData(): a player arrives.                                            *)

\* The player newData() makes is new to every table, and either the least
\* free view goes to it or it joins the end of the queue.
Allocated(p, v) ==
  /\ v \in viewQueue /\ v \in Views
  /\ viewQueue' = viewQueue \ {v}
  /\ mView' = [mView EXCEPT ![p] = v]
  /\ lock' = "cb"
  /\ job' = [step |-> "source", player |-> p, view |-> v]
  /\ early' = (pc[v] = "clear")
  /\ waitQueue' = waitQueue
  /\ UNCHANGED <<controlLock, event>>

Queued(p) ==
  /\ viewQueue = {} /\ waitQueue' = Append(waitQueue, p)
  /\ controlLock' = "none" /\ event' = None
  /\ UNCHANGED <<viewQueue, mView, lock, job, early>>

Arrived(p, s) ==
  /\ controlLock = "cb" /\ dataLock = "none" /\ lock = "none" /\ streamMap[s] = None
  /\ ui \in {"on", "unsubscribe"}
  /\ p = created + 1 /\ p \in Players /\ p \notin Born /\ created' = p /\ Born' = Born \cup {p}
  /\ p \notin allPlayer /\ mView[p] = None /\ p \notin Waiting
  /\ rid' = [rid EXCEPT ![p] = s]
  /\ handler' = [handler EXCEPT ![s] = p]
  /\ streamMap' = [streamMap EXCEPT ![s] = p]
  /\ allPlayer' = allPlayer \cup {p}
  /\ UNCHANGED <<control, rcvReleased, mReceive, mIn, mOnErrorListener, mPause,
                 pc, current, ui, playerList, releasing, dataLock, crashed, wakeUps, evicted>>

LEMMA NewDataFacts ==
  ASSUME IInv, NEW s \in Streams, NewData(s)
  PROVE  /\ Arrived(created + 1, s)
         /\ (\E v \in Views : Allocated(created + 1, v)) \/ Queued(created + 1)
  <1> DEFINE p == created + 1
  <1>1. ProxyOK /\ SchedulerOK
    BY TypeParts DEF IInv
  <1>2. p \in Players /\ p \notin Born /\ (created' = p => Born' = Born \cup {p})
    BY <1>1, ConstantFacts DEF NewData, ProxyOK, Born, IInv, EventPlace
  <1>3. p \notin allPlayer
    BY <1>2, TableFacts
  <1>4. mView[p] = None /\ p \notin Waiting
    BY <1>2, <1>3 DEF IInv, ViewsConserved, Holders
  <1>5. AddStream(p)
    BY DEF NewData
  <1>6. Arrived(p, s)
    <2>1. controlLock = "cb" /\ dataLock = "none" /\ ui \in {"on", "unsubscribe"} /\ dataLock' = dataLock
      BY <1>5 DEF NewData, AddStream, LeaveNewData, dispatch, IInv, EventPlace
    <2>2. QED BY <1>2, <1>3, <1>4, <1>5, <2>1 DEF Arrived, NewData, AddStream, fields, drawing, uiVars
  <1>7. CASE viewQueue # {}
    <2>1. Least(viewQueue) \in viewQueue /\ Least(viewQueue) \in Views
      BY <1>1, <1>7, LeastView DEF SchedulerOK
    <2>2. Allocated(p, Least(viewQueue))
      BY <1>5, <1>7, <2>1 DEF AddStream, StartJob, Allocated, dispatch
    <2>3. QED BY <1>6, <2>1, <2>2
  <1>8. CASE viewQueue = {}
    BY <1>5, <1>6, <1>8 DEF AddStream, Queued, LeaveNewData
  <1>9. QED BY <1>7, <1>8

LEMMA NewDataTyped ==
  ASSUME IInv, NEW s \in Streams, NEW p, Arrived(p, s),
         (\E v \in Views : Allocated(p, v)) \/ Queued(p)
  PROVE  TypeOK'
  <1>1. ProxyOK /\ SchedulerOK /\ FlagsOK /\ DrawingOK
    BY TypeParts DEF IInv
  <1>2. FlagsOK'
    <2>1. early' \in BOOLEAN
      BY <1>1, Zenon DEF FlagsOK, Allocated, Queued
    <2>2. QED BY <1>1, <2>1, Zenon DEF FlagsOK, Arrived
  <1>3. DrawingOK'
    BY <1>1 DEF DrawingOK, Arrived
  <1>4. lock' \in {"none", "cb", "view"} /\ controlLock' \in {"none", "cb"} /\ event' \in Streams \cup {None}
    BY <1>1 DEF Allocated, Queued, ProxyOK
  <1>5. ProxyOK'
    BY <1>1, <1>4, ConstantFacts DEF ProxyOK, Arrived, MaybePlayer
  <1>6. SchedulerOK'
    <2>1. CASE Queued(p)
      <3>1. waitQueue \in Seq(Players) /\ p \in Players /\ waitQueue' = Append(waitQueue, p)
        BY <1>1, <2>1 DEF Queued, SchedulerOK, Arrived
      <3>2. waitQueue' \in Seq(Players)
        BY <3>1
      <3>3. allPlayer' = allPlayer \cup {p} /\ UNCHANGED <<viewQueue, mView, job>>
        BY <2>1 DEF Queued, Arrived
      <3>4. QED BY <1>1, <3>1, <3>2, <3>3 DEF SchedulerOK
    <2>2. ASSUME NEW v \in Views, Allocated(p, v)
          PROVE  SchedulerOK'
      BY <1>1, <2>2 DEF Allocated, SchedulerOK, Arrived, MaybePlayer
    <2>3. QED BY <2>1, <2>2
  <1>7. QED BY <1>2, <1>3, <1>5, <1>6, TypePartsNext

LEMMA NewDataViews ==
  ASSUME IInv, NEW s \in Streams, NEW p, Arrived(p, s),
         (\E v \in Views : Allocated(p, v)) \/ Queued(p)
  PROVE  ViewsConserved'
  <1>1. SchedulerOK
    BY TypeParts DEF IInv
  <1>2. p \in Players /\ mView[p] = None /\ p \notin Waiting /\ allPlayer' = allPlayer \cup {p}
    BY DEF Arrived
  <1>3. ASSUME NEW v \in Views, Allocated(p, v)
        PROVE  ViewsConserved'
    <2>1. /\ \A q \in Players : q # p => mView'[q] = mView[q]
          /\ mView'[p] = v /\ v # None
          /\ \A q \in Players : mView[q] # v
      BY <1>1, <1>2, <1>3, ConstantFacts DEF SchedulerOK, Allocated, IInv, ViewsConserved
    <2>2. Holders' = Holders \cup {p}
      BY <1>2, <2>1 DEF Holders
    <2>3. Waiting' = Waiting /\ waitQueue' = waitQueue /\ viewQueue' = viewQueue \ {v}
      BY <1>3 DEF Allocated, Waiting
    <2>4. \A w \in Views : w \in viewQueue' <=> \A q \in Players : mView'[q] # w
      <3>1. v \notin viewQueue' /\ ~(\A q \in Players : mView'[q] # v)
        BY <1>2, <2>1, <2>3
      <3>2. ASSUME NEW w \in Views, w # v
            PROVE  w \in viewQueue' <=> \A q \in Players : mView'[q] # w
        <4>1. (\A q \in Players : mView'[q] # w) <=> (\A q \in Players : mView[q] # w)
          BY <1>2, <2>1, <3>2, ConstantFacts
        <4>2. w \in viewQueue' <=> w \in viewQueue
          BY <2>3, <3>2
        <4>3. QED BY <4>1, <4>2 DEF IInv, ViewsConserved
      <3>3. QED BY <3>1, <3>2
    <2>5. \A q, r \in Holders' : mView'[q] = mView'[r] => q = r
      BY <1>2, <2>1, <2>2 DEF IInv, ViewsConserved, Holders
    <2>6. allPlayer' = Holders' \cup Waiting' /\ Waiting' \cap Holders' = {}
      BY <1>2, <2>2, <2>3 DEF IInv, ViewsConserved
    <2>7. waitQueue' # <<>> => viewQueue' = {}
      BY <2>3 DEF IInv, ViewsConserved
    <2>8. \A i, j \in DOMAIN waitQueue' : waitQueue'[i] = waitQueue'[j] => i = j
      BY <2>3 DEF IInv, ViewsConserved
    <2>9. QED BY <2>4, <2>5, <2>6, <2>7, <2>8 DEF ViewsConserved
  <1>4. CASE Queued(p)
    <2>1. /\ DOMAIN waitQueue = 1..Len(waitQueue) /\ Len(waitQueue) \in Nat
          /\ DOMAIN waitQueue' = 1..(Len(waitQueue) + 1)
          /\ waitQueue'[Len(waitQueue) + 1] = p
          /\ \A i \in DOMAIN waitQueue : waitQueue'[i] = waitQueue[i]
      BY <1>1, <1>2, <1>4 DEF SchedulerOK, Queued
    <2>2. \A i \in DOMAIN waitQueue : waitQueue[i] # p
      BY <1>2 DEF Waiting
    <2>3. \A i, j \in DOMAIN waitQueue' : waitQueue'[i] = waitQueue'[j] => i = j
      BY <2>1, <2>2 DEF IInv, ViewsConserved
    <2>4. Waiting' = Waiting \cup {p}
      BY <2>1 DEF Waiting
    <2>5. Holders' = Holders /\ viewQueue' = {} /\ viewQueue = {} /\ mView' = mView
      BY <1>4 DEF Holders, Queued
    <2>6. p \notin Holders
      BY <1>2 DEF Holders
    <2>7. QED BY <1>2, <2>3, <2>4, <2>5, <2>6 DEF IInv, ViewsConserved
  <1>5. QED BY <1>3, <1>4

LEMMA NewDataTables ==
  ASSUME IInv, NEW s \in Streams, NEW p, Arrived(p, s)
  PROVE  /\ TableMatchesScheduler' /\ LiveIsRegistered' /\ ReleasedIsDeaf'
         /\ TablesName' /\ SwitchPlace' /\ NoneForgotten'
  <1>1. ProxyOK /\ ui \in {"on", "unsubscribe"}
    BY TypeParts DEF IInv, Arrived
  <1>2. /\ p \in Players /\ p \notin Born /\ p # None /\ ~rcvReleased[p]
        /\ streamMap[s] = None /\ dataLock = "none"
        /\ UNCHANGED <<control, rcvReleased, ui, playerList, releasing, dataLock, evicted>>
        /\ Born' = Born \cup {p} /\ allPlayer' = allPlayer \cup {p}
    BY ConstantFacts DEF Arrived, IInv, TablesName
  <1>3. /\ rid'[p] = s /\ \A q \in Players : q # p => rid'[q] = rid[q]
        /\ streamMap'[s] = p /\ \A t \in Streams : t # s => streamMap'[t] = streamMap[t]
        /\ handler'[s] = p /\ \A t \in Streams : t # s => handler'[t] = handler[t]
    BY <1>1, <1>2 DEF Arrived, ProxyOK
  <1>4. \A t \in Streams : /\ streamMap[t] # p /\ handler[t] # p
                           /\ streamMap[t] \in MaybePlayer /\ handler[t] \in MaybePlayer
    BY <1>1, <1>2 DEF IInv, TablesName, ProxyOK
  <1>5. TableMatchesScheduler'
    <2>1. TablePlayers' = TablePlayers \cup {p}
      BY <1>2, <1>3 DEF TablePlayers
    <2>2. \A t \in Streams : streamMap'[t] # None => rid'[streamMap'[t]] = t
      BY <1>2, <1>3, <1>4 DEF IInv, TableMatchesScheduler, MaybePlayer
    <2>3. QED BY <1>2, <2>1, <2>2 DEF IInv, TableMatchesScheduler
  <1>6. LiveIsRegistered' /\ ReleasedIsDeaf'
    BY <1>1, <1>2, <1>3 DEF IInv, LiveIsRegistered, ReleasedIsDeaf, Unregistering
  <1>7. TablesName'
    <2>1. \A q \in Players : q \in Born' => rid'[q] \in Streams
      BY <1>2, <1>3 DEF IInv, TablesName
    <2>2. \A q \in Players : q \notin Born' => ~rcvReleased'[q]
      BY <1>2 DEF IInv, TablesName
    <2>3. \A t \in Streams : streamMap'[t] # None => streamMap'[t] \in Born'
      BY <1>2, <1>3 DEF IInv, TablesName
    <2>4. \A t \in Streams : handler'[t] # None => handler'[t] \in Born' /\ rid'[handler'[t]] = t
      BY <1>2, <1>3, <1>4 DEF IInv, TablesName, MaybePlayer
    <2>5. playerList' \subseteq Born' /\ (releasing' # None => releasing' \in Born')
      BY <1>2 DEF IInv, TablesName
    <2>6. QED BY <2>1, <2>2, <2>3, <2>4, <2>5 DEF TablesName
  <1>8. SwitchPlace'
    <2>1. playerList = {} /\ releasing = None
      BY <1>1 DEF IInv, SwitchPlace, Ending
    <2>2. QED BY <1>1, <1>2, <2>1, ConstantFacts DEF IInv, SwitchPlace, Ending
  <1>9. NoneForgotten'
    <2>1. \A q \in Born : (~rcvReleased[q] /\ q \notin evicted) =>
            streamMap[rid[q]] = q /\ q \in Players /\ rid[q] \in Streams
      BY TableFacts
    <2>2. \A q \in Born' : (~rcvReleased'[q] /\ q \notin evicted') => streamMap'[rid'[q]] = q
      BY <1>2, <1>3, <2>1, ConstantFacts
    <2>3. QED BY <1>1, <1>2, <2>2 DEF NoneForgotten, Ending
  <1>10. QED BY <1>5, <1>6, <1>7, <1>8, <1>9

LEMMA NewDataKeeps ==
  ASSUME IInv, NEW s \in Streams, NewData(s), crashed = "no"
  PROVE  IInv'
  <1> DEFINE p == created + 1
  <1>1. Arrived(p, s) /\ ((\E v \in Views : Allocated(p, v)) \/ Queued(p))
    BY NewDataFacts
  <1> HIDE DEF p
  <1>2. TypeOK' /\ ViewsConserved'
    BY <1>1, NewDataTyped, NewDataViews
  <1>3. /\ TableMatchesScheduler' /\ LiveIsRegistered' /\ ReleasedIsDeaf'
        /\ TablesName' /\ SwitchPlace' /\ NoneForgotten'
    BY <1>1, NewDataTables
  <1>4. SchedulerOK /\ DrawingOK
    BY TypeParts DEF IInv
  <1>5. /\ UNCHANGED <<rcvReleased, mIn, mOnErrorListener, mPause, pc, current, crashed, wakeUps, evicted>>
        /\ p \in Players /\ mView[p] = None /\ lock = "none"
    BY <1>1 DEF Arrived
  <1>6. \A q \in Players : q # p => mView'[q] = mView[q]
    BY <1>1, <1>4, <1>5 DEF Allocated, Queued, SchedulerOK
  <1>7. viewQueue' \subseteq viewQueue
    BY <1>1 DEF Allocated, Queued
  <1>8. EventPlace'
    BY <1>1 DEF IInv, EventPlace, Arrived, Allocated, Queued
  <1>9. \A q \in Players, v \in Views : mView[q] = v => q # p /\ mView'[q] = v
    BY <1>5, <1>6, ConstantFacts
  <1>10. ListenersHold'
    BY <1>4, <1>5, <1>9 DEF IInv, ListenersHold, DrawingOK, MaybePlayer
  <1>11. RunningIsConfigured'
    <2>1. \A v \in Views : pc[v] = "finish" => current[v] \in Players
      BY <1>4 DEF IInv, RunningIsConfigured, DrawingOK, MaybePlayer
    <2>2. Notified => \A v \in Views : pc[v] \in Running => mOnErrorListener[v] \in Players
      BY <1>4 DEF IInv, RunningIsConfigured, Running, DrawingOK, MaybePlayer
    <2>3. QED BY <1>5, <1>9, <2>1, <2>2 DEF IInv, RunningIsConfigured, Running, Notified
  <1>12. (Notified => Stopped)'
    BY <1>5, <1>7 DEF IInv, Stopped, Running, Notified
  <1>13. JobPlace' /\ (Notified => JobUndisturbed)'
    <2>1. CASE Queued(p)
      BY <1>5, <2>1, JobKept DEF IInv, Queued
    <2>2. ASSUME NEW v \in Views, Allocated(p, v)
          PROVE  JobPlace' /\ (Notified => JobUndisturbed)'
      <3>1. /\ job' = [step |-> "source", player |-> p, view |-> v] /\ lock' = "cb"
            /\ mView'[p] = v /\ (early' <=> pc[v] = "clear") /\ v \in viewQueue
        BY <1>4, <1>5, <2>2 DEF Allocated, SchedulerOK
      <3>2. JobPlace'
        BY <1>5, <3>1 DEF JobPlace
      <3>3. (Notified => JobUndisturbed)'
        BY <1>5, <3>1 DEF JobUndisturbed, IInv, Stopped, Notified
      <3>4. QED BY <3>2, <3>3
    <2>3. QED BY <1>1, <2>1, <2>2
  <1>14. QED BY <1>2, <1>3, <1>8, <1>10, <1>11, <1>12, <1>13 DEF IInv

-----------------------------------------------------------------------------
(* onError(), streamFinished(): a player leaves.                           *)

\* Its view goes back to the queue of views, or on to the first player waiting.
Freed(v, p) ==
  /\ waitQueue = <<>> /\ waitQueue' = waitQueue
  /\ viewQueue' = viewQueue \cup {v}
  /\ mView' = [mView EXCEPT ![p] = None]
  /\ pc' = [pc EXCEPT ![v] = "clear"]
  /\ UNCHANGED <<lock, job, early>>

HandedOn(v, p, q) ==
  /\ waitQueue # <<>> /\ viewQueue = {} /\ viewQueue' = {}
  /\ q = Head(waitQueue) /\ q \in Waiting /\ q # p /\ mView[q] = None
  /\ waitQueue' = Tail(waitQueue)
  /\ mView' = [mView EXCEPT ![p] = None, ![q] = v]
  /\ pc' = [pc EXCEPT ![v] = "handover"]
  /\ lock' = "view" /\ early' = FALSE
  /\ job' = [step |-> "source", player |-> q, view |-> v]

Left(v, p) ==
  /\ pc[v] = "finish" /\ lock = "none" /\ p = current[v]
  /\ mView[p] = v /\ (Notified => rcvReleased[p])
  /\ p \in Born /\ rid[p] \in Streams /\ streamMap[rid[p]] = p
  /\ v \notin viewQueue
  /\ streamMap' = [streamMap EXCEPT ![rid[p]] = None]
  /\ allPlayer' = allPlayer \ {p}
  /\ current' = [current EXCEPT ![v] = None]
  /\ \E b \in BOOLEAN : mReceive' = [mReceive EXCEPT ![p] = b]
  /\ evicted' = IF rcvReleased[p] THEN evicted ELSE evicted \cup {p}
  /\ UNCHANGED <<control, handler, rcvReleased, created, rid, mIn, mOnErrorListener, mPause,
                 ui, playerList, releasing, controlLock, dataLock, event, crashed, wakeUps>>

LEMMA StreamFinishedFacts ==
  ASSUME IInv, NEW v \in Views, StreamFinished(v)
  PROVE  \E p \in Players :
           Left(v, p) /\ (Freed(v, p) \/ \E q \in Players : HandedOn(v, p, q))
  <1> DEFINE p == current[v]
  <1>1. FlagsOK /\ SchedulerOK /\ DrawingOK
    BY TypeParts DEF IInv
  <1>2. pc[v] = "finish" /\ lock = "none"
    BY DEF StreamFinished
  <1>3. /\ p # None /\ p \in Players /\ mView[p] = v /\ v # None
        /\ Notified => rcvReleased[p]
    BY <1>1, <1>2, ConstantFacts DEF IInv, RunningIsConfigured, Stopped, DrawingOK, MaybePlayer
  <1>4. p \in Holders
    BY <1>3 DEF Holders
  <1>5. p \in allPlayer /\ p \notin Waiting
    BY <1>4 DEF IInv, ViewsConserved
  <1>6. p \in Born /\ rid[p] \in Streams /\ streamMap[rid[p]] = p
    BY <1>5, TableFacts
  <1>7. v \notin viewQueue
    BY <1>3 DEF IInv, ViewsConserved
  <1> HIDE DEF p
  <1>8. Forget(rid[p]) /\ RemoveStream(v, p)
    BY <1>3, <1>6 DEF StreamFinished, p
  <1>9. \E b \in BOOLEAN : mReceive' = [mReceive EXCEPT ![p] = b]
    <2>1. mReceive[p] \in BOOLEAN
      BY <1>1, <1>3 DEF FlagsOK
    <2>2. QED BY <1>8, <2>1, Zenon DEF RemoveStream
  <1>10. /\ UNCHANGED <<control, handler, rcvReleased, created, rid, mIn, mOnErrorListener, mPause,
                        ui, playerList, releasing, controlLock, dataLock, event, crashed, wakeUps>>
         /\ current' = [current EXCEPT ![v] = None] /\ p = current[v]
    BY <1>3 DEF StreamFinished, fields, uiVars, dispatch, p
  <1>11. Left(v, p)
    BY <1>2, <1>3, <1>6, <1>7, <1>8, <1>9, <1>10 DEF Left, Forget, RemoveStream
  <1>12. Recycled(p) = viewQueue \cup {v}
    BY <1>3 DEF Recycled
  <1>13. CASE waitQueue = <<>>
    BY <1>3, <1>8, <1>11, <1>12, <1>13 DEF RemoveStream, Freed
  <1>14. CASE waitQueue # <<>>
    <2> DEFINE q == Head(waitQueue)
    <2>1. viewQueue = {}
      BY <1>14 DEF IInv, ViewsConserved
    <2>2. Recycled(p) = {v} /\ Least({v}) = v
      BY <1>12, <2>1, LeastOfOne
    <2>3. q \in Players /\ q \in Waiting
      BY <1>1, <1>14, HeadAndTail DEF SchedulerOK, Waiting
    <2>4. q # p /\ mView[q] = None
      BY <1>5, <2>3 DEF IInv, ViewsConserved, Holders
    <2>5. HandedOn(v, p, q)
      BY <1>2, <1>8, <1>14, <2>1, <2>2, <2>3, <2>4 DEF RemoveStream, StartJob, NextWaiting, HandedOn
    <2>6. QED BY <1>3, <1>11, <2>3, <2>5
  <1>15. QED BY <1>13, <1>14

LEMMA StreamFinishedTyped ==
  ASSUME IInv, NEW v \in Views, NEW p \in Players, Left(v, p),
         Freed(v, p) \/ \E q \in Players : HandedOn(v, p, q)
  PROVE  TypeOK'
  <1>1. ProxyOK /\ SchedulerOK /\ FlagsOK /\ DrawingOK
    BY TypeParts DEF IInv
  <1>2. FlagsOK'
    <2>1. early' \in BOOLEAN
      BY <1>1, Zenon DEF FlagsOK, Freed, HandedOn
    <2>2. QED BY <1>1, <2>1, Zenon DEF FlagsOK, Left
  <1>3. DrawingOK'
    BY <1>1 DEF DrawingOK, Left, Freed, HandedOn, MaybePlayer
  <1>4. lock' \in {"none", "cb", "view"}
    BY <1>1 DEF Freed, HandedOn, ProxyOK
  <1>5. ProxyOK'
    BY <1>1, <1>4 DEF ProxyOK, Left, MaybePlayer
  <1>6. SchedulerOK'
    <2>1. CASE Freed(v, p)
      BY <1>1, <2>1 DEF Freed, SchedulerOK, Left
    <2>2. ASSUME NEW q \in Players, HandedOn(v, p, q)
          PROVE  SchedulerOK'
      <3>1. waitQueue' \in Seq(Players)
        BY <1>1, <2>2, HeadAndTail DEF HandedOn, SchedulerOK
      <3>2. QED BY <1>1, <2>2, <3>1 DEF HandedOn, SchedulerOK, Left, MaybePlayer
    <2>3. QED BY <2>1, <2>2
  <1>7. QED BY <1>2, <1>3, <1>5, <1>6, TypePartsNext

LEMMA StreamFinishedViews ==
  ASSUME IInv, NEW v \in Views, NEW p \in Players, Left(v, p),
         Freed(v, p) \/ \E q \in Players : HandedOn(v, p, q)
  PROVE  ViewsConserved'
  <1>1. SchedulerOK /\ v # None
    BY TypeParts, ConstantFacts DEF IInv
  <1>2. mView[p] = v /\ v \notin viewQueue /\ allPlayer' = allPlayer \ {p}
    BY DEF Left
  <1>3. p \in Holders /\ p \notin Waiting
    BY <1>1, <1>2 DEF Holders, IInv, ViewsConserved
  <1>4. \A r \in Players : mView[r] = v => r = p
    BY <1>1, <1>2, <1>3 DEF Holders, IInv, ViewsConserved
  <1>5. CASE Freed(v, p)
    <2>1. mView'[p] = None /\ \A r \in Players : r # p => mView'[r] = mView[r]
      BY <1>1, <1>5 DEF Freed, SchedulerOK
    <2>2. Holders' = Holders \ {p}
      BY <1>3, <2>1 DEF Holders
    <2>3. Waiting' = Waiting /\ waitQueue' = waitQueue /\ waitQueue = <<>> /\ viewQueue' = viewQueue \cup {v}
      BY <1>5 DEF Freed, Waiting
    <2>4. \A w \in Views : w \in viewQueue' <=> \A r \in Players : mView'[r] # w
      <3>1. v \in viewQueue' /\ \A r \in Players : mView'[r] # v
        BY <1>1, <1>4, <2>1, <2>3
      <3>2. ASSUME NEW w \in Views, w # v
            PROVE  w \in viewQueue' <=> \A r \in Players : mView'[r] # w
        <4>1. (\A r \in Players : mView'[r] # w) <=> (\A r \in Players : mView[r] # w)
          BY <1>2, <2>1, <3>2, ConstantFacts
        <4>2. w \in viewQueue' <=> w \in viewQueue
          BY <2>3, <3>2
        <4>3. QED BY <4>1, <4>2 DEF IInv, ViewsConserved
      <3>3. QED BY <3>1, <3>2
    <2>5. \A r, t \in Holders' : mView'[r] = mView'[t] => r = t
      BY <2>1, <2>2 DEF IInv, ViewsConserved, Holders
    <2>6. allPlayer' = Holders' \cup Waiting' /\ Waiting' \cap Holders' = {}
      BY <1>2, <1>3, <2>2, <2>3 DEF IInv, ViewsConserved
    <2>7. QED BY <2>3, <2>4, <2>5, <2>6 DEF IInv, ViewsConserved
  <1>6. ASSUME NEW q \in Players, HandedOn(v, p, q)
        PROVE  ViewsConserved'
    <2>1. /\ mView'[p] = None /\ mView'[q] = v /\ q # p /\ mView[q] = None
          /\ \A r \in Players : (r # p /\ r # q) => mView'[r] = mView[r]
      BY <1>1, <1>6 DEF HandedOn, SchedulerOK
    <2>2. Holders' = (Holders \ {p}) \cup {q}
      BY <1>1, <1>3, <2>1 DEF Holders
    <2>3. /\ waitQueue # <<>> /\ waitQueue \in Seq(Players)
          /\ waitQueue' = Tail(waitQueue) /\ q = waitQueue[1] /\ 1 \in DOMAIN waitQueue
          /\ DOMAIN waitQueue = 1..Len(waitQueue) /\ Len(waitQueue) \in Nat
          /\ DOMAIN waitQueue' = 1..(Len(waitQueue) - 1)
          /\ \A i \in DOMAIN waitQueue' : i + 1 \in DOMAIN waitQueue /\ waitQueue'[i] = waitQueue[i + 1]
      BY <1>1, <1>6, HeadAndTail DEF HandedOn, SchedulerOK
    <2>4. \A i, j \in DOMAIN waitQueue : waitQueue[i] = waitQueue[j] => i = j
      BY DEF IInv, ViewsConserved
    <2>5. \A i \in DOMAIN waitQueue' : waitQueue'[i] # q
      BY <2>3, <2>4
    <2>6. \A i, j \in DOMAIN waitQueue' : waitQueue'[i] = waitQueue'[j] => i = j
      BY <2>3, <2>4
    <2>7. Waiting' = Waiting \ {q}
      <3>1. Waiting' \subseteq Waiting
        BY <2>3 DEF Waiting
      <3>2. q \notin Waiting'
        BY <2>5 DEF Waiting
      <3>3. ASSUME NEW i \in DOMAIN waitQueue, waitQueue[i] # q
            PROVE  waitQueue[i] \in Waiting'
        <4>1. i - 1 \in DOMAIN waitQueue' /\ waitQueue'[i - 1] = waitQueue[i]
          BY <2>3, <3>3
        <4>2. QED BY <4>1 DEF Waiting
      <3>4. QED BY <3>1, <3>2, <3>3 DEF Waiting
    <2>8. viewQueue = {} /\ viewQueue' = {} /\ q \in Waiting
      BY <1>6 DEF HandedOn
    <2>9. \A w \in Views : \E r \in Players : mView'[r] = w
      <3>1. ASSUME NEW w \in Views, w # v
            PROVE  \E r \in Players : mView'[r] = w
        <4>1. PICK r \in Players : mView[r] = w
          BY <2>8 DEF IInv, ViewsConserved
        <4>2. r # p /\ r # q
          BY <1>2, <2>1, <3>1, <4>1, ConstantFacts
        <4>3. QED BY <2>1, <4>1, <4>2
      <3>2. QED BY <2>1, <3>1
    <2>10. \A r, t \in Holders' : mView'[r] = mView'[t] => r = t
      <3>1. \A r \in Holders' : r # q => r \in Holders /\ mView'[r] = mView[r] /\ mView[r] # v
        BY <1>4, <2>1, <2>2 DEF Holders
      <3>2. QED BY <2>1, <3>1 DEF IInv, ViewsConserved
    <2>11. allPlayer' = Holders' \cup Waiting' /\ Waiting' \cap Holders' = {}
      BY <1>2, <1>3, <2>1, <2>2, <2>7, <2>8 DEF IInv, ViewsConserved
    <2>12. QED BY <2>6, <2>8, <2>9, <2>10, <2>11 DEF ViewsConserved
  <1>7. QED BY <1>5, <1>6

LEMMA StreamFinishedTables ==
  ASSUME IInv, NEW v \in Views, NEW p \in Players, Left(v, p)
  PROVE  /\ TableMatchesScheduler' /\ LiveIsRegistered' /\ ReleasedIsDeaf'
         /\ TablesName' /\ SwitchPlace' /\ NoneForgotten'
  <1> DEFINE s == rid[p]
  <1>1. ProxyOK
    BY TypeParts DEF IInv
  <1>2. /\ p # None /\ p \in Born /\ s \in Streams /\ streamMap[s] = p
        /\ evicted' = IF rcvReleased[p] THEN evicted ELSE evicted \cup {p}
        /\ streamMap' = [streamMap EXCEPT ![s] = None]
        /\ allPlayer' = allPlayer \ {p}
        /\ UNCHANGED <<control, handler, rcvReleased, created, rid, ui, playerList, releasing,
                       dataLock, event>>
    BY ConstantFacts DEF Left
  <1>3. s = rid[p] /\ Born' = Born
    BY <1>2 DEF Born
  <1> HIDE DEF s
  <1>4. streamMap'[s] = None /\ \A t \in Streams : t # s => streamMap'[t] = streamMap[t]
    BY <1>1, <1>2 DEF ProxyOK
  <1>5. TableMatchesScheduler'
    <2>1. \A t \in Streams : (t # s /\ streamMap[t] # None) => streamMap[t] # p
      BY <1>2, <1>3 DEF IInv, TableMatchesScheduler
    <2>2. TablePlayers' = TablePlayers \ {p}
      BY <1>2, <1>4, <2>1 DEF TablePlayers
    <2>3. QED BY <1>2, <1>4, <2>2 DEF IInv, TableMatchesScheduler
  <1>6. LiveIsRegistered' /\ ReleasedIsDeaf'
    BY <1>2, <1>4 DEF IInv, LiveIsRegistered, ReleasedIsDeaf, Unregistering
  <1>7. TablesName'
    BY <1>2, <1>3, <1>4 DEF IInv, TablesName
  <1>8. SwitchPlace'
    <2>1. \A q \in Players : (q \in playerList \/ q = releasing) => streamMap'[rid[q]] \in {q, None}
      <3>1. ASSUME NEW q \in Players, q \in playerList \/ q = releasing
            PROVE  streamMap'[rid[q]] \in {q, None}
        <4>1. rid[q] \in Streams
          BY <3>1, TableFacts, ConstantFacts DEF IInv, TablesName
        <4>2. QED BY <1>4, <3>1, <4>1 DEF IInv, SwitchPlace
      <3>2. QED BY <3>1
    <2>2. QED BY <1>2, <2>1 DEF IInv, SwitchPlace, Ending
  <1>9. NoneForgotten'
    <2>1. \A q \in Born : (~rcvReleased[q] /\ q \notin evicted') => rid[q] # s /\ q \notin evicted
      BY <1>2, TableFacts DEF IInv, NoneForgotten
    <2>2. QED BY <1>2, <1>3, <1>4, <2>1, TableFacts DEF IInv, NoneForgotten, Ending
  <1>10. QED BY <1>5, <1>6, <1>7, <1>8, <1>9

LEMMA StreamFinishedKeeps ==
  ASSUME IInv, NEW v \in Views, StreamFinished(v), crashed = "no"
  PROVE  IInv'
  <1>1. PICK p \in Players : Left(v, p) /\ (Freed(v, p) \/ \E q \in Players : HandedOn(v, p, q))
    BY StreamFinishedFacts
  <1>2. TypeOK' /\ ViewsConserved'
    BY <1>1, StreamFinishedTyped, StreamFinishedViews
  <1>3. /\ TableMatchesScheduler' /\ LiveIsRegistered' /\ ReleasedIsDeaf'
        /\ TablesName' /\ SwitchPlace' /\ NoneForgotten'
    BY <1>1, StreamFinishedTables
  <1>4. SchedulerOK /\ DrawingOK
    BY TypeParts DEF IInv
  <1>5. /\ UNCHANGED <<rcvReleased, mIn, mOnErrorListener, mPause, crashed, wakeUps>>
        /\ pc[v] = "finish" /\ mView[p] = v /\ lock = "none"
        /\ viewQueue' \subseteq viewQueue \cup {v}
        /\ pc'[v] \in {"clear", "handover"}
        /\ \A w \in Views : w # v => pc'[w] = pc[w] /\ current'[w] = current[w]
        /\ Notified => rcvReleased[p]
        /\ evicted' = IF rcvReleased[p] THEN evicted ELSE evicted \cup {p}
    BY <1>1, <1>4 DEF Left, Freed, HandedOn, DrawingOK
  <1>6. \A r \in Players, w \in Views : (mView[r] = w /\ w # v) => mView'[r] = w
    <2>1. \A r \in Players : (mView[r] # v /\ mView[r] # None) => mView'[r] = mView[r]
      BY <1>1, <1>4, <1>5 DEF Freed, HandedOn, SchedulerOK
    <2>2. QED BY <2>1, ConstantFacts
  <1>7. EventPlace'
    BY <1>1, <1>5 DEF IInv, EventPlace, Left, Freed, HandedOn
  <1>8. ListenersHold'
    BY <1>4, <1>5, <1>6 DEF IInv, ListenersHold, DrawingOK, MaybePlayer
  <1>9. RunningIsConfigured'
    <2>1. \A w \in Views : (w # v /\ pc[w] = "finish") => current[w] \in Players
      BY <1>4 DEF IInv, RunningIsConfigured, DrawingOK, MaybePlayer
    <2>2. Notified => \A w \in Views : pc[w] \in Running => mOnErrorListener[w] \in Players
      BY <1>4 DEF IInv, RunningIsConfigured, Running, DrawingOK, MaybePlayer
    <2>3. (crashed' = "null" \/ evicted' # {}) => ~Notified'
      BY <1>5 DEF IInv, RunningIsConfigured, Notified
    <2>4. QED BY <1>5, <1>6, <2>1, <2>2, <2>3 DEF IInv, RunningIsConfigured, Running, Notified
  <1>10. (Notified => Stopped)'
    <2> SUFFICES ASSUME Notified PROVE Stopped'
      BY <1>5 DEF Notified
    <2>1. \A w \in viewQueue' : pc'[w] \notin Running
      BY <1>4, <1>5 DEF IInv, Stopped, Running, SchedulerOK
    <2>2. \A w \in Views : pc'[w] = "read" => ~mPause'[w]
      BY <1>5 DEF IInv, Stopped
    <2>3. \A w \in Views : (pc'[w] = "error" \/ (pc'[w] = "top" /\ mPause'[w])) =>
            rcvReleased'[mOnErrorListener'[w]]
      BY <1>5 DEF IInv, Stopped
    <2>4. \A w \in Views : pc'[w] = "finish" => rcvReleased'[current'[w]]
      BY <1>5 DEF IInv, Stopped
    <2>5. QED BY <2>1, <2>2, <2>3, <2>4 DEF Stopped
  <1>11. JobPlace' /\ JobUndisturbed'
    <2>1. CASE Freed(v, p)
      <3>1. lock' = "none" /\ job'.step = "none"
        BY <1>5, <2>1 DEF Freed, IInv, JobPlace
      <3>2. QED BY <3>1 DEF JobPlace, JobUndisturbed
    <2>2. ASSUME NEW q \in Players, HandedOn(v, p, q)
          PROVE  JobPlace' /\ JobUndisturbed'
      <3>1. /\ job' = [step |-> "source", player |-> q, view |-> v] /\ lock' = "view"
            /\ mView'[q] = v /\ pc'[v] = "handover" /\ ~early'
        BY <1>4, <1>5, <2>2 DEF HandedOn, SchedulerOK, DrawingOK
      <3>2. QED BY <3>1 DEF JobPlace, JobUndisturbed, Running
    <2>3. QED BY <1>1, <2>1, <2>2
  <1>12. QED BY <1>2, <1>3, <1>7, <1>8, <1>9, <1>10, <1>11 DEF IInv

-----------------------------------------------------------------------------
(* Every step.                                                             *)

LEMMA NextKeeps ==
  ASSUME IInv, Next
  PROVE  IInv'
  <1>0. crashed = "no"
    BY DEF Next
  <1>1. CASE SetView
    BY <1>0, <1>1, SetSourceKeeps, SetOnErrorListenerKeeps, StartPlaybackKeeps, SetReceiveKeeps
    DEF SetView
  <1>2. CASE EventThread
    BY <1>0, <1>2, DispatchKeeps, KnownStreamKeeps, NewDataKeeps, FinArrivesKeeps, FinUnregistersKeeps
    DEF EventThread, InCallback
  <1>3. ASSUME NEW v \in Views, Draw(v)
        PROVE  IInv'
    BY <1>0, <1>3, BeginReadKeeps, DrawFrameKeeps, ReadFailsKeeps, DoPauseKeeps, CallOnErrorKeeps,
       StreamFinishedKeeps, ClearListenerKeeps, EnterWaitKeeps DEF Draw
  <1>4. ASSUME NEW v \in Views, WakeUp(v)
        PROVE  IInv'
    BY <1>4, WakeUpKeeps
  <1>5. CASE UIThread
    BY <1>5, StartReceivingKeeps, UnsubscribeScopeKeeps, UnregisterControlKeeps, ListPlayersKeeps,
       ReleasePlayerKeeps, MarkReleasedKeeps, UnregisterDataKeeps, StopReceivingKeeps
    DEF UIThread, SwitchOff
  <1>6. QED BY <1>1, <1>2, <1>3, <1>4, <1>5 DEF Next

LEMMA StutterKeeps ==
  ASSUME IInv, UNCHANGED vars
  PROVE  IInv'
  <1>1. UNCHANGED Elsewhere /\ UNCHANGED <<fields, drawing, crashed, history>> /\ mPause' = mPause
        /\ wakeUps' = wakeUps
    BY DEF Elsewhere, vars, fields, history
  <1>2. DrawingOK'
    BY <1>1, AsideKeeps DEF DrawingOK, fields, drawing
  <1>3. TypeOK'
    BY <1>1, <1>2, AsideTyped
  <1>4. RunningIsConfigured' /\ ListenersHold' /\ (Notified => Stopped)'
    BY <1>1, AsideKeeps, DrawingKept DEF IInv
  <1>5. JobPlace' /\ (Notified => JobUndisturbed)'
    BY <1>1, AsideKeeps, JobKept DEF IInv, fields, drawing
  <1>6. QED BY <1>1, <1>3, <1>4, <1>5, AsideKeeps DEF IInv

LEMMA InvariantHolds == Spec => []IInv
  <1>1. IInv /\ [Next]_vars => IInv'
    BY NextKeeps, StutterKeeps
  <1>2. QED BY <1>1, InitInv, PTL DEF Spec

-----------------------------------------------------------------------------
(* The theorems.                                                           *)

\* Every variable of the proxy, the scheduler and the drawing threads stays in
\* its domain, for any streams, any number of views and of players.
THEOREM TypeCorrect == Spec => []TypeOK
  <1>1. IInv => TypeOK
    BY DEF IInv
  <1>2. QED BY <1>1, InvariantHolds, PTL

\* FCFSViewScheduler neither loses a view nor gives one out twice, and nobody
\* waits while a view is free, whichever threads add and remove players.
THEOREM NoViewLost == Spec => []ViewsConserved
  <1>1. IInv => ViewsConserved
    BY DEF IInv
  <1>2. QED BY <1>1, InvariantHolds, PTL

\* VideoProxy's stream table and the scheduler know the same players, each
\* under its own rid, although newData(), onError() and setReceive() update
\* them on three threads.
THEOREM TableInStep == Spec => []TableMatchesScheduler
  <1>1. IInv => TableMatchesScheduler
    BY DEF IInv
  <1>2. QED BY <1>1, InvariantHolds, PTL

\* A player in VideoProxy's table that nobody has released is the registered
\* handler of its stream, whatever FINs, departures and a setReceive(false) do
\* around it; and a handler whose player is no longer in the table is just being
\* unregistered, or its player was taken out by a drawing thread that wait() had
\* let go without a notification.
THEOREM NoLivePlayerIsDeaf == Spec => []LivePlayerHears
  <1>1. IInv => LivePlayerHears
    <2> SUFFICES ASSUME IInv, NEW s \in Streams, handler[s] # None, handler[s] # streamMap[s]
                 PROVE  Unregistering(handler[s]) \/ handler[s] \in evicted
      BY DEF IInv, LiveIsRegistered, LivePlayerHears
    <2>1. handler[s] \in Born /\ rid[handler[s]] = s
      BY DEF IInv, TablesName
    <2>2. QED BY <2>1 DEF IInv, ReleasedIsDeaf, NoneForgotten
  <1>2. QED BY <1>1, InvariantHolds, PTL

\* As long as wait() in MjpegView.doPause() has only returned when notified, no
\* drawing thread dereferences a null source or listener, reads another player's
\* frames or takes out a live player; and startPlayback() throws only for a view
\* that newData() took while its thread was between onError() and
\* mOnErrorListener = null.  Whatever wait() does, onError() is called on the
\* player that holds the view.
THEOREM DrawingIsConfigured == Spec => []RunningIsConfigured
  <1>1. IInv => RunningIsConfigured
    BY DEF IInv
  <1>2. QED BY <1>1, InvariantHolds, PTL

\* Once VideoProxy.setReceive(false) has returned every player ever made is
\* released and no subscriber stays registered, but for those that a drawing
\* thread let go by wait() without a notification took out of the table before.
THEOREM SwitchedOffIsQuiet == Spec => []OffIsQuiet
  <1>1. IInv => OffIsQuiet
    <2> SUFFICES ASSUME IInv, ui = "off" PROVE OffIsQuiet
      BY DEF OffIsQuiet
    <2>1. \A p \in Born : rcvReleased[p] \/ p \in evicted
      BY TableFacts DEF IInv, NoneForgotten
    <2>2. \A s \in Streams : handler[s] # None =>
            Unregistering(handler[s]) \/ handler[s] \in evicted
      BY <2>1 DEF IInv, ReleasedIsDeaf, TablesName
    <2>3. QED BY <2>1, <2>2 DEF OffIsQuiet, Born
  <1>2. QED BY <1>1, InvariantHolds, PTL

-----------------------------------------------------------------------------
(* The scheduler implements the pool of views.  Views are held as mView    *)
(* says; newData() is an arrival, streamFinished() a departure, and every  *)
(* other step of the three threads is a stutter.                           *)

HolderOf(m) == [v \in Views |-> IF \E p \in Players : m[p] = v
                                THEN CHOOSE p \in Players : m[p] = v ELSE None]

OneViewEach(m) ==
  /\ m \in [Players -> Views \cup {None}]
  /\ \A p, q \in Players : (m[p] = m[q] /\ m[p] # None) => p = q

LEMMA HolderFacts ==
  ASSUME NEW m, OneViewEach(m)
  PROVE  /\ HolderOf(m) \in [Views -> Players \cup {None}]
         /\ \A v \in Views, p \in Players : HolderOf(m)[v] = p <=> m[p] = v
         /\ \A v \in Views : HolderOf(m)[v] = None <=> \A p \in Players : m[p] # v
  <1>1. ASSUME NEW v \in Views, NEW p \in Players, m[p] = v
        PROVE  HolderOf(m)[v] = p
    <2>1. v # None
      BY ConstantFacts
    <2>2. (CHOOSE q \in Players : m[q] = v) \in Players /\ m[CHOOSE q \in Players : m[q] = v] = v
      BY <1>1
    <2>3. (CHOOSE q \in Players : m[q] = v) = p
      BY <1>1, <2>1, <2>2 DEF OneViewEach
    <2>4. QED BY <1>1, <2>3 DEF HolderOf
  <1>2. ASSUME NEW v \in Views, \A p \in Players : m[p] # v
        PROVE  HolderOf(m)[v] = None
    BY <1>2 DEF HolderOf
  <1>3. \A v \in Views : HolderOf(m)[v] \in Players \cup {None}
    BY <1>1, <1>2
  <1>4. HolderOf(m) \in [Views -> Players \cup {None}]
    <2>1. HolderOf(m) = [v \in Views |-> HolderOf(m)[v]]
      BY DEF HolderOf
    <2>2. QED BY <1>3, <2>1
  <1>5. QED BY <1>1, <1>2, <1>4, ConstantFacts

LEMMA ViewsHeldOnce ==
  ASSUME IInv
  PROVE  OneViewEach(mView)
  <1>1. SchedulerOK
    BY TypeParts DEF IInv
  <1>2. QED BY <1>1 DEF IInv, SchedulerOK, ViewsConserved, Holders, OneViewEach

LEMMA ViewsHeldOnceNext ==
  ASSUME IInv'
  PROVE  OneViewEach(mView')
  <1>1. SchedulerOK'
    BY TypePartsNext DEF IInv
  <1>2. QED BY <1>1 DEF IInv, SchedulerOK, ViewsConserved, Holders, OneViewEach

\* The pool's definitions over the scheduler's variables.
LEMMA PoolFree == Pool!FreeViews = {v \in Views : HolderOf(mView)[v] = None}
  BY Zenon DEF Pool!FreeViews, HolderOf

LEMMA PoolHolders == Pool!Holders = {HolderOf(mView)[v] : v \in Views} \ {None}
  BY Zenon DEF Pool!Holders, HolderOf

LEMMA PoolWaiting == Pool!Waiting = Waiting
  BY Zenon DEF Pool!Waiting, Waiting

LEMMA PoolInit == Pool!Init <=> HolderOf(mView) = [v \in Views |-> None] /\ waitQueue = <<>>
  BY Zenon DEF Pool!Init, HolderOf

LEMMA PoolStutter ==
  UNCHANGED Pool!poolVars <=> HolderOf(mView') = HolderOf(mView) /\ waitQueue' = waitQueue
  BY DEF Pool!poolVars, HolderOf

LEMMA PoolArrive ==
  ASSUME NEW p,
         p \notin Pool!Holders \cup Pool!Waiting,
         \/ \E v \in Pool!FreeViews : /\ HolderOf(mView') = [HolderOf(mView) EXCEPT ![v] = p]
                                      /\ waitQueue' = waitQueue
         \/ /\ Pool!FreeViews = {} /\ waitQueue' = Append(waitQueue, p)
            /\ HolderOf(mView') = HolderOf(mView)
  PROVE  Pool!Arrive(p)
  BY Zenon DEF Pool!Arrive, HolderOf

LEMMA PoolDepart ==
  ASSUME NEW p, NEW v \in Views, HolderOf(mView)[v] = p,
         \/ /\ waitQueue = <<>> /\ waitQueue' = waitQueue
            /\ HolderOf(mView') = [HolderOf(mView) EXCEPT ![v] = None]
         \/ /\ waitQueue # <<>> /\ waitQueue' = Tail(waitQueue)
            /\ HolderOf(mView') = [HolderOf(mView) EXCEPT ![v] = Head(waitQueue)]
  PROVE  Pool!Depart(p)
  BY Zenon DEF Pool!Depart, HolderOf

LEMMA NewDataArrives ==
  ASSUME IInv, IInv', NEW s \in Streams, NewData(s)
  PROVE  \E p \in Players : Pool!Arrive(p)
  <1> DEFINE h == HolderOf(mView)
             hh == HolderOf(mView')
  <1>1. PICK p \in Players : Arrived(p, s) /\ ((\E v \in Views : Allocated(p, v)) \/ Queued(p))
    BY NewDataFacts DEF Arrived
  <1>2. OneViewEach(mView) /\ OneViewEach(mView')
    BY ViewsHeldOnce, ViewsHeldOnceNext
  <1>3. /\ h \in [Views -> Players \cup {None}]
        /\ \A v \in Views, q \in Players : h[v] = q <=> mView[q] = v
        /\ \A v \in Views : h[v] = None <=> \A q \in Players : mView[q] # v
    BY <1>2, HolderFacts
  <1>4. /\ hh \in [Views -> Players \cup {None}]
        /\ \A v \in Views, q \in Players : hh[v] = q <=> mView'[q] = v
        /\ \A v \in Views : hh[v] = None <=> \A q \in Players : mView'[q] # v
    BY <1>2, HolderFacts
  <1>5. /\ Pool!FreeViews = {v \in Views : h[v] = None}
        /\ Pool!Holders = {h[v] : v \in Views} \ {None}
        /\ Pool!Waiting = Waiting
    BY PoolFree, PoolHolders, PoolWaiting
  <1> HIDE DEF h, hh
  <1>6. p \in Players /\ mView[p] = None /\ p \notin Waiting
    BY <1>1 DEF Arrived
  <1>7. p \notin Pool!Holders \cup Pool!Waiting
    BY <1>3, <1>5, <1>6, ConstantFacts
  <1>8. mView \in [Players -> Views \cup {None}]
    BY <1>2 DEF OneViewEach
  <1>9. ASSUME NEW v \in Views, Allocated(p, v)
        PROVE  Pool!Arrive(p)
    <2>1. /\ mView' = [mView EXCEPT ![p] = v] /\ waitQueue' = waitQueue /\ v \in viewQueue
      BY <1>9 DEF Allocated
    <2>2. h[v] = None /\ v \in Pool!FreeViews
      BY <1>3, <1>5, <2>1 DEF IInv, ViewsConserved
    <2>3. hh[v] = p
      BY <1>4, <1>6, <1>8, <2>1
    <2>4. ASSUME NEW w \in Views, w # v
          PROVE  hh[w] = h[w]
      <3>1. \A q \in Players : mView'[q] = w <=> mView[q] = w
        BY <1>6, <1>8, <2>1, <2>4, ConstantFacts
      <3>2. QED BY <1>3, <1>4, <3>1
    <2>5. hh = [h EXCEPT ![v] = p]
      BY <1>3, <1>4, <2>3, <2>4
    <2>6. QED BY <1>7, <2>1, <2>2, <2>5, PoolArrive DEF h, hh
  <1>10. CASE Queued(p)
    <2>1. hh = h /\ waitQueue' = Append(waitQueue, p) /\ viewQueue = {}
      BY <1>10 DEF Queued, h, hh
    <2>2. Pool!FreeViews = {}
      BY <1>3, <1>5, <2>1 DEF IInv, ViewsConserved
    <2>3. Pool!Arrive(p)
      BY <1>7, <2>1, <2>2, PoolArrive DEF h, hh
    <2>4. QED BY <2>3
  <1>11. QED BY <1>1, <1>6, <1>9, <1>10

LEMMA StreamFinishedDeparts ==
  ASSUME IInv, IInv', NEW v \in Views, StreamFinished(v)
  PROVE  \E p \in Players : Pool!Depart(p)
  <1> DEFINE h == HolderOf(mView)
             hh == HolderOf(mView')
  <1>1. PICK p \in Players : Left(v, p) /\ (Freed(v, p) \/ \E q \in Players : HandedOn(v, p, q))
    BY StreamFinishedFacts
  <1>2. OneViewEach(mView) /\ OneViewEach(mView')
    BY ViewsHeldOnce, ViewsHeldOnceNext
  <1>3. /\ h \in [Views -> Players \cup {None}]
        /\ \A w \in Views, q \in Players : h[w] = q <=> mView[q] = w
        /\ \A w \in Views : h[w] = None <=> \A q \in Players : mView[q] # w
    BY <1>2, HolderFacts
  <1>4. /\ hh \in [Views -> Players \cup {None}]
        /\ \A w \in Views, q \in Players : hh[w] = q <=> mView'[q] = w
        /\ \A w \in Views : hh[w] = None <=> \A q \in Players : mView'[q] # w
    BY <1>2, HolderFacts
  <1> HIDE DEF h, hh
  <1>5. mView[p] = v /\ h[v] = p /\ mView \in [Players -> Views \cup {None}]
    BY <1>1, <1>2, <1>3 DEF Left, OneViewEach
  <1>6. \A q \in Players : mView[q] = v => q = p
    BY <1>3, <1>5
  <1>7. CASE Freed(v, p)
    <2>1. waitQueue = <<>> /\ waitQueue' = waitQueue /\ mView' = [mView EXCEPT ![p] = None]
      BY <1>7 DEF Freed
    <2>2. hh[v] = None
      BY <1>4, <1>5, <1>6, <2>1, ConstantFacts
    <2>3. ASSUME NEW w \in Views, w # v
          PROVE  hh[w] = h[w]
      <3>1. \A q \in Players : mView'[q] = w <=> mView[q] = w
        BY <1>5, <2>1, <2>3, ConstantFacts
      <3>2. QED BY <1>3, <1>4, <3>1
    <2>4. hh = [h EXCEPT ![v] = None]
      BY <1>3, <1>4, <2>2, <2>3
    <2>5. Pool!Depart(p)
      BY <1>5, <2>1, <2>4, PoolDepart DEF h, hh
    <2>6. QED BY <2>5
  <1>8. ASSUME NEW q \in Players, HandedOn(v, p, q)
        PROVE  \E r \in Players : Pool!Depart(r)
    <2>1. /\ waitQueue # <<>> /\ waitQueue' = Tail(waitQueue) /\ q = Head(waitQueue)
          /\ mView' = [mView EXCEPT ![p] = None, ![q] = v] /\ q # p /\ mView[q] = None
      BY <1>8 DEF HandedOn
    <2>2. hh[v] = q
      BY <1>4, <1>5, <2>1
    <2>3. ASSUME NEW w \in Views, w # v
          PROVE  hh[w] = h[w]
      <3>1. \A r \in Players : mView'[r] = w <=> mView[r] = w
        BY <1>5, <2>1, <2>3, ConstantFacts
      <3>2. QED BY <1>3, <1>4, <3>1
    <2>4. hh = [h EXCEPT ![v] = Head(waitQueue)]
      BY <1>3, <1>4, <2>1, <2>2, <2>3
    <2>5. Pool!Depart(p)
      BY <1>5, <2>1, <2>4, PoolDepart DEF h, hh
    <2>6. QED BY <2>5
  <1>9. QED BY <1>1, <1>7, <1>8

\* Every other step leaves the scheduler's queue and views as they are.
LEMMA OthersStutter ==
  ASSUME Next,
         ~ \E s \in Streams : NewData(s),
         ~ \E v \in Views : StreamFinished(v)
  PROVE  UNCHANGED <<waitQueue, mView>>
  <1> USE DEF scheduler
  <1>1. CASE SetView
    BY <1>1 DEF SetView, SetSource, SetOnErrorListener, StartPlayback, SetReceive
  <1>2. CASE EventThread
    BY <1>2 DEF EventThread, InCallback, Dispatch, KnownStream, FinArrives, FinUnregisters
  <1>3. ASSUME NEW v \in Views, Draw(v) \/ WakeUp(v)
        PROVE  UNCHANGED <<waitQueue, mView>>
    BY <1>3 DEF Draw, BeginRead, DrawFrame, ReadFails, DoPause, CallOnError, ClearListener, EnterWait,
                WakeUp, Elsewhere
  <1>4. CASE UIThread
    BY <1>4 DEF UIThread, SwitchOff, StartReceiving, UnsubscribeScope, UnregisterControl,
                ListPlayers, ReleasePlayer, MarkReleased, UnregisterData, StopReceiving
  <1>5. QED BY <1>1, <1>2, <1>3, <1>4 DEF Next

\* FCFSViewScheduler, with VideoProxy, VideoPlayer and the drawing threads
\* around it, implements the first-come-first-served pool of views: newData()
\* is an arrival, streamFinished() a departure that passes the view to the head
\* of the queue, and no other step of any thread, a wait() that returns without
\* a notification included, touches the allocation.
THEOREM SchedulerImplementsPool == Spec => RefinesPool
  <1>1. Init => Pool!Init
    <2> SUFFICES ASSUME Init PROVE Pool!Init
      OBVIOUS
    <2>1. mView = [p \in Players |-> None] /\ waitQueue = <<>>
      BY DEF Init
    <2>2. \A v \in Views, p \in Players : mView[p] # v
      BY <2>1, ConstantFacts
    <2>3. HolderOf(mView) = [v \in Views |-> None]
      BY <2>2 DEF HolderOf
    <2>4. QED BY <2>1, <2>3, PoolInit
  <1>2. IInv /\ IInv' /\ [Next]_vars => [Pool!Next]_(Pool!poolVars)
    <2> SUFFICES ASSUME IInv, IInv', [Next]_vars PROVE [Pool!Next]_(Pool!poolVars)
      OBVIOUS
    <2>1. ASSUME NEW s \in Streams, NewData(s)
          PROVE  Pool!Next
      BY <2>1, NewDataArrives DEF Pool!Next
    <2>2. ASSUME NEW v \in Views, StreamFinished(v)
          PROVE  Pool!Next
      BY <2>2, StreamFinishedDeparts DEF Pool!Next
    <2>3. CASE UNCHANGED <<waitQueue, mView>>
      BY <2>3, PoolStutter
    <2>4. UNCHANGED vars => UNCHANGED <<waitQueue, mView>>
      BY DEF vars, scheduler
    <2>5. QED BY <2>1, <2>2, <2>3, <2>4, OthersStutter
  <1>3. QED BY <1>1, <1>2, InvariantHolds, PTL DEF Spec, Pool!Spec, RefinesPool
=============================================================================

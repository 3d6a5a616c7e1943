--------------------------- MODULE VoiceReception ---------------------------
(****************************************************************************)
(* Playing incoming voice streams: VoiceProxy's stream table and            *)
(* setReceive(), VoicePlayer, and the event queue of BAPacketSubscriber.    *)
(*                                                                          *)
(* Threads:                                                                 *)
(*   - the native event thread runs newData() for a packet of a stream      *)
(*     without a handler and publishedData() for one with a handler;        *)
(*   - one player thread per VoicePlayer, which blocks in take();           *)
(*   - the UI thread runs setReceive(true) and setReceive(false).           *)
(* VoicePlayer.release() is called by the UI thread and, for a termination  *)
(* mark, by the player's own thread: `step` says where in it a thread is.   *)
(* Each monitor (streamMap, the classifier's tables, the queue's lock) is   *)
(* held for one step; no thread takes a second one except newData(), which  *)
(* takes the classifier's inside streamMap's.                               *)
(*                                                                          *)
(* The loop is playbackPCM(); playbackSpeex() (marked BROKEN in the source) *)
(* is the same without the resync.  An AudioTrack takes all it is given.    *)
(****************************************************************************)
EXTENDS Naturals, Sequences, FiniteSets

CONSTANTS
  Streams,          (* the rids of the peers' streams                       *)
  MaxPlayers,       (* bound: VoicePlayers ever created                     *)
  MaxEvents,        (* bound: packets ever put before a subscriber          *)
  QueueCap,         (* BAPacketSubscriber.RESYNC_THRESHOLD, dataQueue's size *)
  ResyncThreshold   (* VoicePlayer.RESYNC_THRESHOLD                         *)

ASSUME VoiceAssumption ==
  /\ MaxPlayers \in Nat
  /\ MaxEvents \in Nat
  /\ QueueCap \in Nat \ {0}
  /\ ResyncThreshold \in Nat

Players == 1..MaxPlayers
Events  == 1..MaxEvents     (* native event buffers                        *)
None    == 0                (* null                                        *)
UI      == 0                (* the UI thread; a player's thread is itself  *)
Threads == Players \cup {UI}

VARIABLES
  control,       (* is newData() registered for the scope                  *)
  handler,       (* handler[s]: the player whose subscriber is registered  *)
  streamMap,     (* VoiceProxy.streamMap                                   *)
  wakeLock,      (* is the wake lock held by reception                     *)
  created,       (* players made so far                                    *)
  rid,           (* rid[p]: the stream of player p                         *)
  pc,            (* pc[p]: where p's thread is                             *)
  hand,          (* hand[p]: the event p's thread has taken                *)
  released,      (* VoicePlayer.released                                   *)
  interrupted,   (* the interrupt flag of p's thread                       *)
  rcvReleased,   (* BAPacketSubscriber.released                            *)
  queue,         (* BAPacketSubscriber.dataQueue                           *)
  step,          (* step[t]: where thread t is in VoicePlayer.release()    *)
  ui,            (* where the UI thread is in setReceive()                 *)
  playerList,    (* the players setReceive(false) has still to release     *)
  releasing,     (* the player it is releasing                             *)
  sent,          (* events delivered so far                                *)
  fins,          (* those that are termination marks (length 0)            *)
  freed,         (* those whose native buffer has been freed               *)
  lost           (* those a full queue refused                             *)

proxy   == <<control, streamMap, wakeLock>>
thread  == <<pc, hand>>
making  == <<created, rid>>
uiVars  == <<ui, playerList, releasing>>
network == <<sent, fins, lost>>
vars == <<proxy, handler, making, thread, released, interrupted, rcvReleased,
          queue, step, uiVars, network, freed>>

Init ==
  /\ control = FALSE /\ wakeLock = FALSE
  /\ handler = [s \in Streams |-> None]
  /\ streamMap = [s \in Streams |-> None]
  /\ created = 0 /\ rid = [p \in Players |-> None]
  /\ pc = [p \in Players |-> "none"] /\ hand = [p \in Players |-> None]
  /\ released = [p \in Players |-> FALSE]
  /\ interrupted = [p \in Players |-> FALSE]
  /\ rcvReleased = [p \in Players |-> FALSE]
  /\ queue = [p \in Players |-> <<>>]
  /\ step = [t \in Threads |-> "idle"]
  /\ ui = "off" /\ playerList = {} /\ releasing = None
  /\ sent = 0 /\ fins = {} /\ freed = {} /\ lost = {}

Queued(p) == {queue[p][i] : i \in DOMAIN queue[p]}

\* drainDataQueue(): all queued events out at once, then freed.
DrainDataQueue(p) ==
  /\ freed' = freed \cup Queued(p)
  /\ queue' = [queue EXCEPT ![p] = <<>>]

-----------------------------------------------------------------------------
(* The event thread.                                                       *)

\* newData(), and for a stream not in the table initStream(): a subscriber,
\* registered as the stream's handler, and a player, started.  The event
\* itself is freed, whatever it carries.
NewData(s) ==
  /\ control /\ handler[s] = None
  /\ streamMap[s] = None
  /\ created < MaxPlayers
  /\ LET p == created + 1
     IN /\ created' = p
        /\ rid' = [rid EXCEPT ![p] = s]
        /\ handler' = [handler EXCEPT ![s] = p]
        /\ streamMap' = [streamMap EXCEPT ![s] = p]
        /\ pc' = [pc EXCEPT ![p] = "start"]
  /\ UNCHANGED <<control, wakeLock, hand, released, interrupted, rcvReleased,
                 queue, step, uiVars, network, freed>>

\* Mutation of Offer: an unbounded queue.
OfferAlways(p, e) ==
  /\ queue' = [queue EXCEPT ![p] = Append(@, e)]
  /\ UNCHANGED lost

\* dataQueue.offer(event), whose result nobody looks at.
Offer(p, e) ==
  IF Len(queue[p]) < QueueCap
  THEN queue' = [queue EXCEPT ![p] = Append(@, e)] /\ UNCHANGED lost
  ELSE lost' = lost \cup {e} /\ UNCHANGED queue

\* publishedData() for stream s; fin: the packet is a termination mark.
PublishedData(s, fin) ==
  /\ handler[s] # None
  /\ sent < MaxEvents
  /\ sent' = sent + 1
  /\ fins' = IF fin THEN fins \cup {sent + 1} ELSE fins
  /\ Offer(handler[s], sent + 1)
  /\ UNCHANGED <<proxy, handler, making, thread, released, interrupted,
                 rcvReleased, step, uiVars, freed>>

-----------------------------------------------------------------------------
(* The thread of player p: VoicePlayer.run().                              *)

\* run() resets `released` before the loop.
Run(p) ==
  /\ pc[p] = "start"
  /\ released' = [released EXCEPT ![p] = FALSE]
  /\ pc' = [pc EXCEPT ![p] = "top"]
  /\ UNCHANGED <<proxy, handler, making, hand, interrupted, rcvReleased, queue,
                 step, uiVars, network, freed>>

\* while (!released) and the test of the queue's size.
CheckReleased(p) ==
  /\ pc[p] = "top"
  /\ pc' = [pc EXCEPT ![p] = IF released[p] THEN "dead"
                             ELSE IF Len(queue[p]) > ResyncThreshold THEN "resync"
                             ELSE "take"]
  /\ UNCHANGED <<proxy, handler, making, hand, released, interrupted,
                 rcvReleased, queue, step, uiVars, network, freed>>

\* The queue is more than ResyncThreshold behind: everything in it goes.
Resync(p) ==
  /\ pc[p] = "resync"
  /\ DrainDataQueue(p)
  /\ pc' = [pc EXCEPT ![p] = "take"]
  /\ UNCHANGED <<proxy, handler, making, hand, released, interrupted,
                 rcvReleased, step, uiVars, network>>

\* recvQueue.take() with an event queued.
Take(p) ==
  /\ pc[p] = "take"
  /\ ~interrupted[p]
  /\ queue[p] # <<>>
  /\ hand' = [hand EXCEPT ![p] = Head(queue[p])]
  /\ queue' = [queue EXCEPT ![p] = Tail(@)]
  /\ pc' = [pc EXCEPT ![p] = "event"]
  /\ UNCHANGED <<proxy, handler, making, released, interrupted, rcvReleased,
                 step, uiVars, network, freed>>

\* take() throws InterruptedException, also if the interrupt came earlier.
Interrupted(p) ==
  /\ pc[p] = "take"
  /\ interrupted[p]
  /\ interrupted' = [interrupted EXCEPT ![p] = FALSE]
  /\ pc' = [pc EXCEPT ![p] = "dead"]
  /\ UNCHANGED <<proxy, handler, making, hand, released, rcvReleased, queue,
                 step, uiVars, network, freed>>

\* Mutation of FreeEvent: the event is not freed after it was written.
KeepEvent(p) == UNCHANGED freed

FreeEvent(p) == freed' = freed \cup {hand[p]}

\* The event is written to the AudioTrack and freed, or it is the termination
\* mark, freed, and release() is called.
Handle(p) ==
  /\ pc[p] = "event"
  /\ FreeEvent(p)
  /\ hand' = [hand EXCEPT ![p] = None]
  /\ IF hand[p] \in fins
     THEN /\ pc' = [pc EXCEPT ![p] = "release"]
          /\ step' = [step EXCEPT ![p] = "test"]
     ELSE /\ pc' = [pc EXCEPT ![p] = "top"]
          /\ UNCHANGED step
  /\ UNCHANGED <<proxy, handler, making, released, interrupted, rcvReleased,
                 queue, uiVars, network>>

\* release() has returned: break.
Break(p) ==
  /\ pc[p] = "release" /\ step[p] = "idle"
  /\ pc' = [pc EXCEPT ![p] = "dead"]
  /\ UNCHANGED <<proxy, handler, making, hand, released, interrupted,
                 rcvReleased, queue, step, uiVars, network, freed>>

-----------------------------------------------------------------------------
(* VoicePlayer.release() by thread t.                                      *)

Target(t) == IF t = UI THEN releasing ELSE t

ReleaseVars == <<proxy, making, thread, uiVars, network>>

\* if (!released)
TestReleased(t) ==
  /\ step[t] = "test"
  /\ step' = [step EXCEPT ![t] = IF released[Target(t)] THEN "idle" ELSE "mark"]
  /\ UNCHANGED <<ReleaseVars, handler, released, interrupted, rcvReleased, queue, freed>>

\* released = true
MarkReleased(t) ==
  /\ step[t] = "mark"
  /\ released' = [released EXCEPT ![Target(t)] = TRUE]
  /\ step' = [step EXCEPT ![t] = "interrupt"]
  /\ UNCHANGED <<ReleaseVars, handler, interrupted, rcvReleased, queue, freed>>

\* Mutation of RaiseInterrupt: the player is left in take().
RaiseNoInterrupt(p) == UNCHANGED interrupted

RaiseInterrupt(p) ==
  interrupted' = [interrupted EXCEPT ![p] = (@ \/ pc[p] # "dead")]

\* interrupt(), without effect on a thread that has ended.
Interrupt(t) ==
  /\ step[t] = "interrupt"
  /\ RaiseInterrupt(Target(t))
  /\ step' = [step EXCEPT ![t] = "receiver"]
  /\ UNCHANGED <<ReleaseVars, handler, released, rcvReleased, queue, freed>>

\* BAPacketSubscriber.release(): if (!released)
TestReceiver(t) ==
  /\ step[t] = "receiver"
  /\ step' = [step EXCEPT ![t] = IF rcvReleased[Target(t)] THEN "finish" ELSE "unregister"]
  /\ UNCHANGED <<ReleaseVars, handler, released, interrupted, rcvReleased, queue, freed>>

\* Mutation of Unregister: the queue is drained while events still come.
DrainFirst(t) ==
  /\ step[t] = "unregister"
  /\ rcvReleased' = [rcvReleased EXCEPT ![Target(t)] = TRUE]
  /\ DrainDataQueue(Target(t))
  /\ step' = [step EXCEPT ![t] = "finish"]
  /\ UNCHANGED <<ReleaseVars, handler, released, interrupted>>

\* released = true, and whatever handler the rid has is unregistered.
Unregister(t) ==
  /\ step[t] = "unregister"
  /\ rcvReleased' = [rcvReleased EXCEPT ![Target(t)] = TRUE]
  /\ handler' = [handler EXCEPT ![rid[Target(t)]] = None]
  /\ step' = [step EXCEPT ![t] = "drain"]
  /\ UNCHANGED <<ReleaseVars, released, interrupted, queue, freed>>

Drain(t) ==
  /\ step[t] = "drain"
  /\ DrainDataQueue(Target(t))
  /\ step' = [step EXCEPT ![t] = "finish"]
  /\ UNCHANGED <<ReleaseVars, handler, released, interrupted, rcvReleased>>

\* streamFinished(rid): whatever player the rid has leaves the table.
StreamFinished(t) ==
  /\ step[t] = "finish"
  /\ streamMap' = [streamMap EXCEPT ![rid[Target(t)]] = None]
  /\ step' = [step EXCEPT ![t] = "idle"]
  /\ UNCHANGED <<control, wakeLock, handler, making, thread, released,
                 interrupted, rcvReleased, queue, uiVars, network, freed>>

Release(t) ==
  \/ TestReleased(t) \/ MarkReleased(t) \/ Interrupt(t)
  \/ TestReceiver(t) \/ Unregister(t) \/ Drain(t) \/ StreamFinished(t)

-----------------------------------------------------------------------------
(* The UI thread: VoiceProxy.setReceive().                                 *)

Others == <<handler, making, thread, released, interrupted, rcvReleased, queue,
            network, freed>>

StartReceiving ==
  /\ ui = "off"
  /\ wakeLock' = TRUE
  /\ control' = TRUE
  /\ ui' = "on"
  /\ UNCHANGED <<Others, streamMap, step, playerList, releasing>>

\* Mutation of UnregisterControl: only the scope is unsubscribed, and packets
\* still under way start new players.
UnsubscribeOnly ==
  /\ ui = "on"
  /\ ui' = "list"
  /\ UNCHANGED <<Others, proxy, step, playerList, releasing>>

\* Unsubscribe the scope and unregister newData().
UnregisterControl ==
  /\ ui = "on"
  /\ control' = FALSE
  /\ ui' = "list"
  /\ UNCHANGED <<Others, streamMap, wakeLock, step, playerList, releasing>>

TablePlayers == {streamMap[s] : s \in Streams} \ {None}

ListPlayers ==
  /\ ui = "list"
  /\ playerList' = TablePlayers
  /\ ui' = "next"
  /\ UNCHANGED <<Others, proxy, step, releasing>>

\* player.release() of the next player, in the table's order; ...
ReleaseNext(p) ==
  /\ ui = "next"
  /\ p \in playerList
  /\ playerList' = playerList \ {p}
  /\ releasing' = p
  /\ step' = [step EXCEPT ![UI] = "test"]
  /\ ui' = "join"
  /\ UNCHANGED <<Others, proxy>>

\* Mutation of Join: the player's thread is not waited for.
JoinNot ==
  /\ ui = "join" /\ step[UI] = "idle"
  /\ releasing' = None
  /\ ui' = "next"
  /\ UNCHANGED <<Others, proxy, step, playerList>>

\* ... and player.join().
Join ==
  /\ ui = "join" /\ step[UI] = "idle"
  /\ pc[releasing] = "dead"
  /\ releasing' = None
  /\ ui' = "next"
  /\ UNCHANGED <<Others, proxy, step, playerList>>

\* A table that is not empty is logged as an error and cleared.
StopReceiving ==
  /\ ui = "next" /\ playerList = {}
  /\ streamMap' = [s \in Streams |-> None]
  /\ wakeLock' = FALSE
  /\ ui' = "off"
  /\ UNCHANGED <<Others, control, step, playerList, releasing>>

-----------------------------------------------------------------------------

EventThread ==
  \E s \in Streams : NewData(s) \/ \E fin \in BOOLEAN : PublishedData(s, fin)

Player(p) ==
  \/ Run(p) \/ CheckReleased(p) \/ Resync(p) \/ Take(p) \/ Interrupted(p)
  \/ Handle(p) \/ Break(p) \/ Release(p)

SwitchOff ==
  \/ ListPlayers
  \/ \E p \in Players : ReleaseNext(p)
  \/ Release(UI) \/ Join \/ StopReceiving

UIThread == StartReceiving \/ UnregisterControl \/ SwitchOff

Next == EventThread \/ (\E p \in Players : Player(p)) \/ UIThread

Spec == Init /\ [][Next]_vars

\* A player's thread and a setReceive(false) once begun keep running (take()
\* and join() block by their guards); nothing is assumed of the network or the
\* user.
Fairness ==
  /\ \A p \in Players : WF_vars(Player(p))
  /\ WF_vars(SwitchOff)

FairSpec == Spec /\ Fairness

-----------------------------------------------------------------------------
(* Properties.                                                             *)

MaybePlayer == Players \cup {None}

\* Every variable stays in its domain, and no queue is over its capacity.
TypeOK ==
  /\ control \in BOOLEAN /\ wakeLock \in BOOLEAN
  /\ handler \in [Streams -> MaybePlayer]
  /\ streamMap \in [Streams -> MaybePlayer]
  /\ created \in 0..MaxPlayers
  /\ rid \in [Players -> Streams \cup {None}]
  /\ pc \in [Players -> {"none", "start", "top", "resync", "take", "event", "release", "dead"}]
  /\ hand \in [Players -> Events \cup {None}]
  /\ released \in [Players -> BOOLEAN]
  /\ interrupted \in [Players -> BOOLEAN]
  /\ rcvReleased \in [Players -> BOOLEAN]
  /\ queue \in [Players -> Seq(Events)]
  /\ \A p \in Players : Len(queue[p]) <= QueueCap
  /\ step \in [Threads -> {"idle", "test", "mark", "interrupt", "receiver",
                           "unregister", "drain", "finish"}]
  /\ ui \in {"off", "on", "list", "next", "join"}
  /\ playerList \subseteq Players
  /\ releasing \in MaybePlayer
  /\ sent \in 0..MaxEvents
  /\ fins \subseteq Events /\ freed \subseteq Events /\ lost \subseteq Events

\* p's thread has ended, or has nothing left but to stop its AudioTrack.
Over(p) == pc[p] = "dead" \/ (pc[p] = "release" /\ step[p] = "idle")

\* No event's native buffer is freed twice, held twice or used after it was
\* freed, although the player's thread, release() by two threads and the
\* resync all empty the same queue; the only buffers that are never freed are
\* those a full queue refused (BAPacketSubscriber.publishedData).
BuffersAccounted ==
  /\ 1..sent = freed \cup lost \cup UNION {Queued(p) \cup ({hand[p]} \ {None}) : p \in Players}
  /\ freed \cap lost = {}
  /\ \A p \in Players :
       /\ Queued(p) \cap (freed \cup lost) = {}
       /\ hand[p] \notin freed \cup lost \cup Queued(p)
       /\ \A i, j \in DOMAIN queue[p] : queue[p][i] = queue[p][j] => i = j
       /\ \A q \in Players \ {p} :
            /\ Queued(p) \cap (Queued(q) \cup {hand[q]}) = {}
            /\ hand[p] # None => hand[p] # hand[q]

\* A player whose receiver nobody has released is its stream's handler and its
\* entry in the table: neither the second release() of an earlier player nor a
\* newData() during setReceive(false) takes a new player's handler or entry.
ListenerIsListed ==
  \A p \in 1..created : ~rcvReleased[p] =>
    /\ handler[rid[p]] = p
    /\ streamMap[rid[p]] = p

\* "streamMap should be empty after all players are terminted (they remove
\* themselves from the map)" (VoiceProxy:181): so it is, also when a player's
\* own thread is half-way through release() when setReceive(false) comes to it.
EmptyAfterJoin ==
  (ui = "next" /\ playerList = {}) => \A s \in Streams : streamMap[s] = None

\* After setReceive(false) nothing of voice reception is left: no handler, no
\* queued event, no player that could still touch them or the table; and the
\* wake lock is held as long as there is one.  (A player ended by its own
\* termination mark has left the table and is not joined: its thread may
\* still be stopping its AudioTrack.)
OffIsQuiet ==
  /\ ui = "off" =>
       /\ ~control
       /\ \A s \in Streams : handler[s] = None
       /\ \A p \in 1..created : Over(p) /\ queue[p] = <<>>
  /\ \A p \in 1..created : Over(p) \/ wakeLock

\* setReceive(false) returns: every join() ends, also of a player released
\* before its thread has reset `released` in run().
SwitchOffReturns == ui = "list" ~> ui = "off"

\* "termination mark" (BAPacketPublisher:89), "FIN_PKT received: terminating
\* player" (VoicePlayer:106): a player whose queue the mark has reached ends.
\* The code breaks it: a resync throws the mark away with the sound before it.
MarkEndsPlayer ==
  \A p \in Players : (Queued(p) \cap fins # {}) ~> pc[p] = "dead"
=============================================================================

------------------------ MODULE VoiceReception_proof ------------------------
(***************************************************************************)
(* Theorems about VoiceReception: type correctness, the accounting of      *)
(* native buffers, and what setReceive(false) and the two release()        *)
(* callers leave behind, from one inductive invariant.                     *)
(***************************************************************************)
EXTENDS VoiceReception, TLAPS

-----------------------------------------------------------------------------
(* The inductive invariant.                                                *)

Born == 1..created

\* What the UI thread's place says of the switch, the wake lock and the
\* players it is after.
UIPlace ==
  /\ control = (ui = "on")
  /\ wakeLock = (ui # "off")
  /\ releasing # None <=> ui = "join"
  /\ step[UI] # "idle" => ui = "join"
  /\ playerList # {} => ui \in {"next", "join"}
  /\ playerList \subseteq Born /\ releasing \in Born \cup {None}

\* What a player's place says of its event and of its own release().
PlayerPlace ==
  \A p \in Players :
    /\ hand[p] # None <=> pc[p] = "event"
    /\ step[p] # "idle" => pc[p] = "release"
    /\ p \in Born => rid[p] \in Streams /\ pc[p] # "none"
    /\ p \notin Born =>
         /\ pc[p] = "none"
         /\ ~released[p] /\ ~interrupted[p] /\ ~rcvReleased[p]

\* The classifier's table and the stream table name players under their rid.
TablesName ==
  \A s \in Streams :
    /\ handler[s] # None =>
         handler[s] \in Born /\ rid[handler[s]] = s /\ ~rcvReleased[handler[s]]
    /\ streamMap[s] # None => streamMap[s] \in Born /\ rid[streamMap[s]] = s
    /\ ui = "off" => streamMap[s] = None

\* Past its unregistration a release() has marked the receiver; whatever is
\* still queued then will be drained.
ReceiverReleased ==
  /\ \A t \in Threads : step[t] \in {"drain", "finish"} => rcvReleased[Target(t)]
  /\ \A p \in Born : (rcvReleased[p] /\ queue[p] # <<>>) =>
       \E t \in {p, UI} : step[t] = "drain" /\ Target(t) = p

\* Nobody takes the place in the table of a player setReceive(false) is after,
\* and the table holds nobody else.
TableWanted ==
  /\ \A p \in playerList \cup ({releasing} \ {None}) : streamMap[rid[p]] \in {p, None}
  /\ ui \in {"next", "join"} =>
       \A s \in Streams : streamMap[s] \in playerList \cup {releasing, None}

\* Thread t is committed to finish its target's stream.
Committed(t) ==
  step[t] \in {"mark", "interrupt", "receiver", "unregister", "drain", "finish"}

\* A player in the table is untouched by any release(), or one is committed
\* to take it out.
EntryLeaves ==
  \A p \in Born : streamMap[rid[p]] = p =>
    \/ Committed(UI) /\ releasing = p
    \/ Committed(p)
    \/ /\ ~released[p] /\ ~interrupted[p] /\ pc[p] # "dead"
       /\ pc[p] = "release" => step[p] = "test"

\* A player that is not over is in the table, or setReceive(false) waits for it.
LivingIsListed ==
  \A p \in Born : Over(p) \/ streamMap[rid[p]] = p \/ releasing = p

Protocol ==
  /\ UIPlace /\ PlayerPlace /\ TablesName /\ ReceiverReleased
  /\ TableWanted /\ EntryLeaves /\ LivingIsListed /\ ListenerIsListed

IInv == TypeOK /\ BuffersAccounted /\ Protocol

-----------------------------------------------------------------------------
(* Typing.  Only freeing the event in hand needs more than TypeOK.         *)

LEMMA InitInv == Init => IInv
  <1> SUFFICES ASSUME Init PROVE IInv
    OBVIOUS
  <1> USE VoiceAssumption DEF Init, Players, Events, Threads, None, UI
  <1>1. TypeOK
    <2>1. queue \in [Players -> Seq(Events)] /\ \A p \in Players : Len(queue[p]) <= QueueCap
      OBVIOUS
    <2>2. /\ created \in 0..MaxPlayers /\ sent \in 0..MaxEvents
          /\ fins \subseteq Events /\ freed \subseteq Events /\ lost \subseteq Events
      OBVIOUS
    <2>3. /\ handler \in [Streams -> MaybePlayer] /\ streamMap \in [Streams -> MaybePlayer]
          /\ rid \in [Players -> Streams \cup {None}]
          /\ hand \in [Players -> Events \cup {None}]
          /\ playerList \subseteq Players /\ releasing \in MaybePlayer
      BY DEF MaybePlayer
    <2>4. QED
      <3> HIDE DEF Players, Events, Threads, None
      <3>1. QED BY <2>1, <2>2, <2>3 DEF TypeOK
  <1>2. BuffersAccounted
    BY DEF BuffersAccounted, Queued
  <1>3. UIPlace /\ PlayerPlace /\ TablesName
    <2>1. UIPlace
      BY DEF UIPlace, Born
    <2>2. PlayerPlace
      BY DEF PlayerPlace, Born
    <2>3. TablesName
      BY DEF TablesName
    <2>4. QED BY <2>1, <2>2, <2>3
  <1>4. ReceiverReleased /\ TableWanted
    BY DEF ReceiverReleased, TableWanted, Born
  <1>5. EntryLeaves /\ LivingIsListed /\ ListenerIsListed
    BY DEF EntryLeaves, LivingIsListed, ListenerIsListed, Born
  <1>6. QED BY <1>1, <1>2, <1>3, <1>4, <1>5 DEF IInv, Protocol

LEMMA EventThreadTyped ==
  ASSUME TypeOK, EventThread
  PROVE  TypeOK'
  <1> USE VoiceAssumption DEF TypeOK, MaybePlayer, Players, Events, Threads, None, UI
  <1>1. CASE \E s \in Streams : NewData(s)
    BY <1>1 DEF NewData, uiVars, network
  <1>2. ASSUME NEW s \in Streams, NEW fin \in BOOLEAN, PublishedData(s, fin)
        PROVE  TypeOK'
    <2> DEFINE p == handler[s]
    <2>1. p \in Players /\ sent + 1 \in Events /\ sent' \in 0..MaxEvents
      BY <1>2 DEF PublishedData
    <2>2. fins' \subseteq Events
      BY <1>2, <2>1 DEF PublishedData
    <2>3. /\ queue' \in [Players -> Seq(Events)] /\ lost' \subseteq Events
          /\ \A q \in Players : Len(queue'[q]) <= QueueCap
      <3>1. CASE /\ Len(queue[p]) < QueueCap /\ lost' = lost
                 /\ queue' = [queue EXCEPT ![p] = Append(@, sent + 1)]
        <4>1. /\ Append(queue[p], sent + 1) \in Seq(Events)
              /\ Len(Append(queue[p], sent + 1)) <= QueueCap
          BY <2>1, <3>1
        <4>2. QED BY <2>1, <3>1, <4>1
      <3>2. CASE queue' = queue /\ lost' = lost \cup {sent + 1}
        BY <2>1, <3>2
      <3>3. QED BY <1>2, <3>1, <3>2 DEF PublishedData, Offer
    <2>4. QED
      BY <1>2, <2>1, <2>2, <2>3 DEF PublishedData, proxy, making, thread, uiVars
  <1>3. QED BY <1>1, <1>2 DEF EventThread

LEMMA DrainTyped ==
  ASSUME TypeOK, NEW p \in Players, DrainDataQueue(p)
  PROVE  /\ queue' \in [Players -> Seq(Events)] /\ freed' \subseteq Events
         /\ \A q \in Players : Len(queue'[q]) <= QueueCap
  <1>1. Queued(p) \subseteq Events
    BY DEF Queued, TypeOK
  <1>2. QED BY <1>1, VoiceAssumption DEF DrainDataQueue, TypeOK

LEMMA ReleaseTyped ==
  ASSUME TypeOK, UIPlace, NEW t \in Threads, Release(t)
  PROVE  TypeOK'
  <1> USE DEF TypeOK, MaybePlayer, ReleaseVars, proxy, making, thread, uiVars, network
  <1>1. CASE TestReleased(t)
    BY <1>1 DEF TestReleased
  <1>2. CASE MarkReleased(t)
    BY <1>2 DEF MarkReleased
  <1>3. CASE Interrupt(t)
    BY <1>3 DEF Interrupt, RaiseInterrupt
  <1>4. CASE TestReceiver(t)
    BY <1>4 DEF TestReceiver
  <1>5. CASE Unregister(t)
    BY <1>5 DEF Unregister
  <1>6. CASE Drain(t)
    <2>1. Target(t) \in Players
      BY <1>6, VoiceAssumption DEF Drain, Target, UIPlace, Threads, UI, None, Born, Players
    <2>2. QED BY <1>6, <2>1, DrainTyped DEF Drain
  <1>7. CASE StreamFinished(t)
    BY <1>7 DEF StreamFinished
  <1>8. QED
    BY <1>1, <1>2, <1>3, <1>4, <1>5, <1>6, <1>7 DEF Release

LEMMA PlayerTyped ==
  ASSUME TypeOK, UIPlace, PlayerPlace, NEW p \in Players, Player(p)
  PROVE  TypeOK'
  <1> USE DEF TypeOK, MaybePlayer, proxy, making, uiVars, network
  <1>1. CASE Run(p)
    BY <1>1 DEF Run
  <1>2. CASE CheckReleased(p)
    BY <1>2 DEF CheckReleased
  <1>3. CASE Resync(p)
    BY <1>3, DrainTyped DEF Resync
  <1>4. CASE Take(p)
    <2>1. /\ Head(queue[p]) \in Events /\ Tail(queue[p]) \in Seq(Events)
          /\ Len(Tail(queue[p])) <= QueueCap
      BY <1>4, VoiceAssumption DEF Take
    <2>2. QED BY <1>4, <2>1 DEF Take
  <1>5. CASE Interrupted(p)
    BY <1>5 DEF Interrupted
  <1>6. CASE Handle(p)
    <2>1. hand[p] \in Events
      BY <1>6 DEF Handle, PlayerPlace
    <2>2. QED BY <1>6, <2>1 DEF Handle, FreeEvent, Threads
  <1>7. CASE Break(p)
    BY <1>7 DEF Break
  <1>8. CASE Release(p)
    BY <1>8, ReleaseTyped DEF Threads
  <1>9. QED
    BY <1>1, <1>2, <1>3, <1>4, <1>5, <1>6, <1>7, <1>8 DEF Player

LEMMA UITyped ==
  ASSUME TypeOK, UIPlace, UIThread
  PROVE  TypeOK'
  <1> USE DEF TypeOK, MaybePlayer, Others, making, thread, network, proxy, Threads
  <1>1. CASE StartReceiving
    BY <1>1 DEF StartReceiving
  <1>2. CASE UnregisterControl
    BY <1>2 DEF UnregisterControl
  <1>3. CASE ListPlayers
    BY <1>3 DEF ListPlayers, TablePlayers
  <1>4. CASE \E p \in Players : ReleaseNext(p)
    BY <1>4 DEF ReleaseNext
  <1>5. CASE Release(UI)
    BY <1>5, ReleaseTyped
  <1>6. CASE Join
    BY <1>6 DEF Join
  <1>7. CASE StopReceiving
    BY <1>7 DEF StopReceiving
  <1>8. QED
    BY <1>1, <1>2, <1>3, <1>4, <1>5, <1>6, <1>7 DEF UIThread, SwitchOff

LEMMA TypeStep == IInv /\ [Next]_vars => TypeOK'
  <1> SUFFICES ASSUME IInv, [Next]_vars PROVE TypeOK'
    OBVIOUS
  <1>1. TypeOK /\ UIPlace /\ PlayerPlace
    BY DEF IInv, Protocol
  <1>2. CASE Next
    BY <1>1, <1>2, EventThreadTyped, PlayerTyped, UITyped DEF Next
  <1>3. CASE UNCHANGED vars
    BY <1>1, <1>3 DEF vars, TypeOK, proxy, making, thread, uiVars, network
  <1>4. QED BY <1>2, <1>3

-----------------------------------------------------------------------------
(* Native buffers.                                                         *)

LEMMA Appended ==
  ASSUME NEW S, NEW q \in Seq(S), NEW e \in S
  PROVE  /\ {Append(q, e)[i] : i \in DOMAIN Append(q, e)} = {q[i] : i \in DOMAIN q} \cup {e}
         /\ (/\ e \notin {q[i] : i \in DOMAIN q}
             /\ \A i, j \in DOMAIN q : q[i] = q[j] => i = j) =>
              \A i, j \in DOMAIN Append(q, e) : Append(q, e)[i] = Append(q, e)[j] => i = j
  <1> DEFINE r == Append(q, e)
  <1>1. /\ DOMAIN q = 1..Len(q) /\ DOMAIN r = 1..(Len(q) + 1) /\ Len(q) \in Nat
        /\ \A i \in 1..Len(q) : r[i] = q[i]
        /\ r[Len(q) + 1] = e
    OBVIOUS
  <1> HIDE DEF r
  <1>2. {r[i] : i \in DOMAIN r} = {q[i] : i \in DOMAIN q} \cup {e}
    <2>1. \A i \in DOMAIN r : i \in DOMAIN q \/ i = Len(q) + 1
      BY <1>1
    <2>2. \A i \in DOMAIN q : i \in DOMAIN r
      BY <1>1
    <2>3. Len(q) + 1 \in DOMAIN r
      BY <1>1
    <2>4. QED BY <1>1, <2>1, <2>2, <2>3
  <1>3. ASSUME e \notin {q[i] : i \in DOMAIN q},
               \A i, j \in DOMAIN q : q[i] = q[j] => i = j,
               NEW i \in DOMAIN r, NEW j \in DOMAIN r, r[i] = r[j]
        PROVE  i = j
    <2>1. (i \in DOMAIN q \/ i = Len(q) + 1) /\ (j \in DOMAIN q \/ j = Len(q) + 1)
      BY <1>1
    <2>2. QED BY <1>1, <1>3, <2>1
  <1>4. QED BY <1>2, <1>3 DEF r

LEMMA Taken ==
  ASSUME NEW S, NEW q \in Seq(S), q # <<>>,
         \A i, j \in DOMAIN q : q[i] = q[j] => i = j
  PROVE  /\ {q[i] : i \in DOMAIN q} = {Tail(q)[i] : i \in DOMAIN Tail(q)} \cup {Head(q)}
         /\ Head(q) \notin {Tail(q)[i] : i \in DOMAIN Tail(q)}
         /\ \A i, j \in DOMAIN Tail(q) : Tail(q)[i] = Tail(q)[j] => i = j
  <1> DEFINE r == Tail(q)
             n == Len(q)
  <1>1. /\ n \in Nat /\ n > 0 /\ DOMAIN q = 1..n /\ DOMAIN r = 1..(n - 1)
        /\ \A i \in 1..(n - 1) : r[i] = q[i + 1]
        /\ Head(q) = q[1]
    OBVIOUS
  <1> HIDE DEF r, n
  <1>2. \A i \in DOMAIN r : i + 1 \in DOMAIN q /\ r[i] = q[i + 1] /\ i + 1 # 1
    BY <1>1
  <1>3. \A i \in DOMAIN q : i = 1 \/ (i - 1 \in DOMAIN r /\ r[i - 1] = q[i])
    BY <1>1
  <1>4. 1 \in DOMAIN q
    BY <1>1
  <1>5. {q[i] : i \in DOMAIN q} = {r[i] : i \in DOMAIN r} \cup {Head(q)}
    <2>1. \A i \in DOMAIN q : q[i] \in {r[j] : j \in DOMAIN r} \cup {Head(q)}
      BY <1>1, <1>3
    <2>2. \A j \in DOMAIN r : r[j] \in {q[i] : i \in DOMAIN q}
      BY <1>2
    <2>3. Head(q) \in {q[i] : i \in DOMAIN q}
      BY <1>1, <1>4
    <2>4. QED BY <2>1, <2>2, <2>3
  <1>6. Head(q) \notin {r[i] : i \in DOMAIN r}
    BY <1>1, <1>2, <1>4
  <1>7. ASSUME NEW i \in DOMAIN r, NEW j \in DOMAIN r, r[i] = r[j]
        PROVE  i = j
    BY <1>1, <1>2, <1>7
  <1>8. QED BY <1>5, <1>6, <1>7 DEF r

Distinct(p) == \A i, j \in DOMAIN queue[p] : queue[p][i] = queue[p][j] => i = j

\* BuffersAccounted, buffer by buffer.
Accounted(sent_, freed_, lost_, queued, hand_) ==
  /\ \A e : e \in 1..sent_ <=>
       e \in freed_ \/ e \in lost_ \/ \E p \in Players : e \in queued[p] \/ (e = hand_[p] /\ e # None)
  /\ \A e \in 1..sent_ : ~(e \in freed_ /\ e \in lost_)
  /\ \A p \in Players : \A e \in freed_ \cup lost_ : e \notin queued[p] /\ e # hand_[p]
  /\ \A p \in Players : hand_[p] \notin queued[p]
  /\ \A p, q \in Players : p # q =>
       /\ \A e \in queued[p] : e \notin queued[q] /\ e # hand_[q]
       /\ hand_[p] # None => hand_[p] # hand_[q]

Queues == [p \in Players |-> Queued(p)]

AccountedNow == Accounted(sent, freed, lost, Queues, hand)
AllDistinct  == \A p \in Players : Distinct(p)

LEMMA BuffersPointwise == BuffersAccounted <=> AccountedNow /\ AllDistinct
  <1> USE DEF AccountedNow, AllDistinct
  <1>1. \A p \in Players : Queues[p] = Queued(p)
    BY DEF Queues
  <1> HIDE DEF Queues
  <1>2. ASSUME BuffersAccounted
        PROVE  Accounted(sent, freed, lost, Queues, hand) /\ \A p \in Players : Distinct(p)
    BY <1>1, <1>2 DEF BuffersAccounted, Accounted, Distinct
  <1>3. ASSUME Accounted(sent, freed, lost, Queues, hand), \A p \in Players : Distinct(p)
        PROVE  BuffersAccounted
    BY <1>1, <1>3 DEF BuffersAccounted, Accounted, Distinct
  <1>4. QED BY <1>2, <1>3

LEMMA DrainAccounted ==
  ASSUME NEW n, NEW fr, NEW lo, NEW qs \in [Players -> SUBSET Events], NEW ha,
         Accounted(n, fr, lo, qs, ha), NEW p \in Players
  PROVE  Accounted(n, fr \cup qs[p], lo, [qs EXCEPT ![p] = {}], ha)
  BY DEF Accounted

LEMMA OfferAccounted ==
  ASSUME NEW n \in Nat, NEW fr, NEW lo, NEW qs \in [Players -> SUBSET Events], NEW ha,
         Accounted(n, fr, lo, qs, ha), NEW p \in Players
  PROVE  /\ Accounted(n + 1, fr, lo, [qs EXCEPT ![p] = @ \cup {n + 1}], ha)
         /\ Accounted(n + 1, fr, lo \cup {n + 1}, qs, ha)
  <1>1. n + 1 \notin 1..n /\ 1..(n + 1) = (1..n) \cup {n + 1} /\ n + 1 # None
    BY DEF None
  <1>2. /\ n + 1 \notin fr /\ n + 1 \notin lo
        /\ \A q \in Players : n + 1 \notin qs[q] /\ n + 1 # ha[q]
    BY <1>1 DEF Accounted
  <1> DEFINE m == n + 1
  <1> HIDE DEF m
  <1>3. Accounted(m, fr, lo, [qs EXCEPT ![p] = @ \cup {m}], ha)
    BY <1>1, <1>2 DEF Accounted, m
  <1>4. Accounted(m, fr, lo \cup {m}, qs, ha)
    BY <1>1, <1>2 DEF Accounted, m
  <1>5. QED BY <1>3, <1>4 DEF m

LEMMA TakeAccounted ==
  ASSUME NEW n, NEW fr, NEW lo, NEW qs \in [Players -> SUBSET Events],
         NEW ha \in [Players -> Events \cup {None}],
         Accounted(n, fr, lo, qs, ha), NEW p \in Players, ha[p] = None,
         NEW e \in qs[p], NEW rest, qs[p] = rest \cup {e}, e \notin rest
  PROVE  Accounted(n, fr, lo, [qs EXCEPT ![p] = rest], [ha EXCEPT ![p] = e])
  <1>1. e # None
    BY DEF Events, None
  <1>2. QED BY <1>1 DEF Accounted

LEMMA FreeAccounted ==
  ASSUME NEW n, NEW fr, NEW lo, NEW qs \in [Players -> SUBSET Events],
         NEW ha \in [Players -> Events \cup {None}],
         Accounted(n, fr, lo, qs, ha), NEW p \in Players, ha[p] # None
  PROVE  Accounted(n, fr \cup {ha[p]}, lo, qs, [ha EXCEPT ![p] = None])
  <1>1. \A q \in Players : None \notin qs[q]
    BY DEF Events, None
  <1>2. None \notin fr \cup {ha[p]} \cup lo
    BY VoiceAssumption DEF Accounted, None
  <1>3. QED BY <1>1, <1>2 DEF Accounted

\* The steps of Next, by what they do to the buffers.
Untouched == UNCHANGED <<sent, freed, lost, hand, queue>>
Draining(p) == DrainDataQueue(p) /\ UNCHANGED <<sent, lost, hand>>

LEMMA ReleaseBuffers ==
  ASSUME TypeOK, UIPlace, NEW t \in Threads, Release(t)
  PROVE  Untouched \/ \E p \in Players : Draining(p)
  <1> USE DEF Untouched, ReleaseVars, thread, network
  <1>1. CASE Drain(t)
    <2>1. Target(t) \in Players
      BY <1>1, VoiceAssumption
      DEF Drain, Target, UIPlace, Threads, UI, None, Born, Players, TypeOK
    <2>2. QED BY <1>1, <2>1 DEF Drain, Draining
  <1>2. CASE ~Drain(t)
    BY <1>2 DEF Release, TestReleased, MarkReleased, Interrupt, TestReceiver, Unregister,
                StreamFinished
  <1>3. QED BY <1>1, <1>2

LEMMA StepBuffers ==
  ASSUME TypeOK, UIPlace, Next
  PROVE  \/ Untouched
         \/ \E p \in Players : Draining(p)
         \/ \E s \in Streams, fin \in BOOLEAN : PublishedData(s, fin)
         \/ \E p \in Players : Take(p) \/ Handle(p)
  <1> USE DEF Untouched, network, thread
  <1>1. CASE EventThread
    BY <1>1 DEF EventThread, NewData
  <1>2. ASSUME NEW p \in Players, Player(p)
        PROVE  Untouched \/ Draining(p) \/ Take(p) \/ Handle(p) \/ \E q \in Players : Draining(q)
    <2>1. CASE Release(p)
      BY <2>1, ReleaseBuffers DEF Threads
    <2>2. CASE Run(p) \/ CheckReleased(p) \/ Resync(p) \/ Interrupted(p) \/ Break(p)
      BY <2>2 DEF Run, CheckReleased, Resync, Interrupted, Break, Draining
    <2>3. QED BY <1>2, <2>1, <2>2 DEF Player
  <1>3. CASE UIThread
    <2>1. CASE Release(UI)
      BY <2>1, ReleaseBuffers DEF Threads
    <2>2. CASE ~Release(UI)
      BY <1>3, <2>2 DEF UIThread, SwitchOff, StartReceiving, UnregisterControl, ListPlayers,
                        ReleaseNext, Join, StopReceiving, Others
    <2>3. QED BY <2>1, <2>2
  <1>4. QED BY <1>1, <1>2, <1>3 DEF Next

LEMMA BuffersStep == IInv /\ [Next]_vars => BuffersAccounted'
  <1> SUFFICES ASSUME IInv, [Next]_vars PROVE BuffersAccounted'
    OBVIOUS
  <1>1. TypeOK /\ UIPlace /\ PlayerPlace
    BY DEF IInv, Protocol
  <1>2. Accounted(sent, freed, lost, Queues, hand) /\ \A p \in Players : Distinct(p)
    BY BuffersPointwise DEF IInv, AccountedNow, AllDistinct
  <1>3. ASSUME Accounted(sent', freed', lost', Queues', hand'), \A p \in Players : Distinct(p)'
        PROVE  BuffersAccounted'
    <2>1. AccountedNow' /\ AllDistinct'
      BY <1>3 DEF AccountedNow, AllDistinct
    <2>2. QED BY BuffersPointwise, <2>1, PTL
  <1>4. Queues \in [Players -> SUBSET Events] /\ \A p \in Players : Queues[p] = Queued(p)
    BY <1>1 DEF Queues, Queued, TypeOK
  <1> DEFINE NewQueues == [q \in Players |-> Queued(q)']
  <1>q. Queues' = NewQueues
    BY DEF Queues
  <1>5. CASE Untouched
    <2>1. Queues' = Queues /\ \A p \in Players : Distinct(p)' = Distinct(p)
      BY <1>5 DEF Untouched, Queues, Queued, Distinct
    <2>2. QED BY <1>2, <1>3, <1>5, <2>1 DEF Untouched
  <1>6. ASSUME NEW p \in Players, Draining(p)
        PROVE  BuffersAccounted'
    <2>1. queue' = [queue EXCEPT ![p] = <<>>] /\ freed' = freed \cup Queues[p]
      BY <1>4, <1>6 DEF Draining, DrainDataQueue
    <2>2. Queues' = [Queues EXCEPT ![p] = {}]
      <3>1. \A q \in Players : Queued(q)' = IF q = p THEN {} ELSE Queued(q)
        BY <1>1, <2>1 DEF Queued, TypeOK
      <3>2. NewQueues = [Queues EXCEPT ![p] = {}]
        BY <1>4, <3>1
      <3>3. QED BY <1>q, <3>2
    <2>3. \A q \in Players : Distinct(q)'
      BY <1>1, <1>2, <2>1 DEF Distinct, TypeOK
    <2>4. Accounted(sent', freed', lost', Queues', hand')
      BY <1>2, <1>4, <1>6, <2>1, <2>2, DrainAccounted DEF Draining
    <2>5. QED BY <1>3, <2>3, <2>4
  <1>7. ASSUME NEW s \in Streams, NEW fin \in BOOLEAN, PublishedData(s, fin)
        PROVE  BuffersAccounted'
    <2> DEFINE e == sent + 1
    <2>0. PICK p \in Players : p = handler[s]
      BY <1>1, <1>7 DEF PublishedData, TypeOK, MaybePlayer
    <2>1. p \in Players /\ e \in Events /\ sent \in Nat
      BY <1>1, <1>7, VoiceAssumption DEF PublishedData, TypeOK, Events
    <2>2. sent' = e /\ freed' = freed /\ hand' = hand
      BY <1>7 DEF PublishedData, thread
    <2>3. CASE queue' = queue /\ lost' = lost \cup {e}
      <3>1. Queues' = Queues /\ \A q \in Players : Distinct(q)' = Distinct(q)
        BY <2>3 DEF Queues, Queued, Distinct
      <3>2. Accounted(sent', freed', lost', Queues', hand')
        BY <1>2, <1>4, <2>1, <2>2, <2>3, <3>1, OfferAccounted
      <3>3. QED BY <1>2, <1>3, <3>1, <3>2
    <2>4. CASE queue' = [queue EXCEPT ![p] = Append(@, e)] /\ lost' = lost
      <3>1. queue[p] \in Seq(Events) /\ queue'[p] = Append(queue[p], e)
            /\ \A q \in Players \ {p} : queue'[q] = queue[q]
        BY <1>1, <2>1, <2>4 DEF TypeOK
      <3>2. e \notin Queued(p)
        <4>1. e \notin 1..sent
          BY <2>1
        <4>2. QED BY <1>2, <1>4, <2>1, <4>1 DEF Accounted
      <3>3. Queued(p)' = Queued(p) \cup {e} /\ Distinct(p)'
        <4> DEFINE q == queue[p]
        <4>1. q \in Seq(Events) /\ \A i, j \in DOMAIN q : q[i] = q[j] => i = j
          BY <1>2, <2>1, <3>1 DEF Distinct
        <4>2. e \notin {q[i] : i \in DOMAIN q}
          BY <3>2 DEF Queued
        <4> HIDE DEF q, e
        <4>3. /\ {Append(q, e)[i] : i \in DOMAIN Append(q, e)} = {q[i] : i \in DOMAIN q} \cup {e}
              /\ \A i, j \in DOMAIN Append(q, e) : Append(q, e)[i] = Append(q, e)[j] => i = j
          BY <2>1, <4>1, <4>2, Appended
        <4>4. QED BY <3>1, <4>3 DEF Queued, Distinct, q
      <3>4. \A q \in Players \ {p} : Queued(q)' = Queued(q) /\ Distinct(q)' = Distinct(q)
        BY <3>1 DEF Queued, Distinct
      <3>5. Queues' = [Queues EXCEPT ![p] = @ \cup {e}]
        <4>1. NewQueues = [Queues EXCEPT ![p] = @ \cup {e}]
          BY <1>4, <2>1, <3>3, <3>4
        <4>2. QED BY <1>q, <4>1
      <3>6. Accounted(sent', freed', lost', Queues', hand')
        BY <1>2, <1>4, <2>1, <2>2, <2>4, <3>5, OfferAccounted
      <3>7. \A q \in Players : Distinct(q)'
        BY <1>2, <3>3, <3>4
      <3>8. QED BY <1>3, <3>6, <3>7
    <2>5. QED BY <1>7, <2>0, <2>3, <2>4 DEF PublishedData, Offer
  <1>8. ASSUME NEW p \in Players, Take(p)
        PROVE  BuffersAccounted'
    <2> DEFINE e == Head(queue[p])
               rest == {Tail(queue[p])[i] : i \in DOMAIN Tail(queue[p])}
    <2>1. queue[p] \in Seq(Events) /\ queue[p] # <<>> /\ hand[p] = None
      BY <1>1, <1>8 DEF Take, TypeOK, PlayerPlace
    <2>2. Queued(p) = rest \cup {e} /\ e \notin rest
          /\ \A i, j \in DOMAIN Tail(queue[p]) : Tail(queue[p])[i] = Tail(queue[p])[j] => i = j
      BY <1>2, <2>1, Taken DEF Queued, Distinct
    <2>3. /\ queue'[p] = Tail(queue[p]) /\ hand' = [hand EXCEPT ![p] = e]
          /\ \A q \in Players \ {p} : queue'[q] = queue[q]
          /\ UNCHANGED <<sent, freed, lost>>
      BY <1>1, <1>8 DEF Take, TypeOK, network
    <2>4. Queued(p)' = rest /\ Distinct(p)'
      BY <2>2, <2>3 DEF Queued, Distinct
    <2>5. \A q \in Players \ {p} : Queued(q)' = Queued(q) /\ Distinct(q)' = Distinct(q)
      BY <2>3 DEF Queued, Distinct
    <2> HIDE DEF e, rest
    <2>6. Queues' = [Queues EXCEPT ![p] = rest]
      <3>1. NewQueues = [Queues EXCEPT ![p] = rest]
        BY <1>4, <2>4, <2>5
      <3>2. QED BY <1>q, <3>1
    <2>7. hand \in [Players -> Events \cup {None}]
      BY <1>1 DEF TypeOK
    <2>8. Accounted(sent', freed', lost', Queues', hand')
      <3>1. e \in Queues[p] /\ Queues[p] = rest \cup {e} /\ e \notin rest
        BY <1>4, <2>2 DEF e, rest
      <3>2. Accounted(sent, freed, lost, [Queues EXCEPT ![p] = rest], [hand EXCEPT ![p] = e])
        BY <1>2, <1>4, <2>1, <2>7, <3>1, TakeAccounted
      <3>3. QED BY <2>3, <2>6, <3>2
    <2>9. QED BY <1>2, <1>3, <2>4, <2>5, <2>8
  <1>9. ASSUME NEW p \in Players, Handle(p)
        PROVE  BuffersAccounted'
    <2>1. hand[p] # None /\ hand \in [Players -> Events \cup {None}]
      BY <1>1, <1>9 DEF Handle, PlayerPlace, TypeOK
    <2>2. /\ freed' = freed \cup {hand[p]} /\ hand' = [hand EXCEPT ![p] = None]
          /\ UNCHANGED <<sent, lost, queue>>
      BY <1>9 DEF Handle, FreeEvent, network
    <2>3. Queues' = Queues /\ \A q \in Players : Distinct(q)' = Distinct(q)
      BY <2>2 DEF Queues, Queued, Distinct
    <2>4. Accounted(sent', freed', lost', Queues', hand')
      BY <1>2, <1>4, <2>1, <2>2, <2>3, FreeAccounted
    <2>5. QED BY <1>2, <1>3, <2>3, <2>4
  <1>10. CASE Next
    BY <1>1, <1>5, <1>6, <1>7, <1>8, <1>9, <1>10, StepBuffers
  <1>11. CASE UNCHANGED vars
    BY <1>5, <1>11 DEF vars, Untouched, thread, network
  <1>12. QED BY <1>10, <1>11

-----------------------------------------------------------------------------
(* The protocol of release().                                              *)

\* A release() in progress has a target, and the target's place in the table
\* is its own or empty: this is what makes a late second release() harmless.
LEMMA TargetsEntry ==
  ASSUME TypeOK, Protocol, NEW t \in Threads, step[t] # "idle"
  PROVE  /\ Target(t) \in Born /\ Target(t) \in Players /\ rid[Target(t)] \in Streams
         /\ streamMap[rid[Target(t)]] \in {Target(t), None}
  <1> USE VoiceAssumption DEF TypeOK, Threads, Players, UI, None, Born, Target
  <1>1. CASE t = UI
    BY <1>1 DEF Protocol, UIPlace, PlayerPlace, TableWanted
  <1>2. CASE t # UI
    <2>1. t \in Born /\ rid[t] \in Streams /\ ~Over(t)
      BY <1>2 DEF Protocol, PlayerPlace, Over
    <2>2. streamMap[rid[t]] = t \/ releasing = t
      BY <2>1 DEF Protocol, LivingIsListed
    <2>3. QED BY <1>2, <2>1, <2>2 DEF Protocol, TableWanted
  <1>3. QED BY <1>1, <1>2

LEMMA EventThreadProtocol ==
  ASSUME TypeOK, Protocol, EventThread
  PROVE  Protocol'
  <1> USE VoiceAssumption DEF TypeOK, MaybePlayer, Threads, Players, UI, None, Born,
          Protocol, UIPlace, PlayerPlace, TablesName, ReceiverReleased, TableWanted,
          EntryLeaves, LivingIsListed, ListenerIsListed, Committed, Over, Target,
          thread, proxy, making, uiVars, network
  <1>1. ASSUME NEW s \in Streams, NewData(s)
        PROVE  Protocol'
    <2>1. UIPlace'
      BY <1>1 DEF NewData
    <2>2. PlayerPlace'
      BY <1>1 DEF NewData
    <2>3. TablesName'
      BY <1>1 DEF NewData
    <2>4. ReceiverReleased'
      BY <1>1 DEF NewData
    <2>5. TableWanted'
      BY <1>1 DEF NewData
    <2>6. EntryLeaves'
    <3>1. /\ created + 1 \in Players /\ created + 1 \notin Born /\ created' = created + 1
          /\ rid' = [rid EXCEPT ![created + 1] = s]
          /\ streamMap' = [streamMap EXCEPT ![s] = created + 1]
          /\ pc' = [pc EXCEPT ![created + 1] = "start"]
          /\ UNCHANGED <<released, interrupted, step, releasing>>
      BY <1>1 DEF NewData
    <3>2. /\ ~released[created + 1] /\ ~interrupted[created + 1]
          /\ pc'[created + 1] = "start"
      BY <3>1
    <3>3. ASSUME NEW p \in Born, streamMap'[rid'[p]] = p
          PROVE  streamMap[rid[p]] = p /\ pc'[p] = pc[p]
      BY <3>1, <3>3
    <3>4. QED BY <3>1, <3>2, <3>3
    <2>7. LivingIsListed'
      BY <1>1 DEF NewData
    <2>8. ListenerIsListed'
      BY <1>1 DEF NewData
    <2>9. QED BY <2>1, <2>2, <2>3, <2>4, <2>5, <2>6, <2>7, <2>8
  <1>2. ASSUME NEW s \in Streams, NEW fin \in BOOLEAN, PublishedData(s, fin)
        PROVE  Protocol'
    <2>1. UIPlace'
      BY <1>2 DEF PublishedData, Offer
    <2>2. PlayerPlace'
      BY <1>2 DEF PublishedData, Offer
    <2>3. TablesName'
      BY <1>2 DEF PublishedData, Offer
    <2>4. ReceiverReleased'
    <3>1. \A p \in Players : queue'[p] = queue[p] \/ ~rcvReleased[p]
      BY <1>2 DEF PublishedData, Offer
    <3>2. UNCHANGED <<step, releasing, rcvReleased, created>>
      BY <1>2 DEF PublishedData
    <3>3. QED
      <4> HIDE DEF Target, Players
      <4>1. Born \subseteq Players
        BY DEF Players
      <4>2. QED BY <3>1, <3>2, <4>1 DEF Target
    <2>5. TableWanted'
      BY <1>2 DEF PublishedData, Offer
    <2>6. EntryLeaves'
      BY <1>2 DEF PublishedData, Offer
    <2>7. LivingIsListed'
      BY <1>2 DEF PublishedData, Offer
    <2>8. ListenerIsListed'
      BY <1>2 DEF PublishedData, Offer
    <2>9. QED BY <2>1, <2>2, <2>3, <2>4, <2>5, <2>6, <2>7, <2>8
  <1> HIDE DEF Protocol, TypeOK, Threads, Players
  <1>3. QED
    BY <1>1, <1>2 DEF EventThread

LEMMA ReleaseProtocol ==
  ASSUME TypeOK, Protocol, NEW t \in Threads, Release(t)
  PROVE  Protocol'
  <1> USE VoiceAssumption DEF TypeOK, MaybePlayer, Threads, Players, UI, None, Born,
          Protocol, UIPlace, PlayerPlace, TablesName, ReceiverReleased, TableWanted,
          EntryLeaves, LivingIsListed, ListenerIsListed, Committed, Over, Target,
          ReleaseVars, proxy, making, thread, uiVars, network
  <1>1. CASE TestReleased(t)
    <2>1. UIPlace'
      BY <1>1 DEF TestReleased
    <2>2. PlayerPlace'
      BY <1>1 DEF TestReleased
    <2>3. TablesName'
      BY <1>1 DEF TestReleased
    <2>4. ReceiverReleased'
    <3>1. /\ step[t] = "test" /\ \E to \in {"idle", "mark"} : step' = [step EXCEPT ![t] = to]
          /\ UNCHANGED <<rcvReleased, created, queue, releasing>>
      BY <1>1 DEF TestReleased
    <3>2. \A u \in Threads : step[u] \in {"drain", "finish"} <=> step'[u] \in {"drain", "finish"}
      BY <3>1
    <3>3. \A u \in Threads : step[u] = "drain" => step'[u] = "drain"
      BY <3>1
    <3>4. QED BY <3>1, <3>2, <3>3
    <2>5. TableWanted'
      BY <1>1 DEF TestReleased
    <2>6. EntryLeaves'
      BY <1>1 DEF TestReleased
    <2>7. LivingIsListed'
      BY <1>1 DEF TestReleased
    <2>8. ListenerIsListed'
      BY <1>1 DEF TestReleased
    <2>9. QED BY <2>1, <2>2, <2>3, <2>4, <2>5, <2>6, <2>7, <2>8
  <1>2. CASE MarkReleased(t)
    BY SMTT(30), <1>2 DEF MarkReleased
  <1>3. CASE Interrupt(t)
    BY SMTT(30), <1>3 DEF Interrupt, RaiseInterrupt
  <1>4. CASE TestReceiver(t)
    BY SMTT(30), <1>4 DEF TestReceiver
  <1>5. CASE Unregister(t)
    <2>1. UIPlace'
      BY <1>5 DEF Unregister
    <2>2. PlayerPlace'
      BY <1>5 DEF Unregister
    <2>3. TablesName'
      BY <1>5 DEF Unregister
    <2>4. ReceiverReleased'
    <3>1. /\ step[t] = "unregister" /\ step' = [step EXCEPT ![t] = "drain"]
          /\ rcvReleased' = [rcvReleased EXCEPT ![Target(t)] = TRUE]
          /\ UNCHANGED <<releasing, created, queue>>
      BY <1>5 DEF Unregister
    <3>2. Target(t) \in Players /\ t \in {Target(t), UI}
      BY <3>1, TargetsEntry
    <3>3. \A u \in Threads : step'[u] \in {"drain", "finish"} => rcvReleased'[Target(u)]
      <4>1. ASSUME NEW u \in Threads, step'[u] \in {"drain", "finish"}
            PROVE  rcvReleased'[Target(u)]
        <5>1. CASE u = t
          BY <3>1, <3>2, <5>1
        <5>2. CASE u # t
          <6>1. rcvReleased[Target(u)]
            BY <3>1, <4>1, <5>2
          <6> HIDE DEF Target
          <6>2. Target(u) \in Players
            BY <3>1, <4>1, <5>2, TargetsEntry
          <6>3. QED BY <3>1, <3>2, <6>1, <6>2
        <5>3. QED BY <5>1, <5>2
      <4>2. QED BY <4>1
    <3>4. ASSUME NEW p \in Born, rcvReleased'[p], queue[p] # <<>>
          PROVE  \E u \in {p, UI} : step'[u] = "drain" /\ Target(u) = p
      <4>1. CASE p = Target(t)
        BY <3>1, <3>2, <4>1
      <4>2. CASE p # Target(t)
        <5>1. rcvReleased[p]
          BY <3>1, <3>2, <3>4, <4>2
        <5>2. PICK u \in {p, UI} : step[u] = "drain" /\ Target(u) = p
          BY <3>4, <5>1
        <5>3. u # t
          BY <3>1, <5>2
        <5>4. QED BY <3>1, <5>2, <5>3
      <4>3. QED BY <4>1, <4>2
    <3>5. Born' = Born /\ \A u : Target(u)' = Target(u)
      BY <3>1
    <3> HIDE DEF Born, Target, UI, Threads
    <3>6. QED BY <3>1, <3>3, <3>4, <3>5
    <2>5. TableWanted'
      BY <1>5 DEF Unregister
    <2>6. EntryLeaves'
      BY <1>5 DEF Unregister
    <2>7. LivingIsListed'
      BY <1>5 DEF Unregister
    <2>8. ListenerIsListed'
    <3>1. ASSUME NEW p \in Born, ~rcvReleased[p], p # Target(t)
          PROVE  rid[p] # rid[Target(t)]
      <4>1. step[t] # "idle"
        BY <1>5 DEF Unregister
      <4> HIDE DEF Target
      <4>2. streamMap[rid[Target(t)]] \in {Target(t), None} /\ p # None /\ streamMap[rid[p]] = p
        BY <3>1, <4>1, TargetsEntry
      <4>3. QED BY <3>1, <4>2
    <3>2. Target(t) \in Players
      BY <1>5, TargetsEntry DEF Unregister
    <3> HIDE DEF Target
    <3>3. /\ rcvReleased' = [rcvReleased EXCEPT ![Target(t)] = TRUE]
          /\ handler' = [handler EXCEPT ![rid[Target(t)]] = None]
          /\ UNCHANGED <<created, rid, streamMap>>
      BY <1>5 DEF Unregister
    <3>4. QED BY <3>1, <3>2, <3>3
    <2>9. QED BY <2>1, <2>2, <2>3, <2>4, <2>5, <2>6, <2>7, <2>8
  <1>6. CASE Drain(t)
    BY SMTT(30), <1>6 DEF Drain, DrainDataQueue
  <1>7. CASE StreamFinished(t)
    <2>1. UIPlace'
      BY <1>7 DEF StreamFinished
    <2>2. PlayerPlace'
      BY <1>7 DEF StreamFinished
    <2>3. TablesName'
      BY <1>7 DEF StreamFinished
    <2>4. ReceiverReleased'
      BY <1>7 DEF StreamFinished
    <2>5. TableWanted'
      BY <1>7 DEF StreamFinished
    <2>6. EntryLeaves'
      BY <1>7 DEF StreamFinished
    <2>7. LivingIsListed'
    <3>1. /\ step[t] = "finish" /\ step' = [step EXCEPT ![t] = "idle"]
          /\ streamMap' = [streamMap EXCEPT ![rid[Target(t)]] = None]
          /\ UNCHANGED <<created, rid, pc, releasing>>
      BY <1>7 DEF StreamFinished
    <3>2. ASSUME NEW p \in Born, streamMap[rid[p]] = p, p # Target(t)
          PROVE  streamMap'[rid[p]] = p
      <4> HIDE DEF Target
      <4>1. streamMap[rid[Target(t)]] \in {Target(t), None}
        BY <3>1, TargetsEntry
      <4>3. p # None
        OBVIOUS
      <4>2. QED BY <3>1, <3>2, <4>1, <4>3
    <3>3. Over(Target(t))' \/ releasing = Target(t)
      BY <3>1
    <3>4. \A p \in Born : Over(p) => Over(p)'
      BY <3>1
    <3>5. QED BY <3>1, <3>2, <3>3, <3>4
    <2>8. ListenerIsListed'
    <3>1. ASSUME NEW p \in Born, ~rcvReleased[p]
          PROVE  rid[p] # rid[Target(t)]
      <4>1. step[t] = "finish" /\ rcvReleased[Target(t)]
        BY <1>7 DEF StreamFinished
      <4> HIDE DEF Target
      <4>2. streamMap[rid[Target(t)]] \in {Target(t), None} /\ p # None /\ streamMap[rid[p]] = p
        BY <3>1, <4>1, TargetsEntry
      <4>3. QED BY <3>1, <4>1, <4>2
    <3> HIDE DEF Target
    <3>2. /\ streamMap' = [streamMap EXCEPT ![rid[Target(t)]] = None]
          /\ UNCHANGED <<rcvReleased, created, rid, handler>>
      BY <1>7 DEF StreamFinished
    <3>3. QED BY <3>1, <3>2
    <2>9. QED BY <2>1, <2>2, <2>3, <2>4, <2>5, <2>6, <2>7, <2>8
  <1> HIDE DEF Protocol, TypeOK, Threads, Players
  <1>8. QED
    BY <1>1, <1>2, <1>3, <1>4, <1>5, <1>6, <1>7 DEF Release

LEMMA HandleEffect ==
  ASSUME TypeOK, PlayerPlace, NEW p \in Players, Handle(p)
  PROVE  /\ pc[p] = "event" /\ step[p] = "idle" /\ hand' = [hand EXCEPT ![p] = None]
         /\ \A q \in Players \ {p} : pc'[q] = pc[q] /\ step'[q] = step[q]
         /\ \A u \in Threads : step'[u] = step[u] \/ (u = p /\ step'[u] = "test")
         /\ \/ pc'[p] = "release" /\ step'[p] = "test"
            \/ pc'[p] = "top" /\ step'[p] = "idle"
         /\ UNCHANGED <<proxy, handler, making, released, interrupted, rcvReleased, queue, uiVars>>
  <1>1. pc[p] = "event" /\ step[p] = "idle" /\ p \in Threads
    BY DEF Handle, PlayerPlace, Threads
  <1>2. CASE hand[p] \in fins
    BY <1>1, <1>2 DEF Handle, TypeOK, Threads
  <1>3. CASE hand[p] \notin fins
    BY <1>1, <1>3 DEF Handle, TypeOK
  <1>4. QED BY <1>2, <1>3

LEMMA PlayerProtocol ==
  ASSUME TypeOK, Protocol, NEW p \in Players, Player(p)
  PROVE  Protocol'
  <1> USE VoiceAssumption DEF TypeOK, MaybePlayer, Threads, Players, UI, None, Born,
          Protocol, UIPlace, PlayerPlace, TablesName, ReceiverReleased, TableWanted,
          EntryLeaves, LivingIsListed, ListenerIsListed, Committed, Over, Target,
          proxy, making, uiVars, network
  <1>1. CASE Run(p)
    BY SMTT(30), <1>1 DEF Run
  <1>2. CASE CheckReleased(p)
    BY SMTT(30), <1>2 DEF CheckReleased
  <1>3. CASE Resync(p)
    BY SMTT(30), <1>3 DEF Resync, DrainDataQueue
  <1>4. CASE Take(p)
    <2>1. UIPlace'
      BY <1>4 DEF Take
    <2>2. PlayerPlace'
    <3>1. Head(queue[p]) # None
      BY <1>4 DEF Take, Events
    <3>2. QED BY <1>4, <3>1 DEF Take
    <2>3. TablesName'
      BY <1>4 DEF Take
    <2>4. ReceiverReleased'
      BY <1>4 DEF Take
    <2>5. TableWanted'
      BY <1>4 DEF Take
    <2>6. EntryLeaves'
      BY <1>4 DEF Take
    <2>7. LivingIsListed'
      BY <1>4 DEF Take
    <2>8. ListenerIsListed'
      BY <1>4 DEF Take
    <2>9. QED BY <2>1, <2>2, <2>3, <2>4, <2>5, <2>6, <2>7, <2>8
  <1>5. CASE Interrupted(p)
    BY SMTT(30), <1>5 DEF Interrupted
  <1>6. CASE Handle(p)
    <2>1. UIPlace'
      BY <1>6 DEF Handle, FreeEvent
    <2>2. PlayerPlace'
      <3>1. \A q \in Players \ {p} : /\ pc'[q] = pc[q] /\ step'[q] = step[q]
                                    /\ hand'[q] = hand[q]
        BY HandleEffect, <1>6
      <3>2. /\ pc'[p] \in {"top", "release"}
            /\ step'[p] # "idle" => pc'[p] = "release"
        BY HandleEffect, <1>6
      <3>6. pc[p] = "event" /\ hand'[p] = None
        BY HandleEffect, <1>6
      <3>3. UNCHANGED <<created, rid, released, interrupted, rcvReleased>>
        BY HandleEffect, <1>6
      <3>4. PlayerPlace
        OBVIOUS
      <3> HIDE DEF Players, Threads, Protocol, TypeOK
      <3>5. QED BY <3>1, <3>2, <3>3, <3>4, <3>6
    <2>3. TablesName'
      BY <1>6 DEF Handle, FreeEvent
    <2>4. ReceiverReleased'
      <3>1. \A u \in Threads : /\ step'[u] \in {"drain", "finish"} => step[u] \in {"drain", "finish"}
                               /\ step[u] = "drain" => step'[u] = "drain"
        BY HandleEffect, <1>6
      <3>2. UNCHANGED <<rcvReleased, queue, created, releasing>>
        BY HandleEffect, <1>6
      <3>3. Born' = Born /\ \A u : Target(u)' = Target(u)
        BY <3>2
      <3>4. ReceiverReleased /\ \A q \in Born : q \in Threads
        OBVIOUS
      <3>5. UI \in Threads
        OBVIOUS
      <3>6. UI' = UI /\ Threads' = Threads
        OBVIOUS
      <3> HIDE DEF Players, Threads, UI, Born, Target, Protocol, TypeOK, UIPlace, PlayerPlace
      <3>7. ASSUME NEW t \in Threads, step'[t] \in {"drain", "finish"}
            PROVE  rcvReleased'[Target(t)]
        <4>1. step[t] \in {"drain", "finish"}
          BY <3>1, <3>7
        <4>2. rcvReleased[Target(t)]
          BY <3>4, <4>1
        <4>3. QED BY <3>2, <4>2
      <3>8. ASSUME NEW q \in Born, rcvReleased'[q], queue'[q] # <<>>
            PROVE  \E t \in {q, UI} : step'[t] = "drain" /\ Target(t) = q
        BY <3>1, <3>2, <3>4, <3>5, <3>8
      <3>9. QED BY <3>3, <3>7, <3>8
    <2>5. TableWanted'
      BY <1>6 DEF Handle, FreeEvent
    <2>6. EntryLeaves'
      BY HandleEffect, <1>6
    <2>7. LivingIsListed'
      <3>1. \A q \in Players \ {p} : pc'[q] = pc[q] /\ step'[q] = step[q]
        BY HandleEffect, <1>6
      <3>2. pc[p] = "event"
        BY HandleEffect, <1>6
      <3>3. UNCHANGED <<created, rid, streamMap, releasing>>
        BY HandleEffect, <1>6
      <3>4. LivingIsListed /\ Born \subseteq Players
        OBVIOUS
      <3> HIDE DEF Players, Threads, Protocol, TypeOK
      <3>5. QED BY <3>1, <3>2, <3>3, <3>4
    <2>8. ListenerIsListed'
      BY <1>6 DEF Handle, FreeEvent
    <2>9. QED BY <2>1, <2>2, <2>3, <2>4, <2>5, <2>6, <2>7, <2>8
  <1>7. CASE Break(p)
    BY SMTT(30), <1>7 DEF Break
  <1>8. CASE Release(p)
    BY <1>8, ReleaseProtocol
  <1> HIDE DEF Protocol, TypeOK, Threads, Players
  <1>9. QED
    BY <1>1, <1>2, <1>3, <1>4, <1>5, <1>6, <1>7, <1>8 DEF Player

LEMMA UIProtocol ==
  ASSUME TypeOK, Protocol, UIThread
  PROVE  Protocol'
  <1> USE VoiceAssumption DEF TypeOK, MaybePlayer, Threads, Players, UI, None, Born,
          Protocol, UIPlace, PlayerPlace, TablesName, ReceiverReleased, TableWanted,
          EntryLeaves, LivingIsListed, ListenerIsListed, Committed, Over, Target,
          Others, proxy, making, thread, network
  <1>1. CASE StartReceiving
    <2>1. UIPlace'
      BY <1>1 DEF StartReceiving
    <2>2. PlayerPlace'
      BY <1>1 DEF StartReceiving
    <2>3. TablesName'
      BY <1>1 DEF StartReceiving
    <2>4. ReceiverReleased'
      BY <1>1 DEF StartReceiving
    <2>5. TableWanted'
      BY <1>1 DEF StartReceiving
    <2>6. EntryLeaves'
      BY <1>1 DEF StartReceiving
    <2>7. LivingIsListed'
      BY <1>1 DEF StartReceiving
    <2>8. ListenerIsListed'
      BY <1>1 DEF StartReceiving
    <2>9. QED BY <2>1, <2>2, <2>3, <2>4, <2>5, <2>6, <2>7, <2>8
  <1>2. CASE UnregisterControl
    <2>1. UIPlace'
      BY <1>2 DEF UnregisterControl
    <2>2. PlayerPlace'
      BY <1>2 DEF UnregisterControl
    <2>3. TablesName'
      BY <1>2 DEF UnregisterControl
    <2>4. ReceiverReleased'
      BY <1>2 DEF UnregisterControl
    <2>5. TableWanted'
      BY <1>2 DEF UnregisterControl
    <2>6. EntryLeaves'
      BY <1>2 DEF UnregisterControl
    <2>7. LivingIsListed'
      BY <1>2 DEF UnregisterControl
    <2>8. ListenerIsListed'
      BY <1>2 DEF UnregisterControl
    <2>9. QED BY <2>1, <2>2, <2>3, <2>4, <2>5, <2>6, <2>7, <2>8
  <1>3. CASE ListPlayers
    BY SMTT(30), <1>3 DEF ListPlayers, TablePlayers
  <1>4. ASSUME NEW p \in Players, ReleaseNext(p)
        PROVE  Protocol'
    BY SMTT(30), <1>4 DEF ReleaseNext
  <1>5. CASE Release(UI)
    BY <1>5, ReleaseProtocol
  <1>6. CASE Join
    <2>1. UIPlace'
      BY <1>6 DEF Join
    <2>2. PlayerPlace'
      BY <1>6 DEF Join
    <2>3. TablesName'
      BY <1>6 DEF Join
    <2>4. ReceiverReleased'
      BY <1>6 DEF Join
    <2>5. TableWanted'
    <3>1. /\ ui = "join" /\ step[UI] = "idle" /\ pc[releasing] = "dead" /\ releasing' = None
          /\ UNCHANGED <<streamMap, playerList, rid, created>>
      BY <1>6 DEF Join
    <3>2. releasing \in Born /\ streamMap[rid[releasing]] # releasing
      BY <3>1
    <3>3. \A s \in Streams : streamMap[s] # releasing
      BY <3>2
    <3>4. QED BY <3>1, <3>3
    <2>6. EntryLeaves'
      BY <1>6 DEF Join
    <2>7. LivingIsListed'
      BY <1>6 DEF Join
    <2>8. ListenerIsListed'
      BY <1>6 DEF Join
    <2>9. QED BY <2>1, <2>2, <2>3, <2>4, <2>5, <2>6, <2>7, <2>8
  <1>7. CASE StopReceiving
    <2>1. UIPlace'
      BY <1>7 DEF StopReceiving
    <2>2. PlayerPlace'
      BY <1>7 DEF StopReceiving
    <2>3. TablesName'
      BY <1>7 DEF StopReceiving
    <2>4. ReceiverReleased'
      BY <1>7 DEF StopReceiving
    <2>5. TableWanted'
      BY <1>7 DEF StopReceiving
    <2>6. EntryLeaves'
      BY <1>7 DEF StopReceiving
    <2>7. LivingIsListed'
      BY <1>7 DEF StopReceiving
    <2>8. ListenerIsListed'
      BY <1>7 DEF StopReceiving
    <2>9. QED BY <2>1, <2>2, <2>3, <2>4, <2>5, <2>6, <2>7, <2>8
  <1> HIDE DEF Protocol, TypeOK, Threads, Players
  <1>8. QED
    BY <1>1, <1>2, <1>3, <1>4, <1>5, <1>6, <1>7 DEF UIThread, SwitchOff

LEMMA ProtocolStep == IInv /\ [Next]_vars => Protocol'
  <1> SUFFICES ASSUME IInv, [Next]_vars PROVE Protocol'
    OBVIOUS
  <1>1. TypeOK /\ Protocol
    BY DEF IInv
  <1>2. CASE Next
    BY <1>1, <1>2, EventThreadProtocol, PlayerProtocol, UIProtocol DEF Next
  <1>3. CASE UNCHANGED vars
    BY <1>1, <1>3 DEF vars, proxy, making, thread, uiVars, network, Protocol, UIPlace,
          PlayerPlace, TablesName, ReceiverReleased, TableWanted, EntryLeaves,
          LivingIsListed, ListenerIsListed, Born, Committed, Over, Target
  <1>4. QED BY <1>2, <1>3

-----------------------------------------------------------------------------
(* The theorems.                                                           *)

LEMMA Invariance == Spec => []IInv
  <1>1. IInv /\ [Next]_vars => IInv'
    BY TypeStep, BuffersStep, ProtocolStep DEF IInv
  <1>2. QED BY InitInv, <1>1, PTL DEF Spec

\* Every variable of the reception keeps to its domain and no dataQueue grows
\* past its capacity, for any number of streams, players and packets.
THEOREM TypeCorrect == Spec => []TypeOK
  <1>1. IInv => TypeOK
    BY DEF IInv
  <1>2. QED BY <1>1, Invariance, PTL

\* Each native event buffer is queued once, in one thread's hands, freed once,
\* or lost to a full queue: drainDataQueue() by the resync and by two
\* release() callers never frees what take() has handed out.
THEOREM BuffersSafe == Spec => []BuffersAccounted
  <1>1. IInv => BuffersAccounted
    BY DEF IInv
  <1>2. QED BY <1>1, Invariance, PTL

\* A VoicePlayer whose receiver is not released keeps its handler in the
\* classifier and its entry in streamMap, whoever else finishes its stream.
THEOREM ListenerSafe == Spec => []ListenerIsListed
  <1>1. IInv => ListenerIsListed
    BY DEF IInv, Protocol
  <1>2. QED BY <1>1, Invariance, PTL

\* After setReceive(false) has joined every player of its list, streamMap is
\* empty: the error VoiceProxy logs for a table that is not, never is.
THEOREM EmptyAfterJoinSafe == Spec => []EmptyAfterJoin
  <1>1. IInv => EmptyAfterJoin
    <2> SUFFICES ASSUME IInv, ui = "next", playerList = {}, NEW s \in Streams
                 PROVE  streamMap[s] = None
      BY DEF EmptyAfterJoin
    <2>1. releasing = None
      BY DEF IInv, Protocol, UIPlace
    <2>2. streamMap[s] \in playerList \cup {releasing, None}
      BY DEF IInv, Protocol, TableWanted
    <2>3. QED BY <2>1, <2>2
  <1>2. QED BY <1>1, Invariance, PTL

\* With reception off no handler is registered, no event is queued and every
\* player's thread is done with the table; while one is not, the wake lock is
\* held.
THEOREM OffSafe == Spec => []OffIsQuiet
  <1>1. IInv => OffIsQuiet
    <2> SUFFICES ASSUME IInv PROVE OffIsQuiet
      OBVIOUS
    <2>1. /\ TypeOK /\ UIPlace /\ PlayerPlace /\ TablesName /\ ReceiverReleased
          /\ LivingIsListed /\ ListenerIsListed
      BY DEF IInv, Protocol
    <2>2. Born \subseteq Players /\ \A p \in Born : p # None
      BY <2>1, VoiceAssumption DEF TypeOK, Born, Players, None
    <2>3. CASE ui = "off"
      <3>1. releasing = None /\ ~control /\ step[UI] = "idle"
        BY <2>1, <2>3 DEF UIPlace
      <3>2. \A s \in Streams : streamMap[s] = None
        BY <2>1, <2>3 DEF TablesName
      <3>3. \A p \in Born : rid[p] \in Streams
        BY <2>1, <2>2 DEF PlayerPlace
      <3>4. \A p \in Born : rcvReleased[p]
        BY <2>1, <2>2, <3>2, <3>3 DEF ListenerIsListed, Born
      <3>5. \A s \in Streams : handler[s] = None
        BY <2>1, <3>4 DEF TablesName
      <3>6. \A p \in Born : Over(p)
        BY <2>1, <2>2, <3>1, <3>2, <3>3 DEF LivingIsListed
      <3>7. \A p \in Born : step[p] = "idle"
        BY <2>1, <2>2, <3>6 DEF PlayerPlace, Over
      <3>8. \A p \in Born : queue[p] = <<>>
        BY <2>1, <3>1, <3>4, <3>7 DEF ReceiverReleased
      <3>9. QED BY <2>3, <3>1, <3>5, <3>6, <3>8 DEF OffIsQuiet, Born
    <2>4. CASE ui # "off"
      BY <2>1, <2>4 DEF UIPlace, OffIsQuiet
    <2>5. QED BY <2>3, <2>4
  <1>2. QED BY <1>1, Invariance, PTL
=============================================================================

------------------------- MODULE NetperfTest_proof -------------------------
(***************************************************************************)
(* The safety of a netperf run, for any tests, lengths, number of          *)
(* iterations, window and faults.                                          *)
(***************************************************************************)
EXTENDS NetperfTest, SequenceTheorems, TLAPS

-----------------------------------------------------------------------------
(* The inductive invariant: types, ...                                     *)

Gone   == Ended \cup {"lost"}
Places == {"begin", "setup", "connect", "data", "drain", "spin", "result", "shutdown"} \cup
          {"idle", "accept", "lost"} \cup Ended
Bound  == IF timed THEN MaxCount ELSE Limit + 1
Room   == IF timed THEN MaxCount ELSE Limit

FlagsOK == timed \in BOOLEAN /\ early \in BOOLEAN /\ times_up \in [Process -> BOOLEAN]
PlanOK ==
  /\ test \in IF timed THEN TimedTests ELSE CountedTests
  /\ fault \in Faults \cup {"none", "refused"}
  /\ iteration \in 1..MaxIterations
PlacesOK ==
  /\ pc \in [Process -> Places]
  /\ pc[Client] \in {"begin", "setup", "connect", "data", "drain", "spin", "result", "shutdown"} \cup Ended
  /\ pc[Server] \in {"idle", "accept", "data", "drain", "lost"} \cup Ended
MessagesOK == toServer \in Seq(Tests) /\ toClient \in Seq(Message)
SocketsOK ==
  /\ alarm \in [Process -> {"off", "test", "padded"}]
  /\ io \in [Process -> {"top", "call", "send", "intr", "connect", "accept"}]
  /\ side \in [Process -> {"none", "open", "wr", "closed"}]
FiguresOK ==
  /\ flow \in [Process -> 0..Window] /\ left \in 0..2
  /\ remaining \in [Process -> 0..Limit]
  /\ count \in [Process -> 0..Bound]
  /\ reported \in 0..NoFigure

TypeInv == FlagsOK /\ PlanOK /\ PlacesOK /\ MessagesOK /\ SocketsOK /\ FiguresOK

-----------------------------------------------------------------------------
(* ... the control connection, ...                                         *)

Alive == pc[Client] \notin Ended
Busy  == pc[Server] \in {"accept", "data", "drain"}

\* Where Setup and Calibrate leave the server.
Began == IF test = "REM_CPU" THEN "idle" ELSE IF test \in TCP THEN "accept" ELSE "data"

\* Between two requests nothing is under way.
Between == pc[Client] \in {"begin", "shutdown"} =>
  toServer = <<>> /\ toClient = <<>> /\ pc[Server] \in {"idle"} \cup Gone

\* A request is the first thing of an iteration, ...
Asked == toServer # <<>> =>
  /\ toServer = <<test>> /\ toClient = <<>>
  /\ pc[Client] \in {"setup"} \cup Ended /\ pc[Server] \in {"idle"} \cup Gone
  /\ side[Client] = "none" /\ count[Client] = 0 /\ flow[Client] = 0 /\ flow[Server] = 0

\* ... which moves nothing before netperf has connected, ...
Untouched == pc[Client] \in {"setup", "connect"} =>
  side[Client] = "none" /\ count[Client] = 0 /\ flow[Client] = 0 /\ flow[Server] = 0

\* ... and that is after the setup response.
Connects == pc[Client] = "connect" =>
  toServer = <<>> /\ toClient = <<>> /\ pc[Server] \in {Began} \cup Gone

Answered == Alive /\ toClient # <<>> /\ toClient[1].kind = "result"

\* A response is the only message, and of the kind netperf is about to read.
OneAnswer == Alive /\ toClient # <<>> =>
  /\ Len(toClient) = 1 /\ toServer = <<>> /\ toClient[1].iteration = iteration
  /\ toClient[1].kind = "setup" => pc[Client] = "setup" /\ pc[Server] \in {Began} \cup Gone
  /\ toClient[1].kind = "error" =>
       pc[Server] = "failed" /\ (pc[Client] = "setup" \/ (pc[Client] = "result" /\ test = "TCP_MAERTS"))
  /\ toClient[1].kind = "result" =>
       /\ pc[Client] \in {"data", "drain", "spin", "result"}
       /\ pc[Server] \in {"idle"} \cup Gone
       /\ toClient[1].figure = count[Server]

\* Which tests come to which places.
Ways ==
  /\ pc[Client] \in {"connect", "data", "drain", "spin", "result"} => test # "REM_CPU" /\ toServer = <<>>
  /\ pc[Client] = "drain" => test = "TCP_STREAM"
  /\ pc[Client] = "spin" => test = "TCP_RR"
  /\ Busy => test # "REM_CPU" /\ toServer = <<>>
  /\ pc[Server] = "accept" => test \in TCP
  /\ pc[Server] = "drain" => test = "TCP_MAERTS"
  /\ test = "REM_CPU" => reported = NoFigure

Control == Between /\ Asked /\ Untouched /\ Connects /\ OneAnswer /\ Ways

\* Why a process may fail without a fault.
Excused == (test = "TCP_MAERTS" /\ (~timed \/ early)) \/ (test = "TCP_CRR" /\ ~timed)

\* Why a process has ended.
Reasons ==
  /\ pc[Client] = "done" => pc[Server] \in Ended
  /\ pc[Server] = "done" => pc[Client] \in Ended \cup {"shutdown"}
  /\ pc[Client] = "killed" \/ pc[Server] \in {"killed", "lost"} => fault # "none"

-----------------------------------------------------------------------------
(* ... the timers and what they and the counters say of a loop, ...        *)

ClientAlarm == alarm[Client] # "off" =>
  /\ pc[Client] \in {"data", "spin"} /\ timed /\ ~times_up[Client] /\ io[Client] # "intr"
  /\ alarm[Client] = IF test = "TCP_MAERTS" THEN "padded" ELSE "test"

ServerAlarm == alarm[Server] # "off" =>
  /\ test # "TCP_STREAM"
  /\ alarm[Server] = IF test = "TCP_MAERTS" THEN "test" ELSE "padded"
  /\ \/ pc[Server] = "accept" /\ test = "TCP_MAERTS"
     \/ pc[Server] = "data" /\ ~times_up[Server] /\ io[Server] # "intr"

\* A counted test runs until its counters are 0, ...
Counted == ~timed =>
  /\ pc[Client] = "data" => times_up[Client] /\ alarm[Client] = "off"
  /\ test \in RR \cup CONN =>
       /\ pc[Client] = "data" => count[Client] + remaining[Client] = Limit
       /\ pc[Server] \in {"accept", "data"} => count[Server] + remaining[Server] = Limit
       /\ pc[Server] = "data" => times_up[Server] /\ alarm[Server] = "off"
  /\ test = "TCP_STREAM" /\ pc[Client] = "data" =>
       \/ count[Client] + remaining[Client] = Limit
       \/ count[Client] <= Limit + 1 /\ remaining[Client] = 0

\* ... and a timed one until the alarm.
Timed == timed /\ test \in RR \cup CONN /\ pc[Server] \in {"accept", "data"} =>
  /\ remaining[Server] = 0
  /\ io[Server] \in {"accept", "call"} \/ (io[Server] # "intr" /\ (Alive \/ test \in RR)) => ~times_up[Server]

Timers == ClientAlarm /\ ServerAlarm /\ Counted /\ Timed

-----------------------------------------------------------------------------
(* ... and the books of each test.                                         *)

\* Units of the message in hand of a sender that TCP has taken.
Cut(p) == IF side[p] # "none" /\ io[p] \in {"call", "intr"} THEN 2 - left ELSE 0

\* A sender has room for the message in hand.
InHand(p) == side[p] # "none" /\ io[p] \in {"call", "intr"} => left \in 1..2 /\ count[p] + 2 <= Bound

StreamBooks == test = "TCP_STREAM" =>
  /\ InHand(Client)
  /\ pc[Client] = "data" =>
       /\ side[Client] = "open" /\ pc[Server] \in {"accept", "data"} \cup Gone
       /\ io[Client] \in {"top", "call", "intr"}
  /\ pc[Client] = "drain" => side[Client] = "wr"
  /\ pc[Server] \in {"accept", "data"} =>
       /\ pc[Client] \in {"setup", "connect", "data", "drain"} \cup Ended
       /\ side[Server] = "open"
       /\ count[Server] + flow[Client] = count[Client] + Cut(Client)
  /\ Answered => /\ pc[Client] \in {"drain", "result"}
                 /\ toClient[1].figure \in {count[Client], count[Client] + 1}

MaertsBooks == test = "TCP_MAERTS" =>
  /\ pc[Client] = "data" =>
       /\ side[Client] = "open" /\ timed /\ pc[Server] # "idle"
       /\ count[Client] + flow[Server] <= Bound
       /\ io[Client] = "intr" => pc[Server] = "lost" \/ early
  /\ pc[Client] = "result" => side[Client] = "closed"
  /\ pc[Server] = "accept" =>
       /\ pc[Client] \in {"setup", "connect", "data"} \cup Ended
       /\ side[Server] = "open"
       /\ ~timed => side[Client] \in {"none", "closed"}
       /\ count[Client] = 0 /\ count[Server] = 0 /\ flow[Server] = 0
       /\ alarm[Server] = "off" => early
  /\ pc[Server] \in {"data", "drain"} =>
       /\ side[Client] # "none" /\ (~timed => side[Client] = "closed" /\ count[Server] = 0)
       /\ InHand(Server)
       /\ count[Client] + flow[Server] = count[Server] + Cut(Server)
  /\ pc[Server] = "data" =>
       /\ side[Server] = "open" /\ pc[Client] \in {"data", "result"} \cup Ended
       /\ io[Server] \in {"top", "call", "intr"}
       /\ ~times_up[Server] => io[Server] # "intr" /\ (alarm[Server] = "off" => early)
       /\ pc[Client] = "result" => times_up[Client]
  /\ pc[Client] \in {"data", "result"} /\ times_up[Client] =>
       pc[Server] \in Gone \/ (pc[Server] = "data" /\ alarm[Server] = "off" /\ ~times_up[Server])
  /\ pc[Server] = "drain" =>
       /\ side[Server] = "wr" /\ pc[Client] \in {"data", "result"} \cup Ended
       /\ pc[Client] = "result" => flow[Server] = 0
  /\ Answered => /\ pc[Client] = "result"
                 /\ count[Client] \in {toClient[1].figure, toClient[1].figure + 1}

\* Requests that the client waits for the response of, responses in hand.
Waiting   == IF side[Client] # "none" /\ io[Client] \in {"call", "intr"} THEN 1 ELSE 0
Answering == IF io[Server] = "send" THEN 1 ELSE 0

RrClient == test \in RR =>
  /\ Waiting = 1 => count[Client] + 1 <= Room
  /\ pc[Client] = "spin" => io[Client] \in {"call", "intr"}
  /\ pc[Client] = "data" =>
       /\ side[Client] = "open" /\ io[Client] \in {"top", "call", "intr"}
       /\ io[Client] = "intr" => timed
       /\ flow[Client] + flow[Server] <= Waiting

RrServer == test \in RR /\ pc[Server] \in {"accept", "data"} =>
  /\ pc[Client] \in {"setup", "connect", "data", "result"} \cup Ended
  /\ side[Client] = "closed" => pc[Client] \in Ended
  /\ side[Server] = "open"
  /\ pc[Server] = "accept" => io[Server] = "call"
  /\ io[Server] \in {"top", "call", "send", "intr"}
  /\ timed => io[Server] # "top"
  /\ ~timed => io[Server] # "intr" /\ (io[Server] = "top" <=> remaining[Server] = 0)
  /\ io[Server] = "intr" /\ Alive =>
       \/ pc[Client] = "result"
       \/ /\ pc[Client] = "data" /\ io[Client] = "call" /\ alarm[Client] = "off"
          /\ flow[Client] = 0 /\ flow[Server] = 0

RrBooks == test \in RR /\ pc[Server] \in {"accept", "data"} =>
  /\ flow[Client] + flow[Server] + Answering <= Waiting
  /\ test = "TCP_RR" => flow[Client] + flow[Server] + Answering = Waiting
  /\ count[Server] \in {count[Client], count[Client] + Waiting}
  /\ flow[Server] > 0 => count[Server] = count[Client] + 1
  /\ flow[Client] + Answering > 0 => count[Server] = count[Client]

RrAnswer == test \in RR /\ Answered /\ pc[Client] # "spin" =>
  /\ pc[Client] \in {"data", "result"}
  /\ toClient[1].figure \in {count[Client], count[Client] + Waiting}
  /\ pc[Client] = "data" =>
       /\ flow[Server] > 0 => toClient[1].figure = count[Client] + 1
       /\ timed => io[Client] = "call" /\ flow[Server] = 0 /\ alarm[Client] = "off"
       /\ ~timed => toClient[1].figure = Limit

UdpBooks == test = "UDP_STREAM" =>
  /\ timed
  /\ pc[Server] = "data" =>
       /\ pc[Client] \in {"setup", "connect", "data", "result"} \cup Ended
       /\ count[Server] + flow[Client] <= count[Client]
       /\ io[Server] = "intr" => pc[Client] \in {"result"} \cup Ended
  /\ Answered => pc[Client] = "result" /\ toClient[1].figure <= count[Client]

ConnClient == test \in CONN =>
  /\ flow[Server] = 0 /\ flow[Client] <= 1 /\ side[Client] # "wr"
  /\ flow[Client] > 0 => test = "TCP_CRR"
  /\ pc[Client] = "data" =>
       /\ timed => pc[Server] \in {"data"} \cup Gone
       /\ io[Client] \in {"top", "connect", "call", "intr"}
       /\ io[Client] = "intr" => timed
       /\ io[Client] \in {"top", "connect"} => flow[Client] = 0
       /\ io[Client] = "top" => side[Client] \in {"none", "closed"}
       /\ io[Client] \in {"connect", "call"} => side[Client] = "open" /\ count[Client] + 1 <= Room

ConnServer == test \in CONN /\ pc[Server] = "data" =>
  /\ pc[Client] \in {"setup", "connect", "data", "result"} \cup Ended
  /\ io[Server] \in {"accept", "call", "send", "top", "intr"}
  /\ side[Server] \in {"none", "open", "closed"}
  /\ io[Server] \in {"call", "send"} => test = "TCP_CRR" /\ side[Server] = "open" /\ side[Client] # "none"
  /\ io[Server] = "call" => timed
  /\ io[Server] = "accept" => side[Server] \in {"none", "closed"}
  /\ io[Server] = "top" => side[Server] = "closed" /\ times_up[Server] /\ (timed => ~Alive)
  /\ io[Server] = "intr" => timed /\ pc[Client] \in {"result"} \cup Ended
  /\ ~timed => (io[Server] = "top" <=> remaining[Server] = 0)
  /\ Alive =>
       /\ side[Client] = "none" => side[Server] = "none"
       /\ side[Client] = "closed" => side[Server] = "closed"
       /\ timed /\ (io[Server] = "send" \/ side[Server] = "closed") => flow[Client] = 0
       /\ timed /\ pc[Client] = "data" /\ io[Client] = "connect" => io[Server] # "send"

ConnBooks == test \in CONN /\ pc[Server] = "data" =>
  /\ count[Server] \in {count[Client], count[Client] + 1}
  /\ side[Server] # "closed" =>
       count[Server] = count[Client] /\ (side[Client] # "none" => count[Client] + 1 <= Room)
  /\ side[Server] = "closed" /\ Alive =>
       count[Server] = IF side[Client] = "open" THEN count[Client] + 1 ELSE count[Client]

ConnAnswer == test \in CONN /\ Answered =>
  /\ pc[Client] \in {"data", "result"}
  /\ toClient[1].figure \in {count[Client], count[Client] + 1}
  /\ pc[Client] = "data" =>
       /\ ~timed /\ side[Server] = "closed" /\ toClient[1].figure = Limit
       /\ toClient[1].figure = IF side[Client] = "open" THEN count[Client] + 1 ELSE count[Client]

Books ==
  /\ StreamBooks /\ MaertsBooks /\ UdpBooks
  /\ RrClient /\ RrServer /\ RrBooks /\ RrAnswer
  /\ ConnClient /\ ConnServer /\ ConnBooks /\ ConnAnswer

IInv == TypeInv /\ Control /\ Reasons /\ NoFalseFailure /\ Timers /\ Books

-----------------------------------------------------------------------------
(* The constants, and what the end of a process leaves of the invariant.   *)

\* The two processes are two.
LEMMA TwoProcesses == Client # Server /\ Client \in Process /\ Server \in Process
  BY DEF Client, Server, Process

\* NetperfAssumption, one constant at a time.
LEMMA Sizes ==
  /\ MaxIterations \in Nat /\ Limit \in Nat /\ Window \in Nat /\ MaxCount \in Nat
  /\ MaxIterations > 0 /\ Limit > 0 /\ Window > 0 /\ MaxCount > 0
  BY NetperfAssumption

\* A Boolean array is Zenon's, here and in FlagSet.
LEMMA FlagsKept ==
  ASSUME FlagsOK, UNCHANGED <<timed, early, times_up>>
  PROVE  FlagsOK'
  BY Zenon DEF FlagsOK

\* The end of netperf, ...
LEMMA ClientGone ==
  ASSUME IInv, NEW how \in Ended, EndProcess(Client, how), UNCHANGED control,
         UNCHANGED early,
         fault' \in Faults \cup {"none", "refused"},
         fault # "none" => fault' # "none",
         how = "killed" => fault' # "none",
         how = "done" => pc[Server] \in Ended,
         how = "failed" /\ fault' = "none" => Excused
  PROVE  IInv'
  <1> USE NetperfAssumption, TwoProcesses DEF Client, Server, Process
  <1>t. TypeInv
    BY DEF IInv
  <1>e. /\ pc'[Client] = how /\ pc'[Server] = pc[Server] /\ pc' \in [Process -> Places]
        /\ side'[Client] = (IF side[Client] = "none" THEN "none" ELSE "closed") /\ side'[Server] = side[Server]
        /\ side' \in [Process -> {"none", "open", "wr", "closed"}]
        /\ alarm'[Client] = "off" /\ alarm'[Server] = alarm[Server]
        /\ alarm' \in [Process -> {"off", "test", "padded"}]
    BY <1>t DEF TypeInv, PlacesOK, SocketsOK, EndProcess, Goto, Close, Ended, Places
  <1>u. UNCHANGED <<test, timed, iteration, times_up, io, flow, left, remaining, count, reported, toServer, toClient>>
    BY DEF EndProcess, tally, control
  <1>1. TypeInv'
    <2>1. FlagsOK'
      BY <1>t, <1>u, FlagsKept DEF TypeInv
    <2>2. PlanOK' /\ FiguresOK' /\ MessagesOK'
      BY <1>t, <1>u DEF TypeInv, PlanOK, FiguresOK, MessagesOK, Bound
    <2>3. PlacesOK' /\ SocketsOK'
      BY <1>t, <1>u, <1>e DEF TypeInv, PlacesOK, SocketsOK
    <2> QED
      BY <2>1, <2>2, <2>3 DEF TypeInv
  <1>2. Control'
    BY <1>t, <1>u, <1>e DEF IInv, Control, Between, Asked, Untouched, Connects, OneAnswer, Ways, Alive, Busy, Gone, Ended, Began
  <1>3. Reasons' /\ NoFalseFailure'
    BY <1>t, <1>u, <1>e DEF IInv, Reasons, NoFalseFailure, Excused, Ended
  <1>4. Timers'
    BY <1>t, <1>u, <1>e DEF IInv, Timers, ClientAlarm, ServerAlarm, Counted, Timed, Alive, Ended
  <1>5. StreamBooks' /\ MaertsBooks' /\ UdpBooks'
    BY <1>t, <1>u, <1>e DEF IInv, Books, StreamBooks, MaertsBooks, UdpBooks, InHand, Cut, Answered, Alive, Ended, Bound
  <1>6. RrClient' /\ RrServer' /\ RrBooks' /\ RrAnswer'
    BY <1>t, <1>u, <1>e DEF IInv, Books, RrClient, RrServer, RrBooks, RrAnswer, Waiting, Answering, Answered, Alive, Ended, Room
  <1>7. ConnClient' /\ ConnServer' /\ ConnBooks' /\ ConnAnswer'
    BY <1>t, <1>u, <1>e DEF IInv, Books, ConnClient, ConnServer, ConnBooks, ConnAnswer, Answered, Alive, Ended, Room
  <1>8. Books'
    BY <1>5, <1>6, <1>7 DEF Books
  <1> QED
    BY <1>1, <1>2, <1>3, <1>4, <1>8 DEF IInv

\* ... of netserver without a word, ...
LEMMA ServerGone ==
  ASSUME IInv, NEW how \in Ended, EndProcess(Server, how), pc[Server] \notin Gone, UNCHANGED control,
         early' \in BOOLEAN, early => early',
         fault' \in Faults \cup {"none", "refused"},
         fault # "none" => fault' # "none",
         how = "killed" => fault' # "none",
         how = "done" => pc[Client] \in Ended \cup {"shutdown"},
         how = "failed" /\ fault' = "none" => Excused'
  PROVE  IInv'
  <1> USE NetperfAssumption, TwoProcesses DEF Client, Server, Process
  <1>t. TypeInv
    BY DEF IInv
  <1>e. /\ pc'[Server] = how /\ pc'[Client] = pc[Client] /\ pc' \in [Process -> Places]
        /\ side'[Server] = (IF side[Server] = "none" THEN "none" ELSE "closed") /\ side'[Client] = side[Client]
        /\ side' \in [Process -> {"none", "open", "wr", "closed"}]
        /\ alarm'[Server] = "off" /\ alarm'[Client] = alarm[Client]
        /\ alarm' \in [Process -> {"off", "test", "padded"}]
    BY <1>t DEF TypeInv, PlacesOK, SocketsOK, EndProcess, Goto, Close, Ended, Places
  <1>u. UNCHANGED <<test, timed, iteration, times_up, io, flow, left, remaining, count, reported>>
    BY DEF EndProcess, tally
  <1>m. UNCHANGED <<toServer, toClient>>
    BY DEF control
  <1>1. TypeInv'
    <2>1. FlagsOK'
      BY <1>t, <1>u, Zenon DEF TypeInv, FlagsOK
    <2>2. PlanOK' /\ FiguresOK' /\ MessagesOK'
      BY <1>t, <1>u, <1>e, <1>m, EmptySeq DEF TypeInv, PlanOK, FiguresOK, MessagesOK, Bound
    <2>3. PlacesOK' /\ SocketsOK'
      BY <1>t, <1>u, <1>e DEF TypeInv, PlacesOK, SocketsOK
    <2> QED
      BY <2>1, <2>2, <2>3 DEF TypeInv
  <1>2. Control'
    BY <1>t, <1>u, <1>e, <1>m DEF IInv, TypeInv, PlacesOK, Control, Between, Asked, Untouched, Connects, OneAnswer, Ways, Alive, Busy, Gone, Ended, Began
  <1>3. Reasons' /\ NoFalseFailure'
    BY <1>t, <1>u, <1>e DEF IInv, Reasons, NoFalseFailure, Excused, Ended
  <1>4. Timers'
    BY <1>t, <1>u, <1>e DEF IInv, Timers, ClientAlarm, ServerAlarm, Counted, Timed, Alive, Ended
  <1>5. StreamBooks' /\ MaertsBooks' /\ UdpBooks'
    BY <1>t, <1>u, <1>e, <1>m DEF IInv, Books, StreamBooks, MaertsBooks, UdpBooks, InHand, Cut, Answered, Alive, Gone, Ended, Bound
  <1>6. RrClient' /\ RrServer' /\ RrBooks' /\ RrAnswer'
    BY <1>t, <1>u, <1>e, <1>m DEF IInv, Books, RrClient, RrServer, RrBooks, RrAnswer, Waiting, Answering, Answered, Alive, Ended, Room
  <1>7. ConnClient' /\ ConnServer' /\ ConnBooks' /\ ConnAnswer'
    BY <1>t, <1>u, <1>e, <1>m DEF IInv, Books, ConnClient, ConnServer, ConnBooks, ConnAnswer, Answered, Alive, Gone, Ended, Room
  <1> QED
    BY <1>1, <1>2, <1>3, <1>4, <1>5, <1>6, <1>7 DEF IInv, Books

\* ... and with an error response, which netperf awaits or nobody reads, ...
LEMMA ServerGivesUp ==
  ASSUME IInv, NEW how \in Ended, how = "failed", EndProcess(Server, how), pc[Server] \notin Gone,
         Respond("error", 0), toServer' = <<>>,
         Alive => toClient = <<>> /\ (pc[Client] = "setup" \/ (pc[Client] = "result" /\ test = "TCP_MAERTS")),
         UNCHANGED early,
         fault' \in Faults \cup {"none", "refused"},
         fault # "none" => fault' # "none",
         how = "killed" => fault' # "none",
         how = "done" => pc[Client] \in Ended \cup {"shutdown"},
         how = "failed" /\ fault' = "none" => Excused
  PROVE  IInv'
  <1> USE NetperfAssumption, TwoProcesses DEF Client, Server, Process
  <1>t. TypeInv
    BY DEF IInv
  <1>e. /\ pc'[Server] = how /\ pc'[Client] = pc[Client] /\ pc' \in [Process -> Places]
        /\ side'[Server] = (IF side[Server] = "none" THEN "none" ELSE "closed") /\ side'[Client] = side[Client]
        /\ side' \in [Process -> {"none", "open", "wr", "closed"}]
        /\ alarm'[Server] = "off" /\ alarm'[Client] = alarm[Client]
        /\ alarm' \in [Process -> {"off", "test", "padded"}]
    BY <1>t DEF TypeInv, PlacesOK, SocketsOK, EndProcess, Goto, Close, Ended, Places
  <1>u. UNCHANGED <<test, timed, iteration, times_up, io, flow, left, remaining, count, reported>>
    BY DEF EndProcess, tally
  <1>m. /\ toServer' = <<>> /\ toClient' \in Seq(Message)
        /\ Alive => /\ Len(toClient') = 1 /\ toClient' # <<>>
                    /\ toClient'[1].kind = "error" /\ toClient'[1].iteration = iteration
    <2>1. [kind |-> "error", iteration |-> iteration, figure |-> 0] \in Message
      BY <1>t DEF TypeInv, PlanOK, Message
    <2> QED
      BY <1>t, <2>1 DEF TypeInv, MessagesOK, Respond
  <1>1. TypeInv'
    <2>1. FlagsOK'
      BY <1>t, <1>u, FlagsKept DEF TypeInv
    <2>2. PlanOK' /\ FiguresOK' /\ MessagesOK'
      BY <1>t, <1>u, <1>e, <1>m, EmptySeq DEF TypeInv, PlanOK, FiguresOK, MessagesOK, Bound
    <2>3. PlacesOK' /\ SocketsOK'
      BY <1>t, <1>u, <1>e DEF TypeInv, PlacesOK, SocketsOK
    <2> QED
      BY <2>1, <2>2, <2>3 DEF TypeInv
  <1>2. Control'
    BY <1>t, <1>u, <1>e, <1>m DEF IInv, TypeInv, PlacesOK, Control, Between, Asked, Untouched, Connects, OneAnswer, Ways, Alive, Busy, Gone, Ended, Began
  <1>3. Reasons' /\ NoFalseFailure'
    BY <1>t, <1>u, <1>e DEF IInv, Reasons, NoFalseFailure, Excused, Ended
  <1>4. Timers'
    BY <1>t, <1>u, <1>e DEF IInv, Timers, ClientAlarm, ServerAlarm, Counted, Timed, Alive, Ended
  <1>5. StreamBooks' /\ MaertsBooks' /\ UdpBooks'
    BY <1>t, <1>u, <1>e, <1>m DEF IInv, Books, StreamBooks, MaertsBooks, UdpBooks, InHand, Cut, Answered, Alive, Gone, Ended, Bound
  <1>6. RrClient' /\ RrServer' /\ RrBooks' /\ RrAnswer'
    BY <1>t, <1>u, <1>e, <1>m DEF IInv, Books, RrClient, RrServer, RrBooks, RrAnswer, Waiting, Answering, Answered, Alive, Ended, Room
  <1>7. ConnClient' /\ ConnServer' /\ ConnBooks' /\ ConnAnswer'
    BY <1>t, <1>u, <1>e, <1>m DEF IInv, Books, ConnClient, ConnServer, ConnBooks, ConnAnswer, Answered, Alive, Gone, Ended, Room
  <1> QED
    BY <1>1, <1>2, <1>3, <1>4, <1>5, <1>6, <1>7 DEF IInv, Books

\* ... and of its host.
LEMMA HostGone ==
  ASSUME IInv, HostLost
  PROVE  IInv'
  <1> USE NetperfAssumption, TwoProcesses DEF Client, Server, Process
  <1>t. TypeInv
    BY DEF IInv
  <1>e. /\ pc'[Server] = "lost" /\ pc'[Client] = pc[Client] /\ pc' \in [Process -> Places]
        /\ alarm'[Server] = "off" /\ alarm'[Client] = alarm[Client]
        /\ alarm' \in [Process -> {"off", "test", "padded"}]
        /\ fault' = "host" /\ fault = "none" /\ "host" \in Faults
        /\ pc[Server] \notin Ended
    BY <1>t DEF TypeInv, PlacesOK, SocketsOK, HostLost, Goto, Ended, Places
  <1>u. UNCHANGED <<test, timed, early, iteration, times_up, io, side, flow, left, remaining, count, reported>>
    BY DEF HostLost, tally, data
  <1>m. UNCHANGED <<toServer, toClient>>
    BY DEF HostLost, control
  <1>1. TypeInv'
    <2>1. FlagsOK'
      BY <1>t, <1>u, FlagsKept DEF TypeInv
    <2>2. PlanOK' /\ FiguresOK' /\ MessagesOK'
      BY <1>t, <1>u, <1>e, <1>m, EmptySeq DEF TypeInv, PlanOK, FiguresOK, MessagesOK, Bound
    <2>3. PlacesOK' /\ SocketsOK'
      BY <1>t, <1>u, <1>e DEF TypeInv, PlacesOK, SocketsOK
    <2> QED
      BY <2>1, <2>2, <2>3 DEF TypeInv
  <1>2. Control'
    BY <1>t, <1>u, <1>e, <1>m DEF IInv, TypeInv, PlacesOK, Control, Between, Asked, Untouched, Connects, OneAnswer, Ways, Alive, Busy, Gone, Ended, Began
  <1>3. Reasons' /\ NoFalseFailure'
    BY <1>t, <1>u, <1>e DEF IInv, Reasons, NoFalseFailure, Excused, Ended
  <1>4. Timers'
    BY <1>t, <1>u, <1>e DEF IInv, Timers, ClientAlarm, ServerAlarm, Counted, Timed, Alive, Ended
  <1>5. StreamBooks' /\ MaertsBooks' /\ UdpBooks'
    BY <1>t, <1>u, <1>e, <1>m DEF IInv, Books, StreamBooks, MaertsBooks, UdpBooks, InHand, Cut, Answered, Alive, Gone, Ended, Bound
  <1>6. RrClient' /\ RrServer' /\ RrBooks' /\ RrAnswer'
    BY <1>t, <1>u, <1>e, <1>m DEF IInv, Books, RrClient, RrServer, RrBooks, RrAnswer, Waiting, Answering, Answered, Alive, Ended, Room
  <1>7. ConnClient' /\ ConnServer' /\ ConnBooks' /\ ConnAnswer'
    BY <1>t, <1>u, <1>e, <1>m DEF IInv, Books, ConnClient, ConnServer, ConnBooks, ConnAnswer, Answered, Alive, Gone, Ended, Room
  <1> QED
    BY <1>1, <1>2, <1>3, <1>4, <1>5, <1>6, <1>7 DEF IInv, Books

-----------------------------------------------------------------------------
(* Steps of a transfer: what they keep of the control connection.          *)

Course ==
  /\ FlagsOK /\ PlanOK /\ PlacesOK /\ MessagesOK
  /\ Control /\ Reasons /\ NoFalseFailure /\ ClientAlarm /\ ServerAlarm

LEMMA FirstMessage ==
  ASSUME MessagesOK, toClient # <<>>
  PROVE  toClient[1] \in Message /\ Head(toClient) = toClient[1]
  <1>1. toClient \in Seq(Message) /\ Len(toClient) # 0
    BY EmptySeq DEF MessagesOK
  <1> QED
    BY <1>1

\* Data calls, ...
LEMMA Calls ==
  ASSUME IInv,
         UNCHANGED <<plan, iteration, pc, control, timer, reported>>,
         pc[Client] \in {"setup", "connect"} \/ toServer # <<>> =>
           /\ side'[Client] = side[Client] /\ count'[Client] = count[Client]
           /\ flow'[Client] = flow[Client] /\ flow'[Server] = flow[Server],
         ~Busy => count'[Server] = count[Server],
         \A p \in Process : io'[p] = "intr" => io[p] = "intr"
  PROVE  Course'
  <1> USE NetperfAssumption, TwoProcesses DEF Client, Server, Process
  <1>t. TypeInv
    BY DEF IInv
  <1>u. UNCHANGED <<test, timed, fault, early, iteration, pc, toServer, toClient, alarm, times_up, reported>>
    BY DEF plan, control, timer
  <1>1. FlagsOK'
    BY <1>t, <1>u, FlagsKept DEF TypeInv
  <1>2. PlanOK' /\ PlacesOK' /\ MessagesOK'
    BY <1>t, <1>u DEF TypeInv, PlanOK, PlacesOK, MessagesOK
  <1>3. Control'
    BY <1>t, <1>u DEF IInv, TypeInv, PlacesOK, Control, Between, Asked, Untouched, Connects, OneAnswer, Ways, Alive, Busy, Gone, Ended, Began
  <1>4. Reasons' /\ NoFalseFailure'
    BY <1>u DEF IInv, Reasons, NoFalseFailure
  <1>5. ClientAlarm' /\ ServerAlarm'
    BY <1>u DEF IInv, Timers, ClientAlarm, ServerAlarm
  <1> QED
    BY <1>1, <1>2, <1>3, <1>4, <1>5 DEF Course

\* ... the end of netperf's part of the transfer ...
LEMMA Leaves ==
  ASSUME IInv, NEW place \in {"drain", "result", "spin"},
         pc[Client] \in {"data", "drain"}, Goto(Client, place),
         place = "drain" => test = "TCP_STREAM",
         place = "spin" => test = "TCP_RR",
         UNCHANGED <<plan, iteration, control, times_up, io, flow, count, reported>>,
         alarm'[Client] = "off" \/ (place = "spin" /\ alarm'[Client] = alarm[Client]),
         alarm'[Server] = alarm[Server]
  PROVE  Course'
  <1> USE NetperfAssumption, TwoProcesses DEF Client, Server, Process
  <1>t. TypeInv
    BY DEF IInv
  <1>u. UNCHANGED <<test, timed, fault, early, iteration, toServer, toClient, times_up, io, flow, count, reported>>
    BY DEF plan, control
  <1>e. pc'[Client] = place /\ pc'[Server] = pc[Server] /\ pc' \in [Process -> Places]
    BY <1>t DEF TypeInv, PlacesOK, Goto, Places
  <1>1. FlagsOK'
    BY <1>t, <1>u, FlagsKept DEF TypeInv
  <1>2. PlanOK' /\ PlacesOK' /\ MessagesOK'
    BY <1>t, <1>u, <1>e DEF TypeInv, PlanOK, PlacesOK, MessagesOK
  <1>3. Control'
    BY <1>t, <1>u, <1>e DEF IInv, TypeInv, PlacesOK, Control, Between, Asked, Untouched, Connects, OneAnswer, Ways, Alive, Busy, Gone, Ended, Began
  <1>4. Reasons' /\ NoFalseFailure'
    BY <1>u, <1>e DEF IInv, Reasons, NoFalseFailure, Ended
  <1>5. ClientAlarm' /\ ServerAlarm'
    BY <1>u, <1>e DEF IInv, Timers, ClientAlarm, ServerAlarm
  <1> QED
    BY <1>1, <1>2, <1>3, <1>4, <1>5 DEF Course

\* ... and of netserver's, with its results.
LEMMA Answers ==
  ASSUME IInv, Busy, Goto(Server, "idle"), Respond("result", count[Server]),
         Alive => pc[Client] \in {"data", "drain", "spin", "result"},
         UNCHANGED <<plan, iteration, toServer, times_up, io, flow, count, reported>>,
         alarm'[Client] = alarm[Client], alarm'[Server] = "off"
  PROVE  /\ Course' /\ (Alive => toClient' # <<>>)
         /\ Alive => toClient'[1].kind = "result" /\ toClient'[1].figure = count[Server]
  <1> USE NetperfAssumption, TwoProcesses DEF Client, Server, Process
  <1>t. TypeInv
    BY DEF IInv
  <1>u. UNCHANGED <<test, timed, fault, early, iteration, toServer, times_up, io, flow, count, reported>>
    BY DEF plan
  <1>e. pc'[Server] = "idle" /\ pc'[Client] = pc[Client] /\ pc' \in [Process -> Places]
    BY <1>t DEF TypeInv, PlacesOK, Goto, Places
  <1>m. /\ toClient' \in Seq(Message)
        /\ Alive => /\ Len(toClient') = 1 /\ toClient' # <<>> /\ toClient'[1].kind = "result"
                    /\ toClient'[1].iteration = iteration /\ toClient'[1].figure = count[Server]
    <2>1. [kind |-> "result", iteration |-> iteration, figure |-> count[Server]] \in Message
      BY <1>t DEF TypeInv, PlanOK, FiguresOK, Bound, Message
    <2>2. Alive => toClient = <<>>
      <3>1. toClient # <<>> => toClient[1].kind \in {"setup", "result", "error"}
        BY <1>t, FirstMessage DEF TypeInv, Message
      <3> QED
        BY <1>t, <3>1 DEF IInv, TypeInv, PlacesOK, Control, OneAnswer, Busy, Gone, Ended, Alive
    <2> QED
      BY <1>t, <2>1, <2>2 DEF TypeInv, MessagesOK, Respond
  <1>1. FlagsOK'
    BY <1>t, <1>u, FlagsKept DEF TypeInv
  <1>2. PlanOK' /\ PlacesOK' /\ MessagesOK'
    BY <1>t, <1>u, <1>e, <1>m DEF TypeInv, PlanOK, PlacesOK, MessagesOK
  <1>3. Control'
    BY <1>t, <1>u, <1>e, <1>m DEF IInv, TypeInv, PlacesOK, Control, Between, Asked, Untouched, Connects, OneAnswer, Ways, Alive, Busy, Gone, Ended, Began
  <1>4. Reasons' /\ NoFalseFailure'
    BY <1>u, <1>e DEF IInv, Reasons, NoFalseFailure, Ended, Busy
  <1>5. ClientAlarm' /\ ServerAlarm'
    BY <1>u, <1>e DEF IInv, Timers, ClientAlarm, ServerAlarm
  <1> QED
    BY <1>1, <1>2, <1>3, <1>4, <1>5, <1>m DEF Course

LEMMA Together ==
  ASSUME Course', SocketsOK', FiguresOK', Counted', Timed', Books'
  PROVE  IInv'
  BY DEF IInv, TypeInv, Timers, Course

-----------------------------------------------------------------------------
(* TCP_STREAM.                                                             *)

LEMMA StreamOnly ==
  ASSUME test' = "TCP_STREAM", StreamBooks'
  PROVE  Books' /\ Timed'
  BY DEF Books, MaertsBooks, UdpBooks, RrClient, RrServer, RrBooks, RrAnswer,
         ConnClient, ConnServer, ConnBooks, ConnAnswer, Timed, RR, CONN

LEMMA StreamSends ==
  ASSUME IInv, TcpStreamSend
  PROVE  IInv'
  <1> USE Sizes, TwoProcesses DEF Client, Server, Process
  <1>t. TypeInv /\ StreamBooks /\ Counted /\ Ways
    BY DEF IInv, Books, Timers, Control
  <1>e. /\ test = "TCP_STREAM" /\ pc[Client] = "data" /\ io[Client] = "top"
        /\ io' = [io EXCEPT ![Client] = "call"] /\ left' = 2
        /\ GoesOn(Client)
    BY DEF TcpStreamSend, StreamSend, Size
  <1>u. /\ UNCHANGED <<plan, iteration, pc, control, timer, reported, side, flow, remaining, count>>
        /\ UNCHANGED <<test, timed, pc, toClient, times_up, alarm>>
    BY DEF TcpStreamSend, StreamSend, plan, control, timer, tally
  <1>1. Course'
    BY <1>t, <1>e, <1>u, Calls DEF TypeInv, SocketsOK, Ways
  <1>2. SocketsOK' /\ FiguresOK'
    BY <1>t, <1>e, <1>u DEF TypeInv, SocketsOK, FiguresOK, Bound
  <1>3. Counted'
    BY <1>t, <1>e, <1>u DEF Counted
  <1>4. StreamBooks'
    BY <1>t, <1>e, <1>u DEF TypeInv, FiguresOK, SocketsOK, Counted, GoesOn, Size, StreamBooks, InHand, Cut, Bound, Answered, Alive
  <1> QED
    BY <1>1, <1>2, <1>3, <1>4, <1>e, <1>u, StreamOnly, Together

LEMMA StreamTransfers ==
  ASSUME IInv, TcpStreamTransfer
  PROVE  IInv'
  <1> USE Sizes, TwoProcesses DEF Client, Server, Process
  <1>t. TypeInv /\ StreamBooks /\ Counted /\ Ways
    BY DEF IInv, Books, Timers, Control
  <1>e. /\ test = "TCP_STREAM" /\ pc[Client] = "data" /\ io[Client] = "call" /\ side[Client] = "open"
        /\ left \in 1..2 /\ count[Client] + 2 <= Bound /\ count[Client] \in Nat
        /\ flow[Client] < Window /\ flow' = [flow EXCEPT ![Client] = @ + 1] /\ left' = left - 1
    BY <1>t DEF TypeInv, FiguresOK, TcpStreamTransfer, StreamTransfer, Sent, StreamBooks, InHand, Bound
  <1>f. /\ left = 1 => /\ count' = [count EXCEPT ![Client] = @ + 2]
                       /\ remaining' = [remaining EXCEPT ![Client] = Less(@, 2)]
                       /\ io' = [io EXCEPT ![Client] = "top"]
        /\ left = 2 => UNCHANGED <<count, remaining, io>>
    BY <1>e DEF TcpStreamTransfer, StreamTransfer, Size
  <1>u. /\ UNCHANGED <<plan, iteration, pc, control, timer, reported, side>>
        /\ UNCHANGED <<test, timed, pc, toClient, times_up, alarm>>
    BY DEF TcpStreamTransfer, StreamTransfer, plan, control, timer
  <1>1. Course'
    BY <1>t, <1>e, <1>f, <1>u, Calls DEF TypeInv, SocketsOK, FiguresOK, Ways
  <1>2. SocketsOK' /\ FiguresOK'
    BY <1>t, <1>e, <1>f, <1>u DEF TypeInv, SocketsOK, FiguresOK, Bound, Less
  <1>3. Counted'
    BY <1>t, <1>e, <1>f, <1>u DEF TypeInv, FiguresOK, Counted, RR, CONN, Less, Bound
  <1>4. StreamBooks'
    <2>0. /\ flow'[Client] = flow[Client] + 1 /\ flow[Client] \in Nat /\ count[Server] \in Nat
          /\ count'[Server] = count[Server] /\ side'[Client] = "open"
      BY <1>t, <1>e, <1>f, <1>u DEF TypeInv, FiguresOK, Bound
    <2>1. CASE left = 1
      <3>1. count'[Client] = count[Client] + 2 /\ io'[Client] = "top"
        BY <1>t, <1>e, <1>f, <2>1 DEF TypeInv, FiguresOK, SocketsOK
      <3> QED
        BY <1>t, <1>e, <1>u, <2>0, <2>1, <3>1 DEF StreamBooks, InHand, Cut, Answered, Alive
    <2>2. CASE left = 2
      BY <1>t, <1>e, <1>f, <1>u, <2>0, <2>2 DEF StreamBooks, InHand, Cut, Answered, Alive, Bound
    <2> QED
      BY <1>e, <2>1, <2>2
  <1> QED
    BY <1>1, <1>2, <1>3, <1>4, <1>e, <1>u, StreamOnly, Together

LEMMA StreamStops ==
  ASSUME IInv, TcpStreamStop
  PROVE  IInv'
  <1> USE Sizes, TwoProcesses DEF Client, Server, Process
  <1>t. TypeInv /\ StreamBooks /\ Counted /\ Ways /\ ClientAlarm /\ ServerAlarm
    BY DEF IInv, Books, Timers, Control
  <1>e. /\ test = "TCP_STREAM" /\ pc[Client] = "data" /\ (io[Client] = "intr" \/ times_up[Client])
        /\ side' = [side EXCEPT ![Client] = "wr"] /\ Goto(Client, "drain")
    BY DEF TcpStreamStop, StreamStop, LoopEnds
  <1>u. /\ UNCHANGED <<plan, iteration, control, timer, io, flow, left, remaining, count, reported>>
        /\ UNCHANGED <<test, timed, toClient, alarm, times_up>>
    BY DEF TcpStreamStop, StreamStop, plan, control, timer, tally
  <1>f. pc'[Client] = "drain" /\ pc'[Server] = pc[Server]
    BY <1>t, <1>e DEF TypeInv, PlacesOK, Goto
  <1>1. Course'
    BY <1>t, <1>e, <1>u, Leaves DEF ClientAlarm
  <1>2. SocketsOK' /\ FiguresOK'
    BY <1>t, <1>e, <1>u DEF TypeInv, SocketsOK, FiguresOK, Bound
  <1>3. Counted'
    BY <1>t, <1>e, <1>f, <1>u DEF Counted, RR, CONN
  <1>4. StreamBooks'
    BY <1>t, <1>e, <1>f, <1>u DEF TypeInv, SocketsOK, StreamBooks, InHand, Cut, Bound, Answered, Alive, Ended
  <1> QED
    BY <1>1, <1>2, <1>3, <1>4, <1>e, <1>u, StreamOnly, Together

LEMMA StreamDrains ==
  ASSUME IInv, TcpStreamDrain
  PROVE  IInv'
  <1> USE Sizes, TwoProcesses DEF Client, Server, Process
  <1>t. TypeInv /\ StreamBooks /\ Counted /\ Ways /\ ClientAlarm /\ ServerAlarm
    BY DEF IInv, Books, Timers, Control
  <1>e. /\ test = "TCP_STREAM" /\ pc[Client] = "drain" /\ (side[Server] = "closed" \/ pc[Server] = "lost")
        /\ Close(Client) /\ Goto(Client, "result")
    BY DEF TcpStreamDrain
  <1>u. /\ UNCHANGED <<plan, iteration, control, timer, io, flow, left, remaining, count, reported>>
        /\ UNCHANGED <<test, timed, toClient, alarm, times_up>>
    BY DEF TcpStreamDrain, plan, control, timer, tally
  <1>f. /\ pc'[Client] = "result" /\ pc'[Server] = pc[Server]
        /\ side'[Client] = "closed" /\ side'[Server] = side[Server] /\ side[Client] = "wr"
    BY <1>t, <1>e DEF TypeInv, PlacesOK, SocketsOK, StreamBooks, Goto, Close
  <1>1. Course'
    BY <1>t, <1>e, <1>u, Leaves DEF ClientAlarm
  <1>2. SocketsOK' /\ FiguresOK'
    BY <1>t, <1>e, <1>u DEF TypeInv, SocketsOK, FiguresOK, Bound, Close
  <1>3. Counted'
    BY <1>t, <1>e, <1>f, <1>u DEF Counted, RR, CONN
  <1>4. StreamBooks'
    BY <1>t, <1>e, <1>f, <1>u DEF TypeInv, SocketsOK, StreamBooks, InHand, Cut, Bound, Answered, Alive, Ended
  <1> QED
    BY <1>1, <1>2, <1>3, <1>4, <1>e, <1>u, StreamOnly, Together

LEMMA StreamReceives ==
  ASSUME IInv, TcpStreamRecv
  PROVE  IInv'
  <1> USE Sizes, TwoProcesses DEF Client, Server, Process
  <1>t. TypeInv /\ StreamBooks /\ Counted /\ Ways /\ Untouched
    BY DEF IInv, Books, Timers, Control
  <1>e. test = "TCP_STREAM" /\ pc[Server] = "data"
    BY DEF TcpStreamRecv
  <1>p. PICK n \in 1..2 : /\ n <= flow[Client]
                          /\ flow' = [flow EXCEPT ![Client] = @ - n]
                          /\ count' = [count EXCEPT ![Server] = @ + n]
    BY <1>e DEF TcpStreamRecv, Size, Taken
  <1>u. /\ UNCHANGED <<plan, iteration, pc, control, timer, io, side, left, remaining, reported>>
        /\ UNCHANGED <<test, timed, pc, toClient, alarm, times_up>>
    BY DEF TcpStreamRecv, plan, control, timer
  <1>f. /\ flow'[Client] = flow[Client] - n /\ flow'[Server] = flow[Server]
        /\ count'[Server] = count[Server] + n /\ count'[Client] = count[Client]
        /\ flow[Client] \in 0..Window /\ count[Server] \in 0..Bound /\ count[Client] \in 0..Bound /\ Bound \in Nat
        /\ left \in 0..2
    BY <1>t, <1>p DEF TypeInv, FiguresOK, Bound
  <1>b. count[Server] + n <= Bound
    BY <1>t, <1>e, <1>p, <1>f DEF StreamBooks, InHand, Cut
  <1>1. Course'
    BY <1>t, <1>e, <1>p, <1>f, <1>u, Calls DEF Ways, Untouched, Busy
  <1>2. SocketsOK' /\ FiguresOK'
    BY <1>t, <1>p, <1>f, <1>b, <1>u DEF TypeInv, SocketsOK, FiguresOK, Bound
  <1>3. Counted'
    BY <1>t, <1>e, <1>f, <1>u DEF Counted, RR, CONN
  <1>4. StreamBooks'
    BY <1>t, <1>e, <1>f, <1>u DEF StreamBooks, InHand, Cut, Bound, Answered, Alive
  <1> QED
    BY <1>1, <1>2, <1>3, <1>4, <1>e, <1>u, StreamOnly, Together

LEMMA StreamAnswers ==
  ASSUME IInv, TcpStreamResults
  PROVE  IInv'
  <1> USE Sizes, TwoProcesses DEF Client, Server, Process
  <1>t. TypeInv /\ StreamBooks /\ Counted /\ Ways /\ Untouched /\ ClientAlarm /\ ServerAlarm
    BY DEF IInv, Books, Timers, Control
  <1>e. /\ test = "TCP_STREAM" /\ pc[Server] = "data"
        /\ flow[Client] = 0 /\ side[Client] \in {"wr", "closed"}
        /\ Close(Server) /\ Respond("result", count[Server]) /\ Goto(Server, "idle")
    BY DEF TcpStreamResults
  <1>u. /\ UNCHANGED <<plan, iteration, toServer, timer, io, flow, left, remaining, count, reported>>
        /\ UNCHANGED <<test, timed, alarm, times_up>>
    BY DEF TcpStreamResults, plan, timer, tally
  <1>f. /\ pc'[Server] = "idle" /\ pc'[Client] = pc[Client]
        /\ side'[Client] = side[Client]
        /\ count[Server] \in Nat /\ count[Client] \in Nat
    BY <1>t, <1>e DEF TypeInv, PlacesOK, SocketsOK, FiguresOK, Bound, Goto, Close
  <1>g. Alive => pc[Client] = "drain"
    BY <1>t, <1>e DEF StreamBooks, Untouched, Alive
  <1>1. /\ Course' /\ (Alive => toClient' # <<>>)
        /\ Alive => toClient'[1].kind = "result" /\ toClient'[1].figure = count[Server]
    BY <1>t, <1>e, <1>g, <1>u, Answers DEF ServerAlarm, Busy
  <1>2. SocketsOK' /\ FiguresOK'
    BY <1>t, <1>e, <1>u DEF TypeInv, SocketsOK, FiguresOK, Bound, Close
  <1>3. Counted'
    BY <1>t, <1>e, <1>f, <1>u DEF Counted, RR, CONN
  <1>4. StreamBooks'
    <2>1. Alive => count[Server] \in {count[Client], count[Client] + 1}
      BY <1>t, <1>e, <1>f DEF StreamBooks, InHand, Cut
    <2> QED
      BY <1>t, <1>1, <1>e, <1>f, <1>g, <1>u, <2>1 DEF StreamBooks, InHand, Cut, Bound, Answered, Alive, Ended
  <1> QED
    BY <1>1, <1>2, <1>3, <1>4, <1>e, <1>u, StreamOnly, Together

-----------------------------------------------------------------------------
(* TCP_MAERTS.                                                             *)

LEMMA MaertsOnly ==
  ASSUME test' = "TCP_MAERTS", MaertsBooks'
  PROVE  Books' /\ Timed'
  BY DEF Books, StreamBooks, UdpBooks, RrClient, RrServer, RrBooks, RrAnswer,
         ConnClient, ConnServer, ConnBooks, ConnAnswer, Timed, RR, CONN

LEMMA MaertsSends ==
  ASSUME IInv, TcpMaertsSend
  PROVE  IInv'
  <1> USE Sizes, TwoProcesses DEF Client, Server, Process
  <1>t. TypeInv /\ MaertsBooks /\ Counted /\ Ways
    BY DEF IInv, Books, Timers, Control
  <1>e. /\ test = "TCP_MAERTS" /\ pc[Server] = "data" /\ io[Server] = "top"
        /\ io' = [io EXCEPT ![Server] = "call"] /\ left' = 2
        /\ GoesOn(Server)
    BY DEF TcpMaertsSend, StreamSend, Size
  <1>u. /\ UNCHANGED <<plan, iteration, pc, control, timer, reported, side, flow, remaining, count>>
        /\ UNCHANGED <<test, timed, early, pc, toClient, times_up, alarm>>
    BY DEF TcpMaertsSend, StreamSend, plan, control, timer, tally
  <1>1. Course'
    BY <1>t, <1>e, <1>u, Calls DEF TypeInv, SocketsOK, Ways
  <1>2. SocketsOK' /\ FiguresOK'
    BY <1>t, <1>e, <1>u DEF TypeInv, SocketsOK, FiguresOK, Bound
  <1>3. Counted'
    BY <1>t, <1>e, <1>u DEF Counted, RR, CONN
  <1>4. MaertsBooks'
    BY <1>t, <1>e, <1>u DEF TypeInv, FiguresOK, SocketsOK, GoesOn, Size, MaertsBooks, InHand, Cut, Bound, Answered, Alive, Gone, Ended
  <1> QED
    BY <1>1, <1>2, <1>3, <1>4, <1>e, <1>u, MaertsOnly, Together

LEMMA MaertsTransfers ==
  ASSUME IInv, TcpMaertsTransfer
  PROVE  IInv'
  <1> USE Sizes, TwoProcesses DEF Client, Server, Process
  <1>t. TypeInv /\ MaertsBooks /\ Counted /\ Ways
    BY DEF IInv, Books, Timers, Control
  <1>e. /\ test = "TCP_MAERTS" /\ pc[Server] = "data" /\ io[Server] = "call" /\ side[Server] = "open"
        /\ side[Client] # "closed" /\ side[Client] # "none" /\ timed
        /\ left \in 1..2 /\ count[Server] + 2 <= Bound /\ count[Server] \in Nat
        /\ flow[Server] < Window /\ flow' = [flow EXCEPT ![Server] = @ + 1] /\ left' = left - 1
    BY <1>t DEF TypeInv, FiguresOK, TcpMaertsTransfer, StreamTransfer, Sent, MaertsBooks, InHand, Bound, Peer
  <1>f. /\ left = 1 => /\ count' = [count EXCEPT ![Server] = @ + 2]
                       /\ remaining' = [remaining EXCEPT ![Server] = Less(@, 2)]
                       /\ io' = [io EXCEPT ![Server] = "top"]
        /\ left = 2 => UNCHANGED <<count, remaining, io>>
    BY <1>e DEF TcpMaertsTransfer, StreamTransfer, Size
  <1>u. /\ UNCHANGED <<plan, iteration, pc, control, timer, reported, side>>
        /\ UNCHANGED <<test, timed, early, pc, toClient, times_up, alarm>>
    BY DEF TcpMaertsTransfer, StreamTransfer, plan, control, timer
  <1>1. Course'
    BY <1>t, <1>e, <1>f, <1>u, Calls DEF TypeInv, SocketsOK, FiguresOK, MaertsBooks, Ways, Busy, Ended
  <1>2. SocketsOK' /\ FiguresOK'
    BY <1>t, <1>e, <1>f, <1>u DEF TypeInv, SocketsOK, FiguresOK, Bound, Less
  <1>3. Counted'
    BY <1>e, <1>u DEF Counted
  <1>4. MaertsBooks'
    <2>0. /\ flow'[Server] = flow[Server] + 1 /\ flow[Server] \in Nat /\ count[Client] \in Nat
          /\ count'[Client] = count[Client] /\ io'[Client] = io[Client]
      BY <1>t, <1>e, <1>f, <1>u DEF TypeInv, FiguresOK, SocketsOK, Bound
    <2>b. Bound' = Bound /\ Bound \in Nat
      BY <1>u DEF Bound
    <2>1. CASE left = 1
      <3>1. count'[Server] = count[Server] + 2 /\ io'[Server] = "top"
        BY <1>t, <1>e, <1>f, <2>1 DEF TypeInv, FiguresOK, SocketsOK
      <3> QED
        BY <1>t, <1>e, <1>u, <2>0, <2>1, <2>b, <3>1 DEF MaertsBooks, InHand, Cut, Answered, Alive, Gone, Ended
    <2>2. CASE left = 2
      <3>1. count'[Server] = count[Server] /\ io'[Server] = "call" /\ io'[Client] = io[Client] /\ left' = 1
        BY <1>e, <1>f, <2>2
      <3>2. Gone' = Gone /\ Ended' = Ended
        BY DEF Gone, Ended
      <3>3. Cut(Server) = 0 /\ Cut(Server)' = 1 /\ InHand(Server)'
        BY <1>e, <1>f, <1>u, <2>b, <2>2, <3>1 DEF Cut, InHand
      <3>4. ~Answered /\ ~Answered'
        BY <1>t, <1>e, <1>u DEF MaertsBooks, Answered, Alive, Control, OneAnswer
      <3> QED
        BY <1>t, <1>e, <1>u, <2>0, <2>2, <2>b, <3>1, <3>2, <3>3, <3>4 DEF MaertsBooks
    <2> QED
      BY <1>e, <2>1, <2>2
  <1> QED
    BY <1>1, <1>2, <1>3, <1>4, <1>e, <1>u, MaertsOnly, Together

LEMMA MaertsStops ==
  ASSUME IInv, TcpMaertsStop
  PROVE  IInv'
  <1> USE Sizes, TwoProcesses DEF Client, Server, Process
  <1>t. TypeInv /\ MaertsBooks /\ Counted /\ Control /\ Reasons /\ NoFalseFailure /\ ClientAlarm /\ ServerAlarm
    BY DEF IInv, Books, Timers
  <1>e. /\ test = "TCP_MAERTS" /\ pc[Server] = "data" /\ (io[Server] = "intr" \/ times_up[Server])
        /\ side' = [side EXCEPT ![Server] = "wr"] /\ pc' = [pc EXCEPT ![Server] = "drain"]
    BY DEF TcpMaertsStop, StreamStop, LoopEnds, Goto
  <1>u. /\ UNCHANGED <<plan, iteration, control, timer, io, flow, left, remaining, count, reported>>
        /\ UNCHANGED <<test, timed, fault, early, toServer, toClient, alarm, times_up>>
    BY DEF TcpMaertsStop, StreamStop, plan, control, timer, tally
  <1>f. /\ pc'[Server] = "drain" /\ pc'[Client] = pc[Client] /\ pc' \in [Process -> Places]
        /\ side'[Client] = side[Client] /\ side'[Server] = "wr"
    BY <1>t, <1>e DEF TypeInv, PlacesOK, SocketsOK, Places
  <1>1. Course'
    <2>1. FlagsOK'
      BY <1>t, <1>u, FlagsKept DEF TypeInv
    <2>2. PlanOK' /\ PlacesOK' /\ MessagesOK'
      BY <1>t, <1>f, <1>u DEF TypeInv, PlanOK, PlacesOK, MessagesOK
    <2>3. Control'
      BY <1>t, <1>e, <1>f, <1>u DEF TypeInv, PlacesOK, Control, Between, Asked, Untouched, Connects, OneAnswer, Ways, Alive, Busy, Gone, Ended, Began, TCP
    <2>4. Reasons' /\ NoFalseFailure' /\ ClientAlarm' /\ ServerAlarm'
      BY <1>t, <1>e, <1>f, <1>u DEF Reasons, NoFalseFailure, ClientAlarm, ServerAlarm, Ended
    <2> QED
      BY <2>1, <2>2, <2>3, <2>4 DEF Course
  <1>2. SocketsOK' /\ FiguresOK'
    BY <1>t, <1>e, <1>u DEF TypeInv, SocketsOK, FiguresOK, Bound
  <1>3. Counted'
    BY <1>t, <1>e, <1>f, <1>u DEF Counted, RR, CONN
  <1>4. MaertsBooks'
    <2>1. pc[Client] \in {"data", "result"} => ~times_up[Client]
      BY <1>t, <1>e DEF MaertsBooks, Gone, Ended
    <2>2. pc[Client] # "result" /\ Gone' = Gone
      BY <1>t, <1>e, <2>1 DEF MaertsBooks, Gone, Ended
    <2> QED
      BY <1>t, <1>e, <1>f, <1>u, <2>1, <2>2 DEF MaertsBooks, InHand, Cut, Bound, Answered, Alive, Ended
  <1> QED
    BY <1>1, <1>2, <1>3, <1>4, <1>e, <1>u, MaertsOnly, Together

LEMMA MaertsAnswers ==
  ASSUME IInv, TcpMaertsResults
  PROVE  IInv'
  <1> USE Sizes, TwoProcesses DEF Client, Server, Process
  <1>t. TypeInv /\ MaertsBooks /\ Counted /\ Ways /\ ClientAlarm /\ ServerAlarm
    BY DEF IInv, Books, Timers, Control
  <1>e. /\ test = "TCP_MAERTS" /\ pc[Server] = "drain" /\ side[Client] = "closed"
        /\ Close(Server) /\ Respond("result", count[Server]) /\ Goto(Server, "idle")
    BY DEF TcpMaertsResults
  <1>u. /\ UNCHANGED <<plan, iteration, toServer, timer, io, flow, left, remaining, count, reported>>
        /\ UNCHANGED <<test, timed, alarm, times_up>>
    BY DEF TcpMaertsResults, plan, timer, tally
  <1>f. /\ pc'[Server] = "idle" /\ pc'[Client] = pc[Client]
        /\ side'[Client] = side[Client]
        /\ count[Server] \in Nat /\ count[Client] \in Nat
    BY <1>t, <1>e DEF TypeInv, PlacesOK, SocketsOK, FiguresOK, Bound, Goto, Close
  <1>g. Alive => pc[Client] = "result" /\ flow[Server] = 0
    BY <1>t, <1>e DEF MaertsBooks, Alive
  <1>1. /\ Course' /\ (Alive => toClient' # <<>>)
        /\ Alive => toClient'[1].kind = "result" /\ toClient'[1].figure = count[Server]
    BY <1>t, <1>e, <1>g, <1>u, Answers DEF ServerAlarm, Busy
  <1>2. SocketsOK' /\ FiguresOK'
    BY <1>t, <1>e, <1>u DEF TypeInv, SocketsOK, FiguresOK, Bound, Close
  <1>3. Counted'
    BY <1>t, <1>e, <1>f, <1>u DEF Counted, RR, CONN
  <1>4. MaertsBooks'
    <2>1. Alive => count[Client] \in {count[Server], count[Server] + 1}
      BY <1>t, <1>e, <1>f, <1>g DEF MaertsBooks, InHand, Cut
    <2> QED
      BY <1>t, <1>1, <1>e, <1>f, <1>g, <1>u, <2>1 DEF MaertsBooks, InHand, Cut, Answered, Alive, Gone, Ended
  <1> QED
    BY <1>1, <1>2, <1>3, <1>4, <1>e, <1>u, MaertsOnly, Together

LEMMA MaertsReceives ==
  ASSUME IInv, TcpMaertsRecv
  PROVE  IInv'
  <1> USE Sizes, TwoProcesses DEF Client, Server, Process
  <1>t. TypeInv /\ MaertsBooks /\ Counted /\ Ways
    BY DEF IInv, Books, Timers, Control
  <1>e. test = "TCP_MAERTS" /\ pc[Client] = "data" /\ timed
    BY <1>t DEF TcpMaertsRecv, MaertsBooks
  <1>p. PICK n \in 1..2 : /\ n <= flow[Server]
                          /\ flow' = [flow EXCEPT ![Server] = @ - n]
                          /\ count' = [count EXCEPT ![Client] = @ + n]
    BY <1>e DEF TcpMaertsRecv, Size, Taken
  <1>u. /\ UNCHANGED <<plan, iteration, pc, control, timer, io, side, left, remaining, reported>>
        /\ UNCHANGED <<test, timed, early, pc, toClient, alarm, times_up>>
    BY DEF TcpMaertsRecv, plan, control, timer
  <1>f. /\ flow'[Server] = flow[Server] - n /\ flow'[Client] = flow[Client]
        /\ count'[Client] = count[Client] + n /\ count'[Server] = count[Server]
        /\ flow[Server] \in 0..Window /\ count[Server] \in 0..Bound /\ count[Client] \in 0..Bound /\ Bound \in Nat
        /\ left \in 0..2
    BY <1>t, <1>p DEF TypeInv, FiguresOK, Bound
  <1>b. count[Client] + n <= Bound
    BY <1>t, <1>e, <1>p, <1>f DEF MaertsBooks
  <1>1. Course'
    BY <1>t, <1>e, <1>p, <1>f, <1>u, Calls DEF Ways
  <1>2. SocketsOK' /\ FiguresOK'
    BY <1>t, <1>p, <1>f, <1>b, <1>u DEF TypeInv, SocketsOK, FiguresOK, Bound
  <1>3. Counted'
    BY <1>e, <1>u DEF Counted
  <1>4. MaertsBooks'
    <2>1. Bound' = Bound /\ Cut(Server)' = Cut(Server) /\ InHand(Server)' = InHand(Server)
      BY <1>f, <1>u DEF Bound, Cut, InHand
    <2>2. ~Answered /\ pc[Server] # "accept"
      BY <1>t, <1>e, <1>p, <1>f DEF MaertsBooks
    <2>3. Cut(Server) \in Int
      BY <1>f DEF Cut
    <2>4. /\ Answered' = Answered
          /\ count'[Client] + flow'[Server] = count[Client] + flow[Server]
      BY <1>f, <1>p, <1>u DEF Answered, Alive
    <2> QED
      BY <1>t, <1>e, <1>f, <1>u, <2>1, <2>2, <2>3, <2>4 DEF MaertsBooks, Gone, Ended
  <1> QED
    BY <1>1, <1>2, <1>3, <1>4, <1>e, <1>u, MaertsOnly, Together

LEMMA MaertsEnds ==
  ASSUME IInv, TcpMaertsEnd
  PROVE  IInv'
  <1> USE Sizes, TwoProcesses DEF Client, Server, Process
  <1>t. TypeInv /\ MaertsBooks /\ Counted /\ Control /\ ClientAlarm /\ ServerAlarm
    BY DEF IInv, Books, Timers
  <1>e. /\ test = "TCP_MAERTS" /\ pc[Client] = "data"
        /\ times_up[Client] \/ (flow[Server] = 0 /\ side[Server] \in {"wr", "closed"})
        /\ Close(Client) /\ alarm' = [alarm EXCEPT ![Client] = "off"] /\ Goto(Client, "result")
    BY DEF TcpMaertsEnd
  <1>u. /\ UNCHANGED <<plan, iteration, control, times_up, io, flow, left, remaining, count, reported>>
        /\ UNCHANGED <<test, timed, early, times_up, toClient>>
    BY DEF TcpMaertsEnd, plan, control, tally
  <1>f. /\ pc'[Client] = "result" /\ pc'[Server] = pc[Server]
        /\ side'[Client] = "closed" /\ side'[Server] = side[Server] /\ side[Client] = "open"
        /\ alarm'[Client] = "off" /\ alarm'[Server] = alarm[Server]
    BY <1>t, <1>e DEF TypeInv, PlacesOK, SocketsOK, MaertsBooks, Goto, Close
  <1>1. Course'
    BY <1>t, <1>e, <1>f, <1>u, Leaves DEF ClientAlarm
  <1>2. SocketsOK' /\ FiguresOK'
    BY <1>t, <1>e, <1>u DEF TypeInv, SocketsOK, FiguresOK, Bound, Close
  <1>3. Counted'
    BY <1>t, <1>e, <1>f, <1>u DEF Counted, RR, CONN
  <1>4. MaertsBooks'
    <2>1. ~Answered /\ ~Answered' /\ Bound' = Bound /\ Gone' = Gone
      BY <1>t, <1>e, <1>f, <1>u DEF MaertsBooks, Answered, Alive, Bound, Gone, Ended
    <2>2. pc[Server] \notin {"accept", "idle"}
      BY <1>t, <1>e DEF MaertsBooks, Gone, Ended
    <2>3. pc[Server] = "data" => times_up[Client]
      BY <1>t, <1>e DEF MaertsBooks
    <2>4. pc[Server] = "drain" => flow[Server] = 0
      BY <1>t, <1>e DEF MaertsBooks, Gone, Ended
    <2>5. InHand(Server)' = InHand(Server) /\ Cut(Server)' = Cut(Server)
      BY <1>f, <1>u, <2>1 DEF InHand, Cut
    <2> QED
      BY <1>t, <1>e, <1>f, <1>u, <2>1, <2>2, <2>3, <2>4, <2>5 DEF MaertsBooks, Ended
  <1> QED
    BY <1>1, <1>2, <1>3, <1>4, <1>e, <1>u, MaertsOnly, Together

-----------------------------------------------------------------------------
(* TCP_RR and UDP_RR.                                                      *)

LEMMA RrOnly ==
  ASSUME test' \in RR, RrClient', RrServer', RrBooks', RrAnswer'
  PROVE  Books'
  BY DEF Books, StreamBooks, MaertsBooks, UdpBooks,
         ConnClient, ConnServer, ConnBooks, ConnAnswer, RR, CONN

LEMMA RrSends ==
  ASSUME IInv, RrSend
  PROVE  IInv'
  <1> USE Sizes, TwoProcesses DEF Client, Server, Process
  <1>t. /\ TypeInv /\ Counted /\ Timed /\ Ways
        /\ RrClient /\ RrServer /\ RrBooks /\ RrAnswer
    BY DEF IInv, Books, Timers, Control
  <1>e. /\ test \in RR /\ pc[Client] = "data" /\ io[Client] = "top" /\ GoesOn(Client)
        /\ io' = [io EXCEPT ![Client] = "call"] /\ side[Client] = "open" /\ Waiting = 0
        /\ flow[Client] = 0 /\ flow[Server] = 0
        /\ flow \in [Process -> 0..Window] /\ count[Client] \in Nat /\ remaining[Client] \in Nat
        /\ count[Server] \in Nat
    BY <1>t DEF RrSend, RrClient, Waiting, TypeInv, FiguresOK, Bound
  <1>u. /\ UNCHANGED <<plan, iteration, pc, control, timer, side, left, count, remaining, reported>>
        /\ UNCHANGED <<test, timed, pc, toClient, alarm, times_up>>
    BY DEF RrSend, plan, control, timer, tally
  <1>f. /\ flow' = [flow EXCEPT ![Client] = 1] \/ (flow' = flow /\ test = "UDP_RR")
        /\ io'[Client] = "call" /\ io'[Server] = io[Server] /\ Waiting' = 1
    BY <1>t, <1>e, <1>u DEF RrSend, Sent, Datagram, RR, Waiting, TypeInv, SocketsOK
  <1>g. /\ flow'[Client] \in {0, 1} /\ flow'[Server] = 0
        /\ test = "TCP_RR" => flow'[Client] = 1
    BY <1>e, <1>f
  <1>r. /\ count[Client] + 1 <= Room
        /\ ~Answered
    BY <1>t, <1>e DEF GoesOn, Size, Room, RR, CONN, Counted, RrAnswer, Waiting
  <1>1. Course'
    BY <1>t, <1>e, <1>f, <1>u, Calls DEF Ways
  <1>2. SocketsOK' /\ FiguresOK'
    BY <1>t, <1>e, <1>f, <1>u DEF TypeInv, SocketsOK, FiguresOK, Bound
  <1>3. Counted' /\ Timed'
    BY <1>t, <1>e, <1>f, <1>u DEF Counted, Timed, RR, CONN, Alive
  <1>4. RrClient'
    BY <1>e, <1>f, <1>g, <1>r, <1>u DEF RrClient, Room
  <1>5. RrServer'
    BY <1>t, <1>e, <1>f, <1>g, <1>u DEF RrServer, Alive, Ended
  <1>6. RrBooks'
    BY <1>t, <1>e, <1>f, <1>g, <1>u DEF RrBooks, Answering
  <1>7. RrAnswer'
    BY <1>r, <1>u DEF RrAnswer, Answered, Alive
  <1> QED
    BY <1>1, <1>2, <1>3, <1>4, <1>5, <1>6, <1>7, <1>e, <1>u, RrOnly, Together

LEMMA RrReceives ==
  ASSUME IInv, RrRecv
  PROVE  IInv'
  <1> USE Sizes, TwoProcesses DEF Client, Server, Process
  <1>t. /\ TypeInv /\ Counted /\ Timed /\ Ways
        /\ RrClient /\ RrServer /\ RrBooks /\ RrAnswer
    BY DEF IInv, Books, Timers, Control
  <1>e. /\ test \in RR /\ pc[Client] = "data" /\ io[Client] = "call" /\ flow[Server] > 0
        /\ side[Client] = "open" /\ Waiting = 1 /\ count[Client] + 1 <= Room
        /\ flow[Client] = 0 /\ flow[Server] = 1
        /\ flow \in [Process -> 0..Window] /\ count[Client] \in Nat /\ remaining[Client] \in Nat
        /\ count[Server] \in Nat
    BY <1>t DEF RrRecv, RrClient, Waiting, TypeInv, FiguresOK, Bound
  <1>u. /\ UNCHANGED <<plan, iteration, pc, control, timer, side, left, reported>>
        /\ UNCHANGED <<test, timed, pc, toClient, alarm, times_up>>
    BY DEF RrRecv, plan, control, timer
  <1>p. /\ flow' = [flow EXCEPT ![Server] = @ - 1]
        /\ count' = [count EXCEPT ![Client] = @ + 1]
        /\ remaining' = [remaining EXCEPT ![Client] = Less(@, 1)]
        /\ io' = [io EXCEPT ![Client] = "top"]
    BY DEF RrRecv, Taken
  <1>f. /\ io'[Client] = "top" /\ io'[Server] = io[Server] /\ Waiting' = 0
        /\ flow'[Client] = 0 /\ flow'[Server] = 0
        /\ count'[Client] = count[Client] + 1 /\ count'[Server] = count[Server]
        /\ remaining'[Client] = Less(remaining[Client], 1) /\ remaining'[Server] = remaining[Server]
    BY <1>t, <1>e, <1>p DEF Waiting, TypeInv, SocketsOK, FiguresOK
  <1>1. Course'
    BY <1>t, <1>e, <1>f, <1>u, Calls DEF Ways
  <1>2. SocketsOK' /\ FiguresOK'
    BY <1>t, <1>e, <1>p, <1>u DEF TypeInv, SocketsOK, FiguresOK, Bound, Room, Less
  <1>3. Counted' /\ Timed'
    BY <1>t, <1>e, <1>f, <1>u DEF Counted, Timed, RR, CONN, Alive, Less, Room
  <1>4. RrClient'
    BY <1>e, <1>f, <1>u DEF RrClient, Room
  <1>5. RrServer'
    BY <1>t, <1>e, <1>f, <1>u DEF RrServer, Alive, Ended
  <1>6. RrBooks'
    BY <1>t, <1>e, <1>f, <1>u DEF RrBooks, Answering
  <1>7. RrAnswer'
    BY <1>t, <1>e, <1>f, <1>u DEF RrAnswer, Answered, Alive
  <1> QED
    BY <1>1, <1>2, <1>3, <1>4, <1>5, <1>6, <1>7, <1>e, <1>u, RrOnly, Together

LEMMA RrStops ==
  ASSUME IInv, RrStop \/ TcpRrSpin
  PROVE  IInv'
  <1> USE Sizes, TwoProcesses DEF Client, Server, Process
  <1>t. /\ TypeInv /\ Counted /\ Timed /\ Control /\ ClientAlarm
        /\ RrClient /\ RrServer /\ RrBooks /\ RrAnswer
    BY DEF IInv, Books, Timers
  <1>u. /\ UNCHANGED <<plan, iteration, control, timer, data, tally>>
        /\ UNCHANGED <<test, timed, toClient, alarm, times_up, io, side, flow, left, count, remaining, reported>>
    BY DEF RrStop, TcpRrSpin, plan, control, timer, data, tally
  <1>e. test \in RR /\ pc[Client] = "data"
    BY DEF RrStop, TcpRrSpin, RR
  <1>p. PICK place \in {"result", "spin"} :
          /\ Goto(Client, place)
          /\ place = "result" => io[Client] = "intr" \/ times_up[Client]
          /\ place = "spin" => side[Server] = "closed" /\ test = "TCP_RR" /\ io[Client] = "call"
    BY DEF RrStop, TcpRrSpin, LoopEnds
  <1>f. pc'[Client] = place /\ pc'[Server] = pc[Server]
    BY <1>t, <1>p DEF TypeInv, PlacesOK, Goto
  <1>1. Course'
    BY <1>t, <1>e, <1>p, <1>u, Leaves DEF ClientAlarm
  <1>2. SocketsOK' /\ FiguresOK'
    BY <1>t, <1>u DEF TypeInv, SocketsOK, FiguresOK, Bound
  <1>3. Counted' /\ Timed'
    BY <1>t, <1>e, <1>f, <1>u DEF Counted, Timed, RR, CONN, Alive, Ended
  <1>4. RrClient'
    BY <1>t, <1>e, <1>f, <1>p, <1>u DEF RrClient, Room, Waiting
  <1>5. RrServer'
    BY <1>t, <1>e, <1>f, <1>p, <1>u DEF RrServer, Alive, Ended
  <1>6. RrBooks'
    BY <1>t, <1>f, <1>u DEF RrBooks, Answering, Waiting
  <1>7. RrAnswer'
    BY <1>t, <1>e, <1>f, <1>u DEF RrAnswer, Answered, Alive, Ended, Waiting
  <1> QED
    BY <1>1, <1>2, <1>3, <1>4, <1>5, <1>6, <1>7, <1>e, <1>u, RrOnly, Together

LEMMA RrServes ==
  ASSUME IInv, RrServerRecv
  PROVE  IInv'
  <1> USE Sizes, TwoProcesses DEF Client, Server, Process
  <1>t. /\ TypeInv /\ Counted /\ Timed /\ Ways /\ Untouched
        /\ RrClient /\ RrServer /\ RrBooks /\ RrAnswer
    BY DEF IInv, Books, Timers, Control
  <1>e. /\ test \in RR /\ pc[Server] = "data" /\ io[Server] = "call" /\ flow[Client] > 0
        /\ Waiting \in {0, 1} /\ Answering = 0
        /\ flow \in [Process -> 0..Window] /\ count[Client] \in Nat /\ count[Server] \in Nat
    BY <1>t DEF RrServerRecv, Waiting, Answering, TypeInv, FiguresOK, Bound
  <1>g. Waiting = 1 /\ flow[Client] = 1 /\ flow[Server] = 0
    BY <1>t, <1>e DEF RrBooks
  <1>u. /\ UNCHANGED <<plan, iteration, pc, control, timer, side, left, count, remaining, reported>>
        /\ UNCHANGED <<test, timed, pc, toClient, alarm, times_up>>
    BY DEF RrServerRecv, plan, control, timer, tally
  <1>p. /\ flow' = [flow EXCEPT ![Client] = @ - 1]
        /\ io' = [io EXCEPT ![Server] = "send"]
    BY DEF RrServerRecv, Taken
  <1>f. /\ io'[Server] = "send" /\ io'[Client] = io[Client] /\ Waiting' = 1 /\ Answering' = 1
        /\ flow'[Client] = 0 /\ flow'[Server] = 0
    BY <1>t, <1>e, <1>g, <1>p, <1>u DEF Waiting, Answering, TypeInv, SocketsOK, FiguresOK
  <1>1. Course'
    BY <1>t, <1>e, <1>f, <1>u, Calls DEF Ways, Untouched, Busy
  <1>2. SocketsOK' /\ FiguresOK'
    BY <1>t, <1>e, <1>p, <1>u DEF TypeInv, SocketsOK, FiguresOK, Bound
  <1>3. Counted' /\ Timed'
    BY <1>t, <1>e, <1>f, <1>u DEF Counted, Timed, RR, CONN, Alive
  <1>4. RrClient'
    BY <1>t, <1>e, <1>f, <1>g, <1>u DEF RrClient, Room
  <1>5. RrServer'
    BY <1>t, <1>e, <1>f, <1>g, <1>u DEF RrServer, Alive, Ended
  <1>6. RrBooks'
    BY <1>t, <1>e, <1>f, <1>g, <1>u DEF RrBooks
  <1>7. RrAnswer'
    BY <1>t, <1>e, <1>f, <1>g, <1>u DEF RrAnswer, Answered, Alive
  <1> QED
    BY <1>1, <1>2, <1>3, <1>4, <1>5, <1>6, <1>7, <1>e, <1>u, RrOnly, Together

LEMMA RrReplies ==
  ASSUME IInv, RrServerSend
  PROVE  IInv'
  <1> USE Sizes, TwoProcesses DEF Client, Server, Process
  <1>t. /\ TypeInv /\ Counted /\ Timed /\ Ways /\ Untouched /\ OneAnswer
        /\ RrClient /\ RrServer /\ RrBooks /\ RrAnswer
    BY DEF IInv, Books, Timers, Control
  <1>e. /\ test \in RR /\ pc[Server] = "data" /\ io[Server] = "send"
        /\ Waiting \in {0, 1} /\ Answering = 1
        /\ flow \in [Process -> 0..Window] /\ count[Client] \in Nat /\ count[Server] \in Nat
        /\ remaining \in [Process -> 0..Limit]
    BY <1>t DEF RrServerSend, Waiting, Answering, TypeInv, FiguresOK, Bound
  <1>g. Waiting = 1 /\ flow[Client] = 0 /\ flow[Server] = 0 /\ count[Server] = count[Client]
    BY <1>t, <1>e DEF RrBooks
  <1>h. ~Answered
    BY <1>t, <1>e DEF OneAnswer, Answered, Gone, Ended
  <1>u. /\ UNCHANGED <<plan, iteration, pc, control, timer, side, left, reported>>
        /\ UNCHANGED <<test, timed, pc, toClient, alarm, times_up>>
    BY DEF RrServerSend, plan, control, timer
  <1>p. /\ flow' = [flow EXCEPT ![Server] = 1] \/ (flow' = flow /\ test = "UDP_RR")
        /\ count' = [count EXCEPT ![Server] = @ + 1]
        /\ remaining' = [remaining EXCEPT ![Server] = Less(@, 1)]
        /\ io' = [io EXCEPT ![Server] = IF ~times_up[Server] \/ remaining[Server] > 1 THEN "call" ELSE "top"]
    BY <1>e, <1>g DEF RrServerSend, Sent, Datagram, RR
  <1>f. /\ io'[Server] = (IF ~times_up[Server] \/ remaining[Server] > 1 THEN "call" ELSE "top")
        /\ io'[Client] = io[Client] /\ Waiting' = 1 /\ Answering' = 0
        /\ flow'[Client] = 0 /\ flow'[Server] \in {0, 1} /\ (test = "TCP_RR" => flow'[Server] = 1)
        /\ count'[Server] = count[Server] + 1 /\ count'[Client] = count[Client]
        /\ remaining'[Server] = Less(remaining[Server], 1) /\ remaining'[Client] = remaining[Client]
    BY <1>t, <1>e, <1>g, <1>p, <1>u DEF Waiting, Answering, TypeInv, SocketsOK, FiguresOK
  <1>r. count[Client] + 1 <= Room
    BY <1>t, <1>e, <1>g DEF RrClient
  <1>s. /\ timed => ~times_up[Server] /\ remaining[Server] = 0
        /\ ~timed => times_up[Server] /\ remaining[Server] > 0
    BY <1>t, <1>e DEF Timed, Counted, RrServer
  <1>1. Course'
    BY <1>t, <1>e, <1>f, <1>g, <1>u, Calls DEF Ways, Untouched, Busy, Waiting
  <1>2. SocketsOK' /\ FiguresOK'
    BY <1>t, <1>e, <1>g, <1>p, <1>r, <1>u DEF TypeInv, SocketsOK, FiguresOK, Bound, Room, Less
  <1>3. Counted' /\ Timed'
    BY <1>t, <1>e, <1>f, <1>s, <1>u DEF Counted, Timed, RR, CONN, Alive, Less
  <1>4. RrClient'
    BY <1>t, <1>e, <1>f, <1>g, <1>r, <1>u DEF RrClient, Room
  <1>5. RrServer'
    BY <1>t, <1>e, <1>f, <1>g, <1>s, <1>u DEF RrServer, Alive, Ended, Less
  <1>6. RrBooks'
    BY <1>t, <1>e, <1>f, <1>g, <1>u DEF RrBooks
  <1>7. RrAnswer'
    BY <1>h, <1>u DEF RrAnswer, Answered, Alive
  <1> QED
    BY <1>1, <1>2, <1>3, <1>4, <1>5, <1>6, <1>7, <1>e, <1>u, RrOnly, Together

LEMMA RrAnswers ==
  ASSUME IInv, RrServerResults
  PROVE  IInv'
  <1> USE Sizes, TwoProcesses DEF Client, Server, Process
  <1>t. /\ TypeInv /\ Counted /\ Timed /\ Ways /\ Untouched /\ ClientAlarm /\ ServerAlarm
        /\ RrClient /\ RrServer /\ RrBooks /\ RrAnswer
    BY DEF IInv, Books, Timers, Control
  <1>e. /\ test \in RR /\ pc[Server] = "data"
        /\ Close(Server) /\ Respond("result", count[Server]) /\ Goto(Server, "idle")
        /\ Waiting \in {0, 1} /\ Answering \in {0, 1}
        /\ flow[Client] \in Nat /\ flow[Server] \in Nat
        /\ count[Client] \in Nat /\ count[Server] \in Nat /\ remaining[Server] \in Nat
    BY <1>t DEF RrServerResults, TypeInv, FiguresOK, Bound, Waiting, Answering
  <1>c. /\ alarm' = IF test = "TCP_RR" THEN [alarm EXCEPT ![Server] = "off"] ELSE alarm
        /\ \/ io[Server] \in {"top", "intr"}
           \/ test = "TCP_RR" /\ side[Client] = "closed"
    BY DEF RrServerResults
  <1>u. /\ UNCHANGED <<plan, iteration, toServer, times_up, io, flow, left, remaining, count, reported>>
        /\ UNCHANGED <<test, timed>>
    BY DEF RrServerResults, plan, tally
  <1>f. /\ pc'[Server] = "idle" /\ pc'[Client] = pc[Client]
        /\ side'[Client] = side[Client]
        /\ alarm'[Client] = alarm[Client]
    BY <1>t, <1>e, <1>c DEF TypeInv, PlacesOK, SocketsOK, Goto, Close
  <1>a. alarm'[Server] = "off"
    BY <1>t, <1>e, <1>c DEF TypeInv, SocketsOK, ServerAlarm, Counted, RrServer, RR
  <1>g. /\ Alive => pc[Client] \in {"data", "result"}
        /\ Alive /\ pc[Client] = "data" =>
             /\ timed => io[Client] = "call" /\ flow[Server] = 0 /\ alarm[Client] = "off"
             /\ ~timed => count[Server] = Limit
    <2>1. Alive => io[Server] \in {"top", "intr"} /\ pc[Client] \in {"setup", "connect", "data", "result"}
      BY <1>t, <1>e, <1>c DEF RrServer, Alive, Ended
    <2>2. Alive => pc[Client] \notin {"setup", "connect"}
      BY <1>t, <1>e, <2>1 DEF RrServer, RrBooks, Untouched, Waiting, Counted
    <2>3. Alive /\ timed => io[Server] = "intr"
      BY <1>t, <1>e, <2>1 DEF RrServer
    <2>4. Alive /\ ~timed => remaining[Server] = 0
      BY <1>t, <1>e, <2>1 DEF RrServer
    <2> QED
      BY <1>t, <1>e, <2>1, <2>2, <2>3, <2>4 DEF RrServer, Counted
  <1>1. /\ Course' /\ (Alive => toClient' # <<>>)
        /\ Alive => toClient'[1].kind = "result" /\ toClient'[1].figure = count[Server]
    BY <1>t, <1>a, <1>e, <1>f, <1>g, <1>u, Answers DEF Busy
  <1>2. SocketsOK' /\ FiguresOK'
    BY <1>t, <1>c, <1>e, <1>u DEF TypeInv, SocketsOK, FiguresOK, Bound, Close
  <1>3. Counted' /\ Timed'
    BY <1>t, <1>e, <1>f, <1>u DEF Counted, Timed, RR, CONN
  <1>4. RrClient'
    BY <1>t, <1>e, <1>f, <1>u DEF RrClient, Room, Waiting
  <1>5. RrServer' /\ RrBooks'
    BY <1>f DEF RrServer, RrBooks
  <1>7. RrAnswer'
    <2>1. Waiting' = Waiting
      BY <1>f, <1>u DEF Waiting
    <2>2. flow[Server] > 0 => count[Server] = count[Client] + 1
      BY <1>t, <1>e DEF RrBooks
    <2>3. count[Server] \in {count[Client], count[Client] + Waiting}
      BY <1>t, <1>e DEF RrBooks
    <2> QED
      BY <1>1, <1>e, <1>f, <1>g, <1>u, <2>1, <2>2, <2>3 DEF RrAnswer, Answered, Alive
  <1> QED
    BY <1>1, <1>2, <1>3, <1>4, <1>5, <1>7, <1>e, <1>u, RrOnly, Together

-----------------------------------------------------------------------------
(* UDP_STREAM.                                                             *)

LEMMA UdpOnly ==
  ASSUME test' = "UDP_STREAM", UdpBooks'
  PROVE  Books' /\ Timed'
  BY DEF Books, StreamBooks, MaertsBooks, RrClient, RrServer, RrBooks, RrAnswer,
         ConnClient, ConnServer, ConnBooks, ConnAnswer, Timed, RR, CONN

LEMMA UdpSends ==
  ASSUME IInv, UdpSend
  PROVE  IInv'
  <1> USE Sizes, TwoProcesses DEF Client, Server, Process
  <1>t. TypeInv /\ UdpBooks /\ Ways
    BY DEF IInv, Books, Control
  <1>e. /\ test = "UDP_STREAM" /\ pc[Client] = "data" /\ timed /\ count[Client] + 1 <= MaxCount
        /\ count' = [count EXCEPT ![Client] = @ + 1]
        /\ flow' = flow \/ (flow[Client] < Window /\ flow' = [flow EXCEPT ![Client] = @ + 1])
    BY <1>t DEF UdpSend, UdpBooks, GoesOn, Size, Datagram, Sent
  <1>u. /\ UNCHANGED <<plan, iteration, pc, control, timer, io, side, left, remaining, reported>>
        /\ UNCHANGED <<test, timed, pc, toClient, alarm, times_up>>
    BY DEF UdpSend, plan, control, timer
  <1>f. /\ count'[Client] = count[Client] + 1 /\ count'[Server] = count[Server]
        /\ flow'[Client] \in {flow[Client], flow[Client] + 1}
        /\ flow[Client] \in Nat /\ count[Client] \in Nat /\ count[Server] \in Nat
    BY <1>t, <1>e DEF TypeInv, FiguresOK, Bound
  <1>1. Course'
    BY <1>t, <1>e, <1>f, <1>u, Calls DEF Ways
  <1>2. SocketsOK' /\ FiguresOK'
    BY <1>t, <1>e, <1>u DEF TypeInv, SocketsOK, FiguresOK, Bound
  <1>3. Counted'
    BY <1>e, <1>u DEF Counted
  <1>4. UdpBooks'
    BY <1>t, <1>e, <1>f, <1>u DEF UdpBooks, Answered, Alive
  <1> QED
    BY <1>1, <1>2, <1>3, <1>4, <1>e, <1>u, UdpOnly, Together

LEMMA UdpStops ==
  ASSUME IInv, UdpStop
  PROVE  IInv'
  <1> USE Sizes, TwoProcesses DEF Client, Server, Process
  <1>t. TypeInv /\ UdpBooks /\ Ways /\ ClientAlarm
    BY DEF IInv, Books, Control, Timers
  <1>e. test = "UDP_STREAM" /\ pc[Client] = "data" /\ times_up[Client] /\ Goto(Client, "result")
    BY DEF UdpStop, LoopEnds
  <1>u. /\ UNCHANGED <<plan, iteration, control, timer, data, tally>>
        /\ UNCHANGED <<test, timed, toClient, alarm, times_up, io, side, flow, left, count, remaining, reported>>
    BY DEF UdpStop, plan, control, timer, data, tally
  <1>f. pc'[Client] = "result" /\ pc'[Server] = pc[Server]
    BY <1>t, <1>e DEF TypeInv, PlacesOK, Goto
  <1>1. Course'
    BY <1>t, <1>e, <1>u, Leaves DEF ClientAlarm
  <1>2. SocketsOK' /\ FiguresOK'
    BY <1>t, <1>u DEF TypeInv, SocketsOK, FiguresOK, Bound
  <1>3. Counted'
    BY <1>t, <1>e, <1>u DEF Counted, UdpBooks
  <1>4. UdpBooks'
    BY <1>t, <1>e, <1>f, <1>u DEF UdpBooks, Answered, Alive, Ended
  <1> QED
    BY <1>1, <1>2, <1>3, <1>4, <1>e, <1>u, UdpOnly, Together

LEMMA UdpReceives ==
  ASSUME IInv, UdpRecv
  PROVE  IInv'
  <1> USE Sizes, TwoProcesses DEF Client, Server, Process
  <1>t. TypeInv /\ UdpBooks /\ Ways /\ Untouched
    BY DEF IInv, Books, Control
  <1>e. /\ test = "UDP_STREAM" /\ pc[Server] = "data" /\ flow[Client] > 0 /\ timed
        /\ count' = [count EXCEPT ![Server] = @ + 1]
        /\ flow' = [flow EXCEPT ![Client] = @ - 1]
    BY <1>t DEF UdpRecv, UdpBooks, Taken
  <1>u. /\ UNCHANGED <<plan, iteration, pc, control, timer, io, side, left, remaining, reported>>
        /\ UNCHANGED <<test, timed, pc, toClient, alarm, times_up>>
    BY DEF UdpRecv, plan, control, timer
  <1>f. /\ count'[Server] = count[Server] + 1 /\ count'[Client] = count[Client]
        /\ flow'[Client] = flow[Client] - 1
        /\ flow[Client] \in 0..Window /\ count[Client] \in 0..MaxCount /\ count[Server] \in Nat
    BY <1>t, <1>e DEF TypeInv, FiguresOK, Bound
  <1>b. count[Server] + 1 <= MaxCount
    BY <1>t, <1>e, <1>f DEF UdpBooks
  <1>1. Course'
    BY <1>t, <1>e, <1>f, <1>u, Calls DEF Ways, Untouched, Busy
  <1>2. SocketsOK' /\ FiguresOK'
    BY <1>t, <1>b, <1>e, <1>u DEF TypeInv, SocketsOK, FiguresOK, Bound
  <1>3. Counted'
    BY <1>e, <1>u DEF Counted
  <1>4. UdpBooks'
    BY <1>t, <1>e, <1>f, <1>u DEF UdpBooks, Answered, Alive
  <1> QED
    BY <1>1, <1>2, <1>3, <1>4, <1>e, <1>u, UdpOnly, Together

LEMMA UdpAnswers ==
  ASSUME IInv, UdpResults
  PROVE  IInv'
  <1> USE Sizes, TwoProcesses DEF Client, Server, Process
  <1>t. TypeInv /\ UdpBooks /\ Ways /\ ServerAlarm
    BY DEF IInv, Books, Timers, Control
  <1>e. /\ test = "UDP_STREAM" /\ pc[Server] = "data" /\ io[Server] = "intr"
        /\ Close(Server) /\ Respond("result", count[Server]) /\ Goto(Server, "idle")
    BY DEF UdpResults
  <1>u. /\ UNCHANGED <<plan, iteration, toServer, timer, io, flow, left, remaining, count, reported>>
        /\ UNCHANGED <<test, timed, alarm, times_up>>
    BY DEF UdpResults, plan, timer, tally
  <1>f. /\ pc'[Server] = "idle" /\ pc'[Client] = pc[Client]
        /\ count[Server] \in Nat /\ count[Client] \in Nat /\ flow[Client] \in Nat
    BY <1>t, <1>e DEF TypeInv, PlacesOK, FiguresOK, Bound, Goto
  <1>g. Alive => pc[Client] = "result"
    BY <1>t, <1>e DEF UdpBooks, Alive
  <1>1. /\ Course' /\ (Alive => toClient' # <<>>)
        /\ Alive => toClient'[1].kind = "result" /\ toClient'[1].figure = count[Server]
    BY <1>t, <1>e, <1>g, <1>u, Answers DEF ServerAlarm, Busy
  <1>2. SocketsOK' /\ FiguresOK'
    BY <1>t, <1>e, <1>u DEF TypeInv, SocketsOK, FiguresOK, Bound, Close
  <1>3. Counted'
    BY <1>t, <1>e, <1>u DEF Counted, UdpBooks
  <1>4. UdpBooks'
    BY <1>t, <1>1, <1>e, <1>f, <1>g, <1>u DEF UdpBooks, Answered, Alive
  <1> QED
    BY <1>1, <1>2, <1>3, <1>4, <1>e, <1>u, UdpOnly, Together

-----------------------------------------------------------------------------
(* TCP_CRR and TCP_CC.                                                     *)

LEMMA ConnOnly ==
  ASSUME test' \in CONN, ConnClient', ConnServer', ConnBooks', ConnAnswer'
  PROVE  Books'
  BY DEF Books, StreamBooks, MaertsBooks, UdpBooks,
         RrClient, RrServer, RrBooks, RrAnswer, RR, CONN

LEMMA ConnConnects ==
  ASSUME IInv, ConnConnect
  PROVE  IInv'
  <1> USE Sizes, TwoProcesses DEF Client, Server, Process
  <1>t. /\ TypeInv /\ Counted /\ Timed /\ Ways
        /\ ConnClient /\ ConnServer /\ ConnBooks /\ ConnAnswer
    BY DEF IInv, Books, Timers, Control
  <1>e. /\ test \in CONN /\ pc[Client] = "data" /\ io[Client] = "top" /\ GoesOn(Client)
        /\ side' = [p \in Process |-> IF p = Client THEN "open"
                                     ELSE IF pc[Server] \in Ended THEN side[Server] ELSE "none"]
        /\ io' = [io EXCEPT ![Client] = "connect"]
        /\ side[Client] \in {"none", "closed"} /\ flow[Client] = 0
        /\ count[Client] \in Nat /\ remaining[Client] \in Nat /\ count[Server] \in Nat /\ remaining[Server] \in Nat
    BY <1>t DEF ConnConnect, ConnClient, TypeInv, FiguresOK, Bound
  <1>u. /\ UNCHANGED <<plan, iteration, pc, control, timer, flow, left, count, remaining, reported>>
        /\ UNCHANGED <<test, timed, pc, toClient, alarm, times_up>>
    BY DEF ConnConnect, plan, control, timer, tally
  <1>f. /\ io'[Client] = "connect" /\ io'[Server] = io[Server] /\ side'[Client] = "open"
        /\ pc[Server] = "data" => side'[Server] = "none"
    BY <1>t, <1>e DEF TypeInv, SocketsOK, Ended
  <1>r. count[Client] + 1 <= Room
    BY <1>t, <1>e DEF GoesOn, Size, Room, RR, CONN, Counted
  <1>s. pc[Server] = "data" => /\ side[Server] \in {"none", "closed"} /\ count[Server] = count[Client]
                               /\ io[Server] = "accept"
    <2>1. pc[Server] = "data" => side[Server] \in {"none", "closed"} /\ io[Server] \notin {"intr", "call", "send"}
      BY <1>t, <1>e DEF ConnServer, Alive, Ended
    <2>2. pc[Server] = "data" => count[Server] = count[Client]
      BY <1>t, <1>e, <2>1 DEF ConnBooks, Alive, Ended
    <2>3. pc[Server] = "data" /\ ~timed => io[Server] # "top"
      <3> SUFFICES ASSUME pc[Server] = "data", ~timed, io[Server] = "top" PROVE FALSE
        OBVIOUS
      <3>1. remaining[Server] = 0
        BY <1>t, <1>e DEF ConnServer
      <3>2. count[Server] = Limit /\ remaining[Client] = 0 /\ times_up[Client]
        BY <1>t, <1>e, <2>2, <3>1 DEF Counted
      <3> QED
        BY <1>e, <3>2 DEF GoesOn
    <2>4. pc[Server] = "data" /\ timed => io[Server] # "top"
      BY <1>t, <1>e DEF ConnServer, Alive, Ended
    <2> QED
      BY <1>t, <1>e, <2>1, <2>2, <2>3, <2>4 DEF ConnServer
  <1>h. ~Answered
    <2> SUFFICES ASSUME Answered PROVE FALSE
      OBVIOUS
    <2>1. ~timed /\ count[Client] = Limit
      BY <1>t, <1>e DEF ConnAnswer
    <2>2. remaining[Client] = 0 /\ times_up[Client]
      BY <1>t, <1>e, <2>1 DEF Counted
    <2> QED
      BY <1>e, <2>2 DEF GoesOn
  <1>1. Course'
    BY <1>t, <1>e, <1>f, <1>u, Calls DEF Ways
  <1>2. SocketsOK' /\ FiguresOK'
    BY <1>t, <1>e, <1>u DEF TypeInv, SocketsOK, FiguresOK, Bound
  <1>3. Counted' /\ Timed'
    BY <1>t, <1>e, <1>f, <1>u DEF Counted, Timed, RR, CONN, Alive
  <1>4. ConnClient'
    BY <1>t, <1>e, <1>f, <1>r, <1>u DEF ConnClient, Room
  <1>5. ConnServer'
    BY <1>t, <1>e, <1>f, <1>s, <1>u DEF ConnServer, Alive, Ended
  <1>6. ConnBooks'
    BY <1>t, <1>e, <1>f, <1>r, <1>s, <1>u DEF ConnBooks, Room
  <1>7. ConnAnswer'
    BY <1>h, <1>u DEF ConnAnswer, Answered, Alive
  <1> QED
    BY <1>1, <1>2, <1>3, <1>4, <1>5, <1>6, <1>7, <1>e, <1>u, ConnOnly, Together

LEMMA ConnRequests ==
  ASSUME IInv, ConnRequest
  PROVE  IInv'
  <1> USE Sizes, TwoProcesses DEF Client, Server, Process
  <1>t. /\ TypeInv /\ Counted /\ Timed /\ Ways
        /\ ConnClient /\ ConnServer /\ ConnBooks /\ ConnAnswer
    BY DEF IInv, Books, Timers, Control
  <1>e. /\ test \in CONN /\ pc[Client] = "data" /\ io[Client] = "connect"
        /\ io' = [io EXCEPT ![Client] = "call"]
        /\ flow[Client] = 0 /\ side[Client] = "open" /\ count[Client] + 1 <= Room
    BY <1>t DEF ConnRequest, ConnClient
  <1>p. \/ flow' = flow
        \/ flow' = [flow EXCEPT ![Client] = 1] /\ test = "TCP_CRR" /\ side[Server] # "closed"
    BY <1>e DEF ConnRequest, Sent
  <1>u. /\ UNCHANGED <<plan, iteration, pc, control, timer, side, left, count, remaining, reported>>
        /\ UNCHANGED <<test, timed, pc, toClient, alarm, times_up>>
    BY DEF ConnRequest, plan, control, timer, tally
  <1>f. /\ io'[Client] = "call" /\ io'[Server] = io[Server] /\ flow'[Server] = flow[Server]
        /\ \/ flow'[Client] = 0
           \/ flow'[Client] = 1 /\ test = "TCP_CRR" /\ side[Server] # "closed"
    BY <1>t, <1>e, <1>p DEF TypeInv, SocketsOK, FiguresOK
  <1>1. Course'
    BY <1>t, <1>e, <1>f, <1>u, Calls DEF Ways
  <1>2. SocketsOK' /\ FiguresOK'
    BY <1>t, <1>e, <1>p, <1>u DEF TypeInv, SocketsOK, FiguresOK, Bound
  <1>3. Counted' /\ Timed'
    BY <1>t, <1>e, <1>f, <1>u DEF Counted, Timed, RR, CONN, Alive
  <1>4. ConnClient'
    BY <1>t, <1>e, <1>f, <1>u DEF ConnClient, Room
  <1>5. ConnServer'
    BY <1>t, <1>e, <1>f, <1>u DEF ConnServer, Alive, Ended
  <1>6. ConnBooks'
    BY <1>t, <1>u DEF ConnBooks, Room, Alive
  <1>7. ConnAnswer'
    BY <1>t, <1>u DEF ConnAnswer, Answered, Alive
  <1> QED
    BY <1>1, <1>2, <1>3, <1>4, <1>5, <1>6, <1>7, <1>e, <1>u, ConnOnly, Together

LEMMA ConnCloses ==
  ASSUME IInv, ConnClosed
  PROVE  IInv'
  <1> USE Sizes, TwoProcesses DEF Client, Server, Process
  <1>t. /\ TypeInv /\ Counted /\ Timed /\ Ways
        /\ ConnClient /\ ConnServer /\ ConnBooks /\ ConnAnswer
    BY DEF IInv, Books, Timers, Control
  <1>e. /\ test \in CONN /\ pc[Client] = "data" /\ io[Client] = "call"
        /\ side[Server] = "closed" /\ flow[Client] = 0 /\ Close(Client)
        /\ count' = [count EXCEPT ![Client] = @ + 1]
        /\ remaining' = [remaining EXCEPT ![Client] = Less(@, 1)]
        /\ io' = [io EXCEPT ![Client] = "top"]
        /\ side[Client] = "open" /\ count[Client] + 1 <= Room
        /\ count[Client] \in Nat /\ remaining[Client] \in Nat /\ count[Server] \in Nat
    BY <1>t DEF ConnClosed, ConnClient, TypeInv, FiguresOK, Bound
  <1>u. /\ UNCHANGED <<plan, iteration, pc, control, timer, flow, left, reported>>
        /\ UNCHANGED <<test, timed, pc, toClient, alarm, times_up>>
    BY DEF ConnClosed, plan, control, timer
  <1>f. /\ io'[Client] = "top" /\ io'[Server] = io[Server]
        /\ side'[Client] = "closed" /\ side'[Server] = "closed"
        /\ count'[Client] = count[Client] + 1 /\ count'[Server] = count[Server]
        /\ remaining'[Client] = Less(remaining[Client], 1) /\ remaining'[Server] = remaining[Server]
    BY <1>t, <1>e DEF TypeInv, SocketsOK, FiguresOK, Close
  <1>1. Course'
    BY <1>t, <1>e, <1>f, <1>u, Calls DEF Ways
  <1>2. SocketsOK' /\ FiguresOK'
    BY <1>t, <1>e, <1>u DEF TypeInv, SocketsOK, FiguresOK, Bound, Room, Less, Close
  <1>3. Counted' /\ Timed'
    BY <1>t, <1>e, <1>f, <1>u DEF Counted, Timed, RR, CONN, Alive, Less, Room
  <1>4. ConnClient'
    BY <1>t, <1>e, <1>f, <1>u DEF ConnClient, Room
  <1>5. ConnServer'
    BY <1>t, <1>e, <1>f, <1>u DEF ConnServer, Alive, Ended
  <1>6. ConnBooks'
    BY <1>t, <1>e, <1>f, <1>u DEF ConnBooks, Room, Alive, Ended
  <1>7. ConnAnswer'
    BY <1>t, <1>e, <1>f, <1>u DEF ConnAnswer, Answered, Alive
  <1> QED
    BY <1>1, <1>2, <1>3, <1>4, <1>5, <1>6, <1>7, <1>e, <1>u, ConnOnly, Together

LEMMA ConnStops ==
  ASSUME IInv, ConnStop
  PROVE  IInv'
  <1> USE Sizes, TwoProcesses DEF Client, Server, Process
  <1>t. /\ TypeInv /\ Counted /\ Timed /\ Control /\ ClientAlarm
        /\ ConnClient /\ ConnServer /\ ConnBooks /\ ConnAnswer
    BY DEF IInv, Books, Timers
  <1>u. /\ UNCHANGED <<plan, iteration, control, timer, data, tally>>
        /\ UNCHANGED <<test, timed, toClient, alarm, times_up, io, side, flow, left, count, remaining, reported>>
    BY DEF ConnStop, plan, control, timer, data, tally
  <1>e. test \in CONN /\ pc[Client] = "data" /\ Goto(Client, "result") /\ (io[Client] = "intr" \/ times_up[Client])
    BY DEF ConnStop, LoopEnds
  <1>f. pc'[Client] = "result" /\ pc'[Server] = pc[Server]
    BY <1>t, <1>e DEF TypeInv, PlacesOK, Goto
  <1>1. Course'
    BY <1>t, <1>e, <1>u, Leaves DEF ClientAlarm
  <1>2. SocketsOK' /\ FiguresOK'
    BY <1>t, <1>u DEF TypeInv, SocketsOK, FiguresOK, Bound
  <1>3. Counted' /\ Timed'
    BY <1>t, <1>e, <1>f, <1>u DEF Counted, Timed, RR, CONN, Alive, Ended
  <1>4. ConnClient'
    BY <1>t, <1>e, <1>f, <1>u DEF ConnClient
  <1>5. ConnServer'
    BY <1>t, <1>e, <1>f, <1>u DEF ConnServer, Alive, Ended
  <1>6. ConnBooks'
    BY <1>t, <1>e, <1>f, <1>u DEF ConnBooks, Room, Alive, Ended
  <1>7. ConnAnswer'
    BY <1>t, <1>e, <1>f, <1>u DEF ConnAnswer, Answered, Alive, Ended
  <1> QED
    BY <1>1, <1>2, <1>3, <1>4, <1>5, <1>6, <1>7, <1>e, <1>u, ConnOnly, Together

\* What holds when the server has a transaction done.
LEMMA ConnDoneKeeps ==
  ASSUME IInv, test \in CONN, pc[Server] = "data", ConnDone,
         side[Server] # "closed", side[Client] # "none",
         io[Server] \in {"accept", "send"},
         timed /\ Alive => flow[Client] = 0,
         UNCHANGED <<plan, iteration, pc, control, timer, flow, left, reported>>
  PROVE  IInv'
  <1> USE Sizes, TwoProcesses DEF Client, Server, Process
  <1>t. /\ TypeInv /\ Counted /\ Timed /\ Ways /\ Untouched /\ OneAnswer
        /\ ConnClient /\ ConnServer /\ ConnBooks /\ ConnAnswer
    BY DEF IInv, Books, Timers, Control
  <1>e. /\ count[Client] \in Nat /\ count[Server] \in Nat /\ remaining[Server] \in Nat
        /\ count[Server] = count[Client] /\ count[Client] + 1 <= Room
        /\ Alive => side[Client] = "open"
    BY <1>t DEF ConnBooks, ConnServer, TypeInv, FiguresOK, SocketsOK, Bound, Alive, ConnClient
  <1>h. ~Answered
    BY <1>t DEF OneAnswer, Answered, Gone, Ended
  <1>u. UNCHANGED <<test, timed, pc, toClient, alarm, times_up>>
    BY DEF plan, control, timer
  <1>f. /\ io'[Server] = (IF ~times_up[Server] \/ remaining[Server] > 1 THEN "accept" ELSE "top")
        /\ io'[Client] = io[Client] /\ side'[Server] = "closed" /\ side'[Client] = side[Client]
        /\ count'[Server] = count[Server] + 1 /\ count'[Client] = count[Client]
        /\ remaining'[Server] = Less(remaining[Server], 1) /\ remaining'[Client] = remaining[Client]
    BY <1>t DEF ConnDone, TypeInv, SocketsOK, FiguresOK
  <1>s. /\ timed => remaining[Server] = 0 /\ (Alive => ~times_up[Server])
        /\ ~timed => times_up[Server] /\ remaining[Server] > 0
    BY <1>t, <1>e DEF Timed, Counted, ConnServer, RR, CONN
  <1>1. Course'
    BY <1>t, <1>e, <1>f, <1>u, Calls DEF Ways, Untouched, Busy
  <1>2. SocketsOK' /\ FiguresOK'
    BY <1>t, <1>e, <1>u DEF TypeInv, SocketsOK, FiguresOK, Bound, Room, Less, ConnDone
  <1>3. Counted' /\ Timed'
    BY <1>t, <1>e, <1>f, <1>s, <1>u DEF Counted, Timed, RR, CONN, Alive, Less
  <1>4. ConnClient'
    BY <1>t, <1>e, <1>f, <1>u DEF ConnClient, Room
  <1>5. ConnServer'
    BY <1>t, <1>e, <1>f, <1>s, <1>u DEF ConnServer, Alive, Ended, Less
  <1>6. ConnBooks'
    BY <1>t, <1>e, <1>f, <1>u DEF ConnBooks, Alive
  <1>7. ConnAnswer'
    BY <1>h, <1>u DEF ConnAnswer, Answered, Alive
  <1> QED
    BY <1>1, <1>2, <1>3, <1>4, <1>5, <1>6, <1>7, <1>u, ConnOnly, Together

LEMMA ConnServes ==
  ASSUME IInv, CcAccept \/ CrrReply
  PROVE  IInv'
  <1> USE TwoProcesses DEF Client, Server, Process
  <1>t. TypeInv /\ ConnClient /\ ConnServer
    BY DEF IInv, Books
  <1>u. /\ UNCHANGED <<plan, iteration, pc, control, timer, flow, left, reported>>
        /\ test \in CONN /\ pc[Server] = "data" /\ ConnDone
    BY DEF CcAccept, CrrReply, CONN
  <1>1. CASE CcAccept
    <2>1. side[Server] = "none" /\ side[Client] # "none" /\ io[Server] = "accept" /\ test = "TCP_CC"
      BY <1>1 DEF CcAccept, Backlog
    <2>2. flow[Client] = 0
      BY <1>t, <1>u, <2>1 DEF ConnClient, TypeInv, FiguresOK
    <2> QED
      BY <1>u, <2>1, <2>2, ConnDoneKeeps
  <1>2. CASE CrrReply
    <2>1. io[Server] = "send"
      BY <1>2 DEF CrrReply
    <2>2. side[Server] = "open" /\ side[Client] # "none" /\ (timed /\ Alive => flow[Client] = 0)
      BY <1>t, <1>u, <2>1 DEF ConnServer
    <2> QED
      BY <1>u, <2>1, <2>2, ConnDoneKeeps
  <1> QED
    BY <1>1, <1>2

LEMMA ConnAccepts ==
  ASSUME IInv, CrrAccept
  PROVE  IInv'
  <1> USE Sizes, TwoProcesses DEF Client, Server, Process
  <1>t. /\ TypeInv /\ Counted /\ Timed /\ Ways
        /\ ConnClient /\ ConnServer /\ ConnBooks /\ ConnAnswer /\ OneAnswer
    BY DEF IInv, Books, Timers, Control
  <1>e. /\ test \in CONN /\ test = "TCP_CRR" /\ pc[Server] = "data" /\ io[Server] = "accept"
        /\ side[Client] # "none" /\ side[Server] = "none"
        /\ side' = [side EXCEPT ![Server] = "open"]
        /\ io' = [io EXCEPT ![Server] = IF times_up[Server] THEN "send" ELSE "call"]
    BY DEF CrrAccept, Backlog, CONN
  <1>s. timed <=> ~times_up[Server]
    BY <1>t, <1>e DEF Timed, Counted, RR, CONN
  <1>h. ~Answered
    BY <1>t, <1>e DEF OneAnswer, Answered, Gone, Ended
  <1>u. /\ UNCHANGED <<plan, iteration, pc, control, timer, flow, left, count, remaining, reported>>
        /\ UNCHANGED <<test, timed, pc, toClient, alarm, times_up>>
    BY DEF CrrAccept, plan, control, timer, tally
  <1>f. /\ io'[Server] = (IF timed THEN "call" ELSE "send") /\ io'[Client] = io[Client]
        /\ side'[Server] = "open" /\ side'[Client] = side[Client]
    BY <1>t, <1>e, <1>s DEF TypeInv, SocketsOK
  <1>1. Course'
    BY <1>t, <1>e, <1>f, <1>u, Calls DEF Ways
  <1>2. SocketsOK' /\ FiguresOK'
    BY <1>t, <1>e, <1>u DEF TypeInv, SocketsOK, FiguresOK, Bound
  <1>3. Counted' /\ Timed'
    BY <1>t, <1>e, <1>f, <1>s, <1>u DEF Counted, Timed, RR, CONN, Alive
  <1>4. ConnClient'
    BY <1>t, <1>e, <1>f, <1>u DEF ConnClient, Room
  <1>5. ConnServer'
    BY <1>t, <1>e, <1>f, <1>u DEF ConnServer, Alive, Ended
  <1>6. ConnBooks'
    BY <1>t, <1>e, <1>f, <1>u DEF ConnBooks, Room, Alive
  <1>7. ConnAnswer'
    BY <1>h, <1>u DEF ConnAnswer, Answered, Alive
  <1> QED
    BY <1>1, <1>2, <1>3, <1>4, <1>5, <1>6, <1>7, <1>e, <1>u, ConnOnly, Together

LEMMA ConnReceives ==
  ASSUME IInv, CrrRecv
  PROVE  IInv'
  <1> USE Sizes, TwoProcesses DEF Client, Server, Process
  <1>t. /\ TypeInv /\ Counted /\ Timed /\ Ways /\ Untouched
        /\ ConnClient /\ ConnServer /\ ConnBooks /\ ConnAnswer /\ OneAnswer
    BY DEF IInv, Books, Timers, Control
  <1>e. /\ test \in CONN /\ test = "TCP_CRR" /\ pc[Server] = "data" /\ io[Server] = "call"
        /\ flow[Client] = 1
        /\ flow' = [flow EXCEPT ![Client] = @ - 1]
        /\ io' = [io EXCEPT ![Server] = "send"]
    BY <1>t DEF CrrRecv, Taken, CONN, ConnClient, TypeInv, FiguresOK
  <1>h. ~Answered
    BY <1>t, <1>e DEF OneAnswer, Answered, Gone, Ended
  <1>u. /\ UNCHANGED <<plan, iteration, pc, control, timer, side, left, count, remaining, reported>>
        /\ UNCHANGED <<test, timed, pc, toClient, alarm, times_up>>
    BY DEF CrrRecv, plan, control, timer, tally
  <1>f. /\ io'[Server] = "send" /\ io'[Client] = io[Client]
        /\ flow'[Client] = 0 /\ flow'[Server] = flow[Server]
    BY <1>t, <1>e DEF TypeInv, SocketsOK, FiguresOK
  <1>1. Course'
    BY <1>t, <1>e, <1>f, <1>u, Calls DEF Ways, Untouched, Busy
  <1>2. SocketsOK' /\ FiguresOK'
    BY <1>t, <1>e, <1>u DEF TypeInv, SocketsOK, FiguresOK, Bound
  <1>3. Counted' /\ Timed'
    BY <1>t, <1>e, <1>f, <1>u DEF Counted, Timed, RR, CONN, Alive
  <1>4. ConnClient'
    BY <1>t, <1>e, <1>f, <1>u DEF ConnClient, Room
  <1>5. ConnServer'
    BY <1>t, <1>e, <1>f, <1>u DEF ConnServer, ConnClient, Alive, Ended
  <1>6. ConnBooks'
    BY <1>t, <1>e, <1>f, <1>u DEF ConnBooks, Room, Alive
  <1>7. ConnAnswer'
    BY <1>h, <1>u DEF ConnAnswer, Answered, Alive
  <1> QED
    BY <1>1, <1>2, <1>3, <1>4, <1>5, <1>6, <1>7, <1>e, <1>u, ConnOnly, Together

LEMMA ConnAnswers ==
  ASSUME IInv, ConnResults
  PROVE  IInv'
  <1> USE Sizes, TwoProcesses DEF Client, Server, Process
  <1>t. /\ TypeInv /\ Counted /\ Timed /\ Ways /\ Untouched /\ ServerAlarm
        /\ ConnClient /\ ConnServer /\ ConnBooks /\ ConnAnswer
    BY DEF IInv, Books, Timers, Control
  <1>e. /\ test \in CONN /\ pc[Server] = "data" /\ io[Server] \in {"top", "intr"}
        /\ Respond("result", count[Server]) /\ Goto(Server, "idle")
        /\ count[Client] \in Nat /\ count[Server] \in Nat /\ remaining[Server] \in Nat
    BY <1>t DEF ConnResults, TypeInv, FiguresOK, Bound
  <1>u. /\ UNCHANGED <<plan, iteration, toServer, timer, data, tally>>
        /\ UNCHANGED <<test, timed, alarm, times_up, io, side, flow, left, remaining, count, reported>>
    BY DEF ConnResults, plan, timer, data, tally
  <1>f. pc'[Server] = "idle" /\ pc'[Client] = pc[Client]
    BY <1>t, <1>e DEF TypeInv, PlacesOK, Goto
  <1>a. alarm[Server] = "off"
    BY <1>t, <1>e DEF ServerAlarm, ConnServer, CONN
  <1>g. /\ Alive => pc[Client] \in {"data", "result"}
        /\ Alive /\ pc[Client] = "data" =>
             /\ ~timed /\ side[Server] = "closed" /\ count[Server] = Limit
             /\ count[Server] = IF side[Client] = "open" THEN count[Client] + 1 ELSE count[Client]
    <2>1. Alive => \/ io[Server] = "intr" /\ timed /\ pc[Client] = "result"
                   \/ io[Server] = "top" /\ ~timed /\ side[Server] = "closed" /\ side[Client] # "none" /\ remaining[Server] = 0
      BY <1>t, <1>e DEF ConnServer, Alive
    <2>2. Alive => pc[Client] \in {"data", "result"}
      BY <1>t, <1>e, <2>1 DEF ConnServer, Untouched, Alive
    <2> QED
      BY <1>t, <1>e, <2>1, <2>2 DEF ConnBooks, Counted
  <1>1. /\ Course' /\ (Alive => toClient' # <<>>)
        /\ Alive => toClient'[1].kind = "result" /\ toClient'[1].figure = count[Server]
    BY <1>t, <1>a, <1>e, <1>f, <1>g, <1>u, Answers DEF Busy
  <1>2. SocketsOK' /\ FiguresOK'
    BY <1>t, <1>u DEF TypeInv, SocketsOK, FiguresOK, Bound
  <1>3. Counted' /\ Timed'
    BY <1>t, <1>e, <1>f, <1>u DEF Counted, Timed, RR, CONN
  <1>4. ConnClient'
    <2>1. ~(timed /\ pc[Client] = "data")
      BY <1>g DEF Alive, Ended
    <2> QED
      BY <1>t, <1>e, <1>f, <1>u, <2>1 DEF ConnClient, Room
  <1>5. ConnServer' /\ ConnBooks'
    BY <1>f DEF ConnServer, ConnBooks
  <1>7. ConnAnswer'
    <2>1. count[Server] \in {count[Client], count[Client] + 1}
      BY <1>t, <1>e DEF ConnBooks
    <2> QED
      BY <1>1, <1>e, <1>f, <1>g, <1>u, <2>1 DEF ConnAnswer, Answered, Alive
  <1> QED
    BY <1>1, <1>2, <1>3, <1>4, <1>5, <1>7, <1>e, <1>u, ConnOnly, Together

-----------------------------------------------------------------------------
(* How the two processes end, and why.                                     *)

\* A peer that has gone has been killed or lost, or had a reason to fail, ...
LEMMA ServerWentFirst ==
  ASSUME IInv, pc[Server] \in Gone, pc[Client] \notin Ended \cup {"shutdown"}, fault = "none"
  PROVE  Excused
  BY DEF IInv, Reasons, NoFalseFailure, Gone, Ended, Excused

LEMMA ClientWentFirst ==
  ASSUME IInv, pc[Client] \in Ended, pc[Server] \notin Gone, fault = "none"
  PROVE  Excused
  BY DEF IInv, Reasons, NoFalseFailure, Gone, Ended, Excused

\* ... which is then the reason of this one.
LEMMA ClientFails ==
  ASSUME IInv, Fail(Client), fault = "none" => Excused
  PROVE  IInv'
  <1>1. "failed" \in Ended /\ EndProcess(Client, "failed") /\ UNCHANGED control /\ UNCHANGED <<fault, early>>
    BY DEF Fail, Ended
  <1>2. fault' \in Faults \cup {"none", "refused"}
    BY <1>1 DEF IInv, TypeInv, PlanOK
  <1> QED
    BY <1>1, <1>2, ClientGone DEF Excused

LEMMA ServerFails ==
  ASSUME IInv, pc[Server] \notin Gone, Fail(Server), fault = "none" => Excused
  PROVE  IInv'
  <1>1. "failed" \in Ended /\ EndProcess(Server, "failed") /\ UNCHANGED control /\ UNCHANGED <<fault, early>>
    BY DEF Fail, Ended
  <1>2. fault' \in Faults \cup {"none", "refused"}
    BY <1>1 DEF IInv, TypeInv, PlanOK
  <1>3. early' \in BOOLEAN /\ (early => early')
    BY <1>1, Zenon DEF IInv, TypeInv, FlagsOK
  <1>4. fault' = "none" => Excused'
    BY <1>1 DEF Excused, EndProcess
  <1> QED
    BY <1>1, <1>2, <1>3, <1>4, ServerGone

\* An error response in the middle of a transfer comes too late for anybody.
LEMMA ServerFailsLate ==
  ASSUME IInv, Busy, FailWithResponse,
         Alive => pc[Client] = "result" /\ test = "TCP_MAERTS" /\ early
  PROVE  IInv'
  <1>1. "failed" \in Ended /\ EndProcess(Server, "failed") /\ Respond("error", 0) /\ UNCHANGED <<toServer, fault, early>>
    BY DEF FailWithResponse, Ended
  <1>2. pc[Server] \notin Gone /\ (~Alive => pc[Client] \in Ended)
    BY DEF Busy, Gone, Ended, Alive
  <1>3. fault = "none" => Excused
    BY <1>2, ClientWentFirst DEF Excused
  <1>4. toServer' = <<>> /\ fault' \in Faults \cup {"none", "refused"}
    BY <1>1 DEF IInv, TypeInv, PlanOK, Control, Ways
  <1>5. Alive => toClient = <<>>
    <2>1. toClient # <<>> => toClient[1].kind \in {"setup", "result", "error"}
      BY FirstMessage DEF IInv, TypeInv, Message
    <2> QED
      BY <2>1 DEF IInv, Control, OneAnswer, Busy, Gone, Ended
  <1> QED
    BY <1>1, <1>2, <1>3, <1>4, <1>5, ServerGivesUp DEF Excused

LEMMA NoResponseKeeps ==
  ASSUME IInv, NoResponse
  PROVE  IInv'
  <1>1. Fail(Client) /\ pc[Server] \in Gone /\ pc[Client] \notin Ended \cup {"shutdown"}
    BY DEF NoResponse, Awaits, Gone, Ended
  <1> QED
    BY <1>1, ServerWentFirst, ClientFails

LEMMA ShutdownControlKeeps ==
  ASSUME IInv, ShutdownControl
  PROVE  IInv'
  <1>1. /\ pc[Server] \in Ended \cup {"lost"} /\ UNCHANGED <<control, fault, early>>
        /\ EndProcess(Client, IF pc[Server] = "lost" THEN "failed" ELSE "done")
    BY DEF ShutdownControl
  <1>2. fault' \in Faults \cup {"none", "refused"}
    BY <1>1 DEF IInv, TypeInv, PlanOK
  <1>3. CASE pc[Server] = "lost"
    <2>1. fault # "none"
      BY <1>3 DEF IInv, Reasons
    <2> QED
      BY <1>1, <1>2, <1>3, <2>1, ClientGone DEF Ended
  <1>4. CASE pc[Server] # "lost"
    BY <1>1, <1>2, <1>4, ClientGone DEF Ended
  <1> QED
    BY <1>3, <1>4

LEMMA StreamErrorKeeps ==
  ASSUME IInv, TcpStreamError
  PROVE  IInv'
  <1>1. Fail(Client) /\ test = "TCP_STREAM" /\ pc[Client] = "data" /\ (side[Server] = "closed" \/ pc[Server] = "lost")
    BY DEF TcpStreamError
  <1>2. pc[Server] \in Gone
    BY <1>1 DEF IInv, Books, StreamBooks, Gone
  <1> QED
    BY <1>1, <1>2, ServerWentFirst, ClientFails DEF Ended

LEMMA MaertsLateKeeps ==
  ASSUME IInv, TcpMaertsLate
  PROVE  IInv'
  <1>1. Fail(Client) /\ test = "TCP_MAERTS" /\ pc[Client] = "data" /\ (io[Client] = "intr" \/ pc[Server] = "failed")
    BY DEF TcpMaertsLate
  <1>2. pc[Server] \in Gone \/ Excused
    BY <1>1 DEF IInv, Books, MaertsBooks, Gone, Ended, Excused
  <1> QED
    BY <1>1, <1>2, ServerWentFirst, ClientFails DEF Ended

LEMMA RrRefusedKeeps ==
  ASSUME IInv, RrRefused
  PROVE  IInv'
  <1>1. Fail(Client) /\ pc[Client] = "data" /\ pc[Server] \in Gone
    BY DEF RrRefused, Gone
  <1> QED
    BY <1>1, ServerWentFirst, ClientFails DEF Ended

LEMMA ConnErrorKeeps ==
  ASSUME IInv, ConnError
  PROVE  IInv'
  <1>1. Fail(Client) /\ test \in CONN /\ pc[Client] = "data"
    BY DEF ConnError
  <1>2. pc[Server] \in Gone \/ (flow[Client] > 0 /\ side[Server] = "closed")
    BY DEF ConnError, Gone
  <1>3. ASSUME pc[Server] \notin Gone  PROVE  Excused
    <2>1. flow[Client] > 0 /\ side[Server] = "closed"
      BY <1>2, <1>3
    <2>2. test = "TCP_CRR" /\ (timed => pc[Server] = "data")
      BY <1>1, <1>3, <2>1 DEF IInv, Books, ConnClient
    <2>3. ~timed
      BY <1>1, <2>1, <2>2 DEF IInv, TypeInv, FiguresOK, Books, ConnServer, Alive, Ended, Process, Client
    <2> QED
      BY <2>2, <2>3 DEF Excused
  <1> QED
    BY <1>1, <1>3, ServerWentFirst, ClientFails DEF Ended

LEMMA MaertsErrorKeeps ==
  ASSUME IInv, TcpMaertsError
  PROVE  IInv'
  <1>1. FailWithResponse /\ test = "TCP_MAERTS" /\ pc[Server] = "data" /\ side[Client] = "closed"
    BY DEF TcpMaertsError
  <1>2. Alive => pc[Client] = "result" /\ early
    BY <1>1 DEF IInv, Books, MaertsBooks, Alive, Gone, Ended
  <1> QED
    BY <1>1, <1>2, ServerFailsLate DEF Busy

LEMMA RrServerErrorKeeps ==
  ASSUME IInv, RrServerError
  PROVE  IInv'
  <1>1. FailWithResponse /\ test \in RR /\ pc[Server] = "data" /\ side[Client] = "closed"
    BY DEF RrServerError, RR
  <1>2. ~Alive
    BY <1>1 DEF IInv, Books, RrServer, Alive
  <1> QED
    BY <1>1, <1>2, ServerFailsLate DEF Busy

LEMMA CrrServerErrorKeeps ==
  ASSUME IInv, CrrServerError
  PROVE  IInv'
  <1>1. FailWithResponse /\ test \in CONN /\ pc[Server] = "data" /\ io[Server] = "send" /\ side[Client] = "closed"
    BY DEF CrrServerError, CONN
  <1>2. ~Alive
    BY <1>1 DEF IInv, Books, ConnServer
  <1> QED
    BY <1>1, <1>2, ServerFailsLate DEF Busy

LEMMA RequestsEndKeeps ==
  ASSUME IInv, RequestsEnd
  PROVE  IInv'
  <1>1. /\ "done" \in Ended /\ EndProcess(Server, "done") /\ UNCHANGED control /\ UNCHANGED <<fault, early>>
        /\ pc[Server] \notin Gone /\ pc[Client] \in Ended \cup {"shutdown"}
    BY DEF RequestsEnd, Gone, Ended
  <1>2. fault' \in Faults \cup {"none", "refused"}
    BY <1>1 DEF IInv, TypeInv, PlanOK
  <1>3. early' \in BOOLEAN /\ (early => early')
    BY <1>1, Zenon DEF IInv, TypeInv, FlagsOK
  <1> QED
    BY <1>1, <1>2, <1>3, ServerGone

\* The first request is the only one.
LEMMA TheRequest ==
  ASSUME IInv, toServer # <<>>
  PROVE  /\ Head(toServer) = test /\ Tail(toServer) = <<>>
         /\ Alive => pc[Client] = "setup" /\ toClient = <<>>
  <1>1. toServer = <<test>> /\ (Alive => pc[Client] = "setup" /\ toClient = <<>>)
    BY DEF IInv, Control, Asked, Alive
  <1>2. Head(<<test>>) = test /\ Tail(<<test>>) = <<>>
    OBVIOUS
  <1> QED
    BY <1>1, <1>2

LEMMA SetupFailsKeeps ==
  ASSUME IInv, SetupFails
  PROVE  IInv'
  <1>1. /\ "failed" \in Ended /\ EndProcess(Server, "failed") /\ Respond("error", 0)
        /\ pc[Server] \notin Gone /\ fault' = "refused" /\ UNCHANGED early
    BY DEF SetupFails, Gone, Ended
  <1>2. toServer' = <<>> /\ (Alive => pc[Client] = "setup" /\ toClient = <<>>)
    BY TheRequest DEF SetupFails
  <1> QED
    BY <1>1, <1>2, ServerGivesUp

LEMMA KilledKeeps ==
  ASSUME IInv, Killed(Client, "client") \/ Killed(Server, "server")
  PROVE  IInv'
  <1>1. \A what \in Faults : what # "none"
    BY NetperfAssumption
  <1>2. CASE Killed(Client, "client")
    <2>1. "killed" \in Ended /\ EndProcess(Client, "killed") /\ UNCHANGED <<control, early>> /\ fault' \in Faults
      BY <1>2 DEF Killed, Ended
    <2> QED
      BY <1>1, <2>1, ClientGone
  <1>3. CASE Killed(Server, "server")
    <2>1. "killed" \in Ended /\ EndProcess(Server, "killed") /\ UNCHANGED <<control, early>> /\ fault' \in Faults
      BY <1>3 DEF Killed, Ended
    <2>2. pc[Server] \notin Gone
      BY <1>3 DEF Killed, IInv, Reasons, Gone
    <2>3. early' \in BOOLEAN /\ (early => early')
      BY <2>1, Zenon DEF IInv, TypeInv, FlagsOK
    <2> QED
      BY <1>1, <2>1, <2>2, <2>3, ServerGone
  <1> QED
    BY <1>2, <1>3

-----------------------------------------------------------------------------
(* The control connection.                                                 *)

LEMMA FlagSet ==
  ASSUME FlagsOK, NEW p \in Process, NEW b \in BOOLEAN,
         times_up' = [times_up EXCEPT ![p] = b], UNCHANGED <<timed, early>>
  PROVE  FlagsOK' /\ times_up'[p] = b /\ \A q \in Process \ {p} : times_up'[q] = times_up[q]
  BY Zenon DEF FlagsOK

LEMMA RequestKeeps ==
  ASSUME IInv, SendRequest
  PROVE  IInv'
  <1> USE Sizes, TwoProcesses DEF Client, Server, Process
  <1>t. TypeInv /\ Control /\ Reasons /\ NoFalseFailure /\ Timers /\ Books
    BY DEF IInv
  <1>u. UNCHANGED <<test, timed, fault, early, iteration, toClient, alarm, io, left, remaining, reported>>
    BY DEF SendRequest, plan
  <1>e. /\ pc[Client] = "begin" /\ toServer' = <<test>> /\ toClient = <<>> /\ test \in Tests
        /\ pc[Server] \in {"idle"} \cup Gone
    <2>1. toServer = <<>> /\ toClient = <<>> /\ pc[Server] \in {"idle"} \cup Gone /\ test \in Tests
      BY <1>t, NetperfAssumption DEF SendRequest, Control, Between, TypeInv, PlanOK
    <2>2. Append(<<>>, test) = <<test>>
      BY <2>1
    <2> QED
      BY <2>1, <2>2 DEF SendRequest
  <1>f. /\ pc'[Client] = "setup" /\ pc'[Server] = pc[Server] /\ pc' \in [Process -> Places]
        /\ count'[Client] = 0 /\ count'[Server] = count[Server] /\ count' \in [Process -> 0..Bound]
        /\ side'[Client] = "none" /\ side'[Server] = side[Server]
        /\ side' \in [Process -> {"none", "open", "wr", "closed"}]
        /\ flow'[Client] = 0 /\ flow'[Server] = 0 /\ flow' \in [Process -> 0..Window]
    BY <1>t DEF TypeInv, PlacesOK, SocketsOK, FiguresOK, SendRequest, Goto, Both, Places, Bound
  <1>1. TypeInv'
    <2>1. FlagsOK' /\ times_up'[Server] = times_up[Server]
      BY <1>t, <1>u, FlagSet DEF TypeInv, SendRequest
    <2>2. PlanOK' /\ PlacesOK' /\ SocketsOK'
      BY <1>t, <1>u, <1>e, <1>f DEF TypeInv, PlanOK, PlacesOK, SocketsOK
    <2>3. MessagesOK'
      BY <1>t, <1>u, <1>e DEF TypeInv, MessagesOK
    <2>4. FiguresOK'
      BY <1>t, <1>u, <1>f DEF TypeInv, FiguresOK, Bound
    <2> QED
      BY <2>1, <2>2, <2>3, <2>4 DEF TypeInv
  <1>2. Control'
    BY <1>t, <1>u, <1>e, <1>f DEF Control, Between, Asked, Untouched, Connects, OneAnswer, Ways, Alive, Busy, Gone, Ended
  <1>3. Reasons' /\ NoFalseFailure'
    BY <1>t, <1>u, <1>e, <1>f DEF Reasons, NoFalseFailure, Ended
  <1>4. Timers'
    BY <1>t, <1>u, <1>e, <1>f DEF Timers, ClientAlarm, ServerAlarm, Counted, Timed, Gone, Ended
  <1>5. StreamBooks' /\ MaertsBooks' /\ UdpBooks'
    BY <1>t, <1>u, <1>e, <1>f DEF Books, StreamBooks, MaertsBooks, UdpBooks, InHand, Cut, Answered, Gone, Ended
  <1>6. RrClient' /\ RrServer' /\ RrBooks' /\ RrAnswer'
    BY <1>t, <1>u, <1>e, <1>f DEF Books, RrClient, RrServer, RrBooks, RrAnswer, Waiting, Answered, Gone, Ended
  <1>7. ConnClient' /\ ConnServer' /\ ConnBooks' /\ ConnAnswer'
    BY <1>t, <1>u, <1>e, <1>f DEF Books, ConnClient, ConnServer, ConnBooks, ConnAnswer, Answered, Gone, Ended
  <1> QED
    BY <1>1, <1>2, <1>3, <1>4, <1>5, <1>6, <1>7 DEF IInv, Books

LEMMA CalibrateKeeps ==
  ASSUME IInv, Calibrate
  PROVE  IInv'
  <1> USE Sizes, TwoProcesses DEF Client, Server, Process
  <1>t. TypeInv /\ Control /\ Reasons /\ NoFalseFailure /\ Timers
    BY DEF IInv
  <1>u. UNCHANGED <<test, timed, fault, early, iteration, pc, alarm, times_up, io, side, flow, left, remaining, count, reported>>
    BY DEF Calibrate, plan, timer, data, tally
  <1>e. /\ test = "REM_CPU" /\ toServer' = <<>> /\ pc[Server] = "idle"
        /\ toServer # <<>> /\ Respond("setup", 0)
        /\ Alive => pc[Client] = "setup" /\ toClient = <<>>
    BY TheRequest DEF Calibrate
  <1>m. /\ toClient' \in Seq(Message)
        /\ Alive => /\ Len(toClient') = 1 /\ toClient' # <<>> /\ toClient'[1].kind = "setup"
                    /\ toClient'[1].iteration = iteration
    <2>1. [kind |-> "setup", iteration |-> iteration, figure |-> 0] \in Message
      BY <1>t DEF TypeInv, PlanOK, Message
    <2> QED
      BY <1>t, <1>e, <2>1 DEF TypeInv, MessagesOK, Respond
  <1>1. TypeInv'
    <2>1. FlagsOK'
      BY <1>t, <1>u, FlagsKept DEF TypeInv
    <2>2. PlanOK' /\ PlacesOK' /\ SocketsOK' /\ FiguresOK'
      BY <1>t, <1>u DEF TypeInv, PlanOK, PlacesOK, SocketsOK, FiguresOK, Bound
    <2>3. MessagesOK'
      BY <1>e, <1>m, EmptySeq DEF MessagesOK
    <2> QED
      BY <2>1, <2>2, <2>3 DEF TypeInv
  <1>2. Control'
    BY <1>t, <1>u, <1>e, <1>m DEF Control, Between, Asked, Untouched, Connects, OneAnswer, Ways, Alive, Busy, Gone, Ended, Began
  <1>3. Reasons' /\ NoFalseFailure'
    BY <1>t, <1>u DEF Reasons, NoFalseFailure
  <1>4. Timers'
    BY <1>t, <1>u DEF Timers, ClientAlarm, ServerAlarm, Counted, Timed, Alive
  <1>5. Books'
    BY <1>u, <1>e DEF Books, StreamBooks, MaertsBooks, UdpBooks, RrClient, RrServer, RrBooks, RrAnswer,
                      ConnClient, ConnServer, ConnBooks, ConnAnswer, RR, CONN
  <1> QED
    BY <1>1, <1>2, <1>3, <1>4, <1>5 DEF IInv

LEMMA SetupKeeps ==
  ASSUME IInv, Setup
  PROVE  IInv'
  <1> USE Sizes, TwoProcesses DEF Client, Server, Process
  <1>t. TypeInv /\ Control /\ Reasons /\ NoFalseFailure /\ Timers /\ Books
    BY DEF IInv
  <1>u. UNCHANGED <<test, timed, fault, early, iteration, flow, left, reported>>
    BY DEF Setup, plan
  <1>e. /\ test # "REM_CPU" /\ toServer' = <<>> /\ pc[Server] = "idle"
        /\ toServer # <<>> /\ Respond("setup", 0)
        /\ Alive => pc[Client] = "setup" /\ toClient = <<>>
        /\ pc[Client] \in {"setup"} \cup Ended
        /\ side[Client] = "none" /\ count[Client] = 0 /\ flow[Client] = 0 /\ flow[Server] = 0
    BY <1>t, TheRequest DEF Setup, Control, Asked
  <1>m. /\ toClient' \in Seq(Message)
        /\ Alive => /\ Len(toClient') = 1 /\ toClient' # <<>> /\ toClient'[1].kind = "setup"
                    /\ toClient'[1].iteration = iteration
    <2>1. [kind |-> "setup", iteration |-> iteration, figure |-> 0] \in Message
      BY <1>t DEF TypeInv, PlanOK, Message
    <2> QED
      BY <1>t, <1>e, <2>1 DEF TypeInv, MessagesOK, Respond
  <1>f. /\ pc'[Server] = (IF test \in TCP THEN "accept" ELSE "data") /\ pc'[Client] = pc[Client]
        /\ pc' \in [Process -> Places]
        /\ count'[Server] = 0 /\ count'[Client] = 0 /\ count' \in [Process -> 0..Bound]
        /\ side'[Server] = (IF test \in CONN THEN "none" ELSE "open") /\ side'[Client] = "none"
        /\ side' \in [Process -> {"none", "open", "wr", "closed"}]
        /\ io'[Server] = (IF test \in CONN THEN "accept" ELSE "call") /\ io'[Client] = io[Client]
        /\ io' \in [Process -> {"top", "call", "send", "intr", "connect", "accept"}]
        /\ remaining'[Server] = (IF timed THEN 0 ELSE Limit) /\ remaining'[Client] = remaining[Client]
        /\ remaining' \in [Process -> 0..Limit]
    BY <1>t, <1>e DEF TypeInv, PlacesOK, SocketsOK, FiguresOK, Setup, Goto, Places, Bound
  <1>g. FlagsOK' /\ times_up'[Client] = times_up[Client] /\ (times_up'[Server] <=> ~timed)
    <2>1. PICK b \in BOOLEAN : times_up' = [times_up EXCEPT ![Server] = b] /\ (b <=> ~timed)
      BY Zenon DEF Setup
    <2> QED
      BY <1>t, <1>u, <2>1, FlagSet DEF TypeInv
  <1>a. /\ alarm'[Client] = alarm[Client] /\ alarm' \in [Process -> {"off", "test", "padded"}]
        /\ test = "TCP_MAERTS" => alarm'[Server] = "test"
        /\ test \in {"TCP_STREAM", "TCP_RR"} => alarm'[Server] = "off"
        /\ test \in UDP \cup CONN => alarm'[Server] = IF timed THEN "padded" ELSE "off"
    <2>1. test \in Tests
      BY <1>t, NetperfAssumption DEF TypeInv, PlanOK
    <2> QED
      BY <1>t, <1>e, <2>1 DEF TypeInv, SocketsOK, Setup, ServerTimer, Tests, TCP, UDP, CONN
  <1>h. test \in {"TCP_STREAM", "TCP_MAERTS", "TCP_RR"} \/ (test \in UDP \cup CONN /\ test \notin TCP)
    <2>1. test \in Tests
      BY <1>t, NetperfAssumption DEF TypeInv, PlanOK
    <2> QED
      BY <1>e, <2>1 DEF Tests, TCP, UDP, CONN
  <1>1. TypeInv'
    <2>2. PlanOK' /\ PlacesOK' /\ SocketsOK'
      BY <1>t, <1>u, <1>a, <1>e, <1>f DEF TypeInv, PlanOK, PlacesOK, SocketsOK
    <2>3. MessagesOK'
      BY <1>e, <1>m, EmptySeq DEF MessagesOK
    <2>4. FiguresOK'
      BY <1>t, <1>u, <1>f DEF TypeInv, FiguresOK, Bound
    <2> QED
      BY <1>g, <2>2, <2>3, <2>4 DEF TypeInv
  <1>2. Control'
    BY <1>t, <1>u, <1>e, <1>f, <1>m DEF Control, Between, Asked, Untouched, Connects, OneAnswer, Ways, Alive, Busy, Gone, Ended, Began
  <1>3. Reasons' /\ NoFalseFailure'
    BY <1>t, <1>u, <1>e, <1>f DEF Reasons, NoFalseFailure, Ended
  <1>4. Timers'
    <2>1. ClientAlarm'
      BY <1>t, <1>u, <1>e, <1>f, <1>g, <1>a DEF Timers, ClientAlarm, Ended
    <2>2. ServerAlarm'
      BY <1>t, <1>u, <1>e, <1>f, <1>g, <1>a, <1>h DEF Timers, ServerAlarm, TCP, UDP, CONN
    <2>3. Counted'
      BY <1>t, <1>u, <1>e, <1>f, <1>g, <1>a, <1>h DEF Timers, Counted, RR, CONN, TCP, UDP, Ended
    <2>4. Timed'
      BY <1>u, <1>f, <1>g DEF Timed
    <2> QED
      BY <2>1, <2>2, <2>3, <2>4 DEF Timers
  <1>5. StreamBooks' /\ MaertsBooks' /\ UdpBooks'
    BY <1>t, <1>u, <1>e, <1>f, <1>g, <1>a, <1>m DEF Books, StreamBooks, MaertsBooks, UdpBooks, InHand, Cut, Answered, Alive, Gone, Ended, TCP, CONN
  <1>6. RrClient' /\ RrServer' /\ RrBooks' /\ RrAnswer'
    BY <1>t, <1>u, <1>e, <1>f, <1>m DEF Books, RrClient, RrServer, RrBooks, RrAnswer, Waiting, Answering, Answered, Alive, Gone, Ended, RR, CONN
  <1>7. ConnClient' /\ ConnServer' /\ ConnBooks' /\ ConnAnswer'
    BY <1>t, <1>u, <1>e, <1>f, <1>m DEF Books, ConnClient, ConnServer, ConnBooks, ConnAnswer, Answered, Alive, Gone, Ended, TCP, CONN
  <1> QED
    BY <1>1, <1>2, <1>3, <1>4, <1>5, <1>6, <1>7 DEF IInv, Books

LEMMA AcceptKeeps ==
  ASSUME IInv, Accept
  PROVE  IInv'
  <1> USE Sizes, TwoProcesses DEF Client, Server, Process
  <1>t. TypeInv /\ Control /\ Reasons /\ NoFalseFailure /\ Timers /\ Books
    BY DEF IInv
  <1>u. UNCHANGED <<test, timed, fault, early, iteration, toServer, toClient, side, flow, left, remaining, count, reported>>
    BY DEF Accept, plan, control, tally
  <1>e. /\ pc[Server] = "accept" /\ side[Client] # "none" /\ test \in TCP /\ test \notin CONN /\ test # "UDP_STREAM"
        /\ test \in {"TCP_STREAM", "TCP_MAERTS", "TCP_RR"}
    BY <1>t DEF Accept, Control, Ways, TCP, CONN
  <1>f. /\ pc'[Server] = "data" /\ pc'[Client] = pc[Client] /\ pc' \in [Process -> Places]
        /\ io'[Server] = (IF test = "TCP_MAERTS" THEN "top" ELSE "call") /\ io'[Client] = io[Client]
        /\ io' \in [Process -> {"top", "call", "send", "intr", "connect", "accept"}]
    BY <1>t DEF TypeInv, PlacesOK, SocketsOK, Accept, Goto, Places
  <1>g. /\ FlagsOK' /\ times_up'[Client] = times_up[Client]
        /\ times_up'[Server] = (~timed /\ test = "TCP_RR")
    <2>1. (~timed /\ test = "TCP_RR") \in BOOLEAN
      OBVIOUS
    <2> QED
      BY <1>t, <1>u, <2>1, FlagSet DEF TypeInv, Accept
  <1>a. /\ alarm'[Client] = alarm[Client] /\ alarm' \in [Process -> {"off", "test", "padded"}]
        /\ alarm'[Server] = IF test # "TCP_RR" THEN alarm[Server] ELSE IF timed THEN "padded" ELSE "off"
    BY <1>t DEF TypeInv, SocketsOK, Accept, ServerTimer
  <1>1. TypeInv'
    <2>1. PlanOK' /\ PlacesOK' /\ SocketsOK' /\ MessagesOK' /\ FiguresOK'
      BY <1>t, <1>u, <1>a, <1>e, <1>f DEF TypeInv, PlanOK, PlacesOK, SocketsOK, MessagesOK, FiguresOK, Bound
    <2> QED
      BY <1>g, <2>1 DEF TypeInv
  <1>2. Control'
    BY <1>t, <1>u, <1>e, <1>f DEF Control, Between, Asked, Untouched, Connects, OneAnswer, Ways, Alive, Busy, Gone, Ended, Began
  <1>3. Reasons' /\ NoFalseFailure'
    BY <1>t, <1>u, <1>e, <1>f DEF Reasons, NoFalseFailure, Ended
  <1>4. Timers'
    <2>1. ClientAlarm'
      BY <1>t, <1>u, <1>f, <1>g, <1>a DEF Timers, ClientAlarm
    <2>2. ServerAlarm'
      BY <1>t, <1>u, <1>e, <1>f, <1>g, <1>a DEF Timers, ServerAlarm
    <2>3. Counted' /\ Timed'
      BY <1>t, <1>u, <1>e, <1>f, <1>g, <1>a DEF Timers, Counted, Timed, RR, CONN, Alive
    <2> QED
      BY <2>1, <2>2, <2>3 DEF Timers
  <1>5. StreamBooks' /\ MaertsBooks' /\ UdpBooks'
    <2>1. /\ count[Client] \in Nat /\ count[Server] \in Nat
          /\ flow[Client] \in Nat /\ flow[Server] \in Nat
      BY <1>t DEF TypeInv, FiguresOK, Bound
    <2>2. Bound' = Bound /\ (Alive' <=> Alive) /\ Gone' = Gone
      BY <1>u, <1>f DEF Bound, Alive, Gone, Ended
    <2>3. StreamBooks'
      BY <1>t, <1>u, <1>e, <1>f, <2>1, <2>2 DEF Books, StreamBooks, InHand, Cut, Answered
    <2>4. MaertsBooks'
      BY <1>t, <1>u, <1>e, <1>f, <1>g, <1>a, <2>1, <2>2 DEF Control, Untouched, Books, MaertsBooks, InHand, Cut, Answered, Gone, Ended
    <2> QED
      BY <1>e, <1>u, <2>3, <2>4 DEF UdpBooks
  <1>6. RrClient' /\ RrServer' /\ RrBooks' /\ RrAnswer'
    <2>1. test \in RR => io[Server] = "call" /\ io'[Server] = "call" /\ test = "TCP_RR"
      BY <1>t, <1>e, <1>f DEF Books, RrServer, RR
    <2>2. RrClient'
      BY <1>t, <1>u, <1>f DEF Books, RrClient, Waiting, Room
    <2>3. RrServer'
      BY <1>t, <1>u, <1>e, <1>f, <2>1 DEF Books, RrServer, Alive
    <2>4. RrBooks'
      BY <1>t, <1>u, <1>e, <1>f, <2>1 DEF Books, RrBooks, Waiting, Answering
    <2>5. RrAnswer'
      <3>1. ~Answered
        BY <1>t, <1>e DEF Control, OneAnswer, Answered, Gone, Ended
      <3> QED
        BY <1>u, <1>f, <3>1 DEF RrAnswer, Answered, Alive
    <2> QED
      BY <2>2, <2>3, <2>4, <2>5
  <1>7. ConnClient' /\ ConnServer' /\ ConnBooks' /\ ConnAnswer'
    BY <1>u, <1>e DEF ConnClient, ConnServer, ConnBooks, ConnAnswer
  <1> QED
    BY <1>1, <1>2, <1>3, <1>4, <1>5, <1>6, <1>7 DEF IInv, Books

\* The setup response ends the wait for it, and that of the calibration the run.
LEMMA RecvSetupKeeps ==
  ASSUME IInv, RecvSetup
  PROVE  IInv'
  <1> USE Sizes, TwoProcesses DEF Client, Server, Process
  <1>t. TypeInv /\ Control /\ Reasons /\ NoFalseFailure /\ Timers /\ Books
    BY DEF IInv
  <1>e. /\ pc[Client] = "setup" /\ toClient # <<>> /\ Alive
        /\ Head(toClient) = toClient[1] /\ toClient[1].kind \in {"setup", "result", "error"}
    BY <1>t, FirstMessage DEF TypeInv, RecvSetup, Alive, Ended, Message
  <1>a. ASSUME toClient[1].kind = "error"  PROVE  IInv'
    <2>1. Fail(Client) /\ pc[Server] \in Gone
      BY <1>a, <1>e, <1>t DEF RecvSetup, Control, OneAnswer, Gone, Ended
    <2> QED
      BY <1>e, <2>1, ServerWentFirst, ClientFails DEF Ended
  <1>b. ASSUME toClient[1].kind # "error"  PROVE  IInv'
    <2>u. UNCHANGED <<test, timed, fault, early, iteration, toServer, alarm, times_up, io, side, flow, left, remaining, count, reported>>
      BY <1>b, <1>e DEF RecvSetup, plan, timer, data, tally
    <2>e. /\ toClient[1].kind = "setup" /\ Len(toClient) = 1 /\ toServer = <<>> /\ pc[Server] \in {Began} \cup Gone
          /\ side[Client] = "none" /\ count[Client] = 0 /\ flow[Client] = 0 /\ flow[Server] = 0
      BY <1>b, <1>e, <1>t DEF Control, OneAnswer, Untouched
    <2>m. toClient' = <<>>
      BY <1>b, <1>e, <1>t, <2>e DEF RecvSetup, TypeInv, MessagesOK
    <2>f. /\ pc'[Client] = (IF test = "REM_CPU" THEN "shutdown" ELSE "connect") /\ pc'[Server] = pc[Server]
          /\ pc' \in [Process -> Places]
      BY <1>b, <1>e, <1>t DEF RecvSetup, TypeInv, PlacesOK, Goto, Places
    <2>1. TypeInv'
      <3>1. FlagsOK'
        BY <1>t, <2>u, FlagsKept DEF TypeInv
      <3>2. PlanOK' /\ PlacesOK' /\ SocketsOK' /\ FiguresOK'
        BY <1>t, <2>u, <2>f DEF TypeInv, PlanOK, PlacesOK, SocketsOK, FiguresOK, Bound
      <3>3. MessagesOK'
        BY <1>t, <2>u, <2>m, EmptySeq DEF TypeInv, MessagesOK
      <3> QED
        BY <3>1, <3>2, <3>3 DEF TypeInv
    <2>2. Control'
      BY <1>t, <1>e, <2>u, <2>e, <2>f, <2>m DEF Control, Between, Asked, Untouched, Connects, OneAnswer, Ways, Alive, Busy, Gone, Ended, Began
    <2>3. Reasons' /\ NoFalseFailure'
      BY <1>t, <1>e, <2>u, <2>f DEF Reasons, NoFalseFailure, Ended
    <2>4. Timers'
      BY <1>t, <1>e, <2>u, <2>f DEF Timers, ClientAlarm, ServerAlarm, Counted, Timed, Alive, Ended
    <2>5. CASE test = "REM_CPU"
      <3>1. Books'
        BY <2>5, <2>u DEF Books, StreamBooks, MaertsBooks, UdpBooks, RrClient, RrServer, RrBooks, RrAnswer,
                          ConnClient, ConnServer, ConnBooks, ConnAnswer, RR, CONN
      <3> QED
        BY <2>1, <2>2, <2>3, <2>4, <3>1 DEF IInv
    <2>6. CASE test # "REM_CPU"
      <3>1. StreamBooks' /\ MaertsBooks' /\ UdpBooks'
        BY <1>t, <1>e, <2>u, <2>e, <2>f, <2>m, <2>6 DEF Books, StreamBooks, MaertsBooks, UdpBooks, InHand, Cut, Answered, Gone, Ended, Bound
      <3>2. RrClient' /\ RrServer' /\ RrBooks' /\ RrAnswer'
        BY <1>t, <1>e, <2>u, <2>e, <2>f, <2>m, <2>6 DEF Books, RrClient, RrServer, RrBooks, RrAnswer, Waiting, Answering, Answered, Alive, Gone, Ended
      <3>3. ConnClient' /\ ConnServer' /\ ConnBooks' /\ ConnAnswer'
        BY <1>t, <1>e, <2>u, <2>e, <2>f, <2>m, <2>6 DEF Books, ConnClient, ConnServer, ConnBooks, ConnAnswer, Answered, Alive, Gone, Ended, Room
      <3> QED
        BY <2>1, <2>2, <2>3, <2>4, <3>1, <3>2, <3>3 DEF IInv, Books
    <2> QED
      BY <2>5, <2>6
  <1> QED
    BY <1>a, <1>b

\* The results end an iteration.
LEMMA TheResult ==
  ASSUME IInv, pc[Client] = "result", toClient # <<>>, Head(toClient).kind # "error"
  PROVE  /\ Answered /\ Head(toClient) = toClient[1] /\ Tail(toClient) = <<>>
         /\ toServer = <<>>
         /\ pc[Server] \in {"idle"} \cup Gone
         /\ toClient[1].figure = count[Server]
         /\ test # "REM_CPU"
  <1> USE TwoProcesses
  <1>t. TypeInv /\ Control
    BY DEF IInv
  <1>1. /\ Alive /\ Head(toClient) = toClient[1]
        /\ toClient[1].kind \in {"setup", "result", "error"}
    BY <1>t, FirstMessage DEF TypeInv, Alive, Ended, Message
  <1>2. toClient[1].kind = "result"
    BY <1>1, <1>t DEF Control, OneAnswer
  <1>3. Tail(toClient) = <<>>
    <2>1. Len(toClient) = 1 /\ toClient \in Seq(Message)
      BY <1>1, <1>t DEF Control, OneAnswer, TypeInv, MessagesOK
    <2>2. Tail(toClient) \in Seq(Message) /\ Len(Tail(toClient)) = 0
      BY <2>1
    <2> QED
      BY <2>2, EmptySeq
  <1> QED
    BY <1>1, <1>2, <1>3, <1>t DEF Control, OneAnswer, Ways, Answered

LEMMA ResultKeeps ==
  ASSUME IInv, RecvResult, Head(toClient).kind # "error"
  PROVE  IInv'
  <1> USE Sizes, TwoProcesses DEF Client, Server, Process
  <1>t. TypeInv /\ Control /\ Reasons /\ NoFalseFailure /\ Timers /\ Books
    BY DEF IInv
  <1>e. /\ pc[Client] = "result" /\ toClient' = <<>> /\ toServer = <<>> /\ pc[Server] \in {"idle"} \cup Gone
        /\ test # "REM_CPU" /\ reported' = count[Server] /\ Close(Client)
    BY TheResult DEF RecvResult
  <1>u. UNCHANGED <<test, timed, fault, early, toServer, alarm, times_up, io, flow, left, remaining, count>>
    BY TheResult DEF RecvResult, plan, timer
  <1>f. /\ pc'[Client] \in {"shutdown", "begin"} /\ pc'[Server] = pc[Server] /\ pc' \in [Process -> Places]
        /\ iteration' \in 1..MaxIterations
        /\ side'[Client] = (IF side[Client] = "none" THEN "none" ELSE "closed") /\ side'[Server] = side[Server]
        /\ side' \in [Process -> {"none", "open", "wr", "closed"}]
    BY <1>t, TheResult DEF RecvResult, TypeInv, PlanOK, PlacesOK, SocketsOK, Goto, Close, Places
  <1>1. TypeInv'
    <2>1. FlagsOK'
      BY <1>t, <1>u, FlagsKept DEF TypeInv
    <2>2. PlanOK' /\ PlacesOK' /\ SocketsOK'
      BY <1>t, <1>u, <1>f DEF TypeInv, PlanOK, PlacesOK, SocketsOK
    <2>3. MessagesOK'
      BY <1>t, <1>u, <1>e, EmptySeq DEF TypeInv, MessagesOK
    <2>4. FiguresOK'
      BY <1>t, <1>u, <1>e DEF TypeInv, FiguresOK, Bound, NoFigure, MaxFigure
    <2> QED
      BY <2>1, <2>2, <2>3, <2>4 DEF TypeInv
  <1>2. Control'
    BY <1>t, <1>u, <1>e, <1>f DEF Control, Between, Asked, Untouched, Connects, OneAnswer, Ways, Alive, Busy, Gone, Ended
  <1>3. Reasons' /\ NoFalseFailure'
    BY <1>t, <1>u, <1>e, <1>f DEF Reasons, NoFalseFailure, Ended
  <1>4. Timers'
    BY <1>t, <1>u, <1>e, <1>f DEF Timers, ClientAlarm, ServerAlarm, Counted, Timed, Alive, Gone, Ended
  <1>5. StreamBooks' /\ MaertsBooks' /\ UdpBooks'
    BY <1>t, <1>u, <1>e, <1>f DEF Books, StreamBooks, MaertsBooks, UdpBooks, InHand, Cut, Answered, Gone, Ended, Bound
  <1>6. RrClient' /\ RrServer' /\ RrBooks' /\ RrAnswer'
    BY <1>t, <1>u, <1>e, <1>f DEF Books, RrClient, RrServer, RrBooks, RrAnswer, Waiting, Answered, Gone, Ended, Room
  <1>7. ConnClient' /\ ConnServer' /\ ConnBooks' /\ ConnAnswer'
    BY <1>t, <1>u, <1>e, <1>f DEF Books, ConnClient, ConnServer, ConnBooks, ConnAnswer, Answered, Gone, Ended
  <1> QED
    BY <1>1, <1>2, <1>3, <1>4, <1>5, <1>6, <1>7 DEF IInv, Books

LEMMA RecvResultKeeps ==
  ASSUME IInv, RecvResult
  PROVE  IInv'
  <1>1. CASE Head(toClient).kind = "error"
    <2>1. Fail(Client) /\ pc[Client] = "result" /\ toClient # <<>>
      BY <1>1 DEF RecvResult
    <2>2. pc[Server] \in Gone
      BY <1>1, <2>1, FirstMessage DEF IInv, TypeInv, Control, OneAnswer, Alive, Gone, Ended
    <2> QED
      BY <2>1, <2>2, ServerWentFirst, ClientFails DEF Ended
  <1>2. CASE Head(toClient).kind # "error"
    BY <1>2, ResultKeeps
  <1> QED
    BY <1>1, <1>2

-----------------------------------------------------------------------------
(* The start of the transfer in netperf, and timers.                       *)

LEMMA StartKeeps ==
  ASSUME IInv, StartTransfer
  PROVE  IInv'
  <1> USE Sizes, TwoProcesses DEF Client, Server, Process
  <1>t. TypeInv /\ Control /\ Reasons /\ NoFalseFailure /\ Timers /\ Books
    BY DEF IInv
  <1>e. /\ pc[Client] = "connect" /\ test # "REM_CPU" /\ toServer = <<>> /\ toClient = <<>>
        /\ pc[Server] \in {Began} \cup Gone
        /\ side[Client] = "none" /\ count[Client] = 0 /\ flow[Client] = 0 /\ flow[Server] = 0
    BY <1>t DEF StartTransfer, Control, Ways, Connects, Untouched
  <1>a. ASSUME test \in TCP /\ pc[Server] # "accept"  PROVE  IInv'
    <2>1. Fail(Client) /\ pc[Server] \in Gone
      BY <1>a, <1>e DEF StartTransfer, Began
    <2> QED
      BY <1>e, <2>1, ServerWentFirst, ClientFails DEF Ended
  <1>b. ASSUME ~(test \in TCP /\ pc[Server] # "accept")  PROVE  IInv'
    <2>u. UNCHANGED <<test, timed, fault, early, iteration, toServer, toClient, flow, left, count, reported>>
      BY <1>b DEF StartTransfer, plan, control
    <2>f. /\ pc'[Client] = (IF test = "TCP_MAERTS" /\ ~timed THEN "failed" ELSE "data") /\ pc'[Server] = pc[Server]
          /\ pc' \in [Process -> Places]
          /\ side'[Client] = (IF test \in CONN THEN "none" ELSE IF test = "TCP_MAERTS" /\ ~timed THEN "closed" ELSE "open")
          /\ side'[Server] = side[Server]
          /\ side' \in [Process -> {"none", "open", "wr", "closed"}]
          /\ io'[Client] = (IF test = "TCP_MAERTS" THEN "call" ELSE "top") /\ io'[Server] = io[Server]
          /\ io' \in [Process -> {"top", "call", "send", "intr", "connect", "accept"}]
          /\ remaining'[Client] = (IF timed THEN 0 ELSE Limit) /\ remaining'[Server] = remaining[Server]
          /\ remaining' \in [Process -> 0..Limit]
          /\ alarm'[Client] = (IF ~timed THEN "off" ELSE IF test = "TCP_MAERTS" THEN "padded" ELSE "test")
          /\ alarm'[Server] = alarm[Server]
          /\ alarm' \in [Process -> {"off", "test", "padded"}]
      BY <1>b, <1>t, <1>e DEF StartTransfer, ClientTimer, TypeInv, PlacesOK, SocketsOK, FiguresOK, Goto, Places, Ended
    <2>g. FlagsOK' /\ times_up'[Server] = times_up[Server] /\ (times_up'[Client] <=> ~timed)
      <3>1. PICK b \in BOOLEAN : times_up' = [times_up EXCEPT ![Client] = b] /\ (b <=> ~timed)
        <4>1. times_up' = [times_up EXCEPT ![Client] = ~timed]
          BY <1>b DEF StartTransfer
        <4> QED
          BY <4>1, Zenon
      <3> QED
        BY <1>t, <2>u, <3>1, FlagSet DEF TypeInv
    <2>1. TypeInv'
      <3>1. PlanOK' /\ PlacesOK' /\ SocketsOK' /\ MessagesOK'
        BY <1>t, <2>u, <2>f DEF TypeInv, PlanOK, PlacesOK, SocketsOK, MessagesOK, Ended
      <3>2. FiguresOK'
        BY <1>t, <2>u, <2>f DEF TypeInv, FiguresOK, Bound
      <3> QED
        BY <2>g, <3>1, <3>2 DEF TypeInv
    <2>2. Control'
      BY <1>t, <1>e, <2>u, <2>f DEF Control, Between, Asked, Untouched, Connects, OneAnswer, Ways, Alive, Busy, Gone, Ended
    <2>3. Reasons' /\ NoFalseFailure'
      BY <1>t, <1>e, <2>u, <2>f DEF Reasons, NoFalseFailure, Ended
    <2>4. Timers'
      <3>1. ClientAlarm' /\ ServerAlarm'
        BY <1>t, <1>e, <2>u, <2>f, <2>g DEF Timers, ClientAlarm, ServerAlarm
      <3>2. Counted'
        BY <1>t, <1>e, <2>u, <2>f, <2>g DEF Timers, Counted
      <3>3. Timed'
        BY <1>t, <1>e, <2>u, <2>f, <2>g DEF Timers, Timed, Alive, Ended
      <3> QED
        BY <3>1, <3>2, <3>3 DEF Timers
    <2>5. StreamBooks' /\ MaertsBooks' /\ UdpBooks'
      <3>1. count[Server] \in Nat /\ Bound \in Nat /\ Bound' = Bound /\ Gone' = Gone
        BY <1>t, <2>u DEF TypeInv, FiguresOK, Bound, Gone, Ended
      <3>2. StreamBooks'
        BY <1>b, <1>t, <1>e, <2>u, <2>f, <3>1 DEF Books, StreamBooks, InHand, Cut, Answered, TCP, CONN
      <3>3. MaertsBooks'
        <4>1. pc'[Client] \in {"data", "result"} /\ test = "TCP_MAERTS" => timed /\ ~times_up'[Client]
          BY <2>f, <2>g
        <4>2. test = "TCP_MAERTS" => pc[Server] = "accept" /\ pc'[Server] = "accept" /\ io'[Client] = "call"
          BY <1>b, <2>f DEF TCP
        <4>3. ~Answered'
          BY <1>e, <2>u DEF Answered
        <4>4. alarm'[Server] = alarm[Server] /\ early' = early /\ UNCHANGED <<test, timed, count, flow>>
          BY <2>u, <2>f
        <4>5. test = "TCP_MAERTS" =>
                /\ side'[Client] = (IF timed THEN "open" ELSE "closed") /\ side'[Server] = side[Server]
                /\ pc'[Client] = (IF timed THEN "data" ELSE "failed")
          BY <2>f DEF CONN
        <4>6. MaertsBooks
          BY <1>t DEF Books
        <4> QED
          BY <4>1, <4>2, <4>3, <4>4, <4>5, <4>6, <1>e, <3>1 DEF MaertsBooks, Ended
      <3>4. UdpBooks'
        BY <1>t, <1>e, <2>u, <2>f DEF Books, UdpBooks, Answered, Ended
      <3> QED
        BY <3>2, <3>3, <3>4
    <2>6. RrClient' /\ RrServer' /\ RrBooks' /\ RrAnswer'
      BY <1>t, <1>e, <2>u, <2>f DEF Books, RrClient, RrServer, RrBooks, RrAnswer, Waiting, Answering, Answered, Alive, Ended, RR, CONN
    <2>7. ConnClient' /\ ConnServer' /\ ConnBooks' /\ ConnAnswer'
      BY <1>t, <1>e, <2>u, <2>f DEF Books, ConnClient, ConnServer, ConnBooks, ConnAnswer, Answered, Alive, Ended, Began, TCP, CONN, Room
    <2> QED
      BY <2>1, <2>2, <2>3, <2>4, <2>5, <2>6, <2>7 DEF IInv, Books
  <1> QED
    BY <1>a, <1>b

LEMMA ClientAlarmKeeps ==
  ASSUME IInv, Alarm(Client)
  PROVE  IInv'
  <1> USE Sizes, TwoProcesses DEF Client, Server, Process
  <1>t. TypeInv /\ Control /\ Reasons /\ NoFalseFailure /\ Timers /\ Books
    BY DEF IInv
  <1>e. /\ alarm[Client] # "off" /\ pc[Client] \in {"data", "spin"} /\ timed
        /\ ~times_up[Client] /\ io[Client] # "intr" /\ AlarmDue(Client)
        /\ alarm[Client] = IF test = "TCP_MAERTS" THEN "padded" ELSE "test"
    BY <1>t DEF Alarm, Timers, ClientAlarm
  <1>u. UNCHANGED <<test, timed, fault, early, iteration, pc, toServer, toClient, side, flow, left, remaining, count, reported>>
    BY <1>e DEF Alarm, plan, control, tally
  <1>f. /\ alarm'[Client] = "off" /\ alarm'[Server] = alarm[Server] /\ alarm' \in [Process -> {"off", "test", "padded"}]
        /\ io'[Client] \in {io[Client], "intr"} /\ io'[Server] = io[Server]
        /\ io'[Client] = "intr" => io[Client] \in {"call", "connect", "accept"}
        /\ io' \in [Process -> {"top", "call", "send", "intr", "connect", "accept"}]
    BY <1>t, <1>e DEF Alarm, CrrSpins, TypeInv, SocketsOK
  <1>g. FlagsOK' /\ times_up'[Server] = times_up[Server] /\ times_up'[Client]
    <2>1. times_up' = [times_up EXCEPT ![Client] = TRUE]
      BY <1>e DEF Alarm
    <2> QED
      BY <1>t, <1>u, <2>1, FlagSet DEF TypeInv
  <1>l. test = "TCP_MAERTS" =>
          pc[Server] = "lost" \/ (pc[Server] = "data" /\ alarm[Server] = "off" /\ ~times_up[Server] /\ early)
    BY <1>e, <1>t DEF AlarmDue, Untimed, Control, Ways, Books, MaertsBooks
  <1>1. TypeInv'
    <2>1. PlanOK' /\ PlacesOK' /\ MessagesOK' /\ SocketsOK' /\ FiguresOK'
      BY <1>t, <1>u, <1>f DEF TypeInv, PlanOK, PlacesOK, MessagesOK, SocketsOK, FiguresOK, Bound
    <2> QED
      BY <1>g, <2>1 DEF TypeInv
  <1>2. Control'
    BY <1>t, <1>u DEF Control, Between, Asked, Untouched, Connects, OneAnswer, Ways, Alive, Busy, Began
  <1>3. Reasons' /\ NoFalseFailure'
    BY <1>t, <1>u DEF Reasons, NoFalseFailure
  <1>4. Timers'
    BY <1>t, <1>e, <1>u, <1>f, <1>g DEF Timers, ClientAlarm, ServerAlarm, Counted, Timed, Alive
  <1>5. StreamBooks' /\ MaertsBooks' /\ UdpBooks'
    <2>1. Bound' = Bound /\ (Alive' <=> Alive)
      BY <1>u DEF Bound, Alive
    <2>2. StreamBooks'
      BY <1>t, <1>e, <1>u, <1>f, <2>1 DEF Books, StreamBooks, InHand, Cut, Answered, Control, Ways
    <2>3. MaertsBooks'
      BY <1>t, <1>e, <1>u, <1>f, <1>g, <1>l, <2>1 DEF Books, MaertsBooks, InHand, Cut, Answered, Gone
    <2>4. UdpBooks'
      BY <1>t, <1>u, <1>f, <2>1 DEF Books, UdpBooks, Answered
    <2> QED
      BY <2>2, <2>3, <2>4
  <1>6. RrClient' /\ RrServer' /\ RrBooks' /\ RrAnswer'
    <2>1. test \in RR /\ pc[Client] = "data" => Waiting' = Waiting
      BY <1>t, <1>e, <1>u, <1>f DEF Books, RrClient, Waiting
    <2>2. RrClient'
      BY <1>t, <1>e, <1>u, <1>f, <2>1 DEF Books, RrClient, Waiting, Room
    <2>3. RrServer'
      BY <1>t, <1>e, <1>u, <1>f DEF Books, RrServer, Alive
    <2>4. RrBooks' /\ RrAnswer'
      BY <1>t, <1>e, <1>u, <1>f, <2>1 DEF Books, RrServer, RrBooks, RrAnswer, Answering, Answered, Alive, Ended
    <2> QED
      BY <2>2, <2>3, <2>4
  <1>7. ConnClient' /\ ConnServer' /\ ConnBooks' /\ ConnAnswer'
    BY <1>t, <1>e, <1>u, <1>f, <1>g DEF Books, ConnClient, ConnServer, ConnBooks, ConnAnswer, Answered, Alive, Room
  <1> QED
    BY <1>1, <1>2, <1>3, <1>4, <1>5, <1>6, <1>7 DEF IInv, Books

LEMMA ServerAlarmKeeps ==
  ASSUME IInv, Alarm(Server)
  PROVE  IInv'
  <1> USE Sizes, TwoProcesses DEF Client, Server, Process
  <1>t. TypeInv /\ Control /\ Reasons /\ NoFalseFailure /\ Timers /\ Books
    BY DEF IInv
  <1>b. pc[Server] = "data"
    BY <1>t DEF Alarm, Timers, ServerAlarm
  <1>e. /\ alarm[Server] # "off" /\ test # "TCP_STREAM" /\ ~times_up[Server] /\ io[Server] # "intr"
        /\ AlarmDue(Server)
        /\ alarm[Server] = IF test = "TCP_MAERTS" THEN "test" ELSE "padded"
    BY <1>b, <1>t DEF Alarm, Timers, ServerAlarm
  <1>u. UNCHANGED <<test, timed, fault, early, iteration, pc, toServer, toClient, side, flow, left, remaining, count, reported>>
    BY <1>b DEF Alarm, plan, control, tally
  <1>f. /\ alarm'[Server] = "off" /\ alarm'[Client] = alarm[Client] /\ alarm' \in [Process -> {"off", "test", "padded"}]
        /\ io'[Client] = io[Client]
        /\ io' \in [Process -> {"top", "call", "send", "intr", "connect", "accept"}]
        /\ \/ io'[Server] = "intr" /\ io[Server] \in {"call", "connect", "accept"}
           \/ test = "TCP_MAERTS" /\ io'[Server] = io[Server]
           \/ CrrSpins(Server) /\ io'[Server] = "send"
    BY <1>b, <1>t, <1>e DEF Alarm, TypeInv, SocketsOK
  <1>g. FlagsOK' /\ times_up'[Client] = times_up[Client] /\ times_up'[Server]
    <2>1. times_up' = [times_up EXCEPT ![Server] = TRUE]
      BY <1>b DEF Alarm
    <2> QED
      BY <1>t, <1>u, <2>1, FlagSet DEF TypeInv
  <1>d. test # "TCP_MAERTS" =>
          /\ Drained(Server)
          /\ \/ pc[Client] \notin {"setup", "connect", "data"}
             \/ pc[Client] = "data" /\ test \in RR /\ Drained(Client) /\ alarm[Client] = "off"
    BY <1>b, <1>e DEF AlarmDue
  <1>1. TypeInv'
    <2>1. PlanOK' /\ PlacesOK' /\ MessagesOK' /\ SocketsOK' /\ FiguresOK'
      BY <1>t, <1>u, <1>f DEF TypeInv, PlanOK, PlacesOK, MessagesOK, SocketsOK, FiguresOK, Bound
    <2> QED
      BY <1>g, <2>1 DEF TypeInv
  <1>2. Control'
    BY <1>t, <1>u DEF Control, Between, Asked, Untouched, Connects, OneAnswer, Ways, Alive, Busy, Began
  <1>3. Reasons' /\ NoFalseFailure'
    BY <1>t, <1>u DEF Reasons, NoFalseFailure
  <1>c. test \in CONN /\ CrrSpins(Server) => ~Alive /\ io[Server] = "call" /\ timed /\ test = "TCP_CRR"
    BY <1>b, <1>t DEF CrrSpins, Books, ConnServer
  <1>4. Timers'
    <2>1. ClientAlarm' /\ ServerAlarm' /\ Counted'
      BY <1>b, <1>t, <1>e, <1>u, <1>f, <1>g DEF Timers, ClientAlarm, ServerAlarm, Counted, RR, CONN
    <2>2. Timed'
      BY <1>b, <1>t, <1>e, <1>u, <1>f, <1>g, <1>c DEF Timers, Timed, Alive, RR, CONN, CrrSpins
    <2> QED
      BY <2>1, <2>2 DEF Timers
  <1>5. StreamBooks' /\ MaertsBooks' /\ UdpBooks'
    <2>1. Bound' = Bound /\ (Alive' <=> Alive)
      BY <1>u DEF Bound, Alive
    <2>2. StreamBooks'
      BY <1>e, <1>u DEF StreamBooks
    <2>3. MaertsBooks'
      BY <1>b, <1>t, <1>e, <1>u, <1>f, <1>g, <2>1 DEF Books, MaertsBooks, InHand, Cut, Answered, CrrSpins, Gone, Ended
    <2>4. UdpBooks'
      BY <1>b, <1>t, <1>e, <1>u, <1>f, <1>d, <2>1 DEF Books, UdpBooks, Answered, CrrSpins, RR
    <2> QED
      BY <2>2, <2>3, <2>4
  <1>6. RrClient' /\ RrServer' /\ RrBooks' /\ RrAnswer'
    <2>1. Waiting' = Waiting /\ Room' = Room /\ (Alive' <=> Alive)
      BY <1>u, <1>f DEF Waiting, Room, Alive
    <2>2. test \in RR => /\ io[Server] = "call" /\ io'[Server] = "intr" /\ timed
                         /\ flow[Client] = 0 /\ side[Client] # "wr"
      BY <1>b, <1>t, <1>e, <1>f, <1>d DEF Books, RrServer, Timers, Counted, CrrSpins, Drained, Peer, RR
    <2>3. test \in RR /\ pc[Client] = "data" => io[Client] = "call" /\ alarm[Client] = "off" /\ flow[Server] = 0
      BY <1>t, <1>d DEF Books, RrClient, Drained, Peer, RR
    <2>4. RrServer'
      BY <1>b, <1>t, <1>u, <1>f, <2>1, <2>2, <2>3, <1>d DEF Books, RrServer, RR, Alive
    <2>5. RrClient' /\ RrAnswer'
      BY <1>t, <1>u, <1>f, <2>1 DEF Books, RrClient, RrAnswer, Answered
    <2>6. RrBooks'
      BY <1>b, <1>t, <1>u, <1>f, <2>1, <2>2 DEF Books, RrBooks, Answering
    <2> QED
      BY <2>4, <2>5, <2>6
  <1>7. ConnClient' /\ ConnServer' /\ ConnBooks' /\ ConnAnswer'
    <2>1. Room' = Room /\ (Alive' <=> Alive)
      BY <1>u DEF Room, Alive
    <2>2. test \in CONN => timed
      BY <1>b, <1>t, <1>e DEF Timers, Counted
    <2>3. ConnServer'
      BY <1>b, <1>t, <1>e, <1>u, <1>f, <1>d, <1>c, <2>1, <2>2 DEF Books, ConnServer, ConnClient, CrrSpins, RR, CONN
    <2>4. ConnClient' /\ ConnBooks' /\ ConnAnswer'
      BY <1>t, <1>u, <1>f, <2>1 DEF Books, ConnClient, ConnBooks, ConnAnswer, Answered
    <2> QED
      BY <2>3, <2>4
  <1> QED
    BY <1>1, <1>2, <1>3, <1>4, <1>5, <1>6, <1>7 DEF IInv, Books

\* SIGALRM before the transfer of a TCP_MAERTS.
LEMMA AcceptAlarmKeeps ==
  ASSUME IInv, AcceptAlarm
  PROVE  IInv'
  <1> USE Sizes, TwoProcesses DEF Client, Server, Process
  <1>t. TypeInv /\ Control /\ Reasons /\ NoFalseFailure /\ Timers /\ Books
    BY DEF IInv
  <1>e. /\ pc[Server] = "accept" /\ alarm[Server] = "test" /\ test = "TCP_MAERTS" /\ early' = TRUE
        /\ early' \in BOOLEAN
    BY <1>t DEF AcceptAlarm, Timers, ServerAlarm
  <1>a. ASSUME EndProcess(Server, "failed"), UNCHANGED <<control, fault>>  PROVE  IInv'
    <2>1. "failed" \in Ended /\ UNCHANGED control /\ UNCHANGED fault /\ pc[Server] \notin Gone /\ early'
      BY <1>a, <1>e DEF Ended, Gone
    <2>2. fault' \in Faults \cup {"none", "refused"} /\ test' = "TCP_MAERTS"
      BY <1>a, <1>e, <1>t, <2>1 DEF TypeInv, PlanOK, EndProcess
    <2>3. Excused'
      BY <2>1, <2>2 DEF Excused
    <2> QED
      BY <1>a, <1>e, <2>1, <2>2, <2>3, ServerGone
  <1>b. ASSUME alarm' = [alarm EXCEPT ![Server] = "off"],
               times_up' = [times_up EXCEPT ![Server] = TRUE],
               UNCHANGED <<test, timed, fault, iteration, pc, control, data, tally>>
        PROVE  IInv'
    <2>u. UNCHANGED <<test, timed, fault, iteration, pc, toServer, toClient, io, side, flow, left, remaining, count, reported>>
      BY <1>b DEF control, data, tally
    <2>f. /\ alarm'[Server] = "off" /\ alarm'[Client] = alarm[Client]
          /\ alarm' \in [Process -> {"off", "test", "padded"}]
      BY <1>b, <1>t DEF TypeInv, SocketsOK
    <2>g. FlagsOK' /\ times_up'[Client] = times_up[Client] /\ times_up'[Server]
      BY <1>b, <1>t, <1>e, <2>u, Zenon DEF TypeInv, FlagsOK
    <2>1. TypeInv'
      <3>1. PlanOK' /\ PlacesOK' /\ MessagesOK' /\ SocketsOK' /\ FiguresOK'
        BY <1>t, <2>u, <2>f DEF TypeInv, PlanOK, PlacesOK, MessagesOK, SocketsOK, FiguresOK, Bound
      <3> QED
        BY <2>g, <3>1 DEF TypeInv
    <2>2. Control'
      BY <1>t, <2>u DEF Control, Between, Asked, Untouched, Connects, OneAnswer, Ways, Alive, Busy, Began
    <2>3. Reasons' /\ NoFalseFailure'
      BY <1>t, <1>e, <2>u DEF Reasons, NoFalseFailure
    <2>4. Timers'
      BY <1>t, <1>e, <2>u, <2>f, <2>g DEF Timers, ClientAlarm, ServerAlarm, Counted, Timed, Alive, RR, CONN
    <2>5. MaertsBooks'
      BY <1>t, <1>e, <2>u, <2>f, <2>g DEF Books, MaertsBooks, InHand, Cut, Answered, Alive, Bound, Gone, Ended
    <2>6. Books'
      BY <1>e, <2>u, <2>5, MaertsOnly
    <2> QED
      BY <2>1, <2>2, <2>3, <2>4, <2>6 DEF IInv
  <1> QED
    BY <1>a, <1>b DEF AcceptAlarm

-----------------------------------------------------------------------------
(* The invariant holds, and with it the properties.                        *)

LEMMA InitInv ==
  ASSUME Init
  PROVE  IInv
  <1> USE Sizes, TwoProcesses DEF Client, Server, Process
  <1>f. /\ pc[Client] = "begin" /\ pc[Server] = "idle" /\ pc \in [Process -> Places]
        /\ alarm[Client] = "off" /\ alarm[Server] = "off" /\ alarm \in [Process -> {"off", "test", "padded"}]
        /\ io[Client] = "top" /\ io[Server] = "top"
        /\ io \in [Process -> {"top", "call", "send", "intr", "connect", "accept"}]
        /\ side[Client] = "none" /\ side[Server] = "none" /\ side \in [Process -> {"none", "open", "wr", "closed"}]
        /\ flow[Client] = 0 /\ flow[Server] = 0 /\ flow \in [Process -> 0..Window]
        /\ remaining \in [Process -> 0..Limit] /\ count \in [Process -> 0..Bound]
        /\ count[Client] = 0 /\ count[Server] = 0
        /\ toServer = <<>> /\ toClient = <<>> /\ left = 0 /\ reported = NoFigure
    BY DEF Init, Both, Places, Bound
  <1>1. TypeInv
    <2>1. FlagsOK
      BY Zenon DEF FlagsOK, Init, Both
    <2>2. PlanOK /\ PlacesOK /\ SocketsOK
      BY <1>f DEF Init, PlanOK, PlacesOK, SocketsOK
    <2>3. MessagesOK /\ FiguresOK
      BY <1>f, EmptySeq DEF MessagesOK, FiguresOK, NoFigure, MaxFigure
    <2> QED
      BY <2>1, <2>2, <2>3 DEF TypeInv
  <1>2. Control /\ Reasons /\ NoFalseFailure
    BY <1>f DEF Control, Between, Asked, Untouched, Connects, OneAnswer, Ways, Alive, Busy, Gone, Ended,
                Reasons, NoFalseFailure
  <1>3. Timers
    BY <1>f DEF Timers, ClientAlarm, ServerAlarm, Counted, Timed
  <1>4. StreamBooks /\ MaertsBooks
    BY <1>f DEF StreamBooks, MaertsBooks, InHand, Cut, Answered
  <1>5. UdpBooks
    <2>1. test = "UDP_STREAM" => timed
      BY NetperfAssumption DEF Init
    <2> QED
      BY <1>f, <2>1 DEF UdpBooks, Answered
  <1>6. RrClient /\ RrServer /\ RrBooks /\ RrAnswer
    BY <1>f DEF RrClient, RrServer, RrBooks, RrAnswer, Waiting, Answered
  <1>7. ConnClient /\ ConnServer /\ ConnBooks /\ ConnAnswer
    BY <1>f DEF ConnClient, ConnServer, ConnBooks, ConnAnswer, Answered
  <1> QED
    BY <1>1, <1>2, <1>3, <1>4, <1>5, <1>6, <1>7 DEF IInv, Books

LEMMA StutterInv ==
  ASSUME IInv, UNCHANGED vars
  PROVE  IInv'
  <1>u. UNCHANGED <<test, timed, fault, early, iteration, pc, toServer, toClient, alarm, times_up,
                    io, side, flow, left, remaining, count, reported>>
    BY DEF vars, plan, control, timer, data, tally
  <1>1. TypeInv'
    <2>1. FlagsOK'
      BY <1>u, FlagsKept DEF IInv, TypeInv
    <2>2. PlanOK' /\ PlacesOK' /\ MessagesOK' /\ SocketsOK' /\ FiguresOK'
      BY <1>u DEF IInv, TypeInv, PlanOK, PlacesOK, MessagesOK, SocketsOK, FiguresOK, Bound
    <2> QED
      BY <2>1, <2>2 DEF TypeInv
  <1>2. Control' /\ Reasons' /\ NoFalseFailure'
    BY <1>u DEF IInv, Control, Between, Asked, Untouched, Connects, OneAnswer, Ways, Alive, Busy, Gone, Ended, Began,
                Reasons, NoFalseFailure
  <1>3. Timers'
    BY <1>u DEF IInv, Timers, ClientAlarm, ServerAlarm, Counted, Timed, Alive
  <1>4. StreamBooks' /\ MaertsBooks' /\ UdpBooks'
    BY <1>u DEF IInv, Books, StreamBooks, MaertsBooks, UdpBooks, InHand, Cut, Answered, Alive, Bound, Gone, Ended
  <1>5. RrClient' /\ RrServer' /\ RrBooks' /\ RrAnswer'
    BY <1>u DEF IInv, Books, RrClient, RrServer, RrBooks, RrAnswer, Waiting, Answering, Answered, Alive, Room, Gone
  <1>6. ConnClient' /\ ConnServer' /\ ConnBooks' /\ ConnAnswer'
    BY <1>u DEF IInv, Books, ConnClient, ConnServer, ConnBooks, ConnAnswer, Answered, Alive, Room, Gone
  <1> QED
    BY <1>1, <1>2, <1>3, <1>4, <1>5, <1>6 DEF IInv, Books

LEMMA ClientStepInv ==
  ASSUME IInv, ClientStep
  PROVE  IInv'
  <1>1. CASE SendRequest
    BY <1>1, RequestKeeps
  <1>2. CASE RecvSetup
    BY <1>2, RecvSetupKeeps
  <1>3. CASE RecvResult
    BY <1>3, RecvResultKeeps
  <1>4. CASE NoResponse
    BY <1>4, NoResponseKeeps
  <1>5. CASE ShutdownControl
    BY <1>5, ShutdownControlKeeps
  <1>6. CASE StartTransfer
    BY <1>6, StartKeeps
  <1>7. CASE TcpStreamSend \/ TcpStreamTransfer \/ TcpStreamStop \/ TcpStreamError \/ TcpStreamDrain
    BY <1>7, StreamSends, StreamTransfers, StreamStops, StreamErrorKeeps, StreamDrains
  <1>8. CASE TcpMaertsRecv \/ TcpMaertsEnd \/ TcpMaertsLate
    BY <1>8, MaertsReceives, MaertsEnds, MaertsLateKeeps
  <1>9. CASE RrSend \/ RrRecv \/ RrStop \/ TcpRrSpin
    BY <1>9, RrSends, RrReceives, RrStops
  <1>10. CASE UdpSend \/ UdpStop
    BY <1>10, UdpSends, UdpStops
  <1>11. CASE ConnConnect \/ ConnRequest \/ ConnClosed \/ ConnError \/ ConnStop
    BY <1>11, ConnConnects, ConnRequests, ConnCloses, ConnErrorKeeps, ConnStops
  <1> QED
    BY <1>1, <1>2, <1>3, <1>4, <1>5, <1>6, <1>7, <1>8, <1>9, <1>10, <1>11 DEF ClientStep

LEMMA ServerStepInv ==
  ASSUME IInv, ServerStep
  PROVE  IInv'
  <1>1. CASE Calibrate
    BY <1>1, CalibrateKeeps
  <1>2. CASE Setup
    BY <1>2, SetupKeeps
  <1>3. CASE Accept
    BY <1>3, AcceptKeeps
  <1>4. CASE RequestsEnd
    BY <1>4, RequestsEndKeeps
  <1>5. CASE TcpStreamRecv \/ TcpStreamResults
    BY <1>5, StreamReceives, StreamAnswers
  <1>6. CASE TcpMaertsSend \/ TcpMaertsTransfer \/ TcpMaertsStop \/ TcpMaertsError \/ TcpMaertsResults
    BY <1>6, MaertsSends, MaertsTransfers, MaertsStops, MaertsErrorKeeps, MaertsAnswers
  <1>7. CASE RrServerRecv \/ RrServerSend \/ RrServerError \/ RrServerResults
    BY <1>7, RrServes, RrReplies, RrServerErrorKeeps, RrAnswers
  <1>8. CASE UdpRecv \/ UdpResults
    BY <1>8, UdpReceives, UdpAnswers
  <1>9. CASE CcAccept \/ CrrAccept \/ CrrRecv \/ CrrReply \/ CrrServerError \/ ConnResults
    BY <1>9, ConnServes, ConnAccepts, ConnReceives, CrrServerErrorKeeps, ConnAnswers
  <1> QED
    BY <1>1, <1>2, <1>3, <1>4, <1>5, <1>6, <1>7, <1>8, <1>9 DEF ServerStep

LEMMA NextInv ==
  ASSUME IInv, [Next]_vars
  PROVE  IInv'
  <1>1. CASE ClientStep
    BY <1>1, ClientStepInv
  <1>2. CASE ServerStep
    BY <1>2, ServerStepInv
  <1>3. CASE RrRefused
    BY <1>3, RrRefusedKeeps
  <1>4. CASE SetupFails
    BY <1>4, SetupFailsKeeps
  <1>5. CASE \E p \in Process : Alarm(p)
    BY <1>5, ClientAlarmKeeps, ServerAlarmKeeps DEF Process
  <1>6. CASE Killed(Client, "client") \/ Killed(Server, "server")
    BY <1>6, KilledKeeps
  <1>7. CASE HostLost
    BY <1>7, HostGone
  <1>8. CASE UNCHANGED vars
    BY <1>8, StutterInv
  <1>9. CASE AcceptAlarm
    BY <1>9, AcceptAlarmKeeps
  <1> QED
    BY <1>1, <1>2, <1>3, <1>4, <1>5, <1>6, <1>7, <1>8, <1>9 DEF Next

\* The invariant holds of every run, whatever the scheduling.
THEOREM Invariance == Spec => []IInv
  <1>1. Init => IInv
    BY InitInv
  <1>2. IInv /\ [Next]_vars => IInv'
    BY NextInv
  <1> QED
    BY <1>1, <1>2, PTL DEF Spec

\* Every variable keeps its type and its range for any test, timed or counted:
\* in particular bytes_remaining and trans_remaining never go below 0, and
\* neither side counts more than the length of a counted test, rounded up to a
\* message (the loops of the send_*() and recv_*() functions).
THEOREM TypeCorrect == Spec => []TypeOK
  <1>1. IInv => TypeOK
    <2> SUFFICES ASSUME IInv PROVE TypeOK
      OBVIOUS
    <2>1. FlagsOK /\ PlanOK /\ PlacesOK /\ MessagesOK /\ SocketsOK /\ FiguresOK
      BY DEF IInv, TypeInv
    <2>2. timed \in BOOLEAN /\ early \in BOOLEAN /\ times_up \in [Process -> BOOLEAN]
      BY <2>1, Zenon DEF FlagsOK
    <2>3. /\ \A p \in Process : count[p] \in IF timed THEN 0..MaxCount ELSE 0..(Limit + 1)
          /\ DOMAIN count = Process
      BY <2>1 DEF FiguresOK, Bound
    <2> QED
      BY <2>1, <2>2, <2>3 DEF TypeOK, PlanOK, PlacesOK, MessagesOK, SocketsOK, FiguresOK
  <1> QED
    BY <1>1, Invariance, PTL

\* A response netperf finds on the control connection is the only message on
\* it, belongs to this iteration and is of the kind its recv_response() is
\* about to wait for, although requests and responses carry no number.
THEOREM RequestsInStep == Spec => []InStep
  <1>1. IInv => InStep
    <2> SUFFICES ASSUME IInv, Alive PROVE InStep
      BY DEF InStep, Alive
    <2>1. Asked /\ OneAnswer
      BY DEF IInv, Control
    <2>2. Len(<<test>>) = 1 /\ Len(<<>>) = 0
      OBVIOUS
    <2>3. CASE toClient = <<>>
      <3>1. Len(toServer) \in 0..1 /\ Len(toClient) = 0
        BY <2>1, <2>2, <2>3 DEF Asked
      <3>2. \A i \in 1..Len(toClient) : FALSE
        BY <3>1
      <3>3. Len(toServer) + Len(toClient) <= 1
        BY <3>1
      <3> QED
        BY <3>2, <3>3, Zenon DEF InStep
    <2>4. CASE toClient # <<>>
      <3>1. Len(toClient) = 1 /\ toServer = <<>> /\ toClient[1].iteration = iteration
        BY <2>1, <2>4 DEF OneAnswer
      <3>2. /\ toClient[1].kind = "setup" => pc[Client] = "setup"
            /\ toClient[1].kind = "result" => pc[Client] \in {"data", "drain", "spin", "result"}
        BY <2>1, <2>4 DEF OneAnswer
      <3> QED
        BY <2>2, <3>1, <3>2 DEF InStep
    <2> QED
      BY <2>3, <2>4
  <1> QED
    BY <1>1, Invariance, PTL

\* No timer runs on from a transfer into the control connection, where its
\* SIGALRM would fail a select() or recv(): every path of the send_*() and
\* recv_*() functions stops it or has let it run out (stop_timer()).
THEOREM TimersStop == Spec => []AlarmsOff
  <1>1. IInv => AlarmsOff
    BY DEF IInv, Timers, ClientAlarm, ServerAlarm, AlarmsOff
  <1> QED
    BY <1>1, Invariance, PTL

\* A run in which nothing is killed, lost or refused fails only as a TCP_MAERTS
\* or TCP_CRR that is not timed, or as a TCP_MAERTS whose server's SIGALRM came
\* before its loop (recv_tcp_maerts() starts the timer before accept()); no
\* other order of the two ends' data, timers and shutdowns makes exit(1) of a
\* test.
THEOREM FailuresHaveReasons == Spec => []NoFalseFailure
  <1>1. IInv => NoFalseFailure
    BY DEF IInv
  <1> QED
    BY <1>1, Invariance, PTL

-----------------------------------------------------------------------------
(* The figures that netperf reports.                                       *)

Settled == {"begin", "shutdown", "done"}

\* Netperf gets there with no other figure than the results bring, and its
\* counter stays as it was.
Rests ==
  \/ pc'[Client] \notin Settled
  \/ reported' = NoFigure
  \/ pc[Client] \in Settled /\ UNCHANGED <<test, reported>> /\ count'[Client] = count[Client]

LEMMA ClientRests ==
  ASSUME IInv, ClientStep, ~RecvResult
  PROVE  Rests
  <1> USE TwoProcesses DEF Client, Server, Process
  <1>t. /\ pc \in [Process -> Places] /\ (test = "REM_CPU" => reported = NoFigure)
    BY DEF IInv, TypeInv, PlacesOK, Control, Ways
  <1>1. CASE SendRequest \/ NoResponse \/ StartTransfer
    BY <1>1, <1>t DEF SendRequest, NoResponse, StartTransfer, Fail, EndProcess, Goto, Rests, Settled
  <1>2. CASE RecvSetup
    BY <1>2, <1>t DEF RecvSetup, Fail, EndProcess, Goto, Rests, Settled, tally
  <1>3. CASE ShutdownControl
    BY <1>3, <1>t DEF ShutdownControl, EndProcess, Rests, Settled, tally
  <1>4. CASE TcpStreamSend \/ TcpStreamTransfer \/ TcpStreamStop \/ TcpStreamError \/ TcpStreamDrain
    BY <1>4, <1>t DEF TcpStreamSend, TcpStreamTransfer, TcpStreamStop, TcpStreamError, TcpStreamDrain,
                      StreamSend, StreamTransfer, StreamStop, Fail, EndProcess, Goto, Rests, Settled
  <1>5. CASE TcpMaertsRecv \/ TcpMaertsEnd \/ TcpMaertsLate
    BY <1>5, <1>t DEF TcpMaertsRecv, TcpMaertsEnd, TcpMaertsLate, Fail, EndProcess, Goto, Rests, Settled
  <1>6. CASE RrSend \/ RrRecv \/ RrStop \/ TcpRrSpin \/ UdpSend \/ UdpStop
    BY <1>6, <1>t DEF RrSend, RrRecv, RrStop, TcpRrSpin, UdpSend, UdpStop, Goto, Rests, Settled
  <1>7. CASE ConnConnect \/ ConnRequest \/ ConnClosed \/ ConnError \/ ConnStop
    BY <1>7, <1>t DEF ConnConnect, ConnRequest, ConnClosed, ConnError, ConnStop,
                      Fail, EndProcess, Goto, Rests, Settled
  <1> QED
    BY <1>1, <1>2, <1>3, <1>4, <1>5, <1>6, <1>7 DEF ClientStep

LEMMA ServerRests ==
  ASSUME IInv, ServerStep
  PROVE  Rests
  <1> USE TwoProcesses DEF Client, Server, Process
  <1>t. pc \in [Process -> Places] /\ count \in [Process -> 0..Bound]
    BY DEF IInv, TypeInv, PlacesOK, FiguresOK
  <1>s. SUFFICES pc'[Client] = pc[Client] /\ count'[Client] = count[Client] /\ UNCHANGED <<test, reported>>
    BY DEF Rests
  <1>1. CASE Calibrate \/ Setup \/ Accept \/ RequestsEnd
    BY <1>1, <1>t DEF Calibrate, Setup, Accept, RequestsEnd, EndProcess, Goto, plan, tally
  <1>2. CASE TcpStreamRecv \/ TcpStreamResults
    BY <1>2, <1>t DEF TcpStreamRecv, TcpStreamResults, Goto, plan, tally
  <1>3. CASE TcpMaertsSend \/ TcpMaertsTransfer \/ TcpMaertsStop \/ TcpMaertsError \/ TcpMaertsResults
    BY <1>3, <1>t DEF TcpMaertsSend, TcpMaertsTransfer, TcpMaertsStop, TcpMaertsError, TcpMaertsResults,
                      StreamSend, StreamTransfer, StreamStop, FailWithResponse, EndProcess, Goto, plan, tally
  <1>4. CASE RrServerRecv \/ RrServerSend \/ RrServerError \/ RrServerResults
    BY <1>4, <1>t DEF RrServerRecv, RrServerSend, RrServerError, RrServerResults,
                      FailWithResponse, EndProcess, Goto, plan, tally
  <1>5. CASE UdpRecv \/ UdpResults
    BY <1>5, <1>t DEF UdpRecv, UdpResults, Goto, plan, tally
  <1>6. CASE CcAccept \/ CrrAccept \/ CrrRecv \/ CrrReply \/ CrrServerError \/ ConnResults
    BY <1>6, <1>t DEF CcAccept, CrrAccept, CrrRecv, CrrReply, CrrServerError, ConnResults, ConnDone,
                      FailWithResponse, EndProcess, Goto, plan, tally
  <1> QED
    BY <1>1, <1>2, <1>3, <1>4, <1>5, <1>6 DEF ServerStep

LEMMA OthersRest ==
  ASSUME IInv, [Next]_vars, ~ClientStep, ~ServerStep
  PROVE  Rests
  <1> USE TwoProcesses DEF Client, Server, Process
  <1>t. pc \in [Process -> Places]
    BY DEF IInv, TypeInv, PlacesOK
  <1>1. CASE RrRefused \/ SetupFails
    BY <1>1, <1>t DEF RrRefused, SetupFails, Fail, EndProcess, Goto, Rests, Settled, tally
  <1>2. CASE Alarm(Client)
    BY <1>2, <1>t DEF Alarm, Fail, EndProcess, Goto, Rests, Settled
  <1>3. CASE Alarm(Server)
    BY <1>3, <1>t DEF Alarm, Fail, EndProcess, Goto, Rests, Settled, plan, tally
  <1>4. CASE Killed(Client, "client") \/ Killed(Server, "server") \/ HostLost
    BY <1>4, <1>t DEF Killed, HostLost, EndProcess, Goto, Rests, Settled, tally
  <1>5. CASE UNCHANGED vars
    BY <1>5 DEF vars, plan, tally, Rests
  <1>6. CASE AcceptAlarm
    BY <1>6, <1>t DEF AcceptAlarm, EndProcess, Goto, Rests, Settled, plan, tally
  <1> QED
    BY <1>1, <1>2, <1>3, <1>4, <1>5, <1>6 DEF Next, Process

\* The results: what the books say of them when they are on their way.
LEMMA ResultAgrees ==
  ASSUME IInv, RecvResult, Head(toClient).kind # "error"
  PROVE  CountsAgree'
  <1> USE TwoProcesses DEF Client, Server, Process
  <1>1. /\ pc[Client] = "result" /\ Answered /\ reported' = toClient[1].figure
        /\ UNCHANGED <<test, count>>
    BY TheResult DEF RecvResult, plan
  <1>2. count[Client] \in Nat /\ test \in Tests
    BY NetperfAssumption DEF IInv, TypeInv, FiguresOK, PlanOK, Bound
  <1>b. StreamBooks /\ MaertsBooks /\ UdpBooks /\ RrAnswer /\ ConnAnswer /\ test # "REM_CPU"
    BY <1>1, TheResult DEF IInv, Books, RecvResult
  <1>3. CASE test = "TCP_STREAM"
    BY <1>1, <1>b, <1>3 DEF StreamBooks, CountsAgree, RR, CONN
  <1>4. CASE test = "TCP_MAERTS"
    BY <1>1, <1>b, <1>4 DEF MaertsBooks, CountsAgree, RR, CONN
  <1>5. CASE test \in RR
    <2>1. Waiting \in 0..1
      BY DEF Waiting
    <2> QED
      BY <1>1, <1>2, <1>b, <1>5, <2>1 DEF RrAnswer, CountsAgree, RR
  <1>6. CASE test \in CONN
    BY <1>1, <1>b, <1>6 DEF ConnAnswer, CountsAgree, CONN
  <1>7. CASE test = "UDP_STREAM"
    BY <1>1, <1>b, <1>7 DEF UdpBooks, CountsAgree, RR, CONN
  <1> QED
    BY <1>2, <1>3, <1>4, <1>5, <1>6, <1>7, <1>b DEF Tests, TCP, UDP, RR, CONN

\* The figure netperf reports is the server's, and it is of the transfer that
\* netperf counted: over TCP all of it but a message cut short by an alarm, at
\* most one transaction more at the server, and no more datagrams received
\* than sent (the results of the recv_*() functions).
THEOREM FiguresAgree == Spec => []CountsAgree
  <1>1. Init => CountsAgree
    BY DEF Init, CountsAgree
  <1>2. ASSUME IInv, CountsAgree, [Next]_vars PROVE CountsAgree'
    <2>1. CASE RecvResult
      <3>1. CASE Head(toClient).kind = "error"
        <4>1. Fail(Client) /\ pc \in [Process -> Places] /\ Client \in Process
          BY <1>2, <2>1, <3>1, TwoProcesses DEF RecvResult, IInv, TypeInv, PlacesOK
        <4>2. pc'[Client] = "failed"
          BY <4>1 DEF Fail, EndProcess, Goto
        <4> QED
          BY <4>2 DEF CountsAgree
      <3>2. CASE Head(toClient).kind # "error"
        BY <1>2, <2>1, <3>2, ResultAgrees
      <3> QED
        BY <3>1, <3>2
    <2>2. CASE ~RecvResult
      <3>1. Rests
        BY <1>2, <2>2, ClientRests, ServerRests, OthersRest
      <3> QED
        BY <1>2, <3>1 DEF Rests, Settled, CountsAgree, NoFigure, MaxFigure
    <2> QED
      BY <2>1, <2>2
  <1> QED
    BY <1>1, <1>2, Invariance, PTL DEF Spec
=============================================================================

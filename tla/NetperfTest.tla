----------------------------- MODULE NetperfTest -----------------------------
(****************************************************************************)
(* One run of netperf against a netserver: the requests and responses of    *)
(* the control connection, and the timed or counted transfer over a data    *)
(* connection that each request sets up.                                    *)
(*                                                                          *)
(* Processes: netperf (Client), in main() and a send_*() function, and the  *)
(* netserver child that accept() and fork() made for it (Server), in        *)
(* process_requests() and a recv_*() function.  Each has one SIGALRM timer, *)
(* whose handler sets times_up and interrupts a call it finds blocked:      *)
(* `io` is "call" from the test of the loop's condition to the return of    *)
(* the call, so an alarm then may or may not come in time to interrupt it.  *)
(*                                                                          *)
(* Data are counted in units: a message of TCP_STREAM or TCP_MAERTS is two, *)
(* so that a send() can be cut in half, any other message is one.  TCP_CRR  *)
(* and TCP_CC make a connection per transaction; `side` is then the one     *)
(* connection of the moment, and the server's "none" until it is accepted.  *)
(*                                                                          *)
(* External: TCP delivers in order, UDP may lose; a dead process has its    *)
(* sockets closed, a lost host (power, cable) says nothing, and TCP gives   *)
(* up in the end on what it does not acknowledge.  Time: a timer of the     *)
(* test's length may end at any moment of the transfer, and of the accept() *)
(* that recv_tcp_maerts() starts it for; one with PAD_TIME added ends only  *)
(* if nothing else can happen any more in the transfer, or if the peer's    *)
(* timer is lost (Untimed); the 120 s and 60 s of the control connection    *)
(* pass only if the host is lost.                                           *)
(****************************************************************************)
EXTENDS Naturals, Sequences

CONSTANTS
  TimedTests,     (* tests run for a time, test_time                       *)
  CountedTests,   (* tests run for a number of bytes or transactions       *)
  MaxIterations,  (* iteration_max, the confidence interval's iterations   *)
  Limit,          (* test_bytes, test_trans: the length of a counted test  *)
  Window,         (* units a connection holds between the two              *)
  MaxCount,       (* bound: units or transactions of a timed test          *)
  Faults          (* subset of {"client", "server", "host"}                *)

TCP   == {"TCP_STREAM", "TCP_MAERTS", "TCP_RR"}
UDP   == {"UDP_STREAM", "UDP_RR"}
RR    == {"TCP_RR", "UDP_RR"}
CONN  == {"TCP_CRR", "TCP_CC"}   (* a connection for each transaction       *)
Tests == TCP \cup UDP \cup CONN \cup {"REM_CPU"}

\* A counted UDP_STREAM, which netperf says it cannot do, is left out.
ASSUME NetperfAssumption ==
  /\ TimedTests \subseteq Tests
  /\ CountedTests \subseteq Tests \ {"UDP_STREAM"}
  /\ {MaxIterations, Limit, Window, MaxCount} \subseteq Nat \ {0}
  /\ Faults \subseteq {"client", "server", "host"}

Client == "netperf"
Server == "netserver"
Process == {Client, Server}
Peer(p) == IF p = Client THEN Server ELSE Client
Ended == {"done", "failed", "killed"}

VARIABLES
  test, timed,    (* the test of this run; is its length a time?           *)
  iteration,      (* confidence_iteration                                  *)
  pc,             (* pc[p]: where the process is                           *)
  toServer,       (* requests on the control connection                    *)
  toClient,       (* responses: kind, iteration (history), figure          *)
  alarm,          (* alarm[p]: "off", "test" or "padded"                   *)
  times_up,       (* times_up[p]                                           *)
  io,             (* io[p]: its next or blocked data call                  *)
  side,           (* side[p]: its end of the data connection               *)
  flow,           (* flow[p]: units it sent that are not received          *)
  left,           (* units of the message in hand send() has not taken     *)
  remaining,      (* remaining[p]: bytes_remaining, trans_remaining        *)
  count,          (* count[p]: what it counts as transferred               *)
  reported,       (* the figure of the results netperf received last       *)
  fault,          (* what has gone wrong                                   *)
  early           (* history: SIGALRM came before recv_tcp_maerts() sent   *)

control == <<toServer, toClient>>
timer   == <<alarm, times_up>>
data    == <<io, side, flow, left>>
tally   == <<remaining, count, reported>>
plan    == <<test, timed, fault, early>>
vars    == <<plan, iteration, pc, control, timer, data, tally>>

Both(v) == [p \in Process |-> v]
Less(a, b) == IF a < b THEN 0 ELSE a - b
Size == IF test \in {"TCP_STREAM", "TCP_MAERTS"} THEN 2 ELSE 1
MaxFigure == MaxCount + Limit + 1   (* no count can be higher              *)
NoFigure  == MaxFigure + 1

Init ==
  /\ timed \in BOOLEAN
  /\ test \in IF timed THEN TimedTests ELSE CountedTests
  /\ fault = "none" /\ early = FALSE /\ iteration = 1
  /\ pc = [p \in Process |-> IF p = Client THEN "begin" ELSE "idle"]
  /\ toServer = <<>> /\ toClient = <<>>
  /\ alarm = Both("off") /\ times_up = Both(FALSE)
  /\ io = Both("top") /\ side = Both("none") /\ flow = Both(0) /\ left = 0
  /\ remaining = Both(0) /\ count = Both(0) /\ reported = NoFigure

Goto(p, place) == pc' = [pc EXCEPT ![p] = place]
Close(p) == side' = [side EXCEPT ![p] = IF @ = "none" THEN @ ELSE "closed"]
Respond(kind, figure) ==
  toClient' = Append(toClient, [kind |-> kind, iteration |-> iteration, figure |-> figure])

\* The end of a process: the kernel closes its sockets and drops its timer.
EndProcess(p, how) ==
  /\ Goto(p, how)
  /\ Close(p)
  /\ alarm' = [alarm EXCEPT ![p] = "off"]
  /\ UNCHANGED <<test, timed, iteration, times_up, io, flow, left, tally>>

\* perror() and exit(1).
Fail(p) == EndProcess(p, "failed") /\ UNCHANGED <<control, fault, early>>

\* serv_errno set, send_response() and exit(1).
FailWithResponse ==
  EndProcess(Server, "failed") /\ Respond("error", 0) /\ UNCHANGED <<toServer, fault, early>>

-----------------------------------------------------------------------------
(* The control connection.                                                 *)

\* The head of the iteration loop and send_request(): counters and data
\* socket are new.
SendRequest ==
  /\ pc[Client] = "begin"
  /\ count' = [count EXCEPT ![Client] = 0]
  /\ times_up' = [times_up EXCEPT ![Client] = FALSE]
  /\ side' = [side EXCEPT ![Client] = "none"]
  /\ flow' = Both(0)
  /\ toServer' = Append(toServer, test)
  /\ Goto(Client, "setup")
  /\ UNCHANGED <<plan, iteration, toClient, alarm, io, left, remaining, reported>>

\* recv_request() and the dispatch, for CPU_CALIBRATE.
Calibrate ==
  /\ pc[Server] = "idle" /\ toServer # <<>> /\ Head(toServer) = "REM_CPU"
  /\ toServer' = Tail(toServer)
  /\ Respond("setup", 0)
  /\ UNCHANGED <<plan, iteration, pc, timer, data, tally>>

\* Mutation of ServerTimer: PAD_TIME is forgotten.
ServerTimerNoPad == IF timed THEN "test" ELSE "off"

\* The timer a recv_*() function starts: recv_tcp_stream() needs none, and
\* recv_tcp_maerts() starts its own before accept(), without PAD_TIME.
ServerTimer == IF timed THEN "padded" ELSE "off"

\* A recv_*() function to its setup response: the data socket and listen(),
\* which may fail, ...
Setup ==
  /\ pc[Server] = "idle" /\ toServer # <<>> /\ Head(toServer) # "REM_CPU"
  /\ toServer' = Tail(toServer)
  /\ Respond("setup", 0)
  /\ count' = [count EXCEPT ![Server] = 0]
  /\ remaining' = [remaining EXCEPT ![Server] = IF timed THEN 0 ELSE Limit]
  /\ side' = [side EXCEPT ![Server] = IF test \in CONN THEN "none" ELSE "open"]
  /\ io' = [io EXCEPT ![Server] = IF test \in CONN THEN "accept" ELSE "call"]
  /\ Goto(Server, IF test \in TCP THEN "accept" ELSE "data")
  /\ alarm' = [alarm EXCEPT ![Server] =
                 CASE test = "TCP_MAERTS" -> "test"
                   [] test \in UDP \cup CONN -> ServerTimer
                   [] OTHER -> "off"]
  /\ times_up' = [times_up EXCEPT ![Server] = ~timed]
  /\ UNCHANGED <<plan, iteration, flow, left, reported>>

SetupFails ==
  /\ pc[Server] = "idle" /\ toServer # <<>> /\ Head(toServer) # "REM_CPU"
  /\ fault = "none"
  /\ fault' = "refused"
  /\ toServer' = Tail(toServer)
  /\ EndProcess(Server, "failed")
  /\ Respond("error", 0)
  /\ UNCHANGED early

\* ... and accept(), whose connection may have come and gone.
Accept ==
  /\ pc[Server] = "accept" /\ side[Client] # "none"
  /\ io' = [io EXCEPT ![Server] = IF test = "TCP_MAERTS" THEN "top" ELSE "call"]
  /\ times_up' = [times_up EXCEPT ![Server] = ~timed /\ test = "TCP_RR"]
  /\ alarm' = IF test = "TCP_RR" THEN [alarm EXCEPT ![Server] = ServerTimer] ELSE alarm
  /\ Goto(Server, "data")
  /\ UNCHANGED <<plan, iteration, control, side, flow, left, tally>>

Awaits == pc[Client] \in {"setup", "result"}

\* recv_response() for the setup of a test, and of the calibration ...
RecvSetup ==
  /\ pc[Client] = "setup" /\ toClient # <<>>
  /\ IF Head(toClient).kind = "error"
     THEN Fail(Client)
     ELSE /\ toClient' = Tail(toClient)
          /\ Goto(Client, IF test = "REM_CPU" THEN "shutdown" ELSE "connect")
          /\ UNCHANGED <<plan, iteration, toServer, timer, data, tally>>

\* ... and for the results of the transfer; the iterations go on until the
\* confidence interval is met or there have been enough of them.
RecvResult ==
  /\ pc[Client] = "result" /\ toClient # <<>>
  /\ IF Head(toClient).kind = "error"
     THEN Fail(Client)
     ELSE /\ toClient' = Tail(toClient)
          /\ reported' = Head(toClient).figure
          /\ Close(Client)
          /\ \/ Goto(Client, "shutdown") /\ UNCHANGED iteration
             \/ /\ iteration < MaxIterations /\ test \notin CONN
                /\ iteration' = iteration + 1
                /\ Goto(Client, "begin")
          /\ UNCHANGED <<plan, toServer, timer, io, flow, left, remaining, count>>

\* recv_response_timed() with the connection closed, or after 120 s.
NoResponse ==
  /\ Awaits /\ toClient = <<>>
  /\ pc[Server] \in Ended \cup {"lost"}
  /\ Fail(Client)

\* shutdown_control(): netperf waits for the server to close as well, ...
ShutdownControl ==
  /\ pc[Client] = "shutdown" /\ pc[Server] \in Ended \cup {"lost"}
  /\ EndProcess(Client, IF pc[Server] = "lost" THEN "failed" ELSE "done")
  /\ UNCHANGED <<control, fault, early>>

\* ... which recv_request() does when it has read the last request.
RequestsEnd ==
  /\ pc[Server] = "idle" /\ toServer = <<>>
  /\ pc[Client] \in Ended \cup {"shutdown"}
  /\ EndProcess(Server, "done") /\ UNCHANGED <<control, fault, early>>

-----------------------------------------------------------------------------
(* The start of the transfer in netperf, and timers.                       *)

\* Mutation of ClientTimer: send_tcp_maerts() forgets PAD_TIME.
ClientTimerNoPad == IF timed THEN "test" ELSE "off"

ClientTimer ==
  IF ~timed THEN "off" ELSE IF test = "TCP_MAERTS" THEN "padded" ELSE "test"

\* connect() and start_timer(); a TCP_MAERTS must be timed.
StartTransfer ==
  /\ pc[Client] = "connect"
  /\ IF test \in TCP /\ pc[Server] # "accept"
     THEN Fail(Client)
     ELSE /\ side' = IF test \in CONN THEN side
                      ELSE [side EXCEPT ![Client] = IF test = "TCP_MAERTS" /\ ~timed THEN "closed" ELSE "open"]
          /\ Goto(Client, IF test = "TCP_MAERTS" /\ ~timed THEN "failed" ELSE "data")
          /\ alarm' = [alarm EXCEPT ![Client] = ClientTimer]
          /\ times_up' = [times_up EXCEPT ![Client] = ~timed]
          /\ remaining' = [remaining EXCEPT ![Client] = IF timed THEN 0 ELSE Limit]
          /\ io' = [io EXCEPT ![Client] = IF test = "TCP_MAERTS" THEN "call" ELSE "top"]
          /\ UNCHANGED <<plan, iteration, control, flow, left, count, reported>>

\* Is there a connection that accept() has not returned yet?
Backlog == side[Client] # "none" /\ side[Server] = "none"

\* Nothing more can come to the receiver p from a peer that is still there.
Drained(p) ==
  \/ io[p] = "call" /\ flow[Peer(p)] = 0 /\ side[Peer(p)] # "wr"
  \/ io[p] = "accept" /\ ~Backlog

\* recv_tcp_conn_rr() takes the 0 of a closed connection for a part of the
\* request and calls recv() again and again.
CrrSpins(p) ==
  test = "TCP_CRR" /\ p = Server /\ io[p] = "call" /\ flow[Client] = 0 /\ side[Client] = "closed"

\* recv_tcp_maerts() clears times_up after accept(): if the alarm came before
\* that, it sends for as long as netperf receives.
Untimed == test = "TCP_MAERTS" /\ pc[Server] = "data" /\ alarm[Server] = "off" /\ ~times_up[Server]

\* When an alarm can have run out (see Time above).
AlarmDue(p) ==
  \/ alarm[p] = "test" \/ pc[p] # "data"
  \/ p = Client /\ (Untimed \/ (Drained(p) /\ pc[Server] = "lost"))
  \/ /\ p = Server /\ Drained(p)
     /\ \/ pc[Client] \notin {"setup", "connect", "data"}
        \/ /\ pc[Client] = "data" /\ test \in RR
           /\ Drained(Client) /\ alarm[Client] = "off"

\* SIGALRM between start_timer() and the loop of recv_tcp_maerts(): accept()
\* fails with EINTR, which ends the process without a response, or it is not
\* waiting and nothing comes of times_up.
AcceptAlarm ==
  /\ pc[Server] = "accept" /\ alarm[Server] # "off"
  /\ early' = TRUE
  /\ \/ EndProcess(Server, "failed") /\ UNCHANGED <<control, fault>>
     \/ /\ alarm' = [alarm EXCEPT ![Server] = "off"]
        /\ times_up' = [times_up EXCEPT ![Server] = TRUE]
        /\ UNCHANGED <<test, timed, fault, iteration, pc, control, data, tally>>

\* SIGALRM: catcher() sets times_up and the call in progress fails with
\* EINTR; elsewhere than in a transfer that ends the process.
Alarm(p) ==
  /\ alarm[p] # "off" /\ pc[p] \notin {"lost", "accept"} /\ AlarmDue(p)
  /\ IF pc[p] \in {"data", "spin"}
     THEN /\ alarm' = [alarm EXCEPT ![p] = "off"]
          /\ times_up' = [times_up EXCEPT ![p] = TRUE]
          /\ \/ io[p] \in {"call", "connect", "accept"} /\ ~CrrSpins(p) /\ io' = [io EXCEPT ![p] = "intr"]
             \/ (alarm[p] = "test" \/ (p = Client /\ Untimed)) /\ UNCHANGED io
             \/ CrrSpins(p) /\ io' = [io EXCEPT ![p] = "send"]
          /\ UNCHANGED <<plan, iteration, pc, control, side, flow, left, tally>>
     ELSE Fail(p)

\* Mutation of GoesOn: remaining >= 0.
GoesOnAtZero(p) ==
  /\ ~times_up[p] \/ remaining[p] >= 0
  /\ timed => count[p] + Size <= MaxCount

\* Does p's loop go on?  Timed loops are bounded by MaxCount here.
GoesOn(p) ==
  /\ ~times_up[p] \/ remaining[p] > 0
  /\ timed => count[p] + Size <= MaxCount
LoopEnds(p) == times_up[p] /\ remaining[p] = 0

Sent(p, n)  == flow' = [flow EXCEPT ![p] = @ + n]
Taken(p, n) == flow' = [flow EXCEPT ![p] = @ - n]

\* A datagram is received in the end, or is lost, on the way or for want of room.
Datagram(p) == (flow[p] < Window /\ Sent(p, 1)) \/ UNCHANGED flow

-----------------------------------------------------------------------------
(* TCP_STREAM and TCP_MAERTS: send() in one, recv() in the other.          *)

\* The loop's condition and the call of send().
StreamSend(p) ==
  /\ pc[p] = "data" /\ io[p] = "top" /\ GoesOn(p)
  /\ io' = [io EXCEPT ![p] = "call"]
  /\ left' = Size
  /\ UNCHANGED <<plan, iteration, pc, control, timer, side, flow, tally>>

\* send() as TCP takes the units; it returns, and the message is counted,
\* when the last one is taken.
StreamTransfer(p) ==
  /\ pc[p] = "data" /\ io[p] = "call" /\ flow[p] < Window
  /\ side[Peer(p)] # "closed"
  /\ Sent(p, 1)
  /\ left' = left - 1
  /\ IF left = 1
     THEN /\ count' = [count EXCEPT ![p] = @ + Size]
          /\ remaining' = [remaining EXCEPT ![p] = Less(@, Size)]
          /\ io' = [io EXCEPT ![p] = "top"]
     ELSE UNCHANGED <<count, remaining, io>>
  /\ UNCHANGED <<plan, iteration, pc, control, timer, side, reported>>

\* Mutation of StreamStop: the send() cut short by the alarm is counted.
StreamStopCounts(p) ==
  /\ pc[p] = "data"
  /\ io[p] = "intr" \/ (io[p] = "top" /\ LoopEnds(p))
  /\ side' = [side EXCEPT ![p] = "wr"]
  /\ Goto(p, "drain")
  /\ count' = [count EXCEPT ![p] = IF io[p] = "intr" THEN @ + Size ELSE @]
  /\ UNCHANGED <<plan, iteration, control, timer, io, flow, left, remaining, reported>>

\* times_up, the byte count or a send() that was cut short: shutdown().
StreamStop(p) ==
  /\ pc[p] = "data"
  /\ io[p] = "intr" \/ (io[p] = "top" /\ LoopEnds(p))
  /\ side' = [side EXCEPT ![p] = "wr"]
  /\ Goto(p, "drain")
  /\ UNCHANGED <<plan, iteration, control, timer, io, flow, left, tally>>

\* send_tcp_stream().
TcpStreamSend == test = "TCP_STREAM" /\ StreamSend(Client)
TcpStreamTransfer == test = "TCP_STREAM" /\ StreamTransfer(Client)
TcpStreamStop == test = "TCP_STREAM" /\ StreamStop(Client)

TcpStreamError ==
  /\ test = "TCP_STREAM" /\ pc[Client] = "data" /\ io[Client] = "call"
  /\ side[Server] = "closed" \/ pc[Server] = "lost"
  /\ Fail(Client)

\* recv() until the server has closed too, or TCP gives a lost host up;
\* close().
TcpStreamDrain ==
  /\ test = "TCP_STREAM" /\ pc[Client] = "drain"
  /\ side[Server] = "closed" \/ pc[Server] = "lost"
  /\ Close(Client)
  /\ Goto(Client, "result")
  /\ UNCHANGED <<plan, iteration, control, timer, io, flow, left, tally>>

\* recv_tcp_stream(): recv() returns what there is, ...
TcpStreamRecv ==
  /\ test = "TCP_STREAM" /\ pc[Server] = "data"
  /\ \E n \in 1..Size :
       /\ n <= flow[Client]
       /\ Taken(Client, n)
       /\ count' = [count EXCEPT ![Server] = @ + n]
  /\ UNCHANGED <<plan, iteration, pc, control, timer, io, side, left, remaining, reported>>

\* ... and 0 at the end; shutdown(), results and close().
TcpStreamResults ==
  /\ test = "TCP_STREAM" /\ pc[Server] = "data"
  /\ flow[Client] = 0 /\ side[Client] \in {"wr", "closed"}
  /\ Close(Server)
  /\ Respond("result", count[Server])
  /\ Goto(Server, "idle")
  /\ UNCHANGED <<plan, iteration, toServer, timer, io, flow, left, tally>>

\* recv_tcp_maerts(): the sender is the server.
TcpMaertsSend == test = "TCP_MAERTS" /\ StreamSend(Server)
TcpMaertsTransfer == test = "TCP_MAERTS" /\ StreamTransfer(Server)
TcpMaertsStop == test = "TCP_MAERTS" /\ StreamStop(Server)

TcpMaertsError ==
  /\ test = "TCP_MAERTS" /\ pc[Server] = "data"
  /\ io[Server] = "call" \/ (io[Server] = "top" /\ ~times_up[Server])
  /\ side[Client] = "closed"
  /\ FailWithResponse

TcpMaertsResults ==
  /\ test = "TCP_MAERTS" /\ pc[Server] = "drain" /\ side[Client] = "closed"
  /\ Close(Server)
  /\ Respond("result", count[Server])
  /\ Goto(Server, "idle")
  /\ UNCHANGED <<plan, iteration, toServer, timer, io, flow, left, tally>>

\* send_tcp_maerts(): recv(), unless times_up, ...
TcpMaertsRecv ==
  /\ test = "TCP_MAERTS" /\ pc[Client] = "data" /\ io[Client] = "call" /\ ~times_up[Client]
  /\ \E n \in 1..Size :
       /\ n <= flow[Server]
       /\ Taken(Server, n)
       /\ count' = [count EXCEPT ![Client] = @ + n]
  /\ UNCHANGED <<plan, iteration, pc, control, timer, io, side, left, remaining, reported>>

\* Mutation of TcpMaertsEnd: no stop_timer().
TcpMaertsEndKeepTimer ==
  /\ test = "TCP_MAERTS" /\ pc[Client] = "data" /\ io[Client] = "call"
  /\ times_up[Client] \/ (flow[Server] = 0 /\ side[Server] \in {"wr", "closed"} /\ pc[Server] # "failed")
  /\ Close(Client)
  /\ Goto(Client, "result")
  /\ UNCHANGED <<plan, iteration, control, timer, io, flow, left, tally>>

\* ... until it returns 0; shutdown(), stop_timer() and close().
TcpMaertsEnd ==
  /\ test = "TCP_MAERTS" /\ pc[Client] = "data" /\ io[Client] = "call"
  /\ times_up[Client] \/ (flow[Server] = 0 /\ side[Server] \in {"wr", "closed"} /\ pc[Server] # "failed")
  /\ Close(Client)
  /\ alarm' = [alarm EXCEPT ![Client] = "off"]
  /\ Goto(Client, "result")
  /\ UNCHANGED <<plan, iteration, control, times_up, io, flow, left, tally>>

\* A recv() that the alarm interrupts, or whose connection the server never
\* accepted, is an error.
TcpMaertsLate ==
  /\ test = "TCP_MAERTS" /\ pc[Client] = "data"
  /\ io[Client] = "intr" \/ (io[Client] = "call" /\ pc[Server] = "failed")
  /\ Fail(Client)

-----------------------------------------------------------------------------
(* TCP_RR and UDP_RR: request and response, one transaction at a time.     *)

\* send_tcp_rr(), send_udp_rr(): the loop's condition and the request, ...
RrSend ==
  /\ test \in RR /\ pc[Client] = "data" /\ io[Client] = "top" /\ GoesOn(Client)
  /\ IF test = "TCP_RR" THEN Sent(Client, 1) ELSE Datagram(Client)
  /\ io' = [io EXCEPT ![Client] = "call"]
  /\ UNCHANGED <<plan, iteration, pc, control, timer, side, left, tally>>

\* ... the response, ...
RrRecv ==
  /\ test \in RR /\ pc[Client] = "data" /\ io[Client] = "call" /\ flow[Server] > 0
  /\ Taken(Server, 1)
  /\ count' = [count EXCEPT ![Client] = @ + 1]
  /\ remaining' = [remaining EXCEPT ![Client] = Less(@, 1)]
  /\ io' = [io EXCEPT ![Client] = "top"]
  /\ UNCHANGED <<plan, iteration, pc, control, timer, side, left, reported>>

\* Mutation of RrStop: after a timeout the results are not waited for.
RrStopEarly ==
  /\ test \in RR /\ pc[Client] = "data"
  /\ io[Client] = "intr" \/ (io[Client] = "top" /\ LoopEnds(Client))
  /\ IF io[Client] = "intr" /\ iteration < MaxIterations
     THEN Goto(Client, "begin") /\ iteration' = iteration + 1
     ELSE Goto(Client, "result") /\ UNCHANGED iteration
  /\ UNCHANGED <<plan, control, timer, data, tally>>

\* ... and the end of the loop, or of the wait for a response.
RrStop ==
  /\ test \in RR /\ pc[Client] = "data"
  /\ io[Client] = "intr" \/ (io[Client] = "top" /\ LoopEnds(Client))
  /\ Goto(Client, "result")
  /\ UNCHANGED <<plan, iteration, control, timer, data, tally>>

\* The server is gone.  A request that it did not read makes recv() fail (for
\* UDP, it may); else recv() returns 0, which send_tcp_rr() takes for a part
\* of the response, and calls it again and again.
RrRefused ==
  /\ test \in RR /\ pc[Client] = "data" /\ io[Client] = "call"
  /\ pc[Server] \in Ended \cup {"lost"}
  /\ test = "UDP_RR" => pc[Server] # "lost"
  /\ flow[Client] > 0 /\ flow[Server] = 0
  /\ Fail(Client)

TcpRrSpin ==
  /\ test = "TCP_RR" /\ pc[Client] = "data" /\ io[Client] = "call"
  /\ side[Server] = "closed" /\ flow = Both(0)
  /\ Goto(Client, "spin")
  /\ UNCHANGED <<plan, iteration, control, timer, data, tally>>

\* recv_tcp_rr(), recv_udp_rr(): a request, ...
RrServerRecv ==
  /\ test \in RR /\ pc[Server] = "data" /\ io[Server] = "call" /\ flow[Client] > 0
  /\ Taken(Client, 1)
  /\ io' = [io EXCEPT ![Server] = "send"]
  /\ UNCHANGED <<plan, iteration, pc, control, timer, side, left, tally>>

\* ... its response, ...
RrServerSend ==
  /\ test \in RR /\ pc[Server] = "data" /\ io[Server] = "send"
  /\ IF test = "TCP_RR" THEN Sent(Server, 1) ELSE Datagram(Server)
  /\ count' = [count EXCEPT ![Server] = @ + 1]
  /\ remaining' = [remaining EXCEPT ![Server] = Less(@, 1)]
  /\ io' = [io EXCEPT ![Server] = IF ~times_up[Server] \/ remaining[Server] > 1 THEN "call" ELSE "top"]
  /\ UNCHANGED <<plan, iteration, pc, control, timer, side, left, reported>>

RrServerError ==
  /\ test = "TCP_RR" /\ pc[Server] = "data" /\ io[Server] = "send"
  /\ side[Client] = "closed"
  /\ FailWithResponse

\* Mutation of RrServerResults: a closed connection does not end the loop.
RrServerResultsDeaf ==
  /\ test \in RR /\ pc[Server] = "data"
  /\ io[Server] \in {"top", "intr"}
  /\ alarm' = IF test = "TCP_RR" THEN [alarm EXCEPT ![Server] = "off"] ELSE alarm
  /\ Close(Server)
  /\ Respond("result", count[Server])
  /\ Goto(Server, "idle")
  /\ UNCHANGED <<plan, iteration, toServer, times_up, io, flow, left, tally>>

\* ... and, after the last one, an alarm or (TCP) the end of the connection,
\* the results.
RrServerResults ==
  /\ test \in RR /\ pc[Server] = "data"
  /\ \/ io[Server] \in {"top", "intr"}
     \/ test = "TCP_RR" /\ io[Server] = "call" /\ flow[Client] = 0 /\ side[Client] = "closed"
  /\ alarm' = IF test = "TCP_RR" THEN [alarm EXCEPT ![Server] = "off"] ELSE alarm
  /\ Close(Server)
  /\ Respond("result", count[Server])
  /\ Goto(Server, "idle")
  /\ UNCHANGED <<plan, iteration, toServer, times_up, io, flow, left, tally>>

-----------------------------------------------------------------------------
(* UDP_STREAM.                                                             *)

\* send_udp_stream(): sendto() does not wait for the receiver.
UdpSend ==
  /\ test = "UDP_STREAM" /\ pc[Client] = "data" /\ GoesOn(Client)
  /\ Datagram(Client)
  /\ count' = [count EXCEPT ![Client] = @ + 1]
  /\ UNCHANGED <<plan, iteration, pc, control, timer, io, side, left, remaining, reported>>

UdpStop ==
  /\ test = "UDP_STREAM" /\ pc[Client] = "data" /\ LoopEnds(Client)
  /\ Goto(Client, "result")
  /\ UNCHANGED <<plan, iteration, control, timer, data, tally>>

\* recv_udp_stream(): messages until the alarm, and the results.
UdpRecv ==
  /\ test = "UDP_STREAM" /\ pc[Server] = "data" /\ io[Server] = "call" /\ flow[Client] > 0
  /\ Taken(Client, 1)
  /\ count' = [count EXCEPT ![Server] = @ + 1]
  /\ UNCHANGED <<plan, iteration, pc, control, timer, io, side, left, remaining, reported>>

UdpResults ==
  /\ test = "UDP_STREAM" /\ pc[Server] = "data" /\ io[Server] = "intr"
  /\ Close(Server)
  /\ Respond("result", count[Server])
  /\ Goto(Server, "idle")
  /\ UNCHANGED <<plan, iteration, toServer, timer, io, flow, left, tally>>

-----------------------------------------------------------------------------
(* TCP_CRR and TCP_CC: a connection for each transaction.                  *)

\* The loop's condition and the call of connect(), ...
ConnConnect ==
  /\ test \in CONN /\ pc[Client] = "data" /\ io[Client] = "top" /\ GoesOn(Client)
  /\ side' = [p \in Process |-> IF p = Client THEN "open"
                               ELSE IF pc[Server] \in Ended THEN side[Server] ELSE "none"]
  /\ io' = [io EXCEPT ![Client] = "connect"]
  /\ UNCHANGED <<plan, iteration, pc, control, timer, flow, left, tally>>

\* ... its return and, in TCP_CRR, the request, which nobody is to read if the
\* server has closed already, ...
ConnRequest ==
  /\ test \in CONN /\ pc[Client] = "data" /\ io[Client] = "connect"
  /\ pc[Server] \notin Ended \cup {"lost"}
  /\ IF test = "TCP_CRR" /\ side[Server] # "closed" THEN Sent(Client, 1) ELSE UNCHANGED flow
  /\ io' = [io EXCEPT ![Client] = "call"]
  /\ UNCHANGED <<plan, iteration, pc, control, timer, side, left, tally>>

\* ... and recv() up to the server's close, with the response or without;
\* close().
ConnClosed ==
  /\ test \in CONN /\ pc[Client] = "data" /\ io[Client] = "call"
  /\ side[Server] = "closed" /\ flow[Client] = 0
  /\ Close(Client)
  /\ count' = [count EXCEPT ![Client] = @ + 1]
  /\ remaining' = [remaining EXCEPT ![Client] = Less(@, 1)]
  /\ io' = [io EXCEPT ![Client] = "top"]
  /\ UNCHANGED <<plan, iteration, pc, control, timer, flow, left, reported>>

\* A close() before the request was read resets the connection, as does the
\* server's end, and TCP gives a lost host up.
ConnError ==
  /\ test \in CONN /\ pc[Client] = "data"
  /\ \/ io[Client] = "connect" /\ pc[Server] \in Ended \cup {"lost"}
     \/ io[Client] = "call" /\ side[Server] = "none" /\ pc[Server] \in Ended
     \/ io[Client] = "call" /\ flow[Client] > 0 /\ (side[Server] = "closed" \/ pc[Server] = "lost")
  /\ Fail(Client)

\* The end of the loop, or the alarm; a socket is then left open.
ConnStop ==
  /\ test \in CONN /\ pc[Client] = "data"
  /\ io[Client] = "intr" \/ (io[Client] = "top" /\ LoopEnds(Client))
  /\ Goto(Client, "result")
  /\ UNCHANGED <<plan, iteration, control, timer, data, tally>>

\* The server's transaction is over: close(), and the loop's condition.
ConnDone ==
  /\ side' = [side EXCEPT ![Server] = "closed"]
  /\ count' = [count EXCEPT ![Server] = @ + 1]
  /\ remaining' = [remaining EXCEPT ![Server] = Less(@, 1)]
  /\ io' = [io EXCEPT ![Server] = IF ~times_up[Server] \/ remaining[Server] > 1 THEN "accept" ELSE "top"]

\* recv_tcp_cc(): accept() and close().
CcAccept ==
  /\ test = "TCP_CC" /\ pc[Server] = "data" /\ io[Server] = "accept" /\ Backlog
  /\ ConnDone
  /\ UNCHANGED <<plan, iteration, pc, control, timer, flow, left, reported>>

\* recv_tcp_conn_rr(): accept(); the loop that reads the request has !times_up
\* for a condition, which is false in a counted test, ...
CrrAccept ==
  /\ test = "TCP_CRR" /\ pc[Server] = "data" /\ io[Server] = "accept" /\ Backlog
  /\ side' = [side EXCEPT ![Server] = "open"]
  /\ io' = [io EXCEPT ![Server] = IF times_up[Server] THEN "send" ELSE "call"]
  /\ UNCHANGED <<plan, iteration, pc, control, timer, flow, left, tally>>

CrrRecv ==
  /\ test = "TCP_CRR" /\ pc[Server] = "data" /\ io[Server] = "call" /\ flow[Client] > 0
  /\ Taken(Client, 1)
  /\ io' = [io EXCEPT ![Server] = "send"]
  /\ UNCHANGED <<plan, iteration, pc, control, timer, side, left, tally>>

\* ... the response, which fails if netperf is gone, ...
CrrReply ==
  /\ test = "TCP_CRR" /\ pc[Server] = "data" /\ io[Server] = "send"
  /\ ConnDone
  /\ UNCHANGED <<plan, iteration, pc, control, timer, flow, left, reported>>

CrrServerError ==
  /\ test = "TCP_CRR" /\ pc[Server] = "data" /\ io[Server] = "send"
  /\ side[Client] = "closed"
  /\ FailWithResponse

\* ... and the results, with listen() still going on.
ConnResults ==
  /\ test \in CONN /\ pc[Server] = "data" /\ io[Server] \in {"top", "intr"}
  /\ Respond("result", count[Server])
  /\ Goto(Server, "idle")
  /\ UNCHANGED <<plan, iteration, toServer, timer, data, tally>>

-----------------------------------------------------------------------------
(* Faults: one at most.                                                    *)

Killed(p, what) ==
  /\ fault = "none" /\ what \in Faults /\ pc[p] \notin Ended
  /\ fault' = what
  /\ EndProcess(p, "killed")
  /\ UNCHANGED <<control, early>>

HostLost ==
  /\ fault = "none" /\ "host" \in Faults /\ pc[Server] \notin Ended
  /\ fault' = "host"
  /\ Goto(Server, "lost")
  /\ alarm' = [alarm EXCEPT ![Server] = "off"]
  /\ UNCHANGED <<test, timed, early, iteration, control, times_up, data, tally>>

ClientStep ==
  \/ SendRequest \/ RecvSetup \/ RecvResult \/ NoResponse \/ ShutdownControl
  \/ StartTransfer
  \/ TcpStreamSend \/ TcpStreamTransfer \/ TcpStreamStop \/ TcpStreamError
  \/ TcpStreamDrain
  \/ TcpMaertsRecv \/ TcpMaertsEnd \/ TcpMaertsLate
  \/ RrSend \/ RrRecv \/ RrStop \/ TcpRrSpin
  \/ UdpSend \/ UdpStop
  \/ ConnConnect \/ ConnRequest \/ ConnClosed \/ ConnError \/ ConnStop

ServerStep ==
  \/ Calibrate \/ Setup \/ Accept \/ RequestsEnd
  \/ TcpStreamRecv \/ TcpStreamResults
  \/ TcpMaertsSend \/ TcpMaertsTransfer \/ TcpMaertsStop \/ TcpMaertsError \/ TcpMaertsResults
  \/ RrServerRecv \/ RrServerSend \/ RrServerError \/ RrServerResults
  \/ UdpRecv \/ UdpResults
  \/ CcAccept \/ CrrAccept \/ CrrRecv \/ CrrReply \/ CrrServerError \/ ConnResults

Next ==
  \/ ClientStep \/ ServerStep
  \/ RrRefused \/ SetupFails \/ AcceptAlarm
  \/ \E p \in Process : Alarm(p)
  \/ Killed(Client, "client") \/ Killed(Server, "server") \/ HostLost

\* netperf waits for data of a lost host, and TCP may have nothing to resend.
LostUnnoticed ==
  /\ pc[Server] = "lost" /\ flow[Server] = 0
  /\ \/ pc[Client] = "drain"
     \/ test \in RR \cup CONN /\ pc[Client] = "data" /\ io[Client] = "call"

\* The processes are scheduled and timers run out.  No error is promised to
\* who waits for a lost host, or for a datagram.
Fairness ==
  /\ WF_vars(~LostUnnoticed /\ ClientStep)
  /\ WF_vars(ServerStep)
  /\ WF_vars(test = "TCP_RR" /\ ~LostUnnoticed /\ RrRefused)
  /\ WF_vars(AcceptAlarm) /\ \A p \in Process : WF_vars(Alarm(p))

Spec == Init /\ [][Next]_vars
LiveSpec == Spec /\ Fairness

-----------------------------------------------------------------------------
(* Properties.                                                             *)

Message == [kind : {"setup", "result", "error"}, iteration : 1..MaxIterations, figure : Nat]

\* Types and ranges.  A counted test moves its length, rounded up to a message,
\* and no more, on both sides (bytes_remaining, trans_remaining).
TypeOK ==
  /\ timed \in BOOLEAN /\ test \in IF timed THEN TimedTests ELSE CountedTests
  /\ fault \in Faults \cup {"none", "refused"} /\ early \in BOOLEAN
  /\ iteration \in 1..MaxIterations
  /\ pc[Client] \in {"begin", "setup", "connect", "data", "drain", "spin", "result", "shutdown"} \cup Ended
  /\ pc[Server] \in {"idle", "accept", "data", "drain", "lost"} \cup Ended
  /\ toServer \in Seq(Tests) /\ toClient \in Seq(Message)
  /\ alarm \in [Process -> {"off", "test", "padded"}]
  /\ times_up \in [Process -> BOOLEAN]
  /\ io \in [Process -> {"top", "call", "send", "intr", "connect", "accept"}]
  /\ side \in [Process -> {"none", "open", "wr", "closed"}]
  /\ flow \in [Process -> 0..Window] /\ left \in 0..2
  /\ remaining \in [Process -> 0..Limit]
  /\ \A p \in Process : count[p] \in IF timed THEN 0..MaxCount ELSE 0..(Limit + 1)
  /\ DOMAIN count = Process
  /\ reported \in 0..NoFigure

\* Requests and responses stay in step although neither carries a number: a
\* response on its way is the only one, belongs to this iteration, and is of
\* the kind that netperf is about to wait for (recv_response() in the send_*()
\* functions takes whatever comes for it).
InStep ==
  pc[Client] \notin Ended =>
    /\ Len(toServer) + Len(toClient) <= 1
    /\ \A i \in 1..Len(toClient) :
         LET m == toClient[i] IN
         /\ m.iteration = iteration
         /\ m.kind = "setup"  => pc[Client] = "setup"
         /\ m.kind = "result" => pc[Client] \in {"data", "drain", "spin", "result"}

\* The figure netperf reports is the server's, and the two sides counted the
\* same transfer: all of it over TCP but a message that an alarm cut short
\* (which only the receiver counts), at most one transaction more at the
\* server, and no more datagrams received than sent.
CountsAgree ==
  reported # NoFigure /\ pc[Client] \in {"begin", "shutdown", "done"} =>
    CASE test = "TCP_STREAM" -> reported \in {count[Client], count[Client] + 1}
      [] test = "TCP_MAERTS" -> count[Client] \in {reported, reported + 1}
      [] test \in RR \cup CONN -> reported \in {count[Client], count[Client] + 1}
      [] OTHER               -> reported <= count[Client]

\* No timer runs on from a transfer into the control connection, where its
\* SIGALRM would fail the select() or recv() in progress (stop_timer()).
AlarmsOff ==
  /\ pc[Client] \in {"begin", "setup", "connect", "drain", "result", "shutdown"} => alarm[Client] = "off"
  /\ pc[Server] \in {"idle", "drain"} => alarm[Server] = "off"

\* A run fails only for a reason: a refused setup, a peer that is killed or
\* lost, a TCP_MAERTS that is not timed, a TCP_CRR that is not timed, whose
\* server never reads the request, or a TCP_MAERTS whose server's timer, which
\* recv_tcp_maerts() starts before accept(), runs out before the transfer.
\* Once a transfer has begun, no order of its data, timers and shutdowns at
\* the two ends makes it fail.
NoFalseFailure ==
  fault = "none" /\ (pc[Client] = "failed" \/ pc[Server] = "failed") =>
    \/ test = "TCP_MAERTS" /\ (~timed \/ early)
    \/ test = "TCP_CRR" /\ ~timed

\* Where netperf hangs: in a recv() that keeps returning 0, or that waits
\* without a timer for a datagram or a lost host.
ClientHangs ==
  \/ pc[Client] = "spin"
  \/ /\ alarm[Client] = "off"
     /\ \/ test = "UDP_RR" /\ pc[Client] = "data" /\ io[Client] = "call"
        \/ LostUnnoticed

\* netperf ends, or hangs in one of these ways: no timer, timeout or
\* shutdown is missing elsewhere.
ClientEnds == <>(pc[Client] \in Ended) \/ <>[]ClientHangs

\* The netserver child ends after its netperf, unless it waits in accept() for
\* a connection that will not come or, in a counted UDP_RR, for a datagram.
ServerEnds ==
  pc[Client] \in Ended ~>
    \/ pc[Server] \in Ended \cup {"lost"}
    \/ pc[Server] = "accept" /\ side[Client] = "none" /\ alarm[Server] = "off"
    \/ pc[Server] = "data" /\ io[Server] = "accept" /\ ~Backlog /\ alarm[Server] = "off"
    \/ test = "UDP_RR" /\ ~timed /\ pc[Server] = "data" /\ io[Server] = "call" /\ flow[Client] = 0

=============================================================================

----------------------------- MODULE UartBridge -----------------------------
(***************************************************************************)
(* The bridge from a TCP port to the serial port of IpdbgUart              *)
(* (sw/UartBridge/UartBridge.cpp): main() with its accept loop, the thread *)
(* of a session, and the two pump threads of the session.  They share the  *)
(* socket of the client, the serial port, `running', `sessionActive' and   *)
(* `serialFailed'; a step is what a thread does up to its next access to   *)
(* one of them.                                                            *)
(*                                                                         *)
(* A connection is what its far end is to the bridge: "open", or "left"    *)
(* once the client has closed it or its sending side.  Clients may come    *)
(* and go at any time, and the serial port may be lost at any time.        *)
(***************************************************************************)
EXTENDS Naturals, Sequences

CONSTANTS
  None,          \* no connection
  Backlog        \* connections the system keeps for accept()

ASSUME BridgeAssumption == Backlog \in Nat \ {0} /\ None \notin {"open", "left"}

VARIABLES
  main,          \* where main() is
  cur,           \* main: the connection accept() returned
  session,       \* where the session thread is; "ended" until it is joined
  fd,            \* the connection of the session, None when closed
  down, up,      \* where the pumps are
  buf, endOfFile,             \* up: what it has read, and its counter
  sessionActive, serialFailed, running,
  shut,          \* shutdown(fd, SHUT_BOTH) was called
  backlog,       \* connections not yet accepted
  serial,        \* the serial port: "ok" or "lost"
  rx             \* received from the serial port and not yet read: "empty",
                 \* "fresh", or "stale" when it is older than the session

mainVars    == <<main, cur, sessionActive>>
sessionVars == <<session, fd>>
pumpVars    == <<down, up, buf, endOfFile, running, shut, serialFailed>>
worldVars   == <<backlog, serial, rx>>
vars == <<mainVars, sessionVars, pumpVars, worldVars>>

Connection == {"open", "left"}

\* The globals of the program, and a system with a serial port.
Init ==
  /\ main = "parseOptions" /\ cur = None
  /\ session = "none" /\ fd = None
  /\ down = "off" /\ up = "off" /\ buf = "empty" /\ endOfFile = 0
  /\ sessionActive = FALSE /\ serialFailed = FALSE
  /\ running = FALSE /\ shut = FALSE
  /\ backlog = <<>> /\ serial = "ok" /\ rx = "empty"

Alive == main # "exit"

-----------------------------------------------------------------------------
\* main(): a step of the start either succeeds or ends the program.
Starting(step, next) ==
  /\ main = step
  /\ main' \in {next, "exit"}
  /\ UNCHANGED <<cur, sessionActive, sessionVars, pumpVars, worldVars>>

ParseOptions     == Starting("parseOptions", "openSerial")
OpenSerial       == Starting("openSerial", "makeListenSocket")
MakeListenSocket == Starting("makeListenSocket", "accept")

Accept ==
  /\ main = "accept" /\ backlog # <<>>
  /\ cur' = Head(backlog) /\ backlog' = Tail(backlog)
  /\ main' = "decide"
  /\ UNCHANGED <<sessionActive, sessionVars, pumpVars, serial, rx>>

\* Already connected to another client: the new connection is closed.
Reject ==
  /\ main = "decide" /\ sessionActive
  /\ cur' = None /\ main' = "accept"
  /\ UNCHANGED <<sessionActive, sessionVars, pumpVars, worldVars>>

\* if (session.joinable()) session.join();
Join ==
  /\ main = "decide" /\ ~sessionActive
  /\ session \in {"none", "ended"} /\ session' = "none"
  /\ main' = "launch"
  /\ UNCHANGED <<cur, sessionActive, fd, pumpVars, worldVars>>

Launch ==
  /\ main = "launch"
  /\ sessionActive' = TRUE
  /\ session' = "flush" /\ fd' = cur /\ cur' = None
  /\ main' = "accept"
  /\ UNCHANGED <<pumpVars, worldVars>>

-----------------------------------------------------------------------------
\* runSession()
SessionStep(step, next) == Alive /\ session = step /\ session' = next

\* Mutant: what the last session left is not dropped.
FlushNothing ==
  /\ SessionStep("flush", "joinDown")
  /\ running' = TRUE /\ shut' = FALSE
  /\ down' = "loop" /\ up' = "setup" /\ buf' = "empty" /\ endOfFile' = 0
  /\ UNCHANGED <<mainVars, fd, serialFailed, worldVars>>

\* sp_flush(), then the two threads start.
Flush ==
  /\ SessionStep("flush", "joinDown")
  /\ rx' = "empty"
  /\ running' = TRUE /\ shut' = FALSE
  /\ down' = "loop" /\ up' = "setup" /\ buf' = "empty" /\ endOfFile' = 0
  /\ UNCHANGED <<mainVars, fd, serialFailed, backlog, serial>>

JoinDown ==
  /\ SessionStep("joinDown", "joinUp")
  /\ down = "done"
  /\ UNCHANGED <<mainVars, fd, pumpVars, worldVars>>

\* Mutant: the second pump is not waited for.
JoinUpSkipped ==
  /\ SessionStep("joinUp", "close")
  /\ UNCHANGED <<mainVars, fd, pumpVars, worldVars>>

JoinUp ==
  /\ SessionStep("joinUp", "close")
  /\ up = "done"
  /\ UNCHANGED <<mainVars, fd, pumpVars, worldVars>>

CloseSocket ==
  /\ SessionStep("close", "check")
  /\ fd' = None
  /\ UNCHANGED <<mainVars, pumpVars, worldVars>>

\* The serial port is lost: the program ends.
Exit ==
  /\ Alive /\ session = "check" /\ serialFailed
  /\ main' = "exit"
  /\ UNCHANGED <<cur, sessionActive, sessionVars, pumpVars, worldVars>>

\* What is still in the receive buffer now belongs to no session.
Clear ==
  /\ SessionStep("check", "ended")
  /\ ~serialFailed
  /\ sessionActive' = FALSE
  /\ rx' = IF rx = "empty" THEN "empty" ELSE "stale"
  /\ UNCHANGED <<main, cur, fd, pumpVars, backlog, serial>>

-----------------------------------------------------------------------------
\* pumpSocketToSerial()
DownStep(step, next) == Alive /\ down = step /\ down' = next

DownLoop ==
  /\ DownStep("loop", IF running THEN "recv" ELSE "leave")
  /\ UNCHANGED <<mainVars, sessionVars, up, buf, endOfFile, running, shut, serialFailed, worldVars>>

\* recv() returns bytes of the client.
DownReceives ==
  /\ DownStep("recv", "write")
  /\ fd = "open" /\ ~shut
  /\ UNCHANGED <<mainVars, sessionVars, up, buf, endOfFile, running, shut, serialFailed, worldVars>>

\* recv() returns 0 or an error.
DownEndOfFile ==
  /\ DownStep("recv", "leave")
  /\ fd = "left" \/ shut
  /\ UNCHANGED <<mainVars, sessionVars, up, buf, endOfFile, running, shut, serialFailed, worldVars>>

\* sp_blocking_write() without a timeout.
DownWrites ==
  /\ \/ DownStep("write", "loop") /\ UNCHANGED serialFailed
     \/ serial = "lost" /\ DownStep("write", "leave") /\ serialFailed' = TRUE
  /\ UNCHANGED <<mainVars, sessionVars, up, buf, endOfFile, running, shut, worldVars>>

\* Mutant: the other pump is not told.
DownLeavesSilently ==
  /\ DownStep("leave", "shutdown")
  /\ UNCHANGED <<mainVars, sessionVars, up, buf, endOfFile, running, shut, serialFailed, worldVars>>

DownLeaves ==
  /\ DownStep("leave", "shutdown")
  /\ running' = FALSE
  /\ UNCHANGED <<mainVars, sessionVars, up, buf, endOfFile, shut, serialFailed, worldVars>>

DownShuts ==
  /\ DownStep("shutdown", "done")
  /\ shut' = TRUE
  /\ UNCHANGED <<mainVars, sessionVars, up, buf, endOfFile, running, serialFailed, worldVars>>

-----------------------------------------------------------------------------
\* pumpSerialToSocket()
UpStep(step, next) == Alive /\ up = step /\ up' = next

UpSetup ==
  /\ \/ UpStep("setup", "loop") /\ UNCHANGED serialFailed
     \/ serial = "lost" /\ UpStep("setup", "leave") /\ serialFailed' = TRUE
  /\ UNCHANGED <<mainVars, sessionVars, down, buf, endOfFile, running, shut, worldVars>>

UpLoop ==
  /\ UpStep("loop", IF running THEN "wait" ELSE "leave")
  /\ UNCHANGED <<mainVars, sessionVars, down, buf, endOfFile, running, shut, serialFailed, worldVars>>

\* sp_wait() ends after the timeout, sp_nonblocking_read() returns 0.
UpTimeout ==
  /\ UpStep("wait", "loop")
  /\ serial = "ok" /\ rx = "empty"
  /\ UNCHANGED <<mainVars, sessionVars, down, buf, endOfFile, running, shut, serialFailed, worldVars>>

UpReads ==
  /\ UpStep("wait", "send")
  /\ rx # "empty"
  /\ buf' = rx /\ rx' = "empty" /\ endOfFile' = 0
  /\ UNCHANGED <<mainVars, sessionVars, down, running, shut, serialFailed, backlog, serial>>

\* Mutant: one more.
EndOfFileLimitPlusOne == 4

EndOfFileLimit == 3

\* Readable long before the timeout, but nothing to read: the device is gone.
UpEndOfFile ==
  /\ serial = "lost" /\ rx = "empty"
  /\ IF endOfFile + 1 >= EndOfFileLimit
     THEN UpStep("wait", "leave") /\ serialFailed' = TRUE /\ UNCHANGED endOfFile
     ELSE UpStep("wait", "loop") /\ endOfFile' = endOfFile + 1 /\ UNCHANGED serialFailed
  /\ UNCHANGED <<mainVars, sessionVars, down, buf, running, shut, worldVars>>

\* sp_wait() or sp_nonblocking_read() fails.
UpFails ==
  /\ UpStep("wait", "leave")
  /\ serial = "lost"
  /\ serialFailed' = TRUE
  /\ UNCHANGED <<mainVars, sessionVars, down, buf, endOfFile, running, shut, worldVars>>

\* send() until everything is sent: a client that does not read blocks it.
UpSends ==
  /\ UpStep("send", "loop")
  /\ ~shut
  /\ buf' = "empty"
  /\ UNCHANGED <<mainVars, sessionVars, down, endOfFile, running, shut, serialFailed, worldVars>>

UpSendFails ==
  /\ UpStep("send", "leave")
  /\ fd = "left" \/ shut
  /\ buf' = "empty"
  /\ UNCHANGED <<mainVars, sessionVars, down, endOfFile, running, shut, serialFailed, worldVars>>

UpLeaves ==
  /\ UpStep("leave", "shutdown")
  /\ running' = FALSE
  /\ UNCHANGED <<mainVars, sessionVars, down, buf, endOfFile, shut, serialFailed, worldVars>>

UpShuts ==
  /\ UpStep("shutdown", "done")
  /\ shut' = TRUE
  /\ UNCHANGED <<mainVars, sessionVars, down, buf, endOfFile, running, serialFailed, worldVars>>

-----------------------------------------------------------------------------
\* The world: clients, the serial line, the adapter.
ClientConnects ==
  /\ main \in {"accept", "decide", "launch"} /\ Len(backlog) < Backlog
  /\ backlog' = Append(backlog, "open")
  /\ UNCHANGED <<mainVars, sessionVars, pumpVars, serial, rx>>

\* A client closes its connection, wherever the bridge has it.
ClientLeaves ==
  /\ Alive
  /\ \/ \E i \in DOMAIN backlog :
          /\ backlog[i] = "open" /\ backlog' = [backlog EXCEPT ![i] = "left"]
          /\ UNCHANGED <<cur, fd>>
     \/ cur = "open" /\ cur' = "left" /\ UNCHANGED <<backlog, fd>>
     \/ fd = "open" /\ fd' = "left" /\ UNCHANGED <<backlog, cur>>
  /\ UNCHANGED <<main, sessionActive, session, pumpVars, serial, rx>>

\* The core answers, or only now what was asked in an earlier session.
ByteArrives ==
  /\ Alive /\ serial = "ok"
  /\ rx' = IF rx = "empty" /\ session \in {"joinDown", "joinUp", "close", "check"}
           THEN "fresh" ELSE IF rx = "fresh" THEN "fresh" ELSE "stale"
  /\ UNCHANGED <<mainVars, sessionVars, pumpVars, backlog, serial>>

SerialLost ==
  /\ Alive /\ serial = "ok" /\ serial' = "lost"
  /\ UNCHANGED <<mainVars, sessionVars, pumpVars, backlog, rx>>

-----------------------------------------------------------------------------
Main == ParseOptions \/ OpenSerial \/ MakeListenSocket \/ Accept \/ Reject \/ Join \/ Launch
Session == Flush \/ JoinDown \/ JoinUp \/ CloseSocket \/ Exit \/ Clear
Down == DownLoop \/ DownEndOfFile \/ DownWrites \/ DownLeaves \/ DownShuts
Up == \/ UpSetup \/ UpLoop \/ UpTimeout \/ UpReads \/ UpEndOfFile \/ UpFails
      \/ UpSendFails \/ UpLeaves \/ UpShuts
World == \/ ClientConnects \/ ClientLeaves \/ ByteArrives \/ SerialLost
         \/ DownReceives \/ UpSends     \* a client sends, a client reads

Next == Main \/ Session \/ Down \/ Up \/ World

\* Every thread is run; what a client does is its own affair.
Fairness == WF_vars(Main) /\ WF_vars(Session) /\ WF_vars(Down) /\ WF_vars(Up)

Spec == Init /\ [][Next]_vars /\ Fairness

-----------------------------------------------------------------------------
PumpsOff == down \in {"off", "done"} /\ up \in {"off", "done"}

Flags ==
  /\ sessionActive \in BOOLEAN /\ serialFailed \in BOOLEAN
  /\ running \in BOOLEAN /\ shut \in BOOLEAN

\* The type of the state; the up pump gives up at its third early wake-up.
TypeOK ==
  /\ main \in {"parseOptions", "openSerial", "makeListenSocket", "accept", "decide", "launch", "exit"}
  /\ cur \in Connection \cup {None} /\ fd \in Connection \cup {None}
  /\ session \in {"none", "flush", "joinDown", "joinUp", "close", "check", "ended"}
  /\ down \in {"off", "loop", "recv", "write", "leave", "shutdown", "done"}
  /\ up \in {"off", "setup", "loop", "wait", "send", "leave", "shutdown", "done"}
  /\ buf \in {"empty", "fresh", "stale"} /\ rx \in {"empty", "fresh", "stale"}
  /\ endOfFile \in 0..2
  /\ Flags
  /\ serial \in {"ok", "lost"}
  /\ backlog \in Seq(Connection) /\ Len(backlog) <= Backlog

\* The assignment `session = std::thread(...)' meets no thread that was not
\* joined (std::terminate otherwise), and no pump of an earlier session is
\* left that would share the serial port with the pumps of the new one.
ExclusivePort == main = "launch" => session = "none" /\ PumpsOff /\ fd = None

\* The socket is closed after both pumps have ended: the system may give its
\* number to the next connection, and a pump still at work would serve that.
SocketKept == ~PumpsOff => fd # None

\* What arrived before the session is not sent to its client, although the
\* last session may end with bytes unread and the core may answer late.
NoStaleByte == buf # "stale"

\* Who sees sessionActive cleared sees the socket closed: the next client is
\* never taken while the last one still has the bridge.
FlagTold == ~sessionActive => fd = None

\* Serial port and socket belong to one session from its start to its end.
PortOwnership == ExclusivePort /\ SocketKept /\ FlagTold

\* The session of a client that has closed its side comes to its end, whatever
\* the pumps are waiting for.
SessionEnds == fd = "left" ~> (fd # "left" \/ ~Alive)

\* A failure of the serial port that one pump has seen ends the program, though
\* the other pump may wait in recv() or in send() for a silent client.
FailureExits == serialFailed ~> ~Alive

\* The end of a session that one pump has seen reaches the other pump.
PumpsEnd == SessionEnds /\ FailureExits

=============================================================================

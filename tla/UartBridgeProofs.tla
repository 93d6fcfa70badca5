-------------------------- MODULE UartBridgeProofs --------------------------
(***************************************************************************)
(* The safety invariants of UartBridge for any length of the queue.  What  *)
(* the threads own is decided by where the session thread is: Ownership    *)
(* says, for each of its places, whether the pumps run and the socket is   *)
(* open, and is the inductive core of all of them.                         *)
(***************************************************************************)
EXTENDS UartBridge, TLAPS

InSession == {"joinDown", "joinUp", "close", "check"}

Ownership ==
  /\ session \in {"none", "ended"} => PumpsOff /\ fd = None /\ ~sessionActive
  /\ session \notin {"none", "ended"} => sessionActive
  /\ session = "flush" => PumpsOff /\ fd # None
  /\ session = "joinDown" => fd # None
  /\ session = "joinUp" => fd # None /\ down = "done"
  /\ session = "close" => fd # None /\ PumpsOff
  /\ session = "check" => fd = None /\ PumpsOff

Taking ==
  /\ main \in {"decide", "launch"} => cur # None
  /\ main = "launch" => session = "none"

Freshness ==
  /\ buf # "stale"
  /\ session \in InSession => rx # "stale"

Places == TypeOK /\ Ownership /\ Taking

\* An action leaves the places alone that its UNCHANGED names.
USE DEF Connection, PumpsOff

LEMMA InitFlags == Init => Flags
BY DEF Init, Flags

LEMMA NextFlags == Flags /\ [Next]_vars => Flags'
<1> SUFFICES ASSUME Flags, [Next]_vars PROVE Flags'
  OBVIOUS
<1> USE DEF Flags, mainVars, sessionVars, pumpVars, worldVars
<1>1. CASE UNCHANGED vars
  BY <1>1 DEF vars
<1>2. CASE Main
  BY <1>2 DEF Main, ParseOptions, OpenSerial, MakeListenSocket, Starting, Accept, Reject, Join, Launch, vars
<1>3. CASE Session
  BY <1>3 DEF Session, Flush, JoinDown, JoinUp, CloseSocket, Exit, Clear
<1>4. CASE Down \/ DownReceives
  BY <1>4 DEF Down, DownLoop, DownReceives, DownEndOfFile, DownWrites, DownLeaves, DownShuts
<1>5. CASE Up \/ UpSends
  BY <1>5 DEF Up, UpSetup, UpLoop, UpTimeout, UpReads, UpEndOfFile, UpFails, UpSends, UpSendFails, UpLeaves, UpShuts
<1>6. CASE ClientConnects \/ ClientLeaves \/ ByteArrives \/ SerialLost
  BY <1>6 DEF ClientConnects, ClientLeaves, ByteArrives, SerialLost
<1> QED BY <1>1, <1>2, <1>3, <1>4, <1>5, <1>6 DEF Next, World

LEMMA InitPlaces == Init => Places /\ Freshness
BY InitFlags, BridgeAssumption DEF Init, Places, Freshness, TypeOK, Ownership, Taking, InSession

LEMMA MainPlaces ==
  ASSUME Places, Flags', Main
  PROVE  Places'
<1> USE DEF Places, TypeOK, Ownership, Taking, mainVars, sessionVars, pumpVars, worldVars, vars
<1>1. CASE ParseOptions \/ OpenSerial \/ MakeListenSocket
  BY <1>1, BridgeAssumption DEF ParseOptions, OpenSerial, MakeListenSocket, Starting
<1>2. CASE Accept
  <2>1. backlog' \in Seq(Connection) /\ Len(backlog') <= Backlog /\ cur' \in Connection
    BY <1>2, BridgeAssumption DEF Accept
  <2> QED BY <1>2, <2>1, BridgeAssumption DEF Accept
<1>3. CASE Reject
  BY <1>3, BridgeAssumption DEF Reject
<1>4. CASE Join
  BY <1>4, BridgeAssumption DEF Join
<1>5. CASE Launch
  BY <1>5, BridgeAssumption DEF Launch
<1> QED BY <1>1, <1>2, <1>3, <1>4, <1>5 DEF Main

LEMMA SessionPlaces ==
  ASSUME Places, Flags', Session
  PROVE  Places'
<1> USE DEF Places, TypeOK, Ownership, Taking, SessionStep, Alive, mainVars, sessionVars, pumpVars, worldVars
<1>1. CASE Flush
  BY <1>1, BridgeAssumption DEF Flush
<1>2. CASE JoinDown
  BY <1>2, BridgeAssumption DEF JoinDown
<1>3. CASE JoinUp
  BY <1>3, BridgeAssumption DEF JoinUp
<1>4. CASE CloseSocket
  BY <1>4, BridgeAssumption DEF CloseSocket
<1>5. CASE Exit
  BY <1>5, BridgeAssumption DEF Exit
<1>6. CASE Clear
  BY <1>6, BridgeAssumption DEF Clear
<1> QED BY <1>1, <1>2, <1>3, <1>4, <1>5, <1>6 DEF Session

LEMMA DownPlaces ==
  ASSUME Places, Flags', Down \/ DownReceives
  PROVE  Places'
<1> USE DEF Places, TypeOK, Ownership, Taking, DownStep, Alive, mainVars, sessionVars, worldVars
<1>1. CASE DownLoop
  BY <1>1, BridgeAssumption DEF DownLoop
<1>2. CASE DownReceives \/ DownEndOfFile
  BY <1>2, BridgeAssumption DEF DownReceives, DownEndOfFile
<1>3. CASE DownWrites
  BY <1>3, BridgeAssumption DEF DownWrites
<1>4. CASE DownLeaves \/ DownShuts
  BY <1>4, BridgeAssumption DEF DownLeaves, DownShuts
<1> QED BY <1>1, <1>2, <1>3, <1>4 DEF Down

LEMMA UpPlaces ==
  ASSUME Places, Flags', Up \/ UpSends
  PROVE  Places'
<1> USE DEF Places, TypeOK, Ownership, Taking, UpStep, Alive, mainVars, sessionVars, worldVars
<1>1. CASE UpSetup \/ UpLoop
  BY <1>1, BridgeAssumption DEF UpSetup, UpLoop
<1>2. CASE UpTimeout \/ UpReads
  BY <1>2, BridgeAssumption DEF UpTimeout, UpReads
<1>3. CASE UpEndOfFile
  BY <1>3, BridgeAssumption DEF UpEndOfFile, EndOfFileLimit
<1>4. CASE UpFails
  BY <1>4, BridgeAssumption DEF UpFails
<1>5. CASE UpSends \/ UpSendFails
  BY <1>5, BridgeAssumption DEF UpSends, UpSendFails
<1>6. CASE UpLeaves \/ UpShuts
  BY <1>6, BridgeAssumption DEF UpLeaves, UpShuts
<1> QED BY <1>1, <1>2, <1>3, <1>4, <1>5, <1>6 DEF Up

LEMMA WorldPlaces ==
  ASSUME Places, Flags', ClientConnects \/ ClientLeaves \/ ByteArrives \/ SerialLost
  PROVE  Places'
<1> USE DEF Places, TypeOK, Ownership, Taking, Alive, mainVars, sessionVars, pumpVars
<1>1. CASE ClientConnects
  <2>1. backlog' \in Seq(Connection) /\ Len(backlog') <= Backlog
    BY <1>1, BridgeAssumption DEF ClientConnects
  <2> QED BY <1>1, <2>1, BridgeAssumption DEF ClientConnects
<1>2. CASE ClientLeaves
  <2>1. backlog' \in Seq(Connection) /\ Len(backlog') <= Backlog
    BY <1>2, BridgeAssumption DEF ClientLeaves
  <2> QED BY <1>2, <2>1, BridgeAssumption DEF ClientLeaves
<1>3. CASE ByteArrives \/ SerialLost
  BY <1>3, BridgeAssumption DEF ByteArrives, SerialLost
<1> QED BY <1>1, <1>2, <1>3

LEMMA NextPlaces == Places /\ [Next]_vars => Places'
<1> SUFFICES ASSUME Places, [Next]_vars PROVE Places'
  OBVIOUS
<1>1. CASE UNCHANGED vars
  BY <1>1, NextFlags DEF Places, TypeOK, Ownership, Taking, vars, mainVars, sessionVars, pumpVars, worldVars
<1>2. CASE Next
  BY <1>2, NextFlags, MainPlaces, SessionPlaces, DownPlaces, UpPlaces, WorldPlaces DEF Next, World, Places, TypeOK
<1> QED BY <1>1, <1>2

LEMMA NextFreshness == Places /\ Freshness /\ [Next]_vars => Freshness'
<1> SUFFICES ASSUME Places, Freshness, [Next]_vars PROVE Freshness'
  OBVIOUS
<1> USE DEF Places, TypeOK, Ownership, Freshness, InSession, mainVars, sessionVars, pumpVars, worldVars
<1>1. CASE UNCHANGED vars
  BY <1>1 DEF vars
<1>2. CASE Main
  BY <1>2 DEF Main, ParseOptions, OpenSerial, MakeListenSocket, Starting, Accept, Reject, Join, Launch, vars
<1>3. CASE Session
  BY <1>3 DEF Session, SessionStep, Flush, JoinDown, JoinUp, CloseSocket, Exit, Clear
<1>4. CASE Down \/ DownReceives
  BY <1>4 DEF Down, DownLoop, DownReceives, DownEndOfFile, DownWrites, DownLeaves, DownShuts
<1>5. CASE UpReads
  <2>1. session \in InSession
    BY <1>5 DEF UpReads, UpStep
  <2> QED BY <1>5, <2>1 DEF UpReads
<1>6. CASE (Up /\ ~UpReads) \/ UpSends
  BY <1>6 DEF Up, UpSetup, UpLoop, UpTimeout, UpEndOfFile, UpFails, UpSends, UpSendFails, UpLeaves, UpShuts
<1>7. CASE ClientConnects \/ ClientLeaves \/ SerialLost
  BY <1>7 DEF ClientConnects, ClientLeaves, SerialLost
<1>8. CASE ByteArrives
  BY <1>8 DEF ByteArrives
<1> QED BY <1>1, <1>2, <1>3, <1>4, <1>5, <1>6, <1>7, <1>8 DEF Next, World

LEMMA Invariants == Spec => [](Places /\ Freshness)
BY InitPlaces, NextPlaces, NextFreshness, PTL DEF Spec

\* Type correctness for every length of the queue: in particular the early
\* wake-ups of the up pump are counted no further than two.
THEOREM TypeCorrect == Spec => []TypeOK
<1>1. Places => TypeOK
  BY DEF Places
<1> QED BY <1>1, Invariants, PTL

\* A session is started over no thread, no pump and no socket of another one.
THEOREM Exclusive == Spec => []ExclusivePort
<1>1. Places => ExclusivePort
  BY DEF Places, Ownership, Taking, ExclusivePort
<1> QED BY <1>1, Invariants, PTL

\* The socket outlives the pumps that use it.
THEOREM Kept == Spec => []SocketKept
<1>1. Places => SocketKept
  BY DEF Places, TypeOK, Ownership, SocketKept
<1> QED BY <1>1, Invariants, PTL

\* A client never gets what an earlier session left in the receive buffer.
THEOREM Fresh == Spec => []NoStaleByte
<1>1. Freshness => NoStaleByte
  BY DEF Freshness, NoStaleByte
<1> QED BY <1>1, Invariants, PTL

\* When sessionActive is clear, the socket of the last session is closed.
THEOREM Told == Spec => []FlagTold
<1>1. Places => FlagTold
  BY DEF Places, TypeOK, Ownership, FlagTold
<1> QED BY <1>1, Invariants, PTL

\* For every length of the queue of clients: one session at a time has the
\* serial port and its socket, and it has them to its end.
THEOREM Owned == Spec => []PortOwnership
<1>1. ExclusivePort /\ SocketKept /\ FlagTold => PortOwnership
  BY DEF PortOwnership
<1> QED BY <1>1, Exclusive, Kept, Told, PTL

=============================================================================

--------------------- MODULE ClockDomainCrossingProofs ----------------------
(***************************************************************************)
(* The clock domain crossing is a buffer of one byte, for every number of  *)
(* synchronizer flip-flops.  The argument: a synchronizer holds at most    *)
(* one edge of its signal, so the handshake is always in one of four       *)
(* phases, and each phase fixes what the other side can see.               *)
(***************************************************************************)
EXTENDS ClockDomainCrossing, TLAPS

High(ff) == \A i \in Stages : ff[i]
Low(ff) == \A i \in Stages : ~ff[i]

\* A rising edge travels through ff, or has arrived, or has not entered yet.
Rising(ff) == \A i, j \in Stages : i < j /\ ff[j] => ff[i]
Falling(ff) == \A i, j \in Stages : i < j /\ ff[i] => ff[j]

RequestRises == request /\ ~acknowledge /\ Low(ack_ff) /\ Rising(req_ff)
AckRises     == request /\ acknowledge /\ High(req_ff) /\ Rising(ack_ff)
RequestFalls == ~request /\ acknowledge /\ High(ack_ff) /\ Falling(req_ff)
AckFalls     == ~request /\ ~acknowledge /\ Low(req_ff) /\ Falling(ack_ff)

Handshake ==
  /\ RequestRises \/ AckRises \/ RequestFalls \/ AckFalls
  /\ request => busy
  /\ ~busy => ~request /\ ~acknowledge /\ Low(ack_ff)
  /\ valid => request /\ ~acknowledge /\ request_synced

\* The byte is in the crossing exactly while it is requested and not acknowledged.
ByteInPlace ==
  /\ request /\ ~acknowledge => held = transfer_register /\ held # NoByte
  /\ ~(request /\ ~acknowledge) => held = NoByte
  /\ valid => data = transfer_register

IInv == TypeOK /\ (Undisturbed => Handshake /\ ByteInPlace)

-----------------------------------------------------------------------------
LEMMA LastStage == MFF_LENGTH \in Stages
  BY CdcAssumption DEF Stages

\* One edge of a clock keeps a synchronizer well-typed.
LEMMA ClockedType ==
  ASSUME NEW ff \in [Stages -> BOOLEAN], NEW d \in BOOLEAN
  PROVE  Clocked(ff, d) \in [Stages -> BOOLEAN]
  BY CdcAssumption DEF Clocked, Stages

\* A synchronizer whose signal stays high goes on rising, and stays high once the
\* edge has arrived.
LEMMA ClockedHigh ==
  ASSUME NEW ff \in [Stages -> BOOLEAN]
  PROVE  /\ Rising(ff) => Rising(Clocked(ff, TRUE))
         /\ High(ff) => High(Clocked(ff, TRUE))
         /\ Rising(ff) /\ ff[MFF_LENGTH] => High(ff)
  BY CdcAssumption DEF Clocked, Stages, Rising, High

\* The same for a signal that stays low.
LEMMA ClockedLow ==
  ASSUME NEW ff \in [Stages -> BOOLEAN]
  PROVE  /\ Falling(ff) => Falling(Clocked(ff, FALSE))
         /\ Low(ff) => Low(Clocked(ff, FALSE))
         /\ Falling(ff) /\ ~ff[MFF_LENGTH] => Low(ff)
  BY CdcAssumption DEF Clocked, Stages, Falling, Low

\* A level without an edge is both the start of a rise and of a fall.
LEMMA Levels ==
  ASSUME NEW ff \in [Stages -> BOOLEAN]
  PROVE  /\ Low(ff) => Rising(ff) /\ Falling(ff) /\ ~ff[MFF_LENGTH]
         /\ High(ff) => Rising(ff) /\ Falling(ff) /\ ff[MFF_LENGTH]
  BY CdcAssumption DEF Stages, Rising, Falling, Low, High

-----------------------------------------------------------------------------
LEMMA InitIInv == Init => IInv
<1> SUFFICES ASSUME Init PROVE IInv
  OBVIOUS
<1>1. TypeOK
  <2>1. AllLow \in [Stages -> BOOLEAN] /\ 0 \in 0..MaxResets
    BY CdcAssumption DEF AllLow
  <2> QED
    BY <2>1 DEF Init, TypeOK
<1>2. AckFalls /\ Low(ack_ff)
  BY DEF Init, AckFalls, Low, Falling, AllLow, Stages
<1> QED
  BY <1>1, <1>2 DEF Init, IInv, Handshake, ByteInPlace

LEMMA TypePreserved == TypeOK /\ [Next]_vars => TypeOK'
<1> SUFFICES ASSUME TypeOK, [Next]_vars PROVE TypeOK'
  OBVIOUS
<1>a. /\ Clocked(ack_ff, acknowledge) \in [Stages -> BOOLEAN]
      /\ Clocked(req_ff, request) \in [Stages -> BOOLEAN]
  BY ClockedType DEF TypeOK
<1>b. acknowledge_synced \in BOOLEAN /\ request_synced \in BOOLEAN
  BY LastStage DEF TypeOK, acknowledge_synced, request_synced
<1>1. CASE SenderEdge
  BY <1>a, <1>b, <1>1 DEF TypeOK, SenderEdge, SenderIdle, SenderWait, Accept, receiverVars
<1>2. CASE ReceiverEdge
  BY <1>a, <1>b, <1>2 DEF TypeOK, ReceiverEdge, ReceiverMove, Pass, Hold, Load, Release, senderVars
<1>3. CASE ResetSender
  <2>1. resets' \in 0..MaxResets
    BY CdcAssumption, <1>3 DEF TypeOK, ResetSender
  <2> QED
    BY <1>a, <1>3, <2>1 DEF TypeOK, ResetSender, receiverVars
<1>4. CASE ResetReceiver
  <2>1. resets' \in 0..MaxResets
    BY CdcAssumption, <1>4 DEF TypeOK, ResetReceiver
  <2> QED
    BY <1>a, <1>4, <2>1 DEF TypeOK, ResetReceiver, senderVars
<1>5. CASE UNCHANGED vars
  BY <1>5 DEF TypeOK, vars, senderVars, receiverVars
<1> QED
  BY <1>1, <1>2, <1>3, <1>4, <1>5 DEF Next

-----------------------------------------------------------------------------
\* An edge of the sender's clock keeps the handshake in its phase or moves it on.
LEMMA SenderKeepsHandshake ==
  TypeOK /\ Handshake /\ ByteInPlace /\ SenderEdge => Handshake' /\ ByteInPlace'
<1> SUFFICES ASSUME TypeOK, Handshake, ByteInPlace, SenderEdge
             PROVE  Handshake' /\ ByteInPlace'
  OBVIOUS
<1> ack_ff \in [Stages -> BOOLEAN] /\ req_ff \in [Stages -> BOOLEAN]
  BY DEF TypeOK
<1>1. /\ ack_ff' = Clocked(ack_ff, acknowledge)
      /\ req_ff' = req_ff /\ acknowledge' = acknowledge /\ valid' = valid /\ data' = data
  BY DEF SenderEdge, receiverVars
<1>2. CASE SenderIdle
  <2>1. AckFalls /\ Low(ack_ff) /\ ~valid
    BY <1>2 DEF Handshake, SenderIdle, RequestRises, AckRises, RequestFalls, AckFalls
  <2>2. AckFalls' /\ Low(ack_ff)'
    BY <1>1, <1>2, <2>1, ClockedLow DEF SenderIdle, AckFalls, TypeOK
  <2> QED
    BY <1>1, <1>2, <2>1, <2>2 DEF Handshake, ByteInPlace, SenderIdle
<1>3. CASE \E b \in Byte : Accept(b)
  <2>0. PICK b \in Byte : Accept(b)
    BY <1>3
  <2>1. AckFalls /\ Low(ack_ff) /\ ~valid
    BY <2>0 DEF Handshake, Accept, RequestRises, AckRises, RequestFalls, AckFalls
  <2>2. RequestRises'
    BY <1>1, <2>0, <2>1, ClockedLow, Levels DEF Accept, RequestRises, AckFalls, TypeOK, Low, Rising
  <2> QED
    BY <1>1, <2>0, <2>1, <2>2, CdcAssumption
    DEF Handshake, ByteInPlace, Accept, RequestRises
<1>4. CASE SenderWait
  <2>1. CASE RequestRises
    BY <1>1, <1>4, <2>1, ClockedLow, Levels
    DEF Handshake, ByteInPlace, RequestRises, SenderWait, acknowledge_synced, request_synced, TypeOK, Low
  <2>2. CASE AckRises
    <3>1. Rising(ack_ff)' /\ (acknowledge_synced => High(ack_ff)')
      BY <1>1, <2>2, ClockedHigh DEF AckRises, acknowledge_synced, TypeOK
    <3>2. AckRises' \/ RequestFalls'
      BY <1>1, <1>4, <2>2, <3>1, Levels DEF AckRises, RequestFalls, SenderWait, TypeOK, High, Falling
    <3> QED
      BY <1>1, <1>4, <2>2, <3>2 DEF Handshake, ByteInPlace, AckRises, RequestFalls, SenderWait, TypeOK
  <2>3. CASE RequestFalls
    <3>1. High(ack_ff)' /\ acknowledge_synced
      BY <1>1, <2>3, ClockedHigh, Levels DEF RequestFalls, acknowledge_synced, TypeOK
    <3> QED
      BY <1>1, <1>4, <2>3, <3>1 DEF Handshake, ByteInPlace, RequestFalls, SenderWait, TypeOK, Falling
  <2>4. CASE AckFalls
    <3>1. Falling(ack_ff)' /\ (~acknowledge_synced => Low(ack_ff)')
      BY <1>1, <2>4, ClockedLow DEF AckFalls, acknowledge_synced, TypeOK
    <3> QED
      BY <1>1, <1>4, <2>4, <3>1 DEF Handshake, ByteInPlace, AckFalls, SenderWait, TypeOK, Low
  <2> QED
    BY <2>1, <2>2, <2>3, <2>4 DEF Handshake
<1> QED
  BY <1>2, <1>3, <1>4 DEF SenderEdge

\* An edge of the receiver's clock, the same.
LEMMA ReceiverKeepsHandshake ==
  TypeOK /\ Handshake /\ ByteInPlace /\ ReceiverEdge => Handshake' /\ ByteInPlace'
<1> SUFFICES ASSUME TypeOK, Handshake, ByteInPlace, ReceiverEdge
             PROVE  Handshake' /\ ByteInPlace'
  OBVIOUS
<1> ack_ff \in [Stages -> BOOLEAN] /\ req_ff \in [Stages -> BOOLEAN]
  BY DEF TypeOK
<1>1. /\ req_ff' = Clocked(req_ff, request) /\ ack_ff' = ack_ff
      /\ transfer_register' = transfer_register /\ request' = request /\ busy' = busy
  BY DEF ReceiverEdge, senderVars
<1>2. CASE Pass
  <2>1. RequestRises /\ High(req_ff)
    BY <1>2, ClockedHigh
    DEF Pass, Handshake, RequestRises, AckRises, RequestFalls, AckFalls, request_synced
  <2>2. AckRises'
    BY <1>1, <1>2, <2>1, ClockedHigh, Levels DEF Pass, RequestRises, AckRises, TypeOK, Low, Rising
  <2> QED
    BY <1>1, <1>2, <2>1, <2>2 DEF Pass, Handshake, ByteInPlace, RequestRises
<1>3. CASE Hold \/ Load
  <2>1. RequestRises
    BY <1>3, Levels, LastStage
    DEF Hold, Load, Handshake, RequestRises, AckRises, RequestFalls, AckFalls, request_synced, Low
  <2>2. request_synced
    BY <1>3 DEF Hold, Load, Handshake
  <2>3. RequestRises' /\ request_synced'
    <3>1. Rising(req_ff)' /\ High(req_ff)'
      BY <1>1, <2>1, <2>2, ClockedHigh DEF RequestRises, request_synced, TypeOK
    <3>2. request_synced'
      BY <3>1, LastStage DEF request_synced, High
    <3>3. request' /\ ~acknowledge' /\ Low(ack_ff')
      BY <1>1, <1>3, <2>1 DEF Hold, Load, RequestRises
    <3> QED
      BY <3>1, <3>2, <3>3 DEF RequestRises
  <2> QED
    BY <1>1, <1>3, <2>1, <2>3 DEF Hold, Load, Handshake, ByteInPlace, RequestRises
<1>4. CASE Release
  <2>1. ~valid' /\ data' = data /\ held' = held /\ ~valid
    BY <1>4 DEF Release
  <2>2. CASE RequestRises
    <3>1. Rising(req_ff)'
      BY <1>1, <2>2, ClockedHigh DEF RequestRises, TypeOK
    <3> QED
      BY <1>1, <1>4, <2>1, <2>2, <3>1 DEF Release, Handshake, ByteInPlace, RequestRises, Low
  <2>3. CASE AckRises
    <3>1. High(req_ff)' /\ request_synced
      BY <1>1, <2>3, ClockedHigh, Levels DEF AckRises, request_synced, TypeOK
    <3> QED
      BY <1>1, <1>4, <2>1, <2>3, <3>1 DEF Release, Handshake, ByteInPlace, AckRises, Rising
  <2>4. CASE RequestFalls
    <3>1. Falling(req_ff)' /\ (~request_synced => Low(req_ff)')
      BY <1>1, <2>4, ClockedLow DEF RequestFalls, request_synced, TypeOK
    <3>2. RequestFalls' \/ AckFalls'
      BY <1>1, <1>4, <2>4, <3>1, Levels DEF Release, RequestFalls, AckFalls, TypeOK, High, Falling
    <3> QED
      BY <1>1, <1>4, <2>1, <2>4, <3>2 DEF Release, Handshake, ByteInPlace, RequestFalls, AckFalls
  <2>5. CASE AckFalls
    <3>1. Low(req_ff)'
      BY <1>1, <2>5, ClockedLow DEF AckFalls, TypeOK
    <3> QED
      BY <1>1, <1>4, <2>1, <2>5, <3>1 DEF Release, Handshake, ByteInPlace, AckFalls, Falling, Low
  <2> QED
    BY <2>2, <2>3, <2>4, <2>5 DEF Handshake
<1> QED
  BY <1>2, <1>3, <1>4 DEF ReceiverEdge, ReceiverMove

LEMMA StepIInv == IInv /\ [Next]_vars => IInv'
<1> SUFFICES ASSUME IInv, [Next]_vars PROVE IInv'
  OBVIOUS
<1>1. TypeOK /\ TypeOK'
  BY TypePreserved DEF IInv
<1>2. ASSUME Undisturbed' PROVE Handshake' /\ ByteInPlace'
  <2>1. CASE SenderEdge
    BY <1>1, <1>2, <2>1, SenderKeepsHandshake DEF IInv, Undisturbed, SenderEdge
  <2>2. CASE ReceiverEdge
    BY <1>1, <1>2, <2>2, ReceiverKeepsHandshake DEF IInv, Undisturbed, ReceiverEdge
  <2>3. CASE ResetSender \/ ResetReceiver
    BY <1>1, <1>2, <2>3 DEF Undisturbed, ResetSender, ResetReceiver, TypeOK
  <2>4. CASE UNCHANGED vars
    BY <1>2, <2>4
    DEF IInv, Undisturbed, vars, senderVars, receiverVars, Handshake, ByteInPlace, RequestRises,
        AckRises, RequestFalls, AckFalls, High, Low, Rising, Falling, request_synced
  <2> QED
    BY <2>1, <2>2, <2>3, <2>4 DEF Next
<1> QED
  BY <1>1, <1>2 DEF IInv

\* The inductive invariant: types, and the phases of the handshake.
THEOREM Invariance == Spec => []IInv
  BY InitIInv, StepIInv, PTL DEF Spec

-----------------------------------------------------------------------------
LEMMA IInvImplies == IInv => TypeOK /\ NoByteTwice /\ StableWhileLoaded /\ ReadyMeansEmpty
<1> SUFFICES ASSUME IInv, Undisturbed
             PROVE  PassesTheByte /\ LoadsWhileStable /\ ReadyIsEmpty
  BY DEF IInv, NoByteTwice, StableWhileLoaded, ReadyMeansEmpty
<1>1. TypeOK /\ Handshake /\ ByteInPlace
  BY DEF IInv
<1>2. request_synced /\ ~acknowledge => RequestRises
  BY <1>1, LastStage DEF Handshake, RequestRises, AckRises, RequestFalls, AckFalls, Low, request_synced
<1>3. ~busy => ~request_synced
  BY <1>1, LastStage DEF Handshake, RequestRises, AckRises, RequestFalls, AckFalls, Low, request_synced
<1> QED
  BY <1>1, <1>2, <1>3
  DEF Handshake, ByteInPlace, PassesTheByte, LoadsWhileStable, ReadyIsEmpty, RequestRises

\* Every variable of the crossing keeps its type.
THEOREM TypeCorrect == Spec => []TypeOK
  BY Invariance, IInvImplies, PTL

\* For every length of the synchronizers: no byte is passed on twice or made up.
THEOREM NeverTwice == Spec => []NoByteTwice
  BY Invariance, IInvImplies, PTL

\* The transfer register does not change while the other clock may sample it.
THEOREM Stable == Spec => []StableWhileLoaded
  BY Invariance, IInvImplies, PTL

\* The sender is ready only when the crossing is empty.
THEOREM ReadyEmpty == Spec => []ReadyMeansEmpty
  BY Invariance, IInvImplies, PTL

\* The crossing implements a buffer of one byte.
THEOREM Implements == Spec => IsBuffer
<1>1. Init => Buffer!Init
  BY DEF Init, Buffer!Init
<1>2. IInv /\ [Next]_vars => [resets' = 0 => [Buffer!Next]_<<held, delivered>>]_vars
  <2> SUFFICES ASSUME IInv, Next, resets' = 0
               PROVE  [Buffer!Next]_<<held, delivered>>
    OBVIOUS
  <2>1. Undisturbed /\ (SenderEdge \/ ReceiverEdge)
    BY DEF Next, Undisturbed, ResetSender, ResetReceiver, SenderEdge, ReceiverEdge, IInv, TypeOK
  <2>2. Handshake /\ ByteInPlace
    BY <2>1 DEF IInv
  <2>3. CASE SenderEdge
    BY <2>2, <2>3
    DEF SenderEdge, SenderIdle, SenderWait, Accept, Handshake, ByteInPlace, Buffer!Next, Buffer!Accept
  <2>4. CASE ReceiverEdge
    <3>1. Pass => Buffer!Deliver
      BY <2>2 DEF Pass, Handshake, ByteInPlace, Buffer!Deliver
    <3> QED
      BY <2>4, <3>1 DEF ReceiverEdge, ReceiverMove, Hold, Load, Release, Buffer!Next
  <2> QED
    BY <2>1, <2>3, <2>4
<1> QED
  BY <1>1, <1>2, Invariance, PTL DEF Spec, IsBuffer
=============================================================================

------------------------ MODULE ClockDomainCrossing -------------------------
(***************************************************************************)
(* One direction of rtl/common/IpdbgClockDomainCrossing.vhd.  The code has *)
(* two copies of it, data_dwn_block and data_up_block, the same text with  *)
(* host and func exchanged; they share the clocks and resets only, so each *)
(* is this machine.  The sender runs on one clock, the receiver on the     *)
(* other, and request and acknowledge cross through MFF_LENGTH flip-flops. *)
(*                                                                         *)
(* SenderEdge and ReceiverEdge are the rising edges of the two clocks with *)
(* ce = '1'.  A flip-flop that samples a signal of the other clock in the  *)
(* moment it changes takes the old or the new value: the two orders of the *)
(* edges.                                                                  *)
(***************************************************************************)
EXTENDS Naturals

CONSTANTS
  Byte, NoByte,
  MFF_LENGTH,     \* flip-flops of each synchronizer
  MaxResets       \* bound: resets of one side alone

ASSUME CdcAssumption ==
  /\ MFF_LENGTH \in Nat \ {0}
  /\ NoByte \notin Byte
  /\ MaxResets \in Nat

VARIABLES
  \* clock of the sender
  transfer_register, request, busy,
  ack_ff,              \* synchronizer of acknowledge
  \* clock of the receiver
  acknowledge, valid, data,
  req_ff,              \* synchronizer of request
  \* history
  held,                \* the byte taken from the sender and not passed on
  delivered,           \* the byte passed on last
  resets               \* resets of one side so far

senderVars   == <<transfer_register, request, busy, ack_ff>>
receiverVars == <<acknowledge, valid, data, req_ff>>
vars == <<senderVars, receiverVars, held, delivered, resets>>

Stages == 1..MFF_LENGTH
AllLow == [i \in Stages |-> FALSE]

\* The synchronizer ff takes the signal d.
Clocked(ff, d) == [i \in Stages |-> IF i = 1 THEN d ELSE ff[i - 1]]

acknowledge_synced == ack_ff[MFF_LENGTH]
request_synced == req_ff[MFF_LENGTH]

Init ==
  /\ transfer_register = NoByte /\ request = FALSE /\ busy = FALSE /\ ack_ff = AllLow
  /\ acknowledge = FALSE /\ valid = FALSE /\ data = NoByte /\ req_ff = AllLow
  /\ held = NoByte /\ delivered = NoByte
  /\ resets = 0

-----------------------------------------------------------------------------
\* The sender is ready while not busy and takes the byte b that is offered to it.
Accept(b) ==
  /\ ~busy
  /\ transfer_register' = b
  /\ request' = TRUE
  /\ busy' = TRUE
  /\ held' = b
  /\ UNCHANGED delivered

\* No byte is offered to the ready sender.
SenderIdle ==
  /\ ~busy
  /\ UNCHANGED <<transfer_register, request, busy, held, delivered>>

\* Mutant: busy falls before the fall of the acknowledge.
SenderWaitShort ==
  /\ busy
  /\ request' = (request /\ ~acknowledge_synced)
  /\ busy' = (request /\ ~acknowledge_synced)
  /\ UNCHANGED <<transfer_register, held, delivered>>

\* The handshake of a byte goes on: request falls after the rise of the
\* acknowledge, busy after its fall.
SenderWait ==
  /\ busy
  /\ request' = (request /\ ~acknowledge_synced)
  /\ busy' = (request \/ acknowledge_synced)
  /\ UNCHANGED <<transfer_register, held, delivered>>

SenderEdge ==
  /\ SenderIdle \/ SenderWait \/ \E b \in Byte : Accept(b)
  /\ ack_ff' = Clocked(ack_ff, acknowledge)
  /\ UNCHANGED <<receiverVars, resets>>

-----------------------------------------------------------------------------
\* The other side takes the byte: it is ready.
Pass ==
  /\ valid
  /\ valid' = FALSE
  /\ acknowledge' = TRUE
  /\ delivered' = data
  /\ held' = NoByte
  /\ UNCHANGED data

\* The other side is not ready.
Hold ==
  /\ valid
  /\ UNCHANGED <<acknowledge, valid, data, held, delivered>>

\* transfer_register crosses without a synchronizer: "stable while request = '1'".
Load ==
  /\ ~valid /\ request_synced /\ ~acknowledge
  /\ data' = transfer_register
  /\ valid' = TRUE
  /\ UNCHANGED <<acknowledge, held, delivered>>

\* Mutant: the acknowledge does not fall.
ReleaseNever ==
  /\ ~valid /\ ~(request_synced /\ ~acknowledge)
  /\ UNCHANGED <<acknowledge, valid, data, held, delivered>>

Release ==
  /\ ~valid /\ ~(request_synced /\ ~acknowledge)
  /\ acknowledge' = (acknowledge /\ request_synced)
  /\ UNCHANGED <<valid, data, held, delivered>>

ReceiverMove == Pass \/ Hold \/ Load \/ Release

ReceiverEdge ==
  /\ ReceiverMove
  /\ req_ff' = Clocked(req_ff, request)
  /\ UNCHANGED <<senderVars, resets>>

-----------------------------------------------------------------------------
\* A reset of one side alone.  The flip-flops of the synchronizers have no reset.
ResetSender ==
  /\ resets < MaxResets
  /\ resets' = resets + 1
  /\ request' = FALSE /\ busy' = FALSE /\ transfer_register' = NoByte
  /\ ack_ff' = Clocked(ack_ff, acknowledge)
  /\ UNCHANGED <<receiverVars, held, delivered>>

ResetReceiver ==
  /\ resets < MaxResets
  /\ resets' = resets + 1
  /\ acknowledge' = FALSE /\ valid' = FALSE /\ data' = NoByte
  /\ req_ff' = Clocked(req_ff, request)
  /\ UNCHANGED <<senderVars, held, delivered>>

Next == SenderEdge \/ ReceiverEdge \/ ResetSender \/ ResetReceiver

Spec == Init /\ [][Next]_vars

\* Both clocks run, and the other side takes the byte that is offered to it.
Fairness ==
  /\ WF_vars(SenderEdge)
  /\ WF_vars(ReceiverEdge)
  /\ WF_vars(ReceiverEdge /\ Pass)

FairSpec == Spec /\ Fairness

-----------------------------------------------------------------------------
TypeOK ==
  /\ transfer_register \in Byte \cup {NoByte} /\ data \in Byte \cup {NoByte}
  /\ held \in Byte \cup {NoByte} /\ delivered \in Byte \cup {NoByte}
  /\ request \in BOOLEAN /\ busy \in BOOLEAN
  /\ acknowledge \in BOOLEAN /\ valid \in BOOLEAN
  /\ ack_ff \in [Stages -> BOOLEAN] /\ req_ff \in [Stages -> BOOLEAN]
  /\ resets \in 0..MaxResets

\* Neither side has been reset alone.
Undisturbed == resets = 0

PassesTheByte == valid => data = held /\ held # NoByte
LoadsWhileStable ==
  ~valid /\ request_synced /\ ~acknowledge => request /\ busy /\ transfer_register = held
ReadyIsEmpty == ~busy => held = NoByte /\ ~valid /\ ~request_synced

\* The byte offered to the other side is the one that was taken and not yet passed
\* on: no byte is passed twice or made up.
NoByteTwice == Undisturbed => PassesTheByte

\* The receiver loads transfer_register only while the sender keeps it: the bits of
\* the byte cross without a synchronizer.
StableWhileLoaded == Undisturbed => LoadsWhileStable

\* A ready sender keeps no byte back: the byte before has been passed on and the
\* receiver has seen request fall.
ReadyMeansEmpty == Undisturbed => ReadyIsEmpty

\* Until a side is reset alone, the crossing is a buffer of one byte.
Buffer == INSTANCE ByteBuffer
IsBuffer ==
  Buffer!Init /\ [][resets' = 0 => [Buffer!Next]_<<held, delivered>>]_vars

\* Whichever side was reset alone in whatever phase of the handshake: the sender
\* becomes ready again.
ReadyAgain == busy ~> ~busy
=============================================================================

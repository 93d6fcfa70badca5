------------------------------ MODULE JtagHub -------------------------------
(***************************************************************************)
(* The JtagHub (rtl/JtagHub/JtagCdc.vhd) between a JTAG host and the       *)
(* IPDBG cores.  The host exchanges words with the hub by DR scans; the    *)
(* hub runs on the clock clk of the cores.                                 *)
(*                                                                         *)
(* One step is one rising edge of clk (Clk, all processes of the hub       *)
(* together, as the edge takes them) or one event of the TAP: Capture-DR,  *)
(* or Update-DR with the word the host has shifted.  The host is the one   *)
(* of the test bench rtl/JtagHub/test/tb_JtagHub.vhd, a model of the ipdbg *)
(* server of OpenOCD.                                                      *)
(*                                                                         *)
(* A vector with one bit per channel is the set of the channels whose bit  *)
(* is '1'.                                                                 *)
(***************************************************************************)
EXTENDS HubOutputStage, FiniteSets

CONSTANTS
  NUM_FUNCTIONS,        \* channels of the hub, 7 in the code
  MFF_LENGTH,           \* flip-flops of the synchronizer
  FLOW_CONTROL_ENABLE,  \* the channels with flow control
  ScanGap,              \* edges of clk between an Update-DR and the next Capture-DR, at least
  HostTools,            \* the channels the host sends to
  UpCores,              \* the channels whose core sends
  AbortedScans          \* TRUE: the TAP may leave Shift-DR before the 13 bits are shifted

Channel == 0..(NUM_FUNCTIONS - 1)
HUB == NUM_FUNCTIONS

\* The edge of clk after Update-DR that loads dwn_transfer_*: the synchronizer,
\* the edge detection (dwn_enable) and the load itself.
SyncEdges == MFF_LENGTH + 2

ASSUME HubAssumption ==
  /\ NUM_FUNCTIONS \in Nat \ {0}
  /\ MFF_LENGTH \in Nat
  /\ ScanGap \in Nat
  /\ ScanGap >= SyncEdges + 3
  /\ FLOW_CONTROL_ENABLE \subseteq Channel
  /\ HostTools \subseteq Channel
  /\ UpCores \subseteq Channel
  /\ AbortedScans \in BOOLEAN

DO_FLOW_CONTROL == FLOW_CONTROL_ENABLE # {}

\* The data of a word of the hub itself: bit 7, then one bit per channel.
HubMessage == [reset : BOOLEAN, bits : SUBSET Channel]
ResetAnswer == [reset |-> TRUE, bits |-> FLOW_CONTROL_ENABLE]
Xon(channels) == [reset |-> FALSE, bits |-> channels]

\* The words of the data register, MSB first: valid, xoff, function, data.
Word ==
  [valid : BOOLEAN, xoff : BOOLEAN, fn : Channel \cup {HUB}, data : Data \cup HubMessage]
EmptyWord == [valid |-> FALSE, xoff |-> FALSE, fn |-> 0, data |-> NoByte]
DataWord(c, b) == [EmptyWord EXCEPT !.valid = TRUE, !.fn = c, !.data = b]
ResetWord == [EmptyWord EXCEPT !.valid = TRUE, !.fn = HUB]

VARIABLES
  \* clock of the TAP
  shifting,           \* between Capture-DR and Update-DR
  dr,                 \* the data register
  xoff_sent_x, up_transfer_register_valid_sent_x,
  since,              \* edges of clk since the last Update-DR, up to ScanGap
  \* clk, from the host to the cores
  dwn_do_update,
  dwn_transfer,       \* dwn_transfer_register_valid, _function_number and _data
  xoff_sent, up_transfer_register_valid_sent,
  clear,
  common_data_dwn,
  channel_selected,
  stage,              \* the output stages of the channels with flow control
  data_dwn_valid,     \* the same signal of the channels without
  \* clk, flow control
  xoff_sel, up_xoff, xoff_host_set, xoff_state_host,
  \* clk, from the cores to the host
  data_up_buffer_empty, data_up_buffer,
  state,              \* the channel the arbiter looks at
  up_transfer,        \* up_transfer_register_valid, _function_number and _data
  clear_xoff_bits_valid, clear_xoff_bits, xon_data,
  \* the host
  host,               \* "connect": about to reset the hub; "answer": waits for the answer; "run"
  dn_xoff,            \* the channels that are stopped
  last_dn_tool,       \* the channel the xoff bit of the next word belongs to
  \* history
  to_core,            \* bytes the host has sent and the core has not taken
  to_host             \* bytes the hub has taken from the core and the host has not received

tapVars  == <<shifting, dr, xoff_sent_x, up_transfer_register_valid_sent_x>>
dwnVars  == <<dwn_do_update, dwn_transfer, xoff_sent, up_transfer_register_valid_sent, clear,
              common_data_dwn, channel_selected, stage, data_dwn_valid>>
xoffVars == <<xoff_sel, up_xoff, xoff_host_set, xoff_state_host>>
upVars   == <<data_up_buffer_empty, data_up_buffer, state, up_transfer,
              clear_xoff_bits_valid, clear_xoff_bits, xon_data>>
hostVars == <<host, dn_xoff, last_dn_tool>>
vars == <<tapVars, since, dwnVars, xoffVars, upVars, hostVars, to_core, to_host>>

-----------------------------------------------------------------------------
(***************************************************************************)
(* The TAP.  Capture-DR loads the data register with the word of the hub;  *)
(* the host exchanges it for its own word and leaves through Update-DR.    *)
(***************************************************************************)
Settled == since = ScanGap

CaptureDR ==
  /\ ~shifting
  /\ Settled
  /\ shifting' = TRUE
  /\ dr' = [valid |-> up_transfer.valid, xoff |-> up_xoff,
            fn |-> up_transfer.fn, data |-> up_transfer.data]
  /\ UNCHANGED <<xoff_sent_x, up_transfer_register_valid_sent_x, since, dwnVars, xoffVars,
                 upVars, hostVars, to_core, to_host>>

\* A scan of all 13 bits: the xoff and valid bits that left through TDO are kept.
FullScan(word) ==
  /\ shifting
  /\ shifting' = FALSE
  /\ dr' = word
  /\ xoff_sent_x' = dr.xoff
  /\ up_transfer_register_valid_sent_x' = dr.valid
  /\ since' = 0
  /\ UNCHANGED <<dwnVars, xoffVars, upVars>>

\* The host has the word dr: it leaves the hub's side of the channel.
ReceiveWord ==
  to_host' = [c \in Channel |-> IF dr.valid /\ dr.fn = c /\ to_host[c] # <<>>
                                THEN Tail(to_host[c]) ELSE to_host[c]]

\* distribute: an xon opens its channels; then check_for_xoff: the xoff bit stops
\* the channel of the previous scan with data.
DistributedXoff ==
  IF dr.valid /\ dr.fn = HUB /\ ~dr.data.reset THEN dn_xoff \ dr.data.bits ELSE dn_xoff
CheckForXoff(tool) ==
  /\ dn_xoff' = DistributedXoff
                  \cup (IF dr.xoff /\ last_dn_tool # HUB THEN {last_dn_tool} ELSE {})
  /\ last_dn_tool' = tool

SendByte(c, b) ==
  /\ host = "run"
  /\ c \notin dn_xoff
  /\ FullScan(DataWord(c, b))
  /\ ReceiveWord
  /\ CheckForXoff(c)
  /\ to_core' = [to_core EXCEPT ![c] = Append(@, b)]
  /\ UNCHANGED host

Poll ==
  /\ host \in {"answer", "run"}
  /\ FullScan(EmptyWord)
  /\ ReceiveWord
  /\ CheckForXoff(HUB)
  /\ host' = "run"
  /\ UNCHANGED to_core

\* A host connects: it resets the hub, the word of that scan is not looked at.
ResetHub ==
  /\ host \in {"connect", "run"}
  /\ FullScan(ResetWord)
  /\ ReceiveWord
  /\ host' = "answer"
  /\ dn_xoff' = {}
  /\ last_dn_tool' = HUB
  /\ UNCHANGED to_core

\* The TAP leaves Shift-DR after one to ten bits (TDI at '0'): neither flip-flop
\* of the sent flags gets its clock enable, and the host has no word.
AbortScan ==
  /\ AbortedScans
  /\ shifting
  /\ shifting' = FALSE
  /\ dr' = EmptyWord
  /\ since' = 0
  /\ UNCHANGED <<xoff_sent_x, up_transfer_register_valid_sent_x, dwnVars, xoffVars, upVars,
                 hostVars, to_core, to_host>>

-----------------------------------------------------------------------------
(***************************************************************************)
(* The clock clk.  One operator per process of the hub: each reads the     *)
(* registers before the edge and gives its own registers after it.         *)
(***************************************************************************)
\* The word and the sent flags enter the clock domain once per Update-DR.
Synchronizer ==
  LET enable == since + 1 = SyncEdges   \* dwn_enable
  IN  /\ since' = IF since < ScanGap THEN since + 1 ELSE since
      /\ dwn_do_update' = enable
      /\ dwn_transfer' = IF enable THEN [valid |-> dr.valid, fn |-> dr.fn, data |-> dr.data]
                                   ELSE dwn_transfer
      /\ xoff_sent' = IF enable THEN xoff_sent_x ELSE xoff_sent
      /\ up_transfer_register_valid_sent' =
           IF enable THEN up_transfer_register_valid_sent_x ELSE up_transfer_register_valid_sent

\* The update of this cycle carries a byte for function f.
UpdateFor(f) == dwn_do_update /\ dwn_transfer.valid /\ dwn_transfer.fn = f

\* Mutant: every update releases the word of the hub.
AnyUpdate == dwn_do_update

\* Mutant: only a word with a byte releases the word of the hub.
UpWordSentWithData == dwn_do_update /\ dwn_transfer.valid /\ up_transfer_register_valid_sent

\* The update of this cycle says that the host has the word of the hub.
UpWordSent == dwn_do_update /\ up_transfer_register_valid_sent

InternalOutput ==
  /\ clear' = UpdateFor(HUB)
  /\ common_data_dwn' = dwn_transfer.data

OutputStages(ready) ==
  /\ channel_selected' = {c \in FLOW_CONTROL_ENABLE : ~clear /\ UpdateFor(c)}
  /\ stage' = [c \in FLOW_CONTROL_ENABLE |->
                 NextStage(stage[c], clear, c \in channel_selected, common_data_dwn, c \in ready)]
  /\ data_dwn_valid' = {c \in Channel \ FLOW_CONTROL_ENABLE : UpdateFor(c)}

near_full == {c \in FLOW_CONTROL_ENABLE : NearFull(stage[c])}

\* Mutant: an empty word moves the xoff bit to its channel, too.
XoffMuxEveryWord ==
  /\ xoff_sel' = IF clear THEN HUB ELSE IF dwn_do_update THEN dwn_transfer.fn ELSE xoff_sel
  /\ up_xoff' = (xoff_sel \in near_full)

XoffMux ==
  /\ xoff_sel' = IF clear THEN HUB
                 ELSE IF dwn_do_update /\ dwn_transfer.valid THEN dwn_transfer.fn
                 ELSE xoff_sel
  /\ up_xoff' = (xoff_sel \in near_full)

\* Mutant: the xoff of an empty scan is not kept.
XoffHostSetWithData ==
  xoff_host_set' = IF ~clear /\ dwn_do_update /\ dwn_transfer.valid /\ xoff_sent
                   THEN {xoff_sel} \ {HUB} ELSE {}

\* The xoff that has left belongs to the channel of the last word with a byte.
XoffHostSet ==
  xoff_host_set' = IF ~clear /\ dwn_do_update /\ xoff_sent THEN {xoff_sel} \ {HUB} ELSE {}

\* The hub's view of what the host has stopped.
XoffStateHost ==
  xoff_state_host' =
    IF clear THEN {}
    ELSE ((xoff_state_host \ (IF clear_xoff_bits_valid THEN clear_xoff_bits ELSE {}))
            \cup xoff_host_set) \cap FLOW_CONTROL_ENABLE

\* offer[c] is the byte core c puts on uplink_data, NoByte while uplink_valid = '0'.
Accepted(offer) == {c \in data_up_buffer_empty : offer[c] # NoByte}

InputBuffering(offer) ==
  IF clear
  THEN /\ data_up_buffer_empty' = Channel
       /\ data_up_buffer' = [c \in Channel |-> NoByte]
  ELSE /\ data_up_buffer_empty' =
            (data_up_buffer_empty \ Accepted(offer))
              \cup (IF UpWordSent THEN {up_transfer.fn} \cap Channel ELSE {})
       /\ data_up_buffer' =
            [c \in Channel |-> IF c \in Accepted(offer) THEN offer[c] ELSE data_up_buffer[c]]

-----------------------------------------------------------------------------
\* Mutant: a reset of the hub has no answer.
ArbiterClearSilent ==
  /\ state' = 0
  /\ up_transfer' = [valid |-> FALSE, fn |-> HUB, data |-> ResetAnswer]
  /\ clear_xoff_bits_valid' = FALSE
  /\ clear_xoff_bits' = {}
  /\ xon_data' = {}

\* The arbiter: one word at a time, the channels in turn and then the hub itself.
ArbiterClear ==
  /\ state' = 0
  /\ up_transfer' = [valid |-> TRUE, fn |-> HUB, data |-> ResetAnswer]
  /\ clear_xoff_bits_valid' = FALSE
  /\ clear_xoff_bits' = {}
  /\ xon_data' = {}

ArbiterWait ==
  LET hubWordSent == UpWordSent /\ up_transfer.fn = HUB
  IN  /\ up_transfer' = [up_transfer EXCEPT !.valid = ~UpWordSent]
      /\ clear_xoff_bits_valid' = (hubWordSent /\ ~up_transfer.data.reset)
      /\ clear_xoff_bits' = IF hubWordSent THEN up_transfer.data.bits ELSE clear_xoff_bits
      /\ xon_data' = IF hubWordSent THEN {} ELSE xon_data
      /\ UNCHANGED state

\* The channels the host may send to again.
Reopened ==
  IF clear_xoff_bits_valid THEN {} ELSE (FLOW_CONTROL_ENABLE \cap xoff_state_host) \ near_full

LastStateNoFlowControl == NUM_FUNCTIONS - 1   \* mutant: the hub itself is skipped
LastStateUnused == NUM_FUNCTIONS + 1          \* mutant: one state more
LastState == IF DO_FLOW_CONTROL THEN HUB ELSE NUM_FUNCTIONS - 1

ArbiterLook ==
  LET found == IF state = HUB THEN xon_data # {} ELSE state \notin data_up_buffer_empty
  IN  /\ state' = IF state = LastState THEN 0 ELSE state + 1
      /\ up_transfer' =
           [valid |-> found,
            fn    |-> IF found \/ DO_FLOW_CONTROL THEN state ELSE up_transfer.fn,
            data  |-> IF ~found THEN up_transfer.data
                      ELSE IF state = HUB THEN Xon(xon_data) ELSE data_up_buffer[state]]
      /\ clear_xoff_bits_valid' = FALSE
      /\ xon_data' = IF state = HUB THEN xon_data ELSE xon_data \cup Reopened
      /\ UNCHANGED clear_xoff_bits

Arbiter ==
  IF clear THEN ArbiterClear ELSE IF up_transfer.valid THEN ArbiterWait ELSE ArbiterLook

-----------------------------------------------------------------------------
\* The channels whose core takes a byte at this edge.
Taking(ready) == data_dwn_valid \cup {c \in FLOW_CONTROL_ENABLE : Takes(stage[c], c \in ready)}

History(ready, offer) ==
  /\ to_core' = [c \in Channel |->
       IF clear THEN <<>>
       ELSE IF c \in Taking(ready) /\ to_core[c] # <<>> THEN Tail(to_core[c]) ELSE to_core[c]]
  /\ to_host' = [c \in Channel |->
       IF clear THEN <<>>
       ELSE IF c \in Accepted(offer) THEN Append(to_host[c], offer[c]) ELSE to_host[c]]

\* ready: the channels whose core sets dnlink_ready.
Clk(ready, offer) ==
  /\ Synchronizer
  /\ InternalOutput
  /\ OutputStages(ready)
  /\ XoffMux
  /\ XoffHostSet
  /\ XoffStateHost
  /\ InputBuffering(offer)
  /\ Arbiter
  /\ History(ready, offer)
  /\ UNCHANGED <<tapVars, hostVars>>

Offers == {f \in [Channel -> Data] : \A c \in Channel \ UpCores : f[c] = NoByte}

ClkEdge == \E ready \in SUBSET (FLOW_CONTROL_ENABLE \cap HostTools), offer \in Offers : Clk(ready, offer)

\* The flip-flops after the configuration of the FPGA: '0'.  No host is connected.
Init ==
  /\ shifting = FALSE /\ dr = EmptyWord
  /\ xoff_sent_x = FALSE /\ up_transfer_register_valid_sent_x = FALSE
  /\ since = ScanGap
  /\ dwn_do_update = FALSE /\ dwn_transfer = [valid |-> FALSE, fn |-> 0, data |-> NoByte]
  /\ xoff_sent = FALSE /\ up_transfer_register_valid_sent = FALSE
  /\ clear = FALSE /\ common_data_dwn = NoByte
  /\ channel_selected = {}
  /\ stage = [c \in FLOW_CONTROL_ENABLE |-> EmptyStage]
  /\ data_dwn_valid = {}
  /\ xoff_sel = 0 /\ up_xoff = FALSE /\ xoff_host_set = {} /\ xoff_state_host = {}
  /\ data_up_buffer_empty = {} /\ data_up_buffer = [c \in Channel |-> NoByte]
  /\ state = 0 /\ up_transfer = [valid |-> FALSE, fn |-> 0, data |-> NoByte]
  /\ clear_xoff_bits_valid = FALSE /\ clear_xoff_bits = {} /\ xon_data = {}
  /\ host = "connect" /\ dn_xoff = {} /\ last_dn_tool = HUB
  /\ to_core = [c \in Channel |-> <<>>]
  /\ to_host = [c \in Channel |-> <<NoByte>>]

Next ==
  \/ ClkEdge
  \/ CaptureDR
  \/ \E c \in HostTools, b \in Byte : SendByte(c, b)
  \/ Poll
  \/ ResetHub
  \/ AbortScan

Spec == Init /\ [][Next]_vars

(***************************************************************************)
(* The clock runs, the host goes on scanning once connected, and a core    *)
(* that is offered a byte does not refuse it forever.                      *)
(***************************************************************************)
Fairness ==
  /\ WF_vars(ClkEdge)
  /\ WF_vars(CaptureDR)
  /\ WF_vars(Poll \/ ResetHub \/ \E c \in HostTools, b \in Byte : SendByte(c, b))
  /\ \A t \in FLOW_CONTROL_ENABLE :
       WF_vars(\E ready \in SUBSET (FLOW_CONTROL_ENABLE \cap HostTools), offer \in Offers :
                 t \in ready /\ Takes(stage[t], TRUE) /\ Clk(ready, offer))

FairSpec == Spec /\ Fairness

-----------------------------------------------------------------------------
TypeOK ==
  /\ shifting \in BOOLEAN /\ dr \in Word
  /\ xoff_sent_x \in BOOLEAN /\ up_transfer_register_valid_sent_x \in BOOLEAN
  /\ since \in 0..ScanGap
  /\ dwn_do_update \in BOOLEAN
  /\ dwn_transfer \in [valid : BOOLEAN, fn : Channel \cup {HUB}, data : Data]
  /\ xoff_sent \in BOOLEAN /\ up_transfer_register_valid_sent \in BOOLEAN
  /\ clear \in BOOLEAN /\ common_data_dwn \in Data
  /\ channel_selected \subseteq FLOW_CONTROL_ENABLE
  /\ stage \in [FLOW_CONTROL_ENABLE -> Stage]
  /\ data_dwn_valid \subseteq Channel \ FLOW_CONTROL_ENABLE
  /\ xoff_sel \in Channel \cup {HUB} /\ up_xoff \in BOOLEAN
  /\ xoff_host_set \subseteq Channel /\ xoff_state_host \subseteq FLOW_CONTROL_ENABLE
  /\ data_up_buffer_empty \subseteq Channel
  /\ data_up_buffer \in [Channel -> Data]
  /\ state \in Channel \cup {HUB}
  /\ up_transfer \in [valid : BOOLEAN, fn : Channel \cup {HUB}, data : Data \cup HubMessage]
  /\ clear_xoff_bits_valid \in BOOLEAN
  /\ clear_xoff_bits \subseteq FLOW_CONTROL_ENABLE /\ xon_data \subseteq FLOW_CONTROL_ENABLE
  /\ host \in {"connect", "answer", "run"}
  /\ dn_xoff \subseteq Channel /\ last_dn_tool \in Channel \cup {HUB}
  /\ to_core \in [Channel -> Seq(Data)] /\ to_host \in [Channel -> Seq(Data)]

-----------------------------------------------------------------------------
(***************************************************************************)
(* Where the bytes are.  A word waits in dr until the synchronizer takes   *)
(* it, is in dwn_transfer in the cycle dwn_do_update, then in              *)
(* common_data_dwn, then in the output stage.                              *)
(***************************************************************************)
One(holds, b) == IF holds THEN <<b>> ELSE <<>>

WaitsInDR == ~shifting /\ since < SyncEdges

DownBytes(c) ==
  (IF c \in FLOW_CONTROL_ENABLE THEN StageBytes(stage[c])
                                ELSE One(c \in data_dwn_valid, common_data_dwn))
    \o One(c \in channel_selected, common_data_dwn)
    \o One(UpdateFor(c), dwn_transfer.data)
    \o One(WaitsInDR /\ dr.valid /\ dr.fn = c, dr.data)

\* The host has the word in up_transfer, the hub has not processed that yet.
ReceiptOnTheWay == (WaitsInDR /\ up_transfer_register_valid_sent_x) \/ UpWordSent

UpBytes(c) ==
  One(c \notin data_up_buffer_empty
        /\ ~(ReceiptOnTheWay /\ up_transfer.valid /\ up_transfer.fn = c), data_up_buffer[c])

\* What the host has sent to a channel and its core has not taken is in the hub,
\* in order and unchanged: no byte is lost for want of room, doubled or overtaken
\* (the buffer of the output stage, the synchronizer, the xoff of the host).
DownIntegrity == \A c \in Channel : to_core[c] = DownBytes(c)

\* What the hub has taken from a core and the host has not received is in the
\* buffer of the channel, and the word being scanned is that byte: no word is
\* released before the host has it, and none is sent twice.
UpIntegrity ==
  \A c \in Channel :
    /\ to_host[c] = UpBytes(c)
    /\ shifting /\ dr.valid /\ dr.fn = c => to_host[c] = <<dr.data>>

\* Between two scans host and hub agree on the channels that are stopped: the hub
\* owes an xon for exactly the channels the host holds back.
XoffAgreement ==
  Settled /\ ~shifting /\ host = "run" => xoff_state_host = dn_xoff \cap FLOW_CONTROL_ENABLE

\* Between two scans a channel the host may send to has room: at most one byte is
\* behind its output register, and that only if the next xoff bit is about it.
OpenChannelHasRoom ==
  Settled /\ ~shifting /\ host = "run" =>
    \A c \in FLOW_CONTROL_ENABLE \ dn_xoff :
      Fill(stage[c]) <= (IF last_dn_tool = c THEN 1 ELSE 0)

\* The word after the reset word is the answer to it.
ResetAnswered ==
  host = "answer" /\ shifting => dr.valid /\ dr.fn = HUB /\ dr.data = ResetAnswer

\* A word counts as received only if the scan shifted all 13 bits: the buffer of
\* a channel is empty again when the host has its byte (README of the hub).
ReceivedBeforeReleased ==
  [][\A c \in Channel \ data_up_buffer_empty :
       c \in data_up_buffer_empty' /\ ~clear => to_host[c] = <<>>]_vars

\* A byte offered to a core with flow control stays until the core takes it.
HeldUntilTaken ==
  [][\A c \in FLOW_CONTROL_ENABLE :
       stage[c].valid /\ ~clear =>
         \/ stage'[c].valid /\ stage'[c].local = stage[c].local
         \/ to_core[c] # <<>> /\ to_core'[c] = Tail(to_core[c])]_vars

\* A channel the host has stopped is opened again.
StoppedChannelReopens == \A c \in FLOW_CONTROL_ENABLE : c \in dn_xoff ~> c \notin dn_xoff

\* A byte the hub has taken from a core reaches the host, whatever the other
\* channels send, or a reset drops it.
UpByteLeaves == \A c \in UpCores : to_host[c] # <<>> ~> to_host[c] = <<>>
=============================================================================

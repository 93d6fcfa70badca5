------------------------------ MODULE Escaping ------------------------------
(***************************************************************************)
(* The byte stream from a host tool to a core: the escaping of the host    *)
(* library (sw/BusAccess/BusAccess.c, the same text in                     *)
(* sw/WaveformGenerator/WaveformGenerator.c), the transport in between,    *)
(* and the decoder IpdbgEscaping in front of the core                      *)
(* (rtl/common/IpdbgEscaping.vhd).                                         *)
(*                                                                         *)
(* A host may die, or time out and close, after any byte: also between the *)
(* escape symbol and the byte it escapes.  The transport then drops what   *)
(* it has not yet passed to the core.                                      *)
(***************************************************************************)
EXTENDS Naturals, Sequences, SequencesExt

CONSTANTS
  Byte, NoByte,
  ESCAPE_SYMBOL, RESET_SYMBOL,
  LinkSize,      \* bound: bytes in the transport
  SessionSize    \* bound: bytes of the tool in one connection

ASSUME EscapingAssumption ==
  /\ {ESCAPE_SYMBOL, RESET_SYMBOL} \subseteq Byte
  /\ ESCAPE_SYMBOL # RESET_SYMBOL
  /\ NoByte \notin Byte
  /\ LinkSize \in Nat \ {0} /\ SessionSize \in Nat

VARIABLES
  \* the decoder
  state,          \* "normal_s" or "escaping_s"
  out_valid, dnlink_data, reset,
  \* the host library
  socket,         \* "closed", "open", or "reset": one of two reset symbols is sent
  payload,        \* the byte whose escape symbol is sent, or NoByte
  \* the transport
  link,           \* bytes on the way to the decoder
  \* history
  taken,          \* the bytes the core has taken since its last reset
  sent            \* the bytes of the tool in this connection

decoderVars == <<state, out_valid, dnlink_data, reset>>
hostVars    == <<socket, payload, sent>>
vars == <<decoderVars, hostVars, link, taken>>

Init ==
  /\ state = "normal_s" /\ out_valid = FALSE /\ dnlink_data = NoByte /\ reset = TRUE
  /\ socket = "closed" /\ payload = NoByte
  /\ link = <<>>
  /\ taken = <<>> /\ sent = <<>>

-----------------------------------------------------------------------------
\* Mutant: the transport takes one byte too many.
SendOneMore(b) == Len(link) <= LinkSize /\ link' = Append(link, b)

\* The host library: one send() of one byte each.
Send(b) == Len(link) < LinkSize /\ link' = Append(link, b)

\* Mutant: one reset symbol is enough.
OpenOnce ==
  /\ socket = "closed"
  /\ Send(RESET_SYMBOL)
  /\ socket' = "open"
  /\ payload' = NoByte /\ sent' = <<>>
  /\ UNCHANGED <<decoderVars, taken>>

\* open: the connection starts with two reset symbols.
Open ==
  /\ socket = "closed"
  /\ Send(RESET_SYMBOL)
  /\ socket' = "reset"
  /\ payload' = NoByte /\ sent' = <<>>
  /\ UNCHANGED <<decoderVars, taken>>

SecondReset ==
  /\ socket = "reset"
  /\ Send(RESET_SYMBOL)
  /\ socket' = "open"
  /\ UNCHANGED <<payload, sent, decoderVars, taken>>

NeedsEscape(b) == b \in {ESCAPE_SYMBOL, RESET_SYMBOL}

\* A command, or a byte of the data that needs no escape symbol.
SendPlain(b) ==
  /\ socket = "open" /\ payload = NoByte
  /\ Len(sent) < SessionSize
  /\ ~NeedsEscape(b)
  /\ Send(b)
  /\ sent' = Append(sent, b)
  /\ UNCHANGED <<socket, payload, decoderVars, taken>>

SendEscape(b) ==
  /\ socket = "open" /\ payload = NoByte
  /\ Len(sent) < SessionSize
  /\ NeedsEscape(b)
  /\ Send(ESCAPE_SYMBOL)
  /\ payload' = b
  /\ UNCHANGED <<socket, sent, decoderVars, taken>>

SendEscaped ==
  /\ socket = "open" /\ payload # NoByte
  /\ Send(payload)
  /\ sent' = Append(sent, payload)
  /\ payload' = NoByte
  /\ UNCHANGED <<socket, decoderVars, taken>>

\* The connection ends: what the transport has not passed on may be dropped.
Close ==
  /\ socket # "closed"
  /\ socket' = "closed"
  /\ payload' = NoByte /\ sent' = <<>>
  /\ \E n \in 0..Len(link) : link' = SubSeq(link, 1, n)
  /\ UNCHANGED <<decoderVars, taken>>

-----------------------------------------------------------------------------
\* Mutant: the decoder takes a byte whether or not it has room.
InReadyAlways(ready) == TRUE

in_ready(ready) == ~out_valid \/ ready

\* The core: a byte moves at an edge with valid and ready; reset is its reset.
Core(ready) ==
  taken' = IF reset THEN <<>> ELSE IF out_valid /\ ready THEN Append(taken, dnlink_data) ELSE taken

\* No byte is offered to the decoder, or it is not ready for it.
NoTransfer(ready) ==
  /\ reset' = FALSE
  /\ out_valid' = (out_valid /\ ~ready)
  /\ UNCHANGED <<state, dnlink_data, link>>

\* The byte b moves into the decoder.
Decode(b, ready) ==
  /\ state' = IF state = "normal_s" /\ b = ESCAPE_SYMBOL THEN "escaping_s" ELSE "normal_s"
  /\ reset' = (state = "normal_s" /\ b = RESET_SYMBOL)
  /\ IF state = "escaping_s" \/ ~NeedsEscape(b)
     THEN out_valid' = TRUE /\ dnlink_data' = b
     ELSE out_valid' = (out_valid /\ ~ready /\ b = ESCAPE_SYMBOL) /\ UNCHANGED dnlink_data

Transfer(ready) ==
  /\ link # <<>>
  /\ in_ready(ready)
  /\ Decode(Head(link), ready)
  /\ link' = Tail(link)

\* One rising edge of clk with ce = '1'.
ClkEdge ==
  \E ready \in BOOLEAN :
    /\ NoTransfer(ready) \/ Transfer(ready)
    /\ Core(ready)
    /\ UNCHANGED hostVars

Next ==
  \/ Open \/ SecondReset \/ SendEscaped \/ Close
  \/ \E b \in Byte : SendPlain(b) \/ SendEscape(b)
  \/ ClkEdge

Spec == Init /\ [][Next]_vars

-----------------------------------------------------------------------------
TypeOK ==
  /\ state \in {"normal_s", "escaping_s"}
  /\ out_valid \in BOOLEAN /\ dnlink_data \in Byte \cup {NoByte} /\ reset \in BOOLEAN
  /\ socket \in {"closed", "reset", "open"} /\ payload \in {NoByte, ESCAPE_SYMBOL, RESET_SYMBOL}
  /\ link \in Seq(Byte) /\ Len(link) <= LinkSize
  /\ taken \in Seq(Byte) /\ sent \in Seq(Byte)

(***************************************************************************)
(* What the stream means (rtl/common/README.md, "Escaping"): the core sees *)
(* the data bytes since the last reset symbol.                             *)
(***************************************************************************)
Reads(m, b) ==
  IF m.escaping THEN [escaping |-> FALSE, core |-> Append(m.core, b)]
  ELSE IF b = ESCAPE_SYMBOL THEN [escaping |-> TRUE, core |-> m.core]
  ELSE IF b = RESET_SYMBOL THEN [escaping |-> FALSE, core |-> <<>>]
  ELSE [escaping |-> FALSE, core |-> Append(m.core, b)]

\* A reader that starts as m, after each of the bytes.
Reading(m, bytes) ==
  LET read[i \in 0..Len(bytes)] == IF i = 0 THEN m ELSE Reads(read[i - 1], bytes[i])
  IN  read

InDecoder == IF out_valid THEN <<dnlink_data>> ELSE <<>>

\* The decoder and the core, as a reader of the bytes that are still on their way.
Reader ==
  [escaping |-> state = "escaping_s", core |-> (IF reset THEN <<>> ELSE taken) \o InDecoder]

\* When the link is drained the core has seen, since a reset, the bytes of this
\* connection and no byte of an earlier one: each once, in order, the two symbols
\* as data where they were data.  Wherever the connection before broke off, and
\* however often the core was not ready.
SessionIntegrity ==
  socket = "open" => Reading(Reader, link)[Len(link)].core = sent

\* A reset symbol never costs the core a byte it is being offered: the byte is
\* held until the core takes it or is itself reset.
OfferedByteIsHeld ==
  [][out_valid => \/ out_valid' /\ dnlink_data' = dnlink_data
                  \/ ~reset /\ taken' = Append(taken, dnlink_data)]_vars
=============================================================================

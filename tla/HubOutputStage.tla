--------------------------- MODULE HubOutputStage ---------------------------
(***************************************************************************)
(* The output stage of one JtagHub channel with flow control               *)
(* (rtl/JtagHub/JtagCdc.vhd, generate w_fc): an output register towards    *)
(* the core and a buffer of three bytes behind it.  The module holds the   *)
(* registers of the stage and their next-state functions, no variables:    *)
(* JtagHub has one stage per channel with flow control.                    *)
(***************************************************************************)
EXTENDS Naturals, Sequences

CONSTANTS
  Byte,    \* the values of a byte
  NoByte   \* the don't-care value '-' of an empty place

ASSUME NoByteAssumption == NoByte \notin Byte

Slots == 0..2

Data == Byte \cup {NoByte}

\* valid and local are the signals valid and data_dwn_local; occupied is the
\* set of the places of buf whose occupied bit is '1'.
Stage == [valid : BOOLEAN, local : Data, buf : [Slots -> Data], occupied : SUBSET Slots]

EmptyStage ==
  [valid |-> FALSE, local |-> NoByte, buf |-> [i \in Slots |-> NoByte], occupied |-> {}]

\* Mutant: the byte in the output register is not waited for.
CanWriteAlways(s, ready) == TRUE

\* The output register is empty or the core takes its byte.
CanWrite(s, ready) == ready \/ ~s.valid

NearFullLate(s) == 1 \in s.occupied   \* mutant: one place later
NearFull(s) == 0 \in s.occupied

\* The buffer moves up by one place, its first byte into the output register.
Shifted(s) ==
  [valid    |-> 0 \in s.occupied,
   local    |-> s.buf[0],
   buf      |-> [i \in Slots |-> IF i = 2 THEN NoByte ELSE s.buf[i + 1]],
   occupied |-> {i \in Slots : i + 1 \in s.occupied}]

Advanced(s, ready) == IF CanWrite(s, ready) THEN Shifted(s) ELSE s

\* Mutant: the place that becomes free in this cycle is not used.
PlaceForNoShift(s, ready, i) == i \notin s.occupied

\* Place i is free, or becomes free by the shift of this cycle.
PlaceFor(s, ready, i) == i \notin s.occupied \/ (i + 1 \notin s.occupied /\ CanWrite(s, ready))

PutAt(s, i, b) == [s EXCEPT !.buf[i] = b, !.occupied = @ \cup {i}]

\* A byte for the channel arrives in a cycle in which the stage may also move
\* up.  In the last alternative "host did not act on xoff -> data is lost".
Written(s, ready, b) ==
  LET next == Advanced(s, ready)
  IN  IF 0 \notin s.occupied /\ CanWrite(s, ready) THEN [next EXCEPT !.local = b, !.valid = TRUE]
      ELSE IF PlaceFor(s, ready, 0) THEN PutAt(next, 0, b)
      ELSE IF PlaceFor(s, ready, 1) THEN PutAt(next, 1, b)
      ELSE IF PlaceFor(s, ready, 2) THEN PutAt(next, 2, b)
      ELSE next

\* One rising edge of clk; selected and b are channel_selected and common_data_dwn.
NextStage(s, clear, selected, b, ready) ==
  IF clear THEN EmptyStage
  ELSE IF selected THEN Written(s, ready, b)
  ELSE Advanced(s, ready)

\* The core takes the byte of the output register at this edge of clk.
Takes(s, ready) == s.valid /\ ready

-----------------------------------------------------------------------------
Bit(b) == IF b THEN 1 ELSE 0

\* The number of bytes in buf, and the bytes in the stage, oldest first.
Fill(s) == Bit(0 \in s.occupied) + Bit(1 \in s.occupied) + Bit(2 \in s.occupied)

StageBytes(s) ==
  (IF s.valid THEN <<s.local>> ELSE <<>>) \o [i \in 1..Fill(s) |-> s.buf[i - 1]]
=============================================================================

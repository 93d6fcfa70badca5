----------------------------- MODULE ByteBuffer -----------------------------
(***************************************************************************)
(* What a link promises that takes one byte at a time: it keeps the byte   *)
(* until it delivers it, and delivers it once.                             *)
(***************************************************************************)
CONSTANTS Byte, NoByte

VARIABLES
  held,       \* the byte in the link, NoByte when it is empty
  delivered   \* the byte delivered last

Init == held = NoByte /\ delivered = NoByte

Accept(b) == held = NoByte /\ held' = b /\ UNCHANGED delivered
Deliver == held # NoByte /\ delivered' = held /\ held' = NoByte

Next == Deliver \/ \E b \in Byte : Accept(b)

Spec == Init /\ [][Next]_<<held, delivered>>

=============================================================================

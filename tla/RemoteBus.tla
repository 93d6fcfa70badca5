----------------------------- MODULE RemoteBus -----------------------------
(***************************************************************************)
(* What BusAccess promises to a program: a bus far away.  A request is one *)
(* access, made at most once, with the address, data and lock asked for,   *)
(* and answered with the result of that access.  A request that fails may  *)
(* or may not have been made; if not, it may still be made later, unless a *)
(* new connection is opened first.                                         *)
(***************************************************************************)
CONSTANTS Requests, NoRequest

VARIABLES
  req,     \* the request that is waiting for its answer
  made,    \* its access: "no", "started", or the result
  owed,    \* a failed request whose access is still on its way
  bus,     \* the access under way on the bus
  reply    \* the answer to the last request, until the program goes on

vars == <<req, made, owed, bus, reply>>

Init ==
  /\ req = NoRequest /\ made = "no" /\ owed = NoRequest
  /\ bus = NoRequest /\ reply = "none"

Ask ==
  /\ req = NoRequest /\ req' \in Requests
  /\ UNCHANGED <<made, owed, bus, reply>>

Access ==
  /\ req # NoRequest /\ made = "no"
  /\ bus = NoRequest /\ bus' = req /\ made' = "started"
  /\ UNCHANGED <<req, owed, reply>>

Complete ==
  /\ bus # NoRequest /\ bus' = NoRequest
  /\ IF made = "started" THEN made' \in {"ACK", "NAK"} ELSE UNCHANGED made
  /\ UNCHANGED <<req, owed, reply>>

Reply ==
  /\ req # NoRequest /\ made \in {"ACK", "NAK"}
  /\ reply' = made
  /\ req' = NoRequest /\ made' = "no"
  /\ UNCHANGED <<owed, bus>>

Fail ==
  /\ req # NoRequest
  /\ reply' = "none"
  /\ req' = NoRequest /\ made' = "no"
  /\ owed' \in {owed} \cup (IF made = "no" THEN {req} ELSE {})
  /\ UNCHANGED bus

LateAccess ==
  /\ owed # NoRequest
  /\ bus = NoRequest /\ bus' = owed /\ owed' = NoRequest
  /\ UNCHANGED <<req, made, reply>>

Proceed == reply' = "none" /\ UNCHANGED <<req, made, owed, bus>>

\* A connection is opened: what was on its way is dropped, and a reset ends
\* an access that is under way.
Reconnect ==
  /\ req = NoRequest
  /\ \/ owed' = NoRequest /\ UNCHANGED bus
     \/ bus' = NoRequest /\ UNCHANGED owed
  /\ UNCHANGED <<req, made, reply>>

Next == Ask \/ Access \/ Complete \/ Reply \/ Fail \/ LateAccess \/ Proceed \/ Reconnect

Spec == Init /\ [][Next]_vars

=============================================================================

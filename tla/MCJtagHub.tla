----------------------------- MODULE MCJtagHub ------------------------------
EXTENDS JtagHub, TLC

(***************************************************************************)
(* A state without the history to_host, which grows without bound when     *)
(* scans are cut short: the hub then releases words the host has not got.  *)
(* No guard and no other variable depends on to_host.                      *)
(***************************************************************************)
WithoutToHost ==
  <<tapVars, since, dwnVars, xoffVars, upVars, hostVars, to_core>>

(***************************************************************************)
(* The behaviours of Spec in which no core takes a byte, the cores UpCores *)
(* send without pause, clk stands while a scan goes on, and the host sends *)
(* a byte with every whole scan once it is connected.                      *)
(***************************************************************************)
Sending == [c \in Channel |-> IF c \in UpCores THEN CHOOSE b \in Byte : TRUE ELSE NoByte]

NextStalled ==
  \/ ~shifting /\ Clk({}, Sending)
  \/ CaptureDR
  \/ \E c \in HostTools, b \in Byte : SendByte(c, b)
  \/ host = "answer" /\ Poll
  \/ host = "connect" /\ ResetHub
  \/ AbortScan

StalledSpec == Init /\ [][NextStalled]_vars
=============================================================================

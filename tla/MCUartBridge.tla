---------------------------- MODULE MCUartBridge ----------------------------
(* The bridge with a queue of two connections. *)
EXTENDS UartBridge, TLC
=============================================================================

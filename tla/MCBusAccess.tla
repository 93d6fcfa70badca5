---------------------------- MODULE MCBusAccess -----------------------------
(* The address matters for an Avalon master only; an AXI4-Lite master, an  *)
(* AHB master and a core whose fields differ have none.  MCWideHprot is an *)
(* AHB master with 7 bits of hprot.                                        *)
EXTENDS BusAccess

Widths(addr, rd, wr, misc, strb) == [addr |-> addr, rd |-> rd, wr |-> wr, misc |-> misc, strb |-> strb]
MCCores == {Widths(32, 32, 32, 1, 0), Widths(0, 32, 32, 6, 0),
            Widths(0, 16, 16, 7, 0), Widths(0, 8, 16, 0, 4)}
MCWideHprot == {Widths(0, 32, 32, 10, 0)}
=============================================================================

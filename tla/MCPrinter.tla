----------------------------- MODULE MCPrinter -----------------------------
(* The printer with bounded numbers of transfers in flight.                *)
EXTENDS Printer, TLC
=============================================================================

----------------------------- MODULE MCFpgaSpi -----------------------------
(***************************************************************************)
(* A delay that is cut to a multiple of 8, a negative one of two bytes and *)
(* one the command refuses; two slaves for a table of one entry and for    *)
(* the one behind it; the FPGA as it powers on, and with a slave and a     *)
(* delay an earlier run has left.                                          *)
(***************************************************************************)
EXTENDS FpgaSpi

MCMaxCalls == [web |-> 1, watchdog |-> 1, debug |-> 2]
MCOffsets == {20, -2100, 2000000}
MCSaved == {-2100}
MCPowerOn ==
  {[a \in Addr |-> 0],
   [a \in Addr |-> CASE a[1] = "delay" -> Digit(20, a[2]) [] a = Wdi -> 0
                     [] a = Slot(0) -> 1 [] a = Slot(1) -> 0]}
=============================================================================

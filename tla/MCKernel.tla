------------------------------ MODULE MCKernel ------------------------------
(* servo above main, and the GUI thread at the priority of idle; timer1 with a *)
(* period some delays span; ticks of three bits, so that rt_tick overflows.   *)
EXTENDS Kernel

MCPrio == [servo |-> 0, main |-> 1, gui |-> 2, idle |-> 2]
MCSlice == [servo |-> 1, main |-> 1, gui |-> 2, idle |-> 1]
MCPeriods == [timer1 |-> 2]
=============================================================================

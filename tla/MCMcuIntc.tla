----------------------------- MODULE MCMcuIntc -----------------------------
(* Instances of McuIntc for TLC: two peripheral sources of different INTC   *)
(* priority, the decrementer, the watchdog, a reset and a debug halt.       *)
EXTENDS McuIntc

CONSTANTS extHi, extLo, dec, wdt, rst, dbg

MCKind == [e \in Exc |->
  CASE e \in {extHi, extLo} -> "external"
    [] e = dec -> "standard"
    [] e = wdt -> "critical"
    [] e = rst -> "reset"
    [] e = dbg -> "debug"]

\* intc_const.py, INTC_LEVEL
MCPrio == [e \in Exc |->
  CASE e \in {extHi, extLo} -> 6
    [] e = dec -> 8
    [] e = wdt -> 5
    [] e = rst -> 0
    [] e = dbg -> 3]

\* all masked, a critical section of the firmware, all open
MCMsrSet == {[ee |-> FALSE, ce |-> FALSE], [ee |-> FALSE, ce |-> TRUE],
             [ee |-> TRUE, ce |-> TRUE]}

MCPsr == [e \in Exc |-> IF e = extHi THEN 5 ELSE IF e = extLo THEN 2 ELSE 0]

=============================================================================

------------------------------ MODULE MCFlexCan ------------------------------
(* An instance of FlexCan for TLC: the FIFO's mailbox and one other.         *)
EXTENDS FlexCan

Data == [ide |-> FALSE, rtr |-> FALSE, std |-> 0, ext |-> 0, data |-> 0]
Remote == [ide |-> TRUE, rtr |-> TRUE, std |-> 1, ext |-> 0, data |-> 0]

\* two frames with the same identifier, and a remote request with another
MCFrames == {Data, [Data EXCEPT !.data = 1], Remote}
MCWritten == [mb \in {0, 8} |-> IF mb = 0 THEN {Data} ELSE {Data, Remote}]

Run == [ResetMcr EXCEPT !.halt = FALSE]
MCMcrSet == {ResetMcr, Run, [Run EXCEPT !.fen = TRUE]}
MCCtrlSet == {[lom |-> FALSE, lpb |-> FALSE], [lom |-> FALSE, lpb |-> TRUE]}
MCCodeSet == {"rx_inactive", "rx_empty", "tx_active", "tx_rtr_sending"}
MCFifoTable == [k \in 0 .. 7 |-> 0]

=============================================================================

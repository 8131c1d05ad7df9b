------------------------------- MODULE MCEqadc -------------------------------
(* An instance of Eqadc for TLC: channel 0, whose FIFO may be extended, and *)
(* another one; FIFOs of 2 and 4 with entries of 2 bytes, so that the byte  *)
(* arrays have 1 and 2 entries, the ratio of the code's 4, 8 and 4 bytes.   *)
EXTENDS Eqadc

Cmd(kind, eoq, tag, config, set) ==
  [kind |-> kind, eoq |-> eoq, bn |-> 0, tag |-> tag, config |-> config, set |-> set]
\* CR is enabled with a filter as destination, which only an ACR heeds
MCCommands == {[ch |-> 0, cmd |-> c] : c \in {
  Cmd("write", FALSE, 0, "CR", "filter"), Cmd("convert", FALSE, 0, "CR", "inhibit"),
  Cmd("convert", TRUE, 0, "CR", "inhibit"), Cmd("read", TRUE, 0, "ACR", "inhibit")}}

Cfcr(mode, sse, cfinv, cfeee0) ==
  [ch |-> 0, mode |-> mode, sse |-> sse, cfinv |-> cfinv, cfeee0 |-> cfeee0, stream |-> FALSE]
MCConfigures == {
  Cfcr("disable", FALSE, FALSE, FALSE), Cfcr("disable", FALSE, TRUE, TRUE),
  Cfcr("single", FALSE, FALSE, FALSE), Cfcr("single", TRUE, FALSE, FALSE),
  Cfcr("single_edge", TRUE, FALSE, FALSE), Cfcr("continuous", TRUE, FALSE, FALSE),
  Cfcr("reserved", FALSE, FALSE, FALSE),
  [Cfcr("single", FALSE, FALSE, FALSE) EXCEPT !.stream = TRUE]}
MCClears == {[ch |-> 0, flags |-> Events]}
MCDmaEnables == {[ch |-> 0, cfff |-> TRUE, dirs |-> TRUE]}

=============================================================================

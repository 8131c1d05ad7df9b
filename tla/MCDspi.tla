------------------------------- MODULE MCDspi -------------------------------
(* An instance of Dspi for TLC.                                             *)
EXTENDS Dspi

\* To the ASIC: the start of a sequential write to the service register, and a
\* service pattern (a read of the fault register when no write is under way) that
\* ends the queue.  To a placeholder device: any word.
MCFrames == {
  [word |-> 49920, dev |-> "asic", eoq |-> FALSE],
  [word |-> ASIC_WDOG_PAT1, dev |-> "asic", eoq |-> TRUE],
  [word |-> 0, dev |-> "placeholder", eoq |-> FALSE]}

Run == [ResetMcr EXCEPT !.halt = FALSE]
MCMcrSet == {ResetMcr, Run, [Run EXCEPT !.rooe = TRUE, !.dis_txf = TRUE, !.dis_rxf = TRUE]}
MCRserSet == {
  ResetRser,
  [ints |-> {"tfff", "rfdf"}, dirs |-> {}],
  [ints |-> {"tfff", "rfdf"}, dirs |-> {"tfff"}]}
MCSrSet == {Events, {"tfff"}, {"rfdf"}}

=============================================================================

----------------------------- MODULE MCMcuTimers -----------------------------
(* Instances of McuTimers for TLC: the combinations of TCR bits written.     *)
EXTENDS McuTimers

\* off; a watchdog that resets, alone and with the decrementer; one that only
\* warns; the decrementer with the fixed-interval timer
MCTcrSet == {
  TcrOff,
  [TcrOff EXCEPT !.wie = TRUE, !.wrc = TRUE],
  [TcrOff EXCEPT !.wie = TRUE, !.wrc = TRUE, !.die = TRUE],
  [TcrOff EXCEPT !.wie = TRUE],
  [TcrOff EXCEPT !.die = TRUE, !.fie = TRUE]}

=============================================================================

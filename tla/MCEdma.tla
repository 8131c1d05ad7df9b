------------------------------- MODULE MCEdma -------------------------------
(* An instance of Edma for TLC: two channels in the first group, one in the *)
(* second; a peripheral is connected to channel 0.                          *)
EXTENDS Edma

Plain == [biter |-> 1, linkch |-> NoLink, int_half |-> FALSE, int_maj |-> FALSE,
          d_req |-> FALSE, invalid |-> FALSE, bus_error |-> FALSE]

\* Channel 0: one iteration, with an interrupt and ERQ cleared at the end.  Channel 1:
\* two iterations with a link to itself or to channel 2.  Channel 2: one iteration, to
\* addresses that do not exist.  The TCDs after reset are rejected.
MCTcds == [c \in 0 .. 2 |->
  CASE c = 0 -> {[Plain EXCEPT !.int_maj = TRUE, !.d_req = TRUE]}
    [] c = 1 -> {[Plain EXCEPT !.biter = 2, !.linkch = l] : l \in {1, 2}}
    [] c = 2 -> {[Plain EXCEPT !.bus_error = TRUE]}]

MCMcrSet ==
  {[ResetMcr EXCEPT !.halt = TRUE, !.erga = TRUE, !.erca = TRUE, !.hoe = TRUE, !.clm = TRUE],
   [ResetMcr EXCEPT !.erga = TRUE, !.erca = TRUE, !.hoe = TRUE, !.clm = TRUE]}
MCChpriSet == {[c \in 0 .. 2 |-> 3 - c]}

=============================================================================

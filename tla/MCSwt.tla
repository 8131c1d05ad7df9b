------------------------------- MODULE MCSwt -------------------------------
(* Instances of Swt for TLC: configurations the firmware chooses among.     *)
EXTENDS Swt

MCFixedKeys == <<42498, 46208>>
MCUnlockKeys == <<50464, 55592>>

Off == [wen |-> FALSE, ria |-> FALSE, wnd |-> FALSE, itr |-> FALSE,
        hlk |-> FALSE, slk |-> FALSE, key |-> FALSE]

\* plain, warning first, keyed, windowed, and the locks
MCMcrSet == {
  Off,
  [Off EXCEPT !.key = TRUE],
  [Off EXCEPT !.wen = TRUE, !.itr = TRUE, !.slk = TRUE],
  [Off EXCEPT !.wen = TRUE, !.key = TRUE, !.itr = TRUE],
  [Off EXCEPT !.wen = TRUE, !.wnd = TRUE, !.ria = TRUE],
  [Off EXCEPT !.wen = TRUE, !.key = TRUE, !.wnd = TRUE, !.hlk = TRUE, !.slk = TRUE]}

=============================================================================

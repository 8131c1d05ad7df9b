---------------------------- MODULE MCEmuTimers ----------------------------
(* Instances of EmuTimers for TLC.                                         *)
EXTENDS EmuTimers, TLC

\* the timers are interchangeable
Symmetry == Permutations(Timer)

=============================================================================

------------------------------- MODULE MCFlash -------------------------------
(* An instance of Flash for TLC: a low block of array A, and a high block of *)
(* which each array has two cells.                                           *)
EXTENDS Flash, TLC

MCMap == {[start |-> 0, end |-> 1, array |-> "A", block |-> "L0"],
          [start |-> 1, end |-> 5, array |-> "AB", block |-> "H0"]}
MCImage == [c \in 0 .. 6 |-> 1]
MCShadowLocks == <<{}>> @@ (0 :> {"S0", "L0", "H0"})
MCLockWrites == {[array |-> "A", reg |-> "hlr", locks |-> l] : l \in {PASSWORD, {}, {"H0"}}}
MCSelections == {{"H0", "L0"}}
MCOperations == {
  [pgm |-> TRUE, ers |-> FALSE, ehv |-> FALSE], [pgm |-> TRUE, ers |-> FALSE, ehv |-> TRUE],
  [pgm |-> FALSE, ers |-> TRUE, ehv |-> FALSE], [pgm |-> FALSE, ers |-> TRUE, ehv |-> TRUE]}
MCWrites == {[cell |-> c, val |-> 0] : c \in {3, 4, 6}}
MCDebugWrites == {[cell |-> 1, val |-> 0]}

=============================================================================

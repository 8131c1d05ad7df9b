----------------------------- MODULE BoundedFifo -----------------------------
(***************************************************************************)
(* What a hardware FIFO promises: items leave in the order in which they   *)
(* entered, each one once.  An item is lost only when it meets a full FIFO *)
(* (it is dropped, or replaces the newest item) or when the FIFO is        *)
(* cleared.                                                                *)
(***************************************************************************)
EXTENDS Naturals, Sequences

CONSTANT Item

VARIABLES q,    \* the items inside, the oldest first
          out   \* the items that left in the last step

FifoInit == q = <<>> /\ out = <<>>

\* At most one item enters, behind the others; then some leave.
Flow ==
  LET all == out' \o q' IN
  /\ Len(all) \in {Len(q), Len(q) + 1}
  /\ SubSeq(all, 1, Len(q)) = q
  /\ \A i \in 1 .. Len(all) : all[i] \in Item

ReplaceNewest ==
  /\ q # <<>> /\ out' = <<>>
  /\ Len(q') = Len(q) /\ q'[Len(q)] \in Item
  /\ SubSeq(q', 1, Len(q) - 1) = SubSeq(q, 1, Len(q) - 1)

Clear == q' = <<>> /\ out' = <<>>

FifoNext == Flow \/ ReplaceNewest \/ Clear

FifoSpec == FifoInit /\ [][FifoNext]_<<q, out>>

=============================================================================

----------------------------- MODULE Dspi_proofs -----------------------------
(***************************************************************************)
(* Proofs about Dspi, for any frames, register values and FIFO sizes: the  *)
(* transmit side implements the FIFO of BoundedFifo, and an event that is  *)
(* flagged and enabled has been told to the core.                          *)
(***************************************************************************)
EXTENDS Dspi, SequenceTheorems, WellFoundedInduction, TLAPS

\* While the controller runs nothing waits in the transmit FIFO: a start sends all
\* of it, or an end-of-queue frame ends the start.
TxInv ==
  /\ tx \in Seq(Frames)
  /\ txrxs => tx = <<>>

-----------------------------------------------------------------------------
(* Sequences: reading a FIFO from its oldest end.                          *)

\* The last entry is the first to leave.
LEMMA ReverseFacts ==
  ASSUME NEW S, NEW s \in Seq(S)
  PROVE  /\ Reverse(s) \in Seq(S) /\ Len(Reverse(s)) = Len(s)
         /\ \A i \in 1 .. Len(s) : Reverse(s)[i] = s[Len(s) - i + 1]
BY DEF Reverse

\* Taking n entries from the old end of s leaves its first Len(s) - n entries.
LEMMA TakeFromTheEnd ==
  ASSUME NEW S, NEW s \in Seq(S), NEW n \in 0 .. Len(s)
  PROVE  LET out == SubSeq(Reverse(s), 1, n)
             left == SubSeq(s, 1, Len(s) - n)
         IN  /\ out \in Seq(S) /\ left \in Seq(S)
             /\ Len(out) = n
             /\ out \o Reverse(left) = Reverse(s)
<1> DEFINE out == SubSeq(Reverse(s), 1, n)
           left == SubSeq(s, 1, Len(s) - n)
<1>1. /\ out \in Seq(S) /\ Len(out) = n
      /\ \A i \in 1 .. n : out[i] = s[Len(s) - i + 1]
  BY ReverseFacts
<1>2. /\ left \in Seq(S) /\ Len(left) = Len(s) - n
      /\ \A i \in 1 .. Len(s) - n : left[i] = s[i]
  OBVIOUS
<1> HIDE DEF out, left
<1> DEFINE back == Reverse(left)
<1>3. /\ back \in Seq(S) /\ Len(back) = Len(s) - n
      /\ \A i \in 1 .. Len(s) - n : back[i] = s[Len(s) - n - i + 1]
  <2>1. /\ back \in Seq(S) /\ Len(back) = Len(left)
        /\ \A i \in 1 .. Len(left) : back[i] = left[Len(left) - i + 1]
    BY <1>2, ReverseFacts
  <2> HIDE DEF back
  <2>2. \A i \in 1 .. Len(s) - n : back[i] = s[Len(s) - n - i + 1]
    <3> SUFFICES ASSUME NEW i \in 1 .. Len(s) - n PROVE back[i] = s[Len(s) - n - i + 1]
      OBVIOUS
    <3>1. back[i] = left[Len(s) - n - i + 1] /\ Len(s) - n - i + 1 \in 1 .. Len(s) - n
      BY <1>2, <2>1
    <3> QED
      BY <1>2, <3>1
  <2> QED
    BY <1>2, <2>1, <2>2
<1> HIDE DEF back
<1> DEFINE all == out \o back
<1>4. /\ all \in Seq(S) /\ Len(all) = Len(s)
      /\ \A i \in 1 .. Len(s) : all[i] = s[Len(s) - i + 1]
  <2>1. /\ all \in Seq(S) /\ Len(all) = Len(out) + Len(back)
        /\ \A i \in 1 .. Len(out) + Len(back) :
              all[i] = IF i <= Len(out) THEN out[i] ELSE back[i - Len(out)]
    BY <1>1, <1>3, ConcatProperties
  <2> HIDE DEF all
  <2>2. ASSUME NEW i \in 1 .. Len(s) PROVE all[i] = s[Len(s) - i + 1]
    <3>1. CASE i <= n
      BY <1>1, <1>3, <2>1, <3>1
    <3>2. CASE i > n
      <4>1. PICK j \in 1 .. Len(s) - n : i = n + j
        <5>1. i - n \in 1 .. Len(s) - n /\ i = n + (i - n)
          BY <3>2
        <5> QED
          BY <5>1
      <4>2. all[i] = back[j]
        <5>1. all[i] = back[i - Len(out)]
          BY <1>1, <1>3, <2>1, <3>2
        <5>2. i - Len(out) = j
          BY <1>1, <4>1
        <5> QED
          BY <5>1, <5>2
      <4>3. back[j] = s[Len(s) - n - j + 1]
        BY <1>3
      <4>4. Len(s) - n - j + 1 = Len(s) - i + 1
        BY <4>1
      <4> QED
        BY <4>2, <4>3, <4>4
    <3> QED
      BY <3>1, <3>2
  <2> QED
    BY <1>1, <1>3, <2>1, <2>2
<1>5. out \o back = Reverse(s)
  <2> DEFINE r == Reverse(s)
  <2>1. /\ r \in Seq(S) /\ Len(r) = Len(s)
        /\ \A i \in 1 .. Len(s) : r[i] = s[Len(s) - i + 1]
    BY ReverseFacts
  <2> HIDE DEF r
  <2>2. out \o back = r
    BY <1>4, <2>1, SeqEqual
  <2> QED
    BY <2>2 DEF r
<1> QED
  BY <1>1, <1>2, <1>5 DEF out, left, back

\* What enters in front of the others leaves behind them.
LEMMA EnterInFront ==
  ASSUME NEW S, NEW s \in Seq(S), NEW e \in S
  PROVE  <<e>> \o s \in Seq(S) /\ Reverse(<<e>> \o s) = Append(Reverse(s), e)
<1> DEFINE t == <<e>> \o s
<1>1. /\ t \in Seq(S) /\ Len(t) = Len(s) + 1
      /\ t[1] = e /\ \A i \in 2 .. Len(t) : t[i] = s[i - 1]
  OBVIOUS
<1> HIDE DEF t
<1>2. /\ Reverse(t) \in Seq(S) /\ Len(Reverse(t)) = Len(s) + 1
      /\ \A i \in 1 .. Len(t) : Reverse(t)[i] = t[Len(t) - i + 1]
  BY <1>1, ReverseFacts
<1> DEFINE u == Append(Reverse(s), e)
<1>3. /\ u \in Seq(S) /\ Len(u) = Len(s) + 1 /\ u[Len(s) + 1] = e
      /\ \A i \in 1 .. Len(s) : u[i] = s[Len(s) - i + 1]
  <2>1. /\ u \in Seq(S) /\ Len(u) = Len(s) + 1 /\ u[Len(s) + 1] = e
        /\ \A i \in 1 .. Len(s) : u[i] = Reverse(s)[i]
    BY ReverseFacts, AppendProperties
  <2> QED
    BY <2>1, ReverseFacts
<1> HIDE DEF u
<1>4. ASSUME NEW i \in 1 .. Len(s) + 1 PROVE Reverse(t)[i] = u[i]
  <2>1. CASE i = Len(s) + 1
    BY <1>1, <1>2, <1>3, <2>1
  <2>2. CASE i # Len(s) + 1
    <3>1. i \in 1 .. Len(s) /\ Len(s) + 1 - i + 1 \in 2 .. Len(t)
      BY <1>1, <2>2
    <3>2. Reverse(t)[i] = t[Len(s) + 1 - i + 1]
      BY <1>1, <1>2
    <3>3. t[Len(s) + 1 - i + 1] = s[Len(s) + 1 - i + 1 - 1]
      BY <1>1, <3>1
    <3>4. Len(s) + 1 - i + 1 - 1 = Len(s) - i + 1
      OBVIOUS
    <3> QED
      BY <1>3, <3>1, <3>2, <3>3, <3>4
  <2> QED
    BY <2>1, <2>2
<1>5. Reverse(t) = u
  BY <1>1, <1>2, <1>3, <1>4, SeqEqual
<1> QED
  BY <1>1, <1>5 DEF t, u

\* A set of natural numbers that is not empty has a least element.
LEMMA LeastExists ==
  ASSUME NEW T \in SUBSET Nat, T # {}
  PROVE  \E x \in T : \A y \in T : x <= y
<1> DEFINE R == OpToRel(<, Nat)
<1>1. IsWellFoundedOn(R, Nat)
  BY NatLessThanWellFounded
<1>2. R = {p \in Nat \X Nat : p[1] < p[2]}
  BY DEF OpToRel
<1> HIDE DEF R
<1>3. PICK x \in T : \A y \in T : <<y, x>> \notin R
  BY <1>1, WFMin
<1>4. ASSUME NEW y \in T PROVE x <= y
  <2> DEFINE p == <<y, x>>
  <2>1. p \in Nat \X Nat /\ p[1] = y /\ p[2] = x
    OBVIOUS
  <2>2. p \notin R
    BY <1>3
  <2> HIDE DEF p
  <2>3. ~ (p[1] < p[2])
    BY <1>2, <2>1, <2>2
  <2>4. ~ (y < x) /\ x \in Nat /\ y \in Nat
    BY <2>1, <2>3
  <2> QED
    BY <2>4
<1> QED
  BY <1>4

-----------------------------------------------------------------------------
(* The transmit side.                                                      *)

\* A start takes the oldest entries: all of them, unless an end-of-queue frame
\* ends it.
LEMMA DrainedFacts ==
  ASSUME tx \in Seq(Frames)
  PROVE  \E n \in 0 .. Len(tx) :
           /\ Drained = SubSeq(Reverse(tx), 1, n)
           /\ EndOfQueue(Drained) \/ n = Len(tx)
<1> DEFINE oldest == Reverse(tx)
           ends == {i \in 1 .. Len(tx) : oldest[i].eoq}
           n == IF ends = {} THEN Len(tx) ELSE CHOOSE i \in ends : \A j \in ends : i <= j
<1>1. Drained = SubSeq(oldest, 1, n)
  BY DEF Drained
<1>2. CASE ends = {}
  BY <1>1, <1>2
<1>3. CASE ends # {}
  <2>1. \E i \in ends : \A j \in ends : i <= j
    <3>1. ends \in SUBSET Nat
      OBVIOUS
    <3> HIDE DEF ends
    <3> QED
      BY <1>3, <3>1, LeastExists
  <2>2. n \in ends
    BY <1>3, <2>1
  <2>3. n \in 1 .. Len(tx) /\ oldest[n].eoq
    BY <2>2
  <2> HIDE DEF n, ends
  <2>4. oldest \in Seq(Frames) /\ Len(oldest) = Len(tx)
    BY ReverseFacts
  <2> HIDE DEF oldest
  <2>5. Len(Drained) = n /\ Drained[n] = oldest[n]
    BY <1>1, <2>3, <2>4
  <2>6. EndOfQueue(Drained)
    BY <2>3, <2>5 DEF EndOfQueue, Last
  <2> QED
    BY <1>1, <2>3, <2>6 DEF oldest
<1> QED
  BY <1>2, <1>3

\* What an abstract FIFO does when nothing enters or leaves.
LEMMA StandsStill ==
  ASSUME TxInv, tx' = tx, sent' = <<>>
  PROVE  TxOrder!Flow
<1> DEFINE r == Reverse(tx)
<1>1. r \in Seq(Frames) /\ Reverse(tx') = r
  BY ReverseFacts DEF TxInv
<1> HIDE DEF r
<1>2. /\ <<>> \o r = r /\ SubSeq(r, 1, Len(r)) = r
      /\ \A i \in 1 .. Len(r) : r[i] \in Frames
  BY <1>1
<1> QED
  BY <1>1, <1>2 DEF TxOrder!Flow, r

\* What the abstract FIFO sees of a step.
TxStep == TxInv' /\ TxOrder!FifoNext

LEMMA Quiet ==
  ASSUME TxInv, tx' = tx, sent' = <<>>, txrxs' = txrxs
  PROVE  TxStep
BY StandsStill DEF TxStep, TxInv, TxOrder!FifoNext

LEMMA ResetClears == ASSUME Reset PROVE TxStep
<1>1. tx' = <<>> /\ sent' = <<>> /\ txrxs' = FALSE
  BY DEF Reset
<1>2. Reverse(tx') = <<>>
  BY <1>1 DEF Reverse
<1>3. TxInv'
  BY <1>1 DEF TxInv
<1>4. TxOrder!Clear
  BY <1>1, <1>2 DEF TxOrder!Clear
<1> QED
  BY <1>3, <1>4 DEF TxStep, TxOrder!FifoNext

\* A frame written while the controller runs goes straight through the empty FIFO.
LEMMA PushSends ==
  ASSUME TxInv, NEW f \in Frames, PushWhileRunning(f)
  PROVE  TxStep
<1>1. tx = <<>> /\ tx' = <<>> /\ sent' = <<f>>
  BY DEF PushWhileRunning, Transmit, TxInv
<1>2. Reverse(tx) = <<>> /\ Reverse(tx') = <<>>
  BY <1>1 DEF Reverse
<1>3. TxOrder!Flow
  <2> DEFINE all == <<f>>
  <2>1. /\ all \o <<>> = all /\ Len(all) = 1 /\ Len(<<>>) = 0
        /\ SubSeq(all, 1, 0) = <<>> /\ \A i \in 1 .. 1 : all[i] \in Frames
    OBVIOUS
  <2>2. sent' \o Reverse(tx') = all
    BY <1>1, <1>2, <2>1
  <2> DEFINE r == Reverse(tx)
  <2>3. /\ Len(r) = 0 /\ SubSeq(all, 1, Len(r)) = r
        /\ Len(all) \in {Len(r), Len(r) + 1}
        /\ \A i \in 1 .. Len(all) : all[i] \in Frames
    <3>1. r = <<>>
      BY <1>2
    <3> HIDE DEF r
    <3>2. Len(r) = 0
      BY <3>1
    <3> HIDE DEF all
    <3> QED
      BY <2>1, <3>1, <3>2
  <2> HIDE DEF all
  <2> QED
    BY <2>2, <2>3 DEF TxOrder!Flow
<1>4. TxInv'
  BY <1>1 DEF TxInv
<1> QED
  BY <1>3, <1>4 DEF TxStep, TxOrder!FifoNext

\* A frame written while it is stopped waits behind the others, if there is room.
LEMMA PushWaits ==
  ASSUME TxInv, NEW f \in Frames, PushWhileStopped(f)
  PROVE  TxStep
<1>1. sent' = <<>> /\ txrxs' = txrxs /\ ~txrxs
  BY DEF PushWhileStopped
<1>2. CASE tx' = tx
  BY <1>1, <1>2, Quiet
<1>3. CASE tx' = <<f>> \o tx
  <2>1. tx' \in Seq(Frames) /\ Reverse(tx') = Append(Reverse(tx), f)
    BY <1>3, EnterInFront DEF TxInv
  <2> DEFINE r == Reverse(tx)
             t == Append(r, f)
  <2>2. r \in Seq(Frames)
    BY ReverseFacts DEF TxInv
  <2>3. /\ <<>> \o t = t /\ Len(t) = Len(r) + 1 /\ SubSeq(t, 1, Len(r)) = r
        /\ \A i \in 1 .. Len(t) : t[i] \in Frames
    <3> HIDE DEF r
    <3>1. t \in Seq(Frames) /\ Len(t) = Len(r) + 1 /\ \A i \in 1 .. Len(r) : t[i] = r[i]
      BY <2>2
    <3>2. <<>> \o t = t /\ \A i \in 1 .. Len(t) : t[i] \in Frames
      BY <3>1
    <3>3. SubSeq(t, 1, Len(r)) = r
      <4> HIDE DEF t
      <4>1. /\ SubSeq(t, 1, Len(r)) \in Seq(Frames) /\ Len(SubSeq(t, 1, Len(r))) = Len(r)
            /\ \A i \in 1 .. Len(r) : SubSeq(t, 1, Len(r))[i] = r[i]
        BY <2>2, <3>1
      <4> QED
        BY <2>2, <4>1, SeqEqual
    <3> QED
      BY <3>1, <3>2, <3>3
  <2>4. TxOrder!Flow
    BY <1>1, <2>1, <2>3 DEF TxOrder!Flow
  <2>5. TxInv'
    BY <1>1, <2>1 DEF TxInv
  <2> QED
    BY <2>4, <2>5 DEF TxStep, TxOrder!FifoNext
<1> QED
  BY <1>2, <1>3 DEF PushWhileStopped

\* A write to MCR clears the FIFO, or sends from its oldest end, or neither.
LEMMA McrSends ==
  ASSUME TxInv, NEW m \in McrSet, NEW clrTx \in BOOLEAN, NEW clrRx \in BOOLEAN,
         WriteMcr(m, clrTx, clrRx)
  PROVE  TxStep
<1> DEFINE running == ~m.mdis /\ ~m.halt
           s == IF running /\ ~txrxs /\ ~clrTx THEN Drained ELSE <<>>
           left == SubSeq(tx, 1, Len(tx) - Len(s))
<1>1. /\ tx' = (IF clrTx THEN <<>> ELSE left) /\ sent' = s
      /\ txrxs' = (running /\ ~EndOfQueue(s))
  BY DEF WriteMcr, Transmit
<1>2. CASE clrTx
  <2>1. tx' = <<>> /\ sent' = <<>> /\ Reverse(tx') = <<>>
    BY <1>1, <1>2 DEF Reverse
  <2> QED
    BY <2>1 DEF TxStep, TxInv, TxOrder!FifoNext, TxOrder!Clear
<1>3. CASE ~clrTx /\ running /\ ~txrxs
  <2>1. PICK n \in 0 .. Len(tx) :
          s = SubSeq(Reverse(tx), 1, n) /\ (EndOfQueue(s) \/ n = Len(tx))
    BY <1>3, DrainedFacts DEF TxInv
  <2> DEFINE r == Reverse(tx)
             rest == SubSeq(tx, 1, Len(tx) - n)
  <2>2. r \in Seq(Frames) /\ s \in Seq(Frames) /\ rest \in Seq(Frames) /\ Len(s) = n
        /\ s \o Reverse(rest) = r
    <3> HIDE DEF s
    <3> QED
      BY <2>1, TakeFromTheEnd, ReverseFacts DEF TxInv
  <2>3. tx' = rest /\ sent' = s
    <3> HIDE DEF s
    <3> QED
      BY <1>1, <1>3, <2>2
  <2>4. TxOrder!Flow
    <3>1. /\ sent' \o Reverse(tx') = r /\ Len(r) = Len(r) /\ SubSeq(r, 1, Len(r)) = r
          /\ \A i \in 1 .. Len(r) : r[i] \in Frames
      <4> HIDE DEF r, s, rest
      <4> QED
        BY <2>2, <2>3
    <3> QED
      BY <3>1 DEF TxOrder!Flow
  <2>5. TxInv'
    <3>1. CASE EndOfQueue(s)
      BY <1>1, <2>2, <2>3, <3>1 DEF TxInv
    <3>2. CASE n = Len(tx)
      <4>1. rest = <<>>
        BY <3>2 DEF TxInv
      <4> QED
        BY <2>3, <4>1 DEF TxInv
    <3> QED
      BY <2>1, <3>1, <3>2
  <2> QED
    BY <2>4, <2>5 DEF TxStep, TxOrder!FifoNext
<1>4. CASE ~clrTx /\ ~ (running /\ ~txrxs)
  <2>1. s = <<>> /\ left = tx
    BY <1>4 DEF TxInv
  <2>2. tx' = tx /\ sent' = <<>> /\ (txrxs' => txrxs)
    BY <1>1, <1>4, <2>1
  <2> QED
    BY <2>2, StandsStill DEF TxStep, TxInv, TxOrder!FifoNext
<1> QED
  BY <1>2, <1>3, <1>4

-----------------------------------------------------------------------------
(* The devices on the bus.                                                 *)

BusStates == [asic : AsicStates, io : Seq(Words)]

\* The ASIC's registers stay 16 bits wide, whatever words it receives.
LEMMA AsicTypes ==
  ASSUME NEW a \in AsicStates, NEW w \in Words
  PROVE  Receive(a, w) \in AsicStates /\ Reply(a, w) \in Words
<1>1. a.regs \in [0 .. 63 -> Words] /\ a.addr \in 0 .. 63 \union {NoAddr}
  BY DEF AsicStates
<1>2. RegAddr(w) \in 0 .. 63 /\ Byte(w) \in 0 .. 2^8 - 1
  BY DEF RegAddr, Byte, Words
<1>3. 2^16 - 1 \in Words
  BY DEF Words
<1>4. ASSUME NEW old \in Words, NEW v \in 0 .. 2^8 - 1
      PROVE  ((old \div 2^8) * 2^8) + v \in Words /\ (v * 2^8) + (old % 2^8) \in Words
  BY DEF Words
<1> DEFINE With(addr, new) == [a EXCEPT !.regs[addr] = new]
<1>5. ASSUME NEW new \in Words, NEW addr \in 0 .. 63
      PROVE  With(addr, new) \in AsicStates
  BY <1>1 DEF AsicStates
<1>6. CASE a.addr # NoAddr
  <2>1. Write(a, WRITE_SEQ, a.addr, w) = With(a.addr, w)
    BY DEF Write, WRITE_SEQ, WRITE_LOWER, WRITE_UPPER
  <2> HIDE DEF With
  <2>2. Write(a, WRITE_SEQ, a.addr, w) \in AsicStates
    BY <1>1, <1>5, <1>6, <2>1
  <2> QED
    BY <1>3, <1>6, <2>2 DEF Receive, Reply, AsicStates
<1>7. CASE a.addr = NoAddr
  <2>1. Reply(a, w) \in Words
    BY <1>1, <1>2, <1>3 DEF Reply
  <2>2. CASE Cmd(w) = WRITE_LOWER
    <3> DEFINE new == ((a.regs[RegAddr(w)] \div 2^8) * 2^8) + Byte(w)
    <3>1. Write(a, WRITE_LOWER, RegAddr(w), Byte(w)) = With(RegAddr(w), new)
      BY DEF Write, WRITE_LOWER, WRITE_UPPER, WRITE_SEQ
    <3>2. new \in Words
      BY <1>1, <1>2, <1>4
    <3>3. Receive(a, w) = Write(a, WRITE_LOWER, RegAddr(w), Byte(w))
      BY <1>7, <2>2 DEF Receive, WRITE_LOWER, WRITE_UPPER, WRITE_SEQ
    <3> HIDE DEF new, With
    <3>4. Receive(a, w) \in AsicStates
      BY <1>2, <1>5, <3>1, <3>2, <3>3
    <3> QED
      BY <2>1, <3>4
  <2>3. CASE Cmd(w) = WRITE_UPPER
    <3> DEFINE new == (Byte(w) * 2^8) + (a.regs[RegAddr(w)] % 2^8)
    <3>1. Write(a, WRITE_UPPER, RegAddr(w), Byte(w)) = With(RegAddr(w), new)
      BY DEF Write, WRITE_LOWER, WRITE_UPPER, WRITE_SEQ
    <3>2. new \in Words
      BY <1>1, <1>2, <1>4
    <3>3. Receive(a, w) = Write(a, WRITE_UPPER, RegAddr(w), Byte(w))
      BY <1>7, <2>3 DEF Receive, WRITE_LOWER, WRITE_UPPER, WRITE_SEQ
    <3> HIDE DEF new, With
    <3>4. Receive(a, w) \in AsicStates
      BY <1>2, <1>5, <3>1, <3>2, <3>3
    <3> QED
      BY <2>1, <3>4
  <2>4. CASE Cmd(w) = WRITE_SEQ
    BY <1>1, <1>2, <1>7, <2>1, <2>4 DEF Receive, AsicStates, WRITE_SEQ, WRITE_LOWER, WRITE_UPPER
  <2>5. CASE Cmd(w) \notin {WRITE_LOWER, WRITE_UPPER, WRITE_SEQ}
    BY <1>7, <2>1, <2>5 DEF Receive
  <2> QED
    BY <2>2, <2>3, <2>4, <2>5
<1> QED
  BY <1>6, <1>7

LEMMA ExchangeTypes ==
  ASSUME NEW b \in BusStates, NEW f \in Frames
  PROVE  Exchange(b, f) \in BusStates
<1>1. /\ f.word \in Words /\ f.dev \in Devices
      /\ b.asic \in AsicStates /\ b.io \in Seq(Words)
  BY DspiAssumption DEF BusStates
<1>2. /\ Receive(b.asic, f.word) \in AsicStates
      /\ Append(b.io, Reply(b.asic, f.word)) \in Seq(Words)
      /\ Append(b.io, PLACEHOLDER) \in Seq(Words)
  <2>1. PLACEHOLDER \in Words
    BY DEF PLACEHOLDER, Words
  <2>2. Reply(b.asic, f.word) \in Words
    BY <1>1, AsicTypes
  <2> QED
    BY <1>1, <2>1, <2>2, AsicTypes
<1>3. CASE f.dev = "asic"
  BY <1>2, <1>3 DEF Exchange, BusStates
<1>4. CASE f.dev = "placeholder"
  BY <1>1, <1>2, <1>4 DEF Exchange, BusStates
<1>5. CASE f.dev = "none"
  BY <1>5 DEF Exchange
<1> QED
  BY <1>1, <1>3, <1>4, <1>5 DEF Devices

\* Recursion over the frames: a function over 0 .. N that steps from each state to
\* the next, the k-th time with h[k].
IsRun(g, S, x, h, N) ==
  g \in [0 .. N -> S] /\ g[0] = x /\ \A k \in 1 .. N : g[k] = h[k][g[k - 1]]

\* Steps that stay in a set make a run of any length.
LEMMA RunExists ==
  ASSUME NEW S, NEW x \in S, NEW N \in Nat, NEW h \in [1 .. N -> [S -> S]]
  PROVE  \E g : IsRun(g, S, x, h, N)
<1> DEFINE Run(m, g) == g[0] = x /\ \A k \in 1 .. m : g[k] = h[k][g[k - 1]]
           Bad == {m \in 0 .. N : ~ \E g \in [0 .. m -> S] : Run(m, g)}
<1> SUFFICES ASSUME Bad # {} PROVE FALSE
  BY DEF IsRun
<1>1. PICK m \in Bad : \A y \in Bad : m <= y
  <2>1. Bad \in SUBSET Nat
    OBVIOUS
  <2> HIDE DEF Bad
  <2> QED
    BY <2>1, LeastExists
<1>2. m \in 0 .. N /\ ~ \E g \in [0 .. m -> S] : Run(m, g)
  OBVIOUS
<1>3. m # 0
  <2> SUFFICES ASSUME m = 0 PROVE FALSE
    OBVIOUS
  <2> DEFINE g == [k \in 0 .. 0 |-> x]
  <2>1. g \in [0 .. 0 -> S] /\ Run(0, g)
    OBVIOUS
  <2> HIDE DEF g, Run
  <2> QED
    BY <1>2, <2>1
<1>4. PICK b \in [0 .. m - 1 -> S] : Run(m - 1, b)
  <2>1. m - 1 \in 0 .. N /\ m - 1 \notin Bad
    <3> HIDE DEF Bad
    <3> QED
      BY <1>1, <1>2, <1>3
  <2> QED
    BY <2>1
<1> DEFINE last == h[m][b[m - 1]]
           g == [k \in 0 .. m |-> IF k = m THEN last ELSE b[k]]
<1>5. last \in S
  <2>1. m \in 1 .. N /\ m - 1 \in 0 .. m - 1
    BY <1>2, <1>3
  <2>2. h[m] \in [S -> S] /\ b[m - 1] \in S
    BY <2>1
  <2> QED
    BY <2>2
<1>6. g \in [0 .. m -> S]
  <2> HIDE DEF last
  <2> QED
    BY <1>2, <1>3, <1>5
<1>7. Run(m, g)
  <2>1. g[0] = x
    BY <1>2, <1>3, <1>4
  <2>2. ASSUME NEW k \in 1 .. m PROVE g[k] = h[k][g[k - 1]]
    <3>1. CASE k = m
      BY <1>2, <1>3, <3>1
    <3>2. CASE k # m
      <4>1. k \in 1 .. m - 1 /\ g[k] = b[k] /\ g[k - 1] = b[k - 1]
        BY <1>2, <3>2
      <4> QED
        BY <1>4, <4>1
    <3> QED
      BY <3>1, <3>2
  <2> HIDE DEF g
  <2> QED
    BY <2>1, <2>2
<1> HIDE DEF g, Run
<1> QED
  BY <1>2, <1>6, <1>7

\* So the bus keeps its types, however many frames there are.
LEMMA BusAfterTypes ==
  ASSUME NEW a \in AsicStates, NEW n \in Nat, NEW s, \A k \in 1 .. n : s[k] \in Frames
  PROVE  BusAfter(a, s, n) \in BusStates
<1> DEFINE first == [asic |-> a, io |-> <<>>]
           Step(b, k) == Exchange(b, s[k])
           h == [k \in 1 .. n |-> [b \in BusStates |-> Step(b, k)]]
           Run(g) == g = [k \in 0 .. n |-> IF k = 0 THEN first ELSE Step(g[k - 1], k)]
           after == CHOOSE g : Run(g)
<1>1. ASSUME NEW b \in BusStates, NEW k \in 1 .. n PROVE Step(b, k) \in BusStates
  BY ExchangeTypes
<1>2. first \in BusStates
  BY DEF BusStates
<1>3. BusAfter(a, s, n) = after[n]
  BY DEF BusAfter
<1> HIDE DEF first, Step
<1>4. h \in [1 .. n -> [BusStates -> BusStates]]
  BY <1>1
<1>5. PICK g : IsRun(g, BusStates, first, h, n)
  <2> HIDE DEF h
  <2> QED
    BY <1>2, <1>4, RunExists
<1>6. /\ g \in [0 .. n -> BusStates] /\ g[0] = first
      /\ \A k \in 1 .. n : g[k] = Step(g[k - 1], k)
  <2>1. /\ g \in [0 .. n -> BusStates] /\ g[0] = first
        /\ \A k \in 1 .. n : g[k] = h[k][g[k - 1]]
    <3> HIDE DEF h
    <3> QED
      BY <1>5 DEF IsRun
  <2>2. ASSUME NEW k \in 1 .. n PROVE g[k] = Step(g[k - 1], k)
    <3>1. k - 1 \in 0 .. n
      OBVIOUS
    <3>2. g[k - 1] \in BusStates
      BY <2>1, <3>1
    <3> QED
      BY <2>1, <3>2
  <2> QED
    BY <2>1, <2>2
<1>7. Run(g)
  <2> HIDE DEF h
  <2>1. ASSUME NEW k \in 0 .. n PROVE g[k] = IF k = 0 THEN first ELSE Step(g[k - 1], k)
    <3>1. k = 0 \/ k \in 1 .. n
      OBVIOUS
    <3> QED
      BY <1>6, <3>1
  <2> QED
    BY <1>6, <2>1
<1>8. Run(after)
  <2> HIDE DEF Run
  <2> QED
    BY <1>7
<1> HIDE DEF after
<1>9. /\ after[0] = first
      /\ \A k \in 1 .. n : after[k] = Step(after[k - 1], k)
  BY <1>8
<1> HIDE DEF Run, h
<1>10. \A k \in 0 .. n : after[k] \in BusStates
  <2> DEFINE Bad == {k \in 0 .. n : after[k] \notin BusStates}
  <2> SUFFICES ASSUME Bad # {} PROVE FALSE
    OBVIOUS
  <2>1. PICK m \in Bad : \A y \in Bad : m <= y
    <3>1. Bad \in SUBSET Nat
      OBVIOUS
    <3> HIDE DEF Bad
    <3> QED
      BY <3>1, LeastExists
  <2>2. m \in 0 .. n /\ after[m] \notin BusStates
    OBVIOUS
  <2>3. m # 0
    BY <1>2, <1>9, <2>2
  <2>4. m \in 1 .. n /\ m - 1 \in 0 .. n /\ m - 1 \notin Bad
    <3> HIDE DEF Bad
    <3> QED
      BY <2>1, <2>2, <2>3
  <2>5. after[m - 1] \in BusStates
    BY <2>4
  <2> QED
    BY <1>1, <1>9, <2>2, <2>4, <2>5
<1> QED
  BY <1>3, <1>10

LEMMA ExchangedTypes ==
  ASSUME NEW a \in AsicStates, NEW s \in Seq(Frames)
  PROVE  Exchanged(a, s).asic \in AsicStates /\ Exchanged(a, s).io \in Seq(Words)
<1>1. Len(s) \in Nat /\ \A k \in 1 .. Len(s) : s[k] \in Frames
  OBVIOUS
<1>2. BusAfter(a, s, Len(s)) \in BusStates
  BY <1>1, BusAfterTypes
<1> QED
  BY <1>2 DEF Exchanged, BusStates

-----------------------------------------------------------------------------
(* Events.                                                                 *)

\* A flag stays told while it is set, and a new one is told at once.
LEMMA SignalTells ==
  ASSUME NEW old, NEW es, Signal(old, es), rser' = rser,
         \A e \in old \intersect rser.ints : e \in told
  PROVE  EnabledAreTold'
BY DEF Signal, AsDma, EnabledAreTold

LEMMA SameFlagsTell ==
  ASSUME EnabledAreTold, UNCHANGED <<flags, told, rser>>
  PROVE  EnabledAreTold'
BY DEF EnabledAreTold

LEMMA EveryStepTells == ASSUME EnabledAreTold, [Next]_vars PROVE EnabledAreTold'
<1>1. CASE Reset
  BY <1>1 DEF Reset, ResetRser, EnabledAreTold
<1>2. CASE ProcessIO
  <2>1. PICK es : rser' = rser /\ (Signal(flags, es) \/ UNCHANGED signals)
    BY <1>2 DEF ProcessIO, regs
  <2> QED
    BY <2>1, SignalTells, SameFlagsTell DEF EnabledAreTold, signals
<1>3. CASE ReadPopr
  BY <1>3, SignalTells DEF ReadPopr, regs, EnabledAreTold
<1>4. ASSUME NEW f \in Frames, WritePushr(f) PROVE EnabledAreTold'
  <2>1. PICK es : rser' = rser /\ (Signal(flags, es) \/ UNCHANGED signals)
    BY <1>4 DEF WritePushr, PushWhileRunning, PushWhileStopped
  <2> QED
    BY <2>1, SignalTells, SameFlagsTell DEF EnabledAreTold, signals
<1>5. ASSUME NEW m \in McrSet, NEW clrTx \in BOOLEAN, NEW clrRx \in BOOLEAN,
             WriteMcr(m, clrTx, clrRx)
      PROVE  EnabledAreTold'
  BY <1>5, SignalTells DEF WriteMcr, EnabledAreTold
<1>6. ASSUME NEW cleared \in SrSet, WriteSr(cleared) PROVE EnabledAreTold'
  BY <1>6, SignalTells DEF WriteSr, regs, EnabledAreTold
<1>7. ASSUME NEW new \in RserSet, WriteRser(new) PROVE EnabledAreTold'
  BY <1>7 DEF WriteRser, EnabledAreTold
<1>8. CASE UNCHANGED vars
  BY <1>8, SameFlagsTell DEF vars, signals, regs
<1> QED
  BY <1>1, <1>2, <1>3, <1>4, <1>5, <1>6, <1>7, <1>8 DEF Next

-----------------------------------------------------------------------------
(* Types, and the flag that says that the transmit FIFO can be filled.     *)

\* The part of TypeOK that Signal changes.
SignalTypes ==
  /\ flags \in SUBSET Events /\ told \in SUBSET Events /\ fillDma \in BOOLEAN

Fill == tx = <<>> => "tfff" \in flags \/ fillDma

LEMMA SignalKeepsTypes ==
  ASSUME SignalTypes, NEW old \in SUBSET Events, NEW es \in SUBSET Events, Signal(old, es)
  PROVE  SignalTypes'
<1>1. flags' \in SUBSET Events /\ told' \in SUBSET Events
  BY DEF Signal, SignalTypes
<1>2. fillDma' \in BOOLEAN
  BY DEF Signal, SignalTypes, AsDma
<1> QED
  BY <1>1, <1>2 DEF SignalTypes

\* An event of the transmit FIFO sets TFFF or goes out as a DMA request.
LEMMA SignalFills ==
  ASSUME NEW old, NEW es, Signal(old, es),
         "tfff" \in old \union es \/ ("tfff" \notin old /\ fillDma)
  PROVE  "tfff" \in flags' \/ fillDma'
BY DEF Signal

\* The transmit FIFO is not longer than it can be.
LEMMA TxLength ==
  ASSUME TypeOK, NEW m \in Mcr
  PROVE  MaxTx(m) \in 1 .. TxSize /\ MaxRx \in 2 .. RxSize
BY DspiAssumption DEF TypeOK, MaxTx, MaxRx

LEMMA TypesUnchanged ==
  ASSUME TypeOK, UNCHANGED vars
  PROVE  TypeOK'
BY DEF TypeOK, vars, regs, signals

\* The empty FIFOs and the flags of a reset.
LEMMA ResetStands ==
  /\ {"tfff"} \in SUBSET Events /\ {} \in SUBSET Events
  /\ \A S : <<>> \in Seq(S)
  /\ Len(<<>>) = 0 /\ 0 \in 0 .. 0 /\ 0 <= TxSize /\ 0 <= RxSize
<1>1. 0 <= TxSize /\ 0 <= RxSize
  BY DspiAssumption
<1> QED
  BY <1>1 DEF Events

LEMMA ResetTypes == ASSUME FillIsKnown, Reset PROVE FillIsKnown'
<1>1. ResetMcr \in Mcr /\ ResetRser \in Rser
  BY DEF ResetMcr, ResetRser, Mcr, Rser
<1>2. TypeOK'
  <2>1. io' \in Seq(Words) /\ asic' \in AsicStates
    BY DEF Reset, FillIsKnown, TypeOK
  <2> QED
    BY <1>1, <2>1, ResetStands DEF Reset, TypeOK
<1>3. "tfff" \in flags'
  BY DEF Reset
<1> QED
  BY <1>2, <1>3 DEF FillIsKnown

LEMMA ProcessIOTypes == ASSUME FillIsKnown, ProcessIO PROVE FillIsKnown'
<1>1. /\ TypeOK /\ Fill /\ SignalTypes
      /\ io # <<>> /\ io' = Tail(io) /\ read' = <<>> /\ sent' = <<>>
      /\ UNCHANGED <<mcr, rser, txrxs, tx, asic>>
  BY DEF ProcessIO, FillIsKnown, Fill, SignalTypes, TypeOK, regs
<1>2. Head(io) \in Words /\ io' \in Seq(Words)
  BY <1>1 DEF TypeOK
<1>3. CASE UNCHANGED <<rx, rxctr, signals>>
  <2>1. TypeOK'
    BY <1>1, <1>2, <1>3 DEF TypeOK, signals
  <2> QED
    BY <1>1, <1>3, <2>1 DEF FillIsKnown, Fill, signals
<1>4. CASE ~UNCHANGED <<rx, rxctr, signals>>
  <2> DEFINE w == Head(io)
             st == PushRx([rx |-> rx, ctr |-> rxctr, es |-> {}], w)
  <2>1. rx' = st.rx /\ rxctr' = st.ctr /\ Signal(flags, st.es)
    BY <1>4 DEF ProcessIO
  <2>2. MaxRx \in 2 .. RxSize /\ rx \in Seq(Words) /\ Len(rx) <= RxSize /\ rxctr \in 0 .. Len(rx)
    BY <1>1, TxLength DEF TypeOK
  <2> HIDE DEF w
  <2>3. /\ st.rx \in Seq(Words) /\ Len(st.rx) <= RxSize /\ st.ctr \in 0 .. Len(st.rx)
        /\ st.es \in SUBSET Events
    <3>1. CASE Len(rx) < MaxRx
      <4>1. st = [rx |-> Append(rx, w),
                  ctr |-> IF Len(rx) + 1 < MaxRx THEN Len(rx) + 1 ELSE rxctr,
                  es |-> {} \union {"rfdf"}]
        BY <3>1 DEF PushRx
      <4>2. Append(rx, w) \in Seq(Words) /\ Len(Append(rx, w)) = Len(rx) + 1
        BY <1>2, <2>2 DEF w
      <4> HIDE DEF st
      <4>3. /\ st.rx = Append(rx, w) /\ st.es = {"rfdf"}
            /\ st.ctr = IF Len(rx) + 1 < MaxRx THEN Len(rx) + 1 ELSE rxctr
        BY <4>1
      <4>4. Len(rx) + 1 <= RxSize /\ Len(rx) \in Nat
        BY <2>2, <3>1, DspiAssumption
      <4>5. st.ctr \in 0 .. Len(rx) + 1
        BY <2>2, <4>3, <4>4
      <4> QED
        BY <4>2, <4>3, <4>4, <4>5 DEF Events
    <3>2. CASE ~(Len(rx) < MaxRx)
      <4>1. st = [rx |-> IF mcr.rooe THEN [rx EXCEPT ![Len(rx)] = w] ELSE rx,
                  ctr |-> rxctr, es |-> {} \union {"rfof"}]
        BY <3>2 DEF PushRx
      <4>2. /\ [rx EXCEPT ![Len(rx)] = w] \in Seq(Words)
            /\ Len([rx EXCEPT ![Len(rx)] = w]) = Len(rx)
        BY <1>2, <2>2, <3>2 DEF w
      <4> HIDE DEF st
      <4>3. /\ st.rx \in {[rx EXCEPT ![Len(rx)] = w], rx} /\ st.es = {"rfof"} /\ st.ctr = rxctr
        BY <4>1
      <4> QED
        BY <2>2, <4>2, <4>3 DEF Events
    <3> QED
      BY <3>1, <3>2
  <2> HIDE DEF st
  <2>4. SignalTypes'
    BY <1>1, <2>1, <2>3, SignalKeepsTypes DEF TypeOK
  <2>5. TypeOK'
    BY <1>1, <1>2, <2>1, <2>3, <2>4 DEF TypeOK, SignalTypes
  <2>6. Fill'
    BY <1>1, <2>1, SignalFills DEF Fill
  <2> QED
    BY <2>5, <2>6 DEF FillIsKnown, Fill
<1> QED
  BY <1>3, <1>4

LEMMA ReadPoprTypes == ASSUME FillIsKnown, ReadPopr PROVE FillIsKnown'
<1>1. /\ TypeOK /\ Fill /\ SignalTypes
      /\ rx # <<>> /\ read' = <<Head(rx)>> /\ rx' = Tail(rx) /\ rxctr' = Len(rx) - 1
      /\ sent' = <<>> /\ UNCHANGED <<mcr, rser, txrxs, tx, io, asic>>
  BY DEF ReadPopr, FillIsKnown, Fill, SignalTypes, TypeOK, regs
<1>2. /\ read' \in Seq(Words) /\ rx' \in Seq(Words) /\ Len(rx') <= RxSize
      /\ rxctr' \in 0 .. Len(rx')
  <2>1. /\ Head(rx) \in Words /\ Tail(rx) \in Seq(Words) /\ Len(Tail(rx)) = Len(rx) - 1
        /\ Len(rx) \in Nat /\ Len(rx) # 0 /\ Len(rx) <= RxSize
    BY <1>1 DEF TypeOK
  <2> QED
    BY <1>1, <2>1, DspiAssumption
<1>3. PICK es \in SUBSET Events : Signal(flags, es)
  BY DEF ReadPopr, Events
<1>4. SignalTypes'
  BY <1>1, <1>3, SignalKeepsTypes DEF TypeOK
<1>5. TypeOK'
  BY <1>1, <1>2, <1>4 DEF TypeOK, SignalTypes
<1>6. Fill'
  BY <1>1, <1>3, SignalFills DEF Fill
<1> QED
  BY <1>5, <1>6 DEF FillIsKnown, Fill

LEMMA WritePushrTypes ==
  ASSUME FillIsKnown, NEW f \in Frames, WritePushr(f)
  PROVE  FillIsKnown'
<1>1. /\ TypeOK /\ Fill /\ SignalTypes /\ read' = <<>> /\ UNCHANGED <<rser, rx, rxctr>>
  BY DEF WritePushr, FillIsKnown, Fill, SignalTypes, TypeOK
<1>2. CASE PushWhileRunning(f)
  <2>1. <<f>> \in Seq(Frames) /\ SentEvents(<<f>>) \in SUBSET Events /\ "tfff" \in SentEvents(<<f>>)
    BY DEF SentEvents, Events
  <2>2. asic' \in AsicStates /\ io' \in Seq(Words) /\ sent' = <<f>> /\ tx' = tx
    BY <1>1, <1>2, <2>1, ExchangedTypes DEF PushWhileRunning, Transmit, TypeOK
  <2>3. SignalTypes' /\ Fill'
    <3>1. Signal(flags, SentEvents(<<f>>))
      BY <1>2 DEF PushWhileRunning
    <3> QED
      BY <1>1, <2>1, <3>1, SignalKeepsTypes, SignalFills DEF TypeOK, Fill
  <2>4. mcr' \in Mcr /\ txrxs' \in BOOLEAN
    <3>1. f.eoq \in BOOLEAN
      BY DspiAssumption
    <3> QED
      BY <1>1, <1>2, <3>1 DEF PushWhileRunning, TypeOK, Mcr
  <2>5. TypeOK'
    BY <1>1, <2>1, <2>2, <2>3, <2>4 DEF TypeOK, SignalTypes
  <2> QED
    BY <2>3, <2>5 DEF FillIsKnown, Fill
<1>3. CASE PushWhileStopped(f)
  <2>1. sent' = <<>> /\ UNCHANGED <<mcr, txrxs, io, asic>>
    BY <1>3 DEF PushWhileStopped
  <2>2. CASE UNCHANGED <<tx, signals>>
    <3>1. TypeOK'
      BY <1>1, <2>1, <2>2 DEF TypeOK, signals
    <3> QED
      BY <1>1, <2>2, <3>1 DEF FillIsKnown, Fill, signals
  <2>3. CASE ~UNCHANGED <<tx, signals>>
    <3>1. PICK es \in SUBSET Events : ~TxFull(mcr) /\ tx' = <<f>> \o tx /\ Signal(flags, es)
      BY <1>3, <2>3 DEF PushWhileStopped, Events
    <3>2. tx' \in Seq(Frames) /\ Len(tx') = Len(tx) + 1 /\ tx' # <<>>
      BY <1>1, <3>1 DEF TypeOK
    <3>3. Len(tx') <= TxSize
      BY <1>1, <3>1, <3>2, TxLength, DspiAssumption DEF TxFull, TypeOK
    <3>4. SignalTypes'
      BY <1>1, <3>1, SignalKeepsTypes DEF TypeOK
    <3>5. TypeOK'
      BY <1>1, <2>1, <3>2, <3>3, <3>4 DEF TypeOK, SignalTypes
    <3> QED
      BY <3>2, <3>5 DEF FillIsKnown
  <2> QED
    BY <2>2, <2>3
<1> QED
  BY <1>2, <1>3 DEF WritePushr

LEMMA WriteMcrTypes ==
  ASSUME FillIsKnown, NEW m \in McrSet, NEW clrTx \in BOOLEAN, NEW clrRx \in BOOLEAN,
         WriteMcr(m, clrTx, clrRx)
  PROVE  FillIsKnown'
<1> DEFINE running == ~m.mdis /\ ~m.halt
           s == IF running /\ ~txrxs /\ ~clrTx THEN Drained ELSE <<>>
           left == SubSeq(tx, 1, Len(tx) - Len(s))
           es == SentEvents(s) \union (IF clrTx THEN {"tfff"} ELSE {})
<1>1. /\ TypeOK /\ Fill /\ SignalTypes /\ read' = <<>> /\ UNCHANGED <<rser, rx>>
      /\ rxctr' = IF clrRx THEN 0 ELSE rxctr
      /\ tx' = (IF clrTx THEN <<>> ELSE left) /\ sent' = s
      /\ asic' = Exchanged(asic, s).asic /\ io' = Exchanged(asic, s).io
      /\ Signal(flags, es)
      /\ txrxs' = (running /\ ~EndOfQueue(s))
      /\ mcr' = [m EXCEPT !.halt = @ \/ EndOfQueue(s)]
  BY DEF WriteMcr, Transmit, FillIsKnown, Fill, SignalTypes, TypeOK
<1>2. m \in Mcr /\ tx \in Seq(Frames) /\ Len(tx) <= TxSize
  BY <1>1, DspiAssumption DEF TypeOK
<1>3. s \in Seq(Frames) /\ Len(s) \in 0 .. Len(tx)
  <2>1. PICK n \in 0 .. Len(tx) : Drained = SubSeq(Reverse(tx), 1, n)
    BY <1>2, DrainedFacts
  <2>2. Drained \in Seq(Frames) /\ Len(Drained) = n
    BY <1>2, <2>1, TakeFromTheEnd
  <2>3. <<>> \in Seq(Frames) /\ Len(<<>>) = 0 /\ 0 \in 0 .. Len(tx)
    BY <1>2
  <2> QED
    BY <2>2, <2>3
<1> HIDE DEF s
<1>4. left \in Seq(Frames) /\ Len(left) = Len(tx) - Len(s)
  BY <1>2, <1>3
<1>5. tx' \in Seq(Frames) /\ Len(tx') <= TxSize
  <2> HIDE DEF left
  <2> QED
    BY <1>1, <1>2, <1>3, <1>4, DspiAssumption
<1>6. asic' \in AsicStates /\ io' \in Seq(Words)
  BY <1>1, <1>3, ExchangedTypes DEF TypeOK
<1>7. es \in SUBSET Events
  BY DEF SentEvents, Events
<1>8. SignalTypes'
  <2> HIDE DEF es
  <2> QED
    BY <1>1, <1>7, SignalKeepsTypes DEF TypeOK
<1>9. mcr' \in Mcr /\ txrxs' \in BOOLEAN
  BY <1>1, <1>2 DEF Mcr, EndOfQueue
<1>10. TypeOK'
  <2>1. rx' \in Seq(Words) /\ Len(rx') <= RxSize /\ rxctr' \in 0 .. Len(rx')
    BY <1>1 DEF TypeOK
  <2> HIDE DEF left, running, es
  <2> QED
    BY <1>1, <1>3, <1>5, <1>6, <1>8, <1>9, <2>1 DEF TypeOK, SignalTypes
<1>11. Fill'
  <2>1. CASE clrTx \/ s # <<>>
    <3>1. "tfff" \in es
      BY <2>1 DEF SentEvents
    <3> HIDE DEF es
    <3> QED
      BY <1>1, <3>1, SignalFills DEF Fill
  <2>2. CASE ~clrTx /\ s = <<>>
    <3>1. left = tx
      BY <1>2, <2>2
    <3> HIDE DEF es, left
    <3> QED
      BY <1>1, <2>2, <3>1, SignalFills DEF Fill
  <2> QED
    BY <2>1, <2>2
<1> QED
  BY <1>10, <1>11 DEF FillIsKnown, Fill

LEMMA WriteSrTypes ==
  ASSUME FillIsKnown, NEW cleared \in SrSet, WriteSr(cleared)
  PROVE  FillIsKnown'
<1> DEFINE left == flags \ cleared
           es == IF "tfff" \notin left /\ ~TxFull(mcr) THEN {"tfff"} ELSE {}
<1>1. /\ TypeOK /\ Fill /\ SignalTypes /\ read' = <<>> /\ sent' = <<>> /\ Signal(left, es)
      /\ UNCHANGED <<mcr, rser, txrxs, tx, rx, rxctr, io, asic>>
  BY DEF WriteSr, FillIsKnown, Fill, SignalTypes, TypeOK, regs
<1>2. left \in SUBSET Events /\ es \in SUBSET Events
  BY <1>1 DEF TypeOK, Events
<1>3. tx = <<>> => "tfff" \in left \union es
  <2>1. tx = <<>> => ~TxFull(mcr)
    BY <1>1, TxLength DEF TxFull, TypeOK
  <2> QED
    BY <2>1
<1> HIDE DEF left, es
<1>4. SignalTypes'
  BY <1>1, <1>2, SignalKeepsTypes
<1>5. TypeOK'
  BY <1>1, <1>4 DEF TypeOK, SignalTypes
<1>6. Fill'
  BY <1>1, <1>3, SignalFills DEF Fill
<1> QED
  BY <1>5, <1>6 DEF FillIsKnown, Fill

LEMMA WriteRserTypes ==
  ASSUME FillIsKnown, NEW new \in RserSet, WriteRser(new)
  PROVE  FillIsKnown'
<1>1. /\ TypeOK /\ Fill /\ read' = <<>> /\ sent' = <<>> /\ rser' = new
      /\ UNCHANGED <<mcr, txrxs, tx, rx, rxctr, io, asic>>
  BY DEF WriteRser, FillIsKnown, Fill
<1>2. new \in Rser
  BY DspiAssumption
<1>3. SignalTypes'
  BY <1>1, <1>2 DEF WriteRser, SignalTypes, TypeOK, Rser
<1>4. TypeOK'
  BY <1>1, <1>2, <1>3 DEF TypeOK, SignalTypes
<1>5. Fill'
  BY <1>1 DEF WriteRser, Fill
<1> QED
  BY <1>4, <1>5 DEF FillIsKnown, Fill

LEMMA EveryStepFills == ASSUME FillIsKnown, [Next]_vars PROVE FillIsKnown'
<1>1. CASE UNCHANGED vars
  BY <1>1, TypesUnchanged DEF FillIsKnown, vars, signals
<1> QED
  BY <1>1, ResetTypes, ProcessIOTypes, ReadPoprTypes, WritePushrTypes, WriteMcrTypes,
     WriteSrTypes, WriteRserTypes DEF Next

-----------------------------------------------------------------------------
(* The receive side.                                                       *)

\* What the abstract FIFO sees when nothing enters or leaves.
LEMMA RxStandsStill ==
  ASSUME TypeOK, rx' = rx, read' = <<>>
  PROVE  RxOrder!FifoNext
<1>1. rx \in Seq(Words) /\ <<>> \o rx = rx /\ SubSeq(rx, 1, Len(rx)) = rx
  BY DEF TypeOK
<1> QED
  BY <1>1 DEF RxOrder!Flow, RxOrder!FifoNext

\* A reply enters behind the others, replaces the newest, or is dropped.
LEMMA RxReceives == ASSUME TypeOK, ProcessIO PROVE RxOrder!FifoNext
<1> DEFINE w == Head(io)
           st == PushRx([rx |-> rx, ctr |-> rxctr, es |-> {}], w)
<1>1. read' = <<>> /\ (rx' = rx \/ rx' = st.rx) /\ w \in Words
  BY DEF ProcessIO, TypeOK
<1>2. rx \in Seq(Words) /\ MaxRx \in 2 .. RxSize
  BY TxLength DEF TypeOK
<1> HIDE DEF w
<1>3. st.rx \in {rx, Append(rx, w)} \union (IF Len(rx) >= 2 THEN {[rx EXCEPT ![Len(rx)] = w]} ELSE {})
  BY <1>2, DspiAssumption DEF PushRx
<1> HIDE DEF st
<1>4. CASE rx' = rx
  BY <1>1, <1>4, RxStandsStill
<1>5. CASE rx' = Append(rx, w)
  <2> DEFINE t == Append(rx, w)
  <2>1. t \in Seq(Words) /\ Len(t) = Len(rx) + 1 /\ \A i \in 1 .. Len(rx) : t[i] = rx[i]
    BY <1>1, <1>2
  <2> HIDE DEF t
  <2>2. SubSeq(t, 1, Len(rx)) = rx
    <3>1. /\ SubSeq(t, 1, Len(rx)) \in Seq(Words) /\ Len(SubSeq(t, 1, Len(rx))) = Len(rx)
          /\ \A i \in 1 .. Len(rx) : SubSeq(t, 1, Len(rx))[i] = rx[i]
      BY <1>2, <2>1
    <3> QED
      BY <1>2, <3>1, SeqEqual
  <2>3. <<>> \o t = t /\ \A i \in 1 .. Len(t) : t[i] \in Words
    BY <2>1
  <2>4. rx' = t
    BY <1>5 DEF t
  <2> QED
    BY <1>1, <2>1, <2>2, <2>3, <2>4 DEF RxOrder!Flow, RxOrder!FifoNext
<1>6. CASE rx' = [rx EXCEPT ![Len(rx)] = w] /\ Len(rx) >= 2
  <2> DEFINE t == [rx EXCEPT ![Len(rx)] = w]
  <2>1. /\ t \in Seq(Words) /\ Len(t) = Len(rx) /\ t[Len(rx)] = w
        /\ \A i \in 1 .. Len(rx) - 1 : t[i] = rx[i]
    BY <1>1, <1>2, <1>6
  <2> HIDE DEF t
  <2>2. SubSeq(t, 1, Len(rx) - 1) = SubSeq(rx, 1, Len(rx) - 1)
    <3> DEFINE u == SubSeq(t, 1, Len(rx) - 1)
               v == SubSeq(rx, 1, Len(rx) - 1)
    <3>1. /\ u \in Seq(Words) /\ Len(u) = Len(rx) - 1 /\ v \in Seq(Words) /\ Len(v) = Len(rx) - 1
          /\ \A i \in 1 .. Len(rx) - 1 : u[i] = t[i] /\ v[i] = rx[i]
      BY <1>2, <1>6, <2>1
    <3> HIDE DEF u, v
    <3>2. \A i \in 1 .. Len(u) : u[i] = v[i]
      BY <2>1, <3>1
    <3>3. u = v
      BY <3>1, <3>2, SeqEqual
    <3> QED
      BY <3>3 DEF u, v
  <2>3. rx' = t /\ rx # <<>>
    BY <1>6 DEF t
  <2> QED
    BY <1>1, <2>1, <2>2, <2>3 DEF RxOrder!ReplaceNewest, RxOrder!FifoNext
<1> QED
  BY <1>1, <1>3, <1>4, <1>5, <1>6

LEMMA RxIsRead == ASSUME TypeOK, ReadPopr PROVE RxOrder!FifoNext
<1>1. rx \in Seq(Words) /\ rx # <<>> /\ read' = <<Head(rx)>> /\ rx' = Tail(rx)
  BY DEF ReadPopr, TypeOK
<1>2. <<Head(rx)>> \o Tail(rx) = rx /\ SubSeq(rx, 1, Len(rx)) = rx
  BY <1>1
<1>3. Len(rx) \in {Len(rx), Len(rx) + 1} /\ \A i \in 1 .. Len(rx) : rx[i] \in Words
  BY <1>1
<1> QED
  BY <1>1, <1>2, <1>3 DEF RxOrder!Flow, RxOrder!FifoNext

LEMMA EveryStepReceives ==
  ASSUME TypeOK, [Next]_vars
  PROVE  [RxOrder!FifoNext]_<<rx, read>>
<1>1. CASE Reset
  BY <1>1 DEF Reset, RxOrder!Clear, RxOrder!FifoNext
<1>2. CASE ProcessIO
  BY <1>2, RxReceives
<1>3. CASE ReadPopr
  BY <1>3, RxIsRead
<1>4. ASSUME NEW f \in Frames, WritePushr(f) PROVE RxOrder!FifoNext
  BY <1>4, RxStandsStill DEF WritePushr
<1>5. ASSUME NEW m \in McrSet, NEW clrTx \in BOOLEAN, NEW clrRx \in BOOLEAN,
             WriteMcr(m, clrTx, clrRx)
      PROVE  RxOrder!FifoNext
  BY <1>5, RxStandsStill DEF WriteMcr
<1>6. ASSUME NEW cleared \in SrSet, WriteSr(cleared) PROVE RxOrder!FifoNext
  BY <1>6, RxStandsStill DEF WriteSr
<1>7. ASSUME NEW new \in RserSet, WriteRser(new) PROVE RxOrder!FifoNext
  BY <1>7, RxStandsStill DEF WriteRser
<1>8. CASE UNCHANGED vars
  BY <1>8 DEF vars
<1> QED
  BY <1>1, <1>2, <1>3, <1>4, <1>5, <1>6, <1>7, <1>8 DEF Next

-----------------------------------------------------------------------------
(* The theorems.                                                           *)

LEMMA EveryStepFlows ==
  ASSUME TxInv, [Next]_vars
  PROVE  TxInv' /\ [TxOrder!FifoNext]_<<Reverse(tx), sent>>
<1>1. CASE Reset
  BY <1>1, ResetClears DEF TxStep
<1>2. CASE ProcessIO
  BY <1>2, Quiet DEF ProcessIO, TxStep
<1>3. CASE ReadPopr
  BY <1>3, Quiet DEF ReadPopr, TxStep
<1>4. ASSUME NEW f \in Frames, WritePushr(f) PROVE TxStep
  BY <1>4, PushSends, PushWaits DEF WritePushr
<1>5. ASSUME NEW m \in McrSet, NEW clrTx \in BOOLEAN, NEW clrRx \in BOOLEAN,
             WriteMcr(m, clrTx, clrRx)
      PROVE  TxStep
  BY <1>5, McrSends
<1>6. ASSUME NEW cleared \in SrSet, WriteSr(cleared) PROVE TxStep
  BY <1>6, Quiet DEF WriteSr
<1>7. ASSUME NEW new \in RserSet, WriteRser(new) PROVE TxStep
  BY <1>7, Quiet DEF WriteRser
<1>8. CASE UNCHANGED vars
  BY <1>8 DEF vars, TxInv
<1> QED
  BY <1>1, <1>2, <1>3, <1>4, <1>5, <1>6, <1>7, <1>8 DEF Next, TxStep

\* While the controller runs no frame waits in the transmit FIFO.
THEOREM RunningHasSent == Spec => []TxInv
<1>1. Init => TxInv
  BY DEF Init, TxInv
<1> QED
  BY <1>1, EveryStepFlows, PTL DEF Spec

\* Frames reach the bus in the order of the writes to PUSHR, each once: the
\* transmit side implements the abstract FIFO, whatever its size.
THEOREM TransmitsInOrder == Spec => TxInOrder
<1>1. Init => TxOrder!FifoInit
  BY DEF Init, TxOrder!FifoInit, Reverse
<1>2. TxInv /\ [Next]_vars => [TxOrder!FifoNext]_<<Reverse(tx), sent>>
  BY EveryStepFlows
<1> QED
  BY <1>1, <1>2, RunningHasSent, PTL DEF Spec, TxInOrder, TxOrder!FifoSpec

\* A flag that is set and enabled has raised its exception since it was set,
\* whichever came first, the event or the write to RSER.
THEOREM FlagsAreTold == Spec => []EnabledAreTold
<1>1. Init => EnabledAreTold
  BY DEF Init, ResetRser, EnabledAreTold
<1> QED
  BY <1>1, EveryStepTells, PTL DEF Spec

\* The state has its types, also what the devices reply, and an empty transmit FIFO is
\* announced by TFFF or was by a DMA request.
THEOREM FillAnnounced == Spec => []FillIsKnown
<1>1. ResetMcr \in Mcr /\ ResetRser \in Rser
  BY DEF ResetMcr, ResetRser, Mcr, Rser
<1>2. AsicInit \in AsicStates
  <2>1. 12351 \in Words /\ 0 \in Words
    BY DEF Words
  <2> QED
    BY <2>1 DEF AsicInit, AsicStates
<1>3. ASSUME Init PROVE TypeOK
  BY <1>1, <1>2, <1>3, ResetStands DEF Init, TypeOK
<1>4. Init => FillIsKnown
  BY <1>3 DEF Init, FillIsKnown
<1> QED
  BY <1>4, EveryStepFills, PTL DEF Spec

\* Words come out of POPR in the order in which the devices sent them, each once: the
\* receive side implements the abstract FIFO, with and without ROOE and with the FIFO
\* disabled.
THEOREM ReceivesInOrder == Spec => RxInOrder
<1>1. Init => RxOrder!FifoInit
  BY DEF Init, RxOrder!FifoInit
<1>2. FillIsKnown /\ [Next]_vars => [RxOrder!FifoNext]_<<rx, read>>
  BY EveryStepReceives DEF FillIsKnown
<1> QED
  BY <1>1, <1>2, FillAnnounced, PTL DEF Spec, RxInOrder, RxOrder!FifoSpec

=============================================================================

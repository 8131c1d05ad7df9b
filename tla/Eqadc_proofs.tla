----------------------------- MODULE Eqadc_proofs ----------------------------
(***************************************************************************)
(* Proofs about Eqadc, for any channels, commands, sizes and voltages:     *)
(* results and waiting commands keep their order, results are announced,   *)
(* and the status of a channel follows its mode and trigger.               *)
(*                                                                         *)
(* And about FlexCan, for any mailboxes, frames, masks and size of the     *)
(* FIFO: messages keep their order and are announced, mailboxes that wait  *)
(* for a frame get the entries in the filters that the code makes, and     *)
(* unread frames stay.  Both use the lemmas on recursive functions.        *)
(***************************************************************************)
EXTENDS Eqadc, FlexCan, FiniteSetTheorems, SequenceTheorems, WellFoundedInduction, TLAPS

\* The first n entries of an array are a sequence.
Begins(r, n, q) == n <= Len(r) /\ Len(q) = n /\ \A i \in 1 .. n : q[i] = r[i]

\* The n first entries of an array are a sequence, the last of it first.
BeginsBackwards(r, n, q) == n <= Len(r) /\ Len(q) = n /\ \A i \in 1 .. n : q[i] = r[n + 1 - i]

\* A result FIFO: the counted entries of its array are the results not yet read.
Results(d, ch) ==
  /\ Len(d.rfifo[ch]) <= FifoLen /\ d.rfctr[ch] <= FifoLen /\ Len(d.due[ch]) = d.rfctr[ch]
  /\ ~d.partial[ch] => Begins(d.rfifo[ch], d.rfctr[ch], d.due[ch])
  /\ d.rfctr[ch] > 0 /\ ~d.missed[ch] => "rfdf" \in d.flags[ch]

\* A command FIFO: what its counter counts was written, and as long as the array has
\* room for it is what waits; once it had not, nothing is expected of it.
Waits(d, ch) ==
  /\ Len(d.cfifo[ch]) = Slots(ch) /\ d.cfctr[ch] <= Limit(ch)
  /\ \A i \in 1 .. d.cfctr[ch] : i <= Slots(ch) => d.cfifo[ch][i] \in Command
  /\ d.cfctr[ch] <= Slots(ch) => BeginsBackwards(d.cfifo[ch], d.cfctr[ch], d.wait[ch])
  /\ d.cfctr[ch] > Slots(ch) => d.wait[ch] = <<>>

Follows(d, ch) ==
  /\ d.cfs[ch] = "waiting" <=> d.mode[ch] \in Continuous
  /\ d.cfs[ch] = "triggered" <=> d.fired[ch] /\ d.mode[ch] \notin Continuous

Sound(d) == \A ch \in Channels : Results(d, ch) /\ Waits(d, ch) /\ Follows(d, ch)

\* The states of the device that an operation may leave, or pass through.
Kept == {d \in Device : d.ends \/ Sound(d)}

EqadcInv == dev \in Kept /\ ~dev.ends /\ volts \in Values /\ alive \in BOOLEAN

-----------------------------------------------------------------------------
(* Numbers and sequences.                                                  *)

\* Every array has an entry, and is not longer than the counter may count.
LEMMA Sizes ==
  /\ EntrySize \in Nat /\ EntrySize > 1 /\ FifoLen \in Nat /\ Cfifo0Len \in Nat
  /\ FifoLen > 1 /\ FifoLen <= Cfifo0Len
  /\ \A ch \in Channels : /\ Limit(ch) \in Nat /\ Limit(ch) > 1 /\ FifoLen <= Limit(ch)
                          /\ Slots(ch) \in Nat /\ 1 <= Slots(ch) /\ Slots(ch) <= Limit(ch)
  /\ FifoLen \div EntrySize \in Nat /\ FifoLen \div EntrySize <= FifoLen
<1>1. /\ EntrySize \in Nat /\ EntrySize > 1 /\ FifoLen \in Nat /\ Cfifo0Len \in Nat
      /\ EntrySize <= FifoLen /\ FifoLen <= Cfifo0Len
  BY EqadcAssumption
<1> DEFINE L == FifoLen
<1>2. ASSUME NEW n \in Nat, NEW m \in Nat, m > 1, m <= n
      PROVE  n \div m \in Nat /\ 1 <= n \div m /\ n \div m <= n
  BY <1>2
<1>3. FifoLen \div EntrySize \in Nat /\ FifoLen \div EntrySize <= FifoLen
  BY <1>1, <1>2
<1>4. ASSUME NEW ch \in Channels
      PROVE  /\ Limit(ch) \in Nat /\ Limit(ch) > 1 /\ FifoLen <= Limit(ch) /\ EntrySize <= Limit(ch)
  BY <1>1 DEF Limit
<1>5. ASSUME NEW ch \in Channels
      PROVE  Slots(ch) \in Nat /\ 1 <= Slots(ch) /\ Slots(ch) <= Limit(ch)
  BY <1>1, <1>2, <1>4 DEF Slots
<1> QED
  BY <1>1, <1>3, <1>4, <1>5

LEMMA HowLong ==
  ASSUME NEW S, NEW r \in Seq(S)
  PROVE  /\ Len(r) \in Nat
         /\ Len(r) = 0 \/ Len(r) = 1 \/ Len(r) > 1
         /\ r = <<>> <=> Len(r) = 0
         /\ Len(r) = 1 => r # <<>> /\ ~ (Len(r) > 1)
<1> DEFINE n == Len(r)
<1>1. n \in Nat /\ (r = <<>> <=> n = 0)
  BY EmptySeq, LenProperties
<1> HIDE DEF n
<1>2. (n = 0 \/ n = 1 \/ n > 1) /\ (n = 1 => n # 0 /\ ~ (n > 1))
  BY <1>1
<1> QED
  BY <1>1, <1>2 DEF n

\* pushRFIFO: the entry behind the counted ones takes the new result.
Stored(r, n, v) == IF n < Len(r) THEN [r EXCEPT ![n + 1] = v] ELSE Append(r, v)

LEMMA StoredArray ==
  ASSUME NEW S, NEW r \in Seq(S), NEW q \in Seq(S), NEW v \in S, NEW n \in Nat
  PROVE  /\ Stored(r, n, v) \in Seq(S)
         /\ Len(Stored(r, n, v)) = IF n < Len(r) THEN Len(r) ELSE Len(r) + 1
         /\ Append(q, v) \in Seq(S) /\ Len(Append(q, v)) = Len(q) + 1
         /\ Begins(r, n, q) => Begins(Stored(r, n, v), n + 1, Append(q, v))
<1> DEFINE r2 == Stored(r, n, v)
<1>1. /\ r2 \in Seq(S) /\ Len(r2) = IF n < Len(r) THEN Len(r) ELSE Len(r) + 1
      /\ \A i \in 1 .. Len(r) : i # n + 1 => r2[i] = r[i]
      /\ n <= Len(r) => r2[n + 1] = v
  <2>1. CASE n < Len(r)
    BY <2>1 DEF Stored
  <2>2. CASE ~ (n < Len(r))
    BY <2>2 DEF Stored
  <2> QED
    BY <2>1, <2>2
<1> HIDE DEF r2
<1> DEFINE q2 == Append(q, v)
<1>2. /\ q2 \in Seq(S) /\ Len(q2) = Len(q) + 1
      /\ \A i \in 1 .. Len(q) : q2[i] = q[i]
      /\ q2[Len(q) + 1] = v
  OBVIOUS
<1> HIDE DEF q2
<1>3. ASSUME Begins(r, n, q) PROVE Begins(r2, n + 1, q2)
  <2>1. n <= Len(r) /\ Len(q) = n /\ \A i \in 1 .. n : q[i] = r[i]
    BY <1>3 DEF Begins
  <2>2. ASSUME NEW i \in 1 .. n + 1 PROVE q2[i] = r2[i]
    <3>1. CASE i = n + 1
      BY <1>1, <1>2, <2>1, <3>1
    <3>2. CASE i # n + 1
      BY <1>1, <1>2, <2>1, <3>2
    <3> QED
      BY <3>1, <3>2
  <2>3. n + 1 <= Len(r2) /\ Len(q2) = n + 1
    BY <1>1, <1>2, <2>1
  <2> QED
    BY <2>2, <2>3 DEF Begins
<1> QED
  BY <1>1, <1>2, <1>3 DEF q2, r2

\* popRFIFO: the array moves down behind its first entry.  A full one of a continuous
\* scan gets the last result again.
LEMMA ShiftedArray ==
  ASSUME NEW S, NEW r \in Seq(S), NEW continuous \in BOOLEAN
  PROVE  /\ Shifted(r, continuous) \in Seq(S) /\ Len(Shifted(r, continuous)) <= Len(r)
         /\ Len(r) > 1 \/ (r # <<>> /\ ~continuous) => Len(Shifted(r, continuous)) = Len(r)
         /\ Len(r) > 1 => /\ \A i \in 1 .. Len(r) - 1 : Shifted(r, continuous)[i] = r[i + 1]
                          /\ Shifted(r, continuous)[Len(r)] = r[Len(r)]
<1>1. CASE r = <<>>
  BY <1>1 DEF Shifted
<1>2. CASE Len(r) = 1
  <2>1. r # <<>> /\ ~ (Len(r) > 1)
    BY <1>2, HowLong
  <2>2. Shifted(r, continuous) = IF continuous THEN <<>> ELSE r
    BY <1>2, <2>1 DEF Shifted
  <2>3. CASE continuous
    <3>1. Shifted(r, continuous) = <<>>
      BY <2>2, <2>3
    <3>2. <<>> \in Seq(S) /\ Len(<<>>) = 0
      BY EmptySeq
    <3>3. 0 <= Len(r)
      BY HowLong
    <3> QED
      BY <2>1, <2>3, <3>1, <3>2, <3>3
  <2>4. CASE ~continuous
    <3>1. Shifted(r, continuous) = r
      BY <2>2, <2>4
    <3>3. Len(r) <= Len(r)
      BY HowLong
    <3> QED
      BY <2>1, <3>1, <3>3
  <2> QED
    BY <2>3, <2>4
<1>3. CASE Len(r) > 1
  <2>1. Shifted(r, continuous) = Append(Tail(r), Last(r))
    BY <1>3 DEF Shifted
  <2> DEFINE t == Tail(r)
             e == r[Len(r)]
  <2>2. /\ t \in Seq(S) /\ Len(t) = Len(r) - 1 /\ \A i \in 1 .. Len(r) - 1 : t[i] = r[i + 1]
        /\ e \in S /\ Last(r) = e
    BY <1>3 DEF Last
  <2> HIDE DEF t, e
  <2> DEFINE u == Append(t, e)
  <2>3. /\ u \in Seq(S) /\ Len(u) = Len(r) /\ u[Len(r)] = e
        /\ \A i \in 1 .. Len(r) - 1 : u[i] = t[i]
    BY <2>2
  <2>4. Shifted(r, continuous) = u
    BY <2>1, <2>2 DEF t
  <2> HIDE DEF u
  <2> QED
    BY <1>3, <2>2, <2>3, <2>4 DEF e
<1>4. r = <<>> \/ Len(r) = 1 \/ Len(r) > 1
  BY HowLong
<1> QED
  BY <1>1, <1>2, <1>3, <1>4

\* The results that are left after one was read.
LEMMA ReadInOrder ==
  ASSUME NEW S, NEW r \in Seq(S), NEW q \in Seq(S), NEW n \in Nat, n > 0, Begins(r, n, q)
  PROVE  /\ Begins(Shifted(r, FALSE), n - 1, Tail(q))
         /\ n = Len(r) /\ n > 1 => Begins(Shifted(r, TRUE), n, Append(Tail(q), Last(q)))
<1>1. n <= Len(r) /\ Len(q) = n /\ \A i \in 1 .. n : q[i] = r[i]
  BY DEF Begins
<1> DEFINE t == Tail(q)
           e == q[Len(q)]
<1>2. /\ t \in Seq(S) /\ Len(t) = n - 1 /\ \A i \in 1 .. n - 1 : t[i] = q[i + 1]
      /\ e \in S /\ Last(q) = e
  BY <1>1 DEF Last
<1> HIDE DEF t
<1>3. Begins(Shifted(r, FALSE), n - 1, t)
  <2> DEFINE u == Shifted(r, FALSE)
  <2>1. CASE Len(r) = 1
    <3>1. u = r /\ n = 1
      <4>1. r # <<>> /\ ~ (Len(r) > 1)
        BY <2>1, HowLong
      <4> QED
        BY <1>1, <2>1, <4>1 DEF Shifted
    <3> HIDE DEF u
    <3>2. n - 1 <= Len(u) /\ Len(t) = n - 1
      BY <1>2, <2>1, <3>1
    <3>3. 1 .. n - 1 = {}
      BY <3>1
    <3>4. Begins(u, n - 1, t)
      BY <3>2, <3>3 DEF Begins
    <3> QED
      BY <3>4 DEF u
  <2>2. CASE Len(r) > 1
    <3>1. Len(u) = Len(r) /\ \A i \in 1 .. Len(r) - 1 : u[i] = r[i + 1]
      BY <2>2, ShiftedArray
    <3> HIDE DEF u
    <3>2. ASSUME NEW i \in 1 .. n - 1 PROVE t[i] = u[i]
      <4>1. i \in 1 .. Len(r) - 1 /\ i + 1 \in 1 .. n
        BY <1>1
      <4> QED
        BY <1>1, <1>2, <3>1, <4>1
    <3>3. n - 1 <= Len(u) /\ Len(t) = n - 1
      BY <1>1, <1>2, <3>1
    <3>4. Begins(u, n - 1, t)
      BY <3>2, <3>3 DEF Begins
    <3> QED
      BY <3>4 DEF u
  <2>3. Len(r) = 1 \/ Len(r) > 1
    BY <1>1, HowLong
  <2> QED
    BY <2>1, <2>2, <2>3
<1>4. ASSUME n = Len(r), n > 1 PROVE Begins(Shifted(r, TRUE), n, Append(t, e))
  <2> DEFINE u == Shifted(r, TRUE)
             w == Append(t, e)
  <2>1. /\ Len(u) = n /\ u[n] = r[n] /\ \A i \in 1 .. n - 1 : u[i] = r[i + 1]
    BY <1>4, ShiftedArray
  <2> HIDE DEF u
  <2>2. /\ Len(w) = n /\ w[n] = e /\ \A i \in 1 .. n - 1 : w[i] = t[i]
    BY <1>2
  <2>3. e = r[n]
    BY <1>1, <1>4
  <2> HIDE DEF w, e
  <2>4. ASSUME NEW i \in 1 .. n PROVE w[i] = u[i]
    <3>1. CASE i = n
      BY <2>1, <2>2, <2>3, <3>1
    <3>2. CASE i # n
      <4>1. i \in 1 .. n - 1 /\ i + 1 \in 1 .. n
        BY <3>2
      <4> QED
        BY <1>1, <1>2, <2>1, <2>2, <4>1
    <3> QED
      BY <3>1, <3>2
  <2>5. Begins(u, n, w)
    BY <2>1, <2>2, <2>4 DEF Begins
  <2> QED
    BY <2>5 DEF u, w, e
<1> QED
  BY <1>2, <1>3, <1>4 DEF t

-----------------------------------------------------------------------------
(* Recursion: a function over 0 .. N that steps from each state to the next.  *)

\* A set of natural numbers that is not empty has a least element.
LEMMA LeastExists ==
  ASSUME NEW T \in SUBSET Nat, T # {}
  PROVE  \E x \in T : \A y \in T : x <= y
<1> DEFINE R == OpToRel(<, Nat)
<1>1. IsWellFoundedOn(R, Nat)
  BY NatLessThanWellFounded
<1>2. R = {p \in Nat \X Nat : p[1] < p[2]}
  BY DEF OpToRel
<1> HIDE DEF R
<1>3. PICK x \in T : \A y \in T : <<y, x>> \notin R
  BY <1>1, WFMin
<1>4. ASSUME NEW y \in T PROVE x <= y
  <2> DEFINE p == <<y, x>>
  <2>1. p \in Nat \X Nat /\ p[1] = y /\ p[2] = x
    OBVIOUS
  <2>2. p \notin R
    BY <1>3
  <2> HIDE DEF p
  <2>3. ~ (p[1] < p[2])
    BY <1>2, <2>1, <2>2
  <2>4. ~ (y < x) /\ x \in Nat /\ y \in Nat
    BY <2>1, <2>3
  <2> QED
    BY <2>4
<1> QED
  BY <1>4

IsRun(g, S, x, h, N) ==
  g \in [0 .. N -> S] /\ g[0] = x /\ \A k \in 1 .. N : g[k] = h[g[k - 1]]

IsSteps(g, S, x, h, N) ==
  g \in [0 .. N -> S] /\ g[0] = x /\ \A k \in 1 .. N : g[k] = h[k][g[k - 1]]

\* Steps that stay in a set make a run of any length, also when each step is another.
LEMMA StepsExist ==
  ASSUME NEW S, NEW x \in S, NEW N \in Nat, NEW h \in [Nat -> [S -> S]]
  PROVE  \E g : IsSteps(g, S, x, h, N)
<1> DEFINE Run(m, g) == g[0] = x /\ \A k \in 1 .. m : g[k] = h[k][g[k - 1]]
           Bad == {m \in Nat : ~ \E g \in [0 .. m -> S] : Run(m, g)}
<1> SUFFICES ASSUME Bad # {} PROVE FALSE
  BY DEF IsSteps
<1>1. PICK m \in Bad : \A y \in Bad : m <= y
  <2>1. Bad \in SUBSET Nat
    OBVIOUS
  <2> HIDE DEF Bad
  <2> QED
    BY <2>1, LeastExists
<1>2. m \in Nat /\ ~ \E g \in [0 .. m -> S] : Run(m, g)
  OBVIOUS
<1>3. m # 0
  <2> SUFFICES ASSUME m = 0 PROVE FALSE
    OBVIOUS
  <2> DEFINE g == [k \in 0 .. 0 |-> x]
  <2>1. g \in [0 .. 0 -> S] /\ Run(0, g)
    OBVIOUS
  <2> HIDE DEF g, Run
  <2> QED
    BY <1>2, <2>1
<1>4. PICK b \in [0 .. m - 1 -> S] : Run(m - 1, b)
  <2>1. m - 1 \in Nat /\ m - 1 \notin Bad
    <3> HIDE DEF Bad
    <3> QED
      BY <1>1, <1>2, <1>3
  <2> QED
    BY <2>1
<1> DEFINE g == [k \in 0 .. m |-> IF k = m THEN h[m][b[m - 1]] ELSE b[k]]
<1>5. g \in [0 .. m -> S]
  BY <1>2, <1>3
<1>6. Run(m, g)
  <2>1. g[0] = x
    BY <1>2, <1>3, <1>4
  <2>2. ASSUME NEW k \in 1 .. m PROVE g[k] = h[k][g[k - 1]]
    <3>1. CASE k = m
      BY <1>2, <1>3, <3>1
    <3>2. CASE k # m
      <4>1. k \in 1 .. m - 1 /\ g[k] = b[k] /\ g[k - 1] = b[k - 1]
        BY <1>2, <3>2
      <4> QED
        BY <1>4, <4>1
    <3> QED
      BY <3>1, <3>2
  <2> HIDE DEF g
  <2> QED
    BY <2>1, <2>2
<1> HIDE DEF g, Run
<1> QED
  BY <1>2, <1>5, <1>6

LEMMA RunExists ==
  ASSUME NEW S, NEW x \in S, NEW h \in [S -> S], NEW N \in Nat
  PROVE  \E g : IsRun(g, S, x, h, N)
<1> DEFINE H == [k \in Nat |-> h]
<1>1. H \in [Nat -> [S -> S]]
  OBVIOUS
<1>3. \A k \in 1 .. N : H[k] = h
  OBVIOUS
<1> HIDE DEF H
<1>2. PICK g : IsSteps(g, S, x, H, N)
  BY <1>1, StepsExist
<1> QED
  BY <1>2, <1>3 DEF IsSteps, IsRun

\* The states of a run stay in a set that its steps do not leave.
LEMMA RunStays ==
  ASSUME NEW S, NEW N \in Nat, NEW g, g[0] \in S,
         \A k \in 1 .. N : g[k - 1] \in S => g[k] \in S
  PROVE  \A k \in 0 .. N : g[k] \in S
<1> DEFINE Bad == {m \in 0 .. N : g[m] \notin S}
<1> SUFFICES ASSUME Bad # {} PROVE FALSE
  OBVIOUS
<1>1. PICK m \in Bad : \A y \in Bad : m <= y
  <2>1. Bad \in SUBSET Nat
    OBVIOUS
  <2> HIDE DEF Bad
  <2> QED
    BY <2>1, LeastExists
<1>2. m \in 0 .. N /\ g[m] \notin S
  OBVIOUS
<1>3. m # 0
  BY <1>2
<1>4. m - 1 \in 0 .. N /\ m - 1 \notin Bad
  <2> HIDE DEF Bad
  <2> QED
    BY <1>1, <1>2, <1>3
<1>5. g[m - 1] \in S
  BY <1>4
<1> QED
  BY <1>2, <1>3, <1>5

\* What holds at first, and after every step if before it, holds up to the end.
LEMMA UpTo ==
  ASSUME NEW N \in Nat, NEW T, 0 \in T, \A k \in 1 .. N : k - 1 \in T => k \in T
  PROVE  \A k \in 0 .. N : k \in T
<1> DEFINE g == [k \in 0 .. N |-> k]
<1>1. \A k \in 0 .. N : g[k] = k
  OBVIOUS
<1> HIDE DEF g
<1>2. g[0] \in T /\ \A k \in 1 .. N : g[k - 1] \in T => g[k] \in T
  <2>1. g[0] \in T
    BY <1>1
  <2>2. ASSUME NEW k \in 1 .. N, g[k - 1] \in T PROVE g[k] \in T
    <3>1. k \in 0 .. N /\ k - 1 \in 0 .. N
      OBVIOUS
    <3>2. g[k] = k /\ g[k - 1] = k - 1
      BY <1>1, <3>1
    <3> QED
      BY <2>2, <3>2
  <2> QED
    BY <2>1, <2>2
<1>3. \A k \in 0 .. N : g[k] \in T
  BY <1>2, RunStays
<1> QED
  BY <1>1, <1>3

-----------------------------------------------------------------------------
(* The device.                                                             *)

\* Only what an operation on a channel changes.
SameElsewhere(d, new, ch) ==
  \A c \in Channels \ {ch} :
    /\ new.mode[c] = d.mode[c] /\ new.cfs[c] = d.cfs[c] /\ new.fired[c] = d.fired[c]
    /\ new.flags[c] = d.flags[c]
    /\ new.cfifo[c] = d.cfifo[c] /\ new.cfctr[c] = d.cfctr[c] /\ new.wait[c] = d.wait[c]
    /\ new.rfifo[c] = d.rfifo[c] /\ new.rfctr[c] = d.rfctr[c] /\ new.due[c] = d.due[c]
    /\ new.partial[c] = d.partial[c] /\ new.missed[c] = d.missed[c]

SameResults(d, new, ch) ==
  /\ new.rfifo[ch] = d.rfifo[ch] /\ new.rfctr[ch] = d.rfctr[ch] /\ new.due[ch] = d.due[ch]
  /\ new.partial[ch] = d.partial[ch] /\ new.missed[ch] = d.missed[ch]
  /\ "rfdf" \in d.flags[ch] => "rfdf" \in new.flags[ch]

SameCommands(d, new, ch) ==
  new.cfifo[ch] = d.cfifo[ch] /\ new.cfctr[ch] = d.cfctr[ch] /\ new.wait[ch] = d.wait[ch]

SameStatus(d, new, ch) == new.mode[ch] = d.mode[ch] /\ new.cfs[ch] = d.cfs[ch] /\ new.fired[ch] = d.fired[ch]

\* What holds of every channel is shown for the one that an operation is about.
LEMMA OneChannel ==
  ASSUME NEW d, NEW new, NEW ch \in Channels,
         Sound(d), SameElsewhere(d, new, ch),
         Results(new, ch), Waits(new, ch), Follows(new, ch)
  PROVE  Sound(new)
<1> SUFFICES ASSUME NEW c \in Channels, c # ch
             PROVE  Results(new, c) /\ Waits(new, c) /\ Follows(new, c)
  BY DEF Sound
<1>1. Results(d, c) /\ Waits(d, c) /\ Follows(d, c)
  BY DEF Sound
<1>2. /\ new.mode[c] = d.mode[c] /\ new.cfs[c] = d.cfs[c] /\ new.fired[c] = d.fired[c]
      /\ new.flags[c] = d.flags[c]
      /\ new.cfifo[c] = d.cfifo[c] /\ new.cfctr[c] = d.cfctr[c] /\ new.wait[c] = d.wait[c]
      /\ new.rfifo[c] = d.rfifo[c] /\ new.rfctr[c] = d.rfctr[c] /\ new.due[c] = d.due[c]
      /\ new.partial[c] = d.partial[c] /\ new.missed[c] = d.missed[c]
  BY DEF SameElsewhere
<1>3. Results(new, c)
  BY <1>1, <1>2 DEF Results
<1>4. Waits(new, c)
  BY <1>1, <1>2 DEF Waits
<1>5. Follows(new, c)
  BY <1>1, <1>2 DEF Follows
<1> QED
  BY <1>3, <1>4, <1>5

LEMMA ResultsStay ==
  ASSUME NEW d, NEW new, NEW ch, Results(d, ch), SameResults(d, new, ch)
  PROVE  Results(new, ch)
BY DEF Results, SameResults

LEMMA CommandsStay ==
  ASSUME NEW d, NEW new, NEW ch, Waits(d, ch), SameCommands(d, new, ch)
  PROVE  Waits(new, ch)
BY DEF Waits, SameCommands

LEMMA StatusStays ==
  ASSUME NEW d, NEW new, NEW ch, Follows(d, ch), SameStatus(d, new, ch)
  PROVE  Follows(new, ch)
BY DEF Follows, SameStatus

\* The fields of a device have their types.
LEMMA Fields ==
  ASSUME NEW d \in Device, NEW ch \in Channels
  PROVE  /\ d.mode[ch] \in Modes /\ d.cfifo[ch] \in Seq(Entries) /\ d.cfctr[ch] \in Nat
         /\ d.rfifo[ch] \in Seq(Values) /\ d.rfctr[ch] \in Nat /\ d.flags[ch] \in SUBSET Events
         /\ d.cfs[ch] \in {"idle", "waiting", "triggered"}
         /\ d.idcr[ch] \in [cfff : BOOLEAN, dirs : BOOLEAN]
         /\ d.due[ch] \in Seq(Values) /\ d.wait[ch] \in Seq(Command)
         /\ d.partial[ch] \in BOOLEAN /\ d.missed[ch] \in BOOLEAN /\ d.fired[ch] \in BOOLEAN
         /\ d.ends \in BOOLEAN
         /\ d.cfeee0 \in BOOLEAN /\ d.adc \in [Adcs -> [Configs -> Settings]]
BY DEF Device

\* _eventRequestWithChannel changes flags only, and clears none.
LEMMA SignalKeeps ==
  ASSUME NEW d \in Device, NEW ch \in Channels, NEW e \in Events
  PROVE  LET new == Signal(d, ch, e)
         IN  /\ new \in Device /\ new.ends = d.ends
             /\ SameElsewhere(d, new, ch) /\ SameResults(d, new, ch)
             /\ SameCommands(d, new, ch) /\ SameStatus(d, new, ch)
             /\ new.cfeee0 = d.cfeee0 /\ new.adc = d.adc /\ new.idcr = d.idcr
             /\ e # "cfff" => e \in new.flags[ch]
<1> DEFINE new == [d EXCEPT !.flags[ch] = @ \union {e}]
<1>1. new \in Device
  BY DEF Device
<1>2. /\ new.ends = d.ends /\ new.cfeee0 = d.cfeee0 /\ new.adc = d.adc /\ new.idcr = d.idcr
      /\ new.mode = d.mode /\ new.cfs = d.cfs /\ new.fired = d.fired
      /\ new.cfifo = d.cfifo /\ new.cfctr = d.cfctr
      /\ new.wait = d.wait /\ new.rfifo = d.rfifo /\ new.rfctr = d.rfctr /\ new.due = d.due
      /\ new.partial = d.partial /\ new.missed = d.missed
      /\ new.flags = [d.flags EXCEPT ![ch] = @ \union {e}]
  BY DEF Device
<1> HIDE DEF new
<1>3. d.flags \in [Channels -> SUBSET Events]
  BY DEF Device
<1>4. /\ new.flags[ch] = d.flags[ch] \union {e}
      /\ \A c \in Channels \ {ch} : new.flags[c] = d.flags[c]
  BY <1>2, <1>3
<1>5. /\ SameElsewhere(d, new, ch) /\ SameResults(d, new, ch)
      /\ SameCommands(d, new, ch) /\ SameStatus(d, new, ch) /\ e \in new.flags[ch]
  BY <1>2, <1>4 DEF SameElsewhere, SameResults, SameCommands, SameStatus
<1>6. /\ SameElsewhere(d, d, ch) /\ SameResults(d, d, ch)
      /\ SameCommands(d, d, ch) /\ SameStatus(d, d, ch)
  BY DEF SameElsewhere, SameResults, SameCommands, SameStatus
<1>7. CASE Signal(d, ch, e) = new
  BY <1>1, <1>2, <1>5, <1>7
<1>8. CASE Signal(d, ch, e) = d /\ e = "cfff"
  BY <1>6, <1>8
<1> QED
  BY <1>7, <1>8 DEF Signal, new

LEMMA SignalKept ==
  ASSUME NEW d \in Kept, NEW ch \in Channels, NEW e \in Events
  PROVE  Signal(d, ch, e) \in Kept
<1> DEFINE new == Signal(d, ch, e)
<1>1. d \in Device /\ (d.ends \/ Sound(d))
  BY DEF Kept
<1>2. /\ new \in Device /\ new.ends = d.ends
      /\ SameElsewhere(d, new, ch) /\ SameResults(d, new, ch)
      /\ SameCommands(d, new, ch) /\ SameStatus(d, new, ch)
  BY <1>1, SignalKeeps
<1> HIDE DEF new
<1>3. ASSUME Sound(d) PROVE Sound(new)
  <2>1. Results(d, ch) /\ Waits(d, ch) /\ Follows(d, ch)
    BY <1>3 DEF Sound
  <2>2. Results(new, ch) /\ Waits(new, ch) /\ Follows(new, ch)
    BY <1>2, <2>1, ResultsStay, CommandsStay, StatusStays
  <2> QED
    BY <1>2, <1>3, <2>2, OneChannel
<1>4. new \in Kept
  BY <1>1, <1>2, <1>3 DEF Kept
<1> QED
  BY <1>4 DEF new

\* A result is stored behind the others, or the overflow is flagged.
LEMMA PushKept ==
  ASSUME NEW d \in Kept, ~d.ends, NEW ch \in Channels, NEW v \in Values
  PROVE  PushRFIFO(d, ch, v) \in Kept /\ ~PushRFIFO(d, ch, v).ends
<1> DEFINE n == d.rfctr[ch]
           r2 == Stored(d.rfifo[ch], n, v)
           q2 == Append(d.due[ch], v)
           mid == [d EXCEPT !.rfifo[ch] = r2, !.rfctr[ch] = n + 1,
                            !.due[ch] = q2, !.missed[ch] = FALSE]
           new == Signal(mid, ch, "rfdf")
<1>1. d \in Device /\ Sound(d) /\ Results(d, ch) /\ Waits(d, ch) /\ Follows(d, ch)
  BY DEF Kept, Sound
<1>2. "rfdf" \in Events /\ "rfof" \in Events
  BY DEF Events
<1>3. CASE n < FifoLen
  <2>1. PushRFIFO(d, ch, v) = new
    BY <1>3 DEF PushRFIFO, Stored
  <2>2. /\ d.rfifo[ch] \in Seq(Values) /\ d.due[ch] \in Seq(Values) /\ n \in Nat
        /\ d.rfifo \in [Channels -> Seq(Values)] /\ d.due \in [Channels -> Seq(Values)]
        /\ d.rfctr \in [Channels -> Nat] /\ d.missed \in [Channels -> BOOLEAN]
    BY <1>1 DEF Device
  <2>3. /\ r2 \in Seq(Values) /\ q2 \in Seq(Values) /\ Len(q2) = Len(d.due[ch]) + 1
        /\ Len(r2) = IF n < Len(d.rfifo[ch]) THEN Len(d.rfifo[ch]) ELSE Len(d.rfifo[ch]) + 1
        /\ Begins(d.rfifo[ch], n, d.due[ch]) => Begins(r2, n + 1, q2)
    <3> DEFINE r == d.rfifo[ch]
               q == d.due[ch]
    <3>1. r \in Seq(Values) /\ q \in Seq(Values) /\ n \in Nat
      BY <2>2
    <3> HIDE DEF r, q, n
    <3>2. /\ Stored(r, n, v) \in Seq(Values)
          /\ Len(Stored(r, n, v)) = IF n < Len(r) THEN Len(r) ELSE Len(r) + 1
          /\ Append(q, v) \in Seq(Values) /\ Len(Append(q, v)) = Len(q) + 1
          /\ Begins(r, n, q) => Begins(Stored(r, n, v), n + 1, Append(q, v))
      BY <3>1, StoredArray
    <3> QED
      BY <3>2 DEF r, q
  <2> HIDE DEF r2, q2, n
  <2>4. mid \in Device /\ mid.ends = d.ends
    <3>1. /\ [d.rfifo EXCEPT ![ch] = r2] \in [Channels -> Seq(Values)]
          /\ [d.due EXCEPT ![ch] = q2] \in [Channels -> Seq(Values)]
          /\ [d.rfctr EXCEPT ![ch] = n + 1] \in [Channels -> Nat]
          /\ [d.missed EXCEPT ![ch] = FALSE] \in [Channels -> BOOLEAN]
      BY <2>2, <2>3
    <3> QED
      BY <1>1, <3>1 DEF Device
  <2>5. /\ mid.mode = d.mode /\ mid.cfs = d.cfs /\ mid.fired = d.fired
        /\ mid.flags = d.flags /\ mid.cfifo = d.cfifo
        /\ mid.cfctr = d.cfctr /\ mid.wait = d.wait /\ mid.partial = d.partial
        /\ mid.rfifo = [d.rfifo EXCEPT ![ch] = r2] /\ mid.rfctr = [d.rfctr EXCEPT ![ch] = n + 1]
        /\ mid.due = [d.due EXCEPT ![ch] = q2] /\ mid.missed = [d.missed EXCEPT ![ch] = FALSE]
    BY <1>1 DEF Device
  <2> HIDE DEF mid
  <2>6. /\ new \in Device /\ new.ends = mid.ends /\ "rfdf" \in new.flags[ch]
        /\ SameElsewhere(mid, new, ch) /\ SameResults(mid, new, ch)
        /\ SameCommands(mid, new, ch) /\ SameStatus(mid, new, ch)
    BY <1>2, <2>4, SignalKeeps
  <2> HIDE DEF new
  <2>7. /\ mid.rfifo[ch] = r2 /\ mid.rfctr[ch] = n + 1 /\ mid.due[ch] = q2 /\ mid.missed[ch] = FALSE
        /\ \A c \in Channels \ {ch} :
             /\ mid.rfifo[c] = d.rfifo[c] /\ mid.rfctr[c] = d.rfctr[c]
             /\ mid.due[c] = d.due[c] /\ mid.missed[c] = d.missed[c]
    BY <2>2, <2>5
  <2>8. SameElsewhere(d, new, ch)
    BY <2>5, <2>6, <2>7 DEF SameElsewhere
  <2>9. SameCommands(d, new, ch) /\ SameStatus(d, new, ch)
    BY <2>5, <2>6 DEF SameCommands, SameStatus
  <2>10. /\ new.rfifo[ch] = r2 /\ new.rfctr[ch] = n + 1 /\ new.due[ch] = q2
         /\ new.missed[ch] = FALSE /\ new.partial[ch] = d.partial[ch]
    BY <2>5, <2>6, <2>7 DEF SameResults
  <2>11. Results(new, ch)
    <3>1. /\ Len(d.rfifo[ch]) <= FifoLen /\ n <= FifoLen /\ Len(d.due[ch]) = n
          /\ ~d.partial[ch] => Begins(d.rfifo[ch], n, d.due[ch])
      BY <1>1 DEF Results, n
    <3>2. Len(r2) <= FifoLen /\ n + 1 <= FifoLen /\ Len(q2) = n + 1
      <4>1. Len(d.rfifo[ch]) \in Nat /\ FifoLen \in Nat /\ n \in Nat
        BY <2>2, Sizes
      <4> QED
        BY <1>3, <2>3, <3>1, <4>1
    <3>3. ~new.partial[ch] => Begins(r2, n + 1, q2)
      BY <2>3, <2>10, <3>1
    <3> QED
      BY <2>6, <2>10, <3>2, <3>3 DEF Results
  <2>12. Sound(new)
    BY <1>1, <2>8, <2>9, <2>11, OneChannel, CommandsStay, StatusStays
  <2> QED
    BY <2>1, <2>4, <2>6, <2>12 DEF Kept
<1>4. CASE ~ (n < FifoLen)
  <2>1. PushRFIFO(d, ch, v) = Signal(d, ch, "rfof")
    BY <1>4 DEF PushRFIFO
  <2> QED
    BY <1>1, <1>2, <2>1, SignalKept, SignalKeeps
<1> QED
  BY <1>3, <1>4

\* A result is taken: the others stay in order, unless a continuous scan is read
\* before its FIFO is full.
LEMMA PopKept ==
  ASSUME NEW d \in Kept, ~d.ends, NEW ch \in Channels, d.rfctr[ch] # 0
  PROVE  PopRFIFO(d, ch) \in Kept /\ ~PopRFIFO(d, ch).ends
<1> DEFINE continuous == d.mode[ch] \in Continuous
           r == d.rfifo[ch]
           q == d.due[ch]
           old == d.rfctr[ch]
           n == IF continuous THEN old ELSE old - 1
           r2 == Shifted(r, continuous)
           q2 == IF continuous THEN Append(Tail(q), Last(q)) ELSE Tail(q)
           p2 == d.partial[ch] \/ (continuous /\ old < FifoLen)
           mid == [d EXCEPT !.rfifo[ch] = r2, !.rfctr[ch] = n, !.due[ch] = q2,
                            !.partial[ch] = p2, !.missed[ch] = FALSE]
           new == IF n # 0 THEN Signal(mid, ch, "rfdf") ELSE mid
<1>1. d \in Device /\ Sound(d) /\ Results(d, ch) /\ Waits(d, ch) /\ Follows(d, ch)
  BY DEF Kept, Sound
<1>2. "rfdf" \in Events
  BY DEF Events
<1>3. /\ r \in Seq(Values) /\ q \in Seq(Values) /\ old \in Nat /\ old > 0
      /\ d.rfifo \in [Channels -> Seq(Values)] /\ d.due \in [Channels -> Seq(Values)]
      /\ d.rfctr \in [Channels -> Nat] /\ d.missed \in [Channels -> BOOLEAN]
      /\ d.partial \in [Channels -> BOOLEAN]
  BY <1>1 DEF Device
<1>4. /\ Len(r) <= FifoLen /\ old <= FifoLen /\ Len(q) = old
      /\ ~d.partial[ch] => Begins(r, old, q)
  BY <1>1 DEF Results
<1>5. PopRFIFO(d, ch) = new
  BY DEF PopRFIFO
<1>21. continuous \in BOOLEAN
  OBVIOUS
<1> HIDE DEF r, q, old, new, mid, continuous
<1>6. /\ r2 \in Seq(Values) /\ Len(r2) <= Len(r)
  BY <1>3, <1>21, ShiftedArray
<1>7. q2 \in Seq(Values) /\ Len(q2) = n /\ n \in Nat
  <2> DEFINE t == Tail(q)
             e == q[Len(q)]
  <2>1. t \in Seq(Values) /\ Len(t) = old - 1 /\ e \in Values /\ Last(q) = e
    BY <1>3, <1>4 DEF Last
  <2> HIDE DEF t, e
  <2>2. Append(t, e) \in Seq(Values) /\ Len(Append(t, e)) = old
    BY <1>3, <2>1
  <2>3. q2 = IF continuous THEN Append(t, e) ELSE t
    BY <2>1 DEF t
  <2> HIDE DEF q2
  <2> QED
    BY <1>3, <2>1, <2>2, <2>3
<1>8. ~p2 => Begins(r2, n, q2)
  <2> SUFFICES ASSUME ~p2 PROVE Begins(r2, n, q2)
    OBVIOUS
  <2>1. Begins(r, old, q)
    BY <1>4
  <2>2. CASE ~continuous
    <3>1. Begins(Shifted(r, FALSE), old - 1, Tail(q))
      BY <1>3, <2>1, ReadInOrder
    <3>2. r2 = Shifted(r, FALSE)
      BY <2>2 DEF Shifted
    <3>3. n = old - 1 /\ q2 = Tail(q)
      BY <2>2
    <3> HIDE DEF r2, n, q2
    <3> QED
      BY <3>1, <3>2, <3>3
  <2>3. CASE continuous
    <3>1. old = Len(r) /\ old > 1
      <4>1. ~ (old < FifoLen) /\ old <= Len(r) /\ FifoLen \in Nat /\ FifoLen > 1 /\ Len(r) \in Nat
        BY <1>3, <2>1, <2>3, Sizes DEF Begins
      <4> QED
        BY <1>3, <1>4, <4>1
    <3>2. Begins(Shifted(r, TRUE), old, Append(Tail(q), Last(q)))
      BY <1>3, <2>1, <3>1, ReadInOrder
    <3>3. r2 = Shifted(r, TRUE)
      BY <2>3 DEF Shifted
    <3>4. n = old /\ q2 = Append(Tail(q), Last(q))
      BY <2>3
    <3> HIDE DEF r2, n, q2
    <3> QED
      BY <3>2, <3>3, <3>4
  <2> QED
    BY <2>2, <2>3
<1>9. p2 \in BOOLEAN
  OBVIOUS
<1>10. (n <= FifoLen /\ n > 0) \/ n = 0
  <2>1. FifoLen \in Nat
    BY Sizes
  <2> QED
    BY <1>3, <1>4, <2>1
<1>11. p2 <=> (d.partial[ch] \/ (continuous /\ old < FifoLen))
  OBVIOUS
<1> HIDE DEF r2, q2, n, p2
<1>12. mid \in Device /\ mid.ends = d.ends
  <2>1. /\ [d.rfifo EXCEPT ![ch] = r2] \in [Channels -> Seq(Values)]
        /\ [d.due EXCEPT ![ch] = q2] \in [Channels -> Seq(Values)]
        /\ [d.rfctr EXCEPT ![ch] = n] \in [Channels -> Nat]
        /\ [d.missed EXCEPT ![ch] = FALSE] \in [Channels -> BOOLEAN]
        /\ [d.partial EXCEPT ![ch] = p2] \in [Channels -> BOOLEAN]
    BY <1>3, <1>6, <1>7, <1>9
  <2> QED
    BY <1>1, <2>1 DEF Device, mid
<1>13. /\ mid.mode = d.mode /\ mid.cfs = d.cfs /\ mid.fired = d.fired
       /\ mid.flags = d.flags /\ mid.cfifo = d.cfifo
       /\ mid.cfctr = d.cfctr /\ mid.wait = d.wait
       /\ mid.rfifo = [d.rfifo EXCEPT ![ch] = r2] /\ mid.rfctr = [d.rfctr EXCEPT ![ch] = n]
       /\ mid.due = [d.due EXCEPT ![ch] = q2] /\ mid.missed = [d.missed EXCEPT ![ch] = FALSE]
       /\ mid.partial = [d.partial EXCEPT ![ch] = p2]
  BY <1>1 DEF Device, mid
<1>14. /\ mid.rfifo[ch] = r2 /\ mid.rfctr[ch] = n /\ mid.due[ch] = q2
       /\ mid.partial[ch] = p2
       /\ \A c \in Channels \ {ch} :
            /\ mid.rfifo[c] = d.rfifo[c] /\ mid.rfctr[c] = d.rfctr[c]
            /\ mid.due[c] = d.due[c] /\ mid.missed[c] = d.missed[c]
            /\ mid.partial[c] = d.partial[c]
  BY <1>3, <1>13
<1>15. /\ new \in Device /\ new.ends = mid.ends /\ (n # 0 => "rfdf" \in new.flags[ch])
       /\ SameElsewhere(mid, new, ch) /\ SameResults(mid, new, ch)
       /\ SameCommands(mid, new, ch) /\ SameStatus(mid, new, ch)
  <2>1. CASE n # 0
    <3>1. new = Signal(mid, ch, "rfdf")
      BY <2>1 DEF new
    <3> QED
      BY <1>2, <1>12, <3>1, SignalKeeps
  <2>2. CASE n = 0
    <3>1. new = mid
      BY <2>2 DEF new
    <3> QED
      BY <1>12, <2>2, <3>1 DEF SameElsewhere, SameResults, SameCommands, SameStatus
  <2> QED
    BY <2>1, <2>2
<1>16. SameElsewhere(d, new, ch)
  BY <1>13, <1>14, <1>15 DEF SameElsewhere
<1>17. SameCommands(d, new, ch) /\ SameStatus(d, new, ch)
  BY <1>13, <1>15 DEF SameCommands, SameStatus
<1>18. new.rfifo[ch] = r2 /\ new.rfctr[ch] = n /\ new.due[ch] = q2 /\ new.partial[ch] = p2
  BY <1>14, <1>15 DEF SameResults
<1>19. Results(new, ch)
  <2>1. Len(r2) <= FifoLen /\ n <= FifoLen
    <3>1. Len(r) \in Nat /\ Len(r2) \in Nat /\ FifoLen \in Nat
      BY <1>3, <1>6, Sizes
    <3> QED
      BY <1>4, <1>6, <1>10, <3>1
  <2>2. n > 0 => n # 0
    BY <1>7
  <2> QED
    BY <1>7, <1>8, <1>15, <1>18, <2>1, <2>2 DEF Results
<1>22. Sound(new)
  BY <1>1, <1>16, <1>17, <1>19, OneChannel, CommandsStay, StatusStays
<1> QED
  BY <1>5, <1>12, <1>15, <1>22 DEF Kept

-----------------------------------------------------------------------------
(* Commands.                                                               *)

Running == {d \in Kept : ~d.ends}

\* A continuous scan fills the FIFO with its last result.
LEMMA FillKept ==
  ASSUME NEW d \in Running, NEW ch \in Channels, NEW v \in Values
  PROVE  Fill(d, ch, v) \in Running
<1> DEFINE Push(x) == PushRFIFO(x, ch, v)
           h == [x \in Running |-> Push(x)]
           Run(g) == g = [k \in 0 .. FifoLen |-> IF k = 0 THEN d ELSE Push(g[k - 1])]
           after == CHOOSE g : Run(g)
<1>1. ASSUME NEW x \in Running PROVE Push(x) \in Running
  BY PushKept DEF Running
<1>2. FifoLen \in Nat /\ FifoLen - d.rfctr[ch] \in 0 .. FifoLen
  <2>1. d \in Device /\ d.rfctr[ch] \in Nat /\ d.rfctr[ch] <= FifoLen
    BY Fields DEF Running, Kept, Sound, Results
  <2> DEFINE n == d.rfctr[ch]
  <2> HIDE DEF n
  <2> QED
    BY <2>1, Sizes DEF n
<1>3. Fill(d, ch, v) = after[FifoLen - d.rfctr[ch]]
  BY DEF Fill
<1> HIDE DEF Push
<1>4. h \in [Running -> Running]
  BY <1>1
<1>5. \E g : Run(g)
  <2> HIDE DEF h
  <2>1. PICK g \in [0 .. FifoLen -> Running] :
          g[0] = d /\ \A k \in 1 .. FifoLen : g[k] = h[g[k - 1]]
    <3>1. \E g : IsRun(g, Running, d, h, FifoLen)
      BY <1>2, <1>4, RunExists
    <3> QED
      BY <3>1 DEF IsRun
  <2>2. ASSUME NEW k \in 0 .. FifoLen PROVE g[k] = IF k = 0 THEN d ELSE Push(g[k - 1])
    <3>1. CASE k = 0
      BY <2>1, <3>1
    <3>2. CASE k # 0
      <4>1. k \in 1 .. FifoLen /\ k - 1 \in 0 .. FifoLen
        BY <1>2, <3>2
      <4>2. g[k] = h[g[k - 1]] /\ g[k - 1] \in Running
        BY <2>1, <4>1
      <4> QED
        BY <3>2, <4>2 DEF h
    <3> QED
      BY <3>1, <3>2
  <2>3. Run(g)
    BY <2>1, <2>2
  <2> QED
    BY <2>3
<1>6. Run(after)
  <2> HIDE DEF Run
  <2> QED
    BY <1>5
<1> HIDE DEF after
<1>7. /\ after[0] = d
      /\ \A k \in 1 .. FifoLen : after[k] = Push(after[k - 1])
  BY <1>2, <1>6
<1> HIDE DEF Run, h
<1>8. \A k \in 0 .. FifoLen : after[k] \in Running
  <2>1. \A k \in 1 .. FifoLen : after[k - 1] \in Running => after[k] \in Running
    BY <1>1, <1>7
  <2> QED
    BY <1>2, <1>7, <2>1, RunStays
<1> QED
  BY <1>2, <1>3, <1>8

\* An operation that ends the emulator leaves nothing to be right.
LEMMA EndsKept ==
  ASSUME NEW d \in Device
  PROVE  Ends(d) \in Kept
<1>1. Ends(d) \in Device /\ Ends(d).ends
  BY DEF Ends, Device
<1> QED
  BY <1>1 DEF Kept

LEMMA DeliverKept ==
  ASSUME NEW d \in Running, NEW ch \in Channels, NEW cmd \in Command, cmd.tag \in Channels,
         NEW v \in Values
  PROVE  Deliver(d, ch, cmd, v) \in Kept
<1> DEFINE new == PushRFIFO(d, cmd.tag, v)
<1>1. new \in Kept /\ new \in Running
  BY PushKept DEF Running
<1>2. Fill(new, ch, v) \in Kept
  BY <1>1, FillKept DEF Running
<1>3. Ends(new) \in Kept
  BY <1>1, EndsKept DEF Kept
<1>4. Deliver(d, ch, cmd, v) \in {new, Fill(new, ch, v), Ends(new)}
  BY DEF Deliver
<1> HIDE DEF new
<1> QED
  BY <1>1, <1>2, <1>3, <1>4

\* A converter's register is written.
LEMMA AdcKept ==
  ASSUME NEW d \in Running, NEW bn \in Adcs, NEW config \in Configs, NEW set \in Settings
  PROVE  [d EXCEPT !.adc[bn][config] = set] \in Kept
<1> DEFINE new == [d EXCEPT !.adc[bn][config] = set]
<1>1. d \in Device /\ Sound(d)
  BY DEF Running, Kept
<1>2. [d.adc EXCEPT ![bn] = [d.adc[bn] EXCEPT ![config] = set]] \in [Adcs -> [Configs -> Settings]]
  BY <1>1 DEF Device
<1>3. new \in Device
  BY <1>1, <1>2 DEF Device
<1>4. /\ new.mode = d.mode /\ new.cfs = d.cfs /\ new.fired = d.fired
      /\ new.flags = d.flags /\ new.cfifo = d.cfifo
      /\ new.cfctr = d.cfctr /\ new.wait = d.wait /\ new.partial = d.partial
      /\ new.rfifo = d.rfifo /\ new.rfctr = d.rfctr /\ new.due = d.due /\ new.missed = d.missed
  BY <1>1 DEF Device
<1> HIDE DEF new
<1>5. Sound(new)
  BY <1>1, <1>4 DEF Sound, Results, Waits, Follows
<1>6. new \in Kept
  BY <1>3, <1>5 DEF Kept
<1> QED
  BY <1>6 DEF new

LEMMA CommandKept ==
  ASSUME NEW d \in Running, NEW ch \in Channels, NEW cmd \in Command, volts \in Values
  PROVE  ProcessCommand(d, ch, cmd) \in Kept
<1> DEFINE setting == d.adc[cmd.bn][cmd.config]
           filtered == setting = "filter" /\ cmd.config = "ACR"
           read == IF setting = "inhibit" THEN 0 ELSE 1
           written == [d EXCEPT !.adc[cmd.bn][cmd.config] = cmd.set]
           done ==
             CASE cmd.kind = "write" -> written
               [] cmd.kind = "read" /\ cmd.tag # NULL -> PushRFIFO(d, cmd.tag, read)
               [] cmd.kind = "convert" /\ cmd.tag # NULL /\ setting # "inhibit" ->
                    IF filtered THEN Ends(d) ELSE Deliver(d, ch, cmd, volts)
               [] cmd.kind = "pause" -> Ends(d)
               [] OTHER -> d
<1>1. ProcessCommand(d, ch, cmd) = IF cmd.eoq /\ ~done.ends THEN Signal(done, ch, "eoqf") ELSE done
  BY DEF ProcessCommand
<1>2. /\ cmd.bn \in Adcs /\ cmd.config \in Configs /\ cmd.set \in Settings
      /\ cmd.tag # NULL => cmd.tag \in Channels
  BY DEF Command
<1>3. d \in Kept /\ ~d.ends
  BY DEF Running
<1>4. written \in Kept
  BY <1>2, AdcKept
<1>5. read \in Values
  BY EqadcAssumption
<1> HIDE DEF setting, filtered, read, written
<1>6. cmd.tag # NULL => PushRFIFO(d, cmd.tag, read) \in Kept
  BY <1>2, <1>3, <1>5, PushKept
<1>7. cmd.tag # NULL => Deliver(d, ch, cmd, volts) \in Kept
  BY <1>2, DeliverKept
<1>8. Ends(d) \in Kept
  BY <1>3, EndsKept DEF Kept
<1>9. done \in Kept
  BY <1>3, <1>4, <1>6, <1>7, <1>8
<1> HIDE DEF done
<1>10. Signal(done, ch, "eoqf") \in Kept
  BY <1>9, SignalKept DEF Events
<1> QED
  BY <1>1, <1>9, <1>10

\* pushCFIFO: the entries of an array move up by one.
LEMMA EnteredArray ==
  ASSUME NEW S, NEW s \in Seq(S), NEW e \in S, Len(s) >= 1
  PROVE  LET t == <<e>> \o Front(s)
         IN  /\ t \in Seq(S) /\ Len(t) = Len(s) /\ t[1] = e
             /\ \A i \in 2 .. Len(s) : t[i] = s[i - 1]
<1> DEFINE f == Front(s)
           one == <<e>>
<1>1. f \in Seq(S) /\ Len(f) = Len(s) - 1 /\ \A i \in 1 .. Len(s) - 1 : f[i] = s[i]
  <2> DEFINE n == Len(s) - 1
  <2>1. n \in 0 .. Len(s) /\ Len(s) \in Nat
    BY LenProperties
  <2>2. f = SubSeq(s, 1, n)
    BY DEF Front
  <2> HIDE DEF n, f
  <2>3. f \in Seq(S) /\ Len(f) = n /\ \A i \in 1 .. n : f[i] = s[i]
    BY <2>1, <2>2
  <2> QED
    BY <2>3 DEF n
<1>2. one \in Seq(S) /\ Len(one) = 1 /\ one[1] = e
  OBVIOUS
<1> HIDE DEF f, one
<1> DEFINE t == one \o f
<1>3. /\ t \in Seq(S) /\ Len(t) = Len(s)
      /\ \A i \in 1 .. Len(s) : t[i] = IF i <= 1 THEN one[i] ELSE f[i - 1]
  <2>1. /\ t \in Seq(S) /\ Len(t) = Len(one) + Len(f)
        /\ \A i \in 1 .. Len(one) + Len(f) : t[i] = IF i <= Len(one) THEN one[i] ELSE f[i - Len(one)]
    BY <1>1, <1>2, ConcatProperties
  <2>2. Len(s) \in Nat
    BY LenProperties
  <2> HIDE DEF t
  <2> QED
    BY <1>1, <1>2, <2>1, <2>2
<1> HIDE DEF t
<1>4. t[1] = e
  BY <1>2, <1>3
<1>5. ASSUME NEW i \in 2 .. Len(s) PROVE t[i] = s[i - 1]
  <2>1. i \in 1 .. Len(s) /\ ~ (i <= 1) /\ i - 1 \in 1 .. Len(s) - 1
    BY LenProperties
  <2>2. t[i] = f[i - 1]
    BY <1>3, <2>1
  <2> QED
    BY <1>1, <2>1, <2>2
<1> QED
  BY <1>3, <1>4, <1>5 DEF t, one, f

LEMMA EnteredInOrder ==
  ASSUME NEW S, NEW s \in Seq(S), NEW w \in Seq(S), NEW e \in S, NEW n \in Nat, n < Len(s),
         BeginsBackwards(s, n, w)
  PROVE  BeginsBackwards(<<e>> \o Front(s), n + 1, Append(w, e))
<1> DEFINE t == <<e>> \o Front(s)
           x == Append(w, e)
<1>1. Len(w) = n /\ \A i \in 1 .. n : w[i] = s[n + 1 - i]
  BY DEF BeginsBackwards
<1>2. Len(t) = Len(s) /\ t[1] = e /\ \A i \in 2 .. Len(s) : t[i] = s[i - 1]
  <2>1. Len(s) >= 1
    BY LenProperties
  <2> QED
    BY <2>1, EnteredArray
<1>3. Len(x) = n + 1 /\ x[n + 1] = e /\ \A i \in 1 .. n : x[i] = w[i]
  BY <1>1
<1> HIDE DEF t, x
<1>4. ASSUME NEW i \in 1 .. n + 1 PROVE x[i] = t[n + 2 - i]
  <2>1. CASE i = n + 1
    BY <1>2, <1>3, <2>1
  <2>2. CASE i # n + 1
    <3>1. i \in 1 .. n /\ n + 2 - i \in 2 .. Len(s) /\ n + 2 - i - 1 = n + 1 - i
      BY <2>2, LenProperties
    <3>2. t[n + 2 - i] = s[n + 1 - i]
      BY <1>2, <3>1
    <3> QED
      BY <1>1, <1>3, <3>1, <3>2
  <2> QED
    BY <2>1, <2>2
<1>5. \A i \in 1 .. n + 1 : n + 2 - i = (n + 1) + 1 - i
  OBVIOUS
<1>6. n + 1 <= Len(t)
  BY <1>2, LenProperties
<1>7. BeginsBackwards(t, n + 1, x)
  BY <1>3, <1>4, <1>5, <1>6 DEF BeginsBackwards
<1> QED
  BY <1>7 DEF t, x

LEMMA LeftInOrder ==
  ASSUME NEW S, NEW s \in Seq(S), NEW w \in Seq(S), NEW n \in Nat, n > 0,
         BeginsBackwards(s, n, w)
  PROVE  /\ w # <<>> /\ Tail(w) \in Seq(S)
         /\ BeginsBackwards(s, n - 1, Tail(w))
<1>1. n <= Len(s) /\ Len(w) = n /\ \A i \in 1 .. n : w[i] = s[n + 1 - i]
  BY DEF BeginsBackwards
<1> DEFINE t == Tail(w)
<1>2. w # <<>> /\ t \in Seq(S) /\ Len(t) = n - 1 /\ \A i \in 1 .. n - 1 : t[i] = w[i + 1]
  BY <1>1
<1> HIDE DEF t
<1>3. ASSUME NEW i \in 1 .. n - 1 PROVE t[i] = s[(n - 1) + 1 - i]
  <2>1. i + 1 \in 1 .. n /\ n + 1 - (i + 1) = (n - 1) + 1 - i
    OBVIOUS
  <2> QED
    BY <1>1, <1>2, <2>1
<1>4. n - 1 <= Len(s)
  BY <1>1, LenProperties
<1>5. BeginsBackwards(s, n - 1, t)
  BY <1>2, <1>3, <1>4 DEF BeginsBackwards
<1> QED
  BY <1>2, <1>5 DEF t

\* A command is put in front of the others; when the array has no room the oldest is
\* lost and the order is given up.
LEMMA PushCommandKept ==
  ASSUME NEW d \in Running, NEW ch \in Channels, NEW cmd \in Command
  PROVE  PushCFIFO(d, ch, cmd) \in Kept
<1> DEFINE s == d.cfifo[ch]
           w == d.wait[ch]
           old == d.cfctr[ch]
           n == old + 1
           s2 == <<cmd>> \o Front(s)
           w2 == IF n <= Slots(ch) THEN Append(w, cmd) ELSE <<>>
           new == [d EXCEPT !.cfifo[ch] = s2, !.cfctr[ch] = n, !.wait[ch] = w2]
<1>1. d \in Device /\ Sound(d) /\ Results(d, ch) /\ Waits(d, ch) /\ Follows(d, ch) /\ d \in Kept
  BY DEF Running, Kept, Sound
<1>2. PushCFIFO(d, ch, cmd) = IF n > MaxCommands(d, ch) THEN d
        ELSE IF n # MaxCommands(d, ch) THEN Signal(new, ch, "cfff") ELSE new
  BY DEF PushCFIFO
<1>3. /\ s \in Seq(Entries) /\ w \in Seq(Command) /\ old \in Nat /\ cmd \in Entries
      /\ d.cfifo \in [Channels -> Seq(Entries)] /\ d.cfctr \in [Channels -> Nat]
      /\ d.wait \in [Channels -> Seq(Command)]
  BY <1>1 DEF Device, Entries
<1>4. /\ Len(s) = Slots(ch) /\ Slots(ch) \in Nat /\ Slots(ch) >= 1 /\ old <= Limit(ch)
      /\ Limit(ch) \in Nat
      /\ \A i \in 1 .. old : i <= Slots(ch) => s[i] \in Command
      /\ old <= Slots(ch) => BeginsBackwards(s, old, w)
  BY <1>1, Sizes DEF Waits
<1> HIDE DEF s, w, old
<1>5. /\ s2 \in Seq(Entries) /\ Len(s2) = Slots(ch) /\ s2[1] = cmd
      /\ \A i \in 2 .. Slots(ch) : s2[i] = s[i - 1]
  BY <1>3, <1>4, EnteredArray
<1>6. w2 \in Seq(Command)
  BY <1>3
<1>7. CASE n <= MaxCommands(d, ch)
  <2>1. n <= Limit(ch)
    <3>1. MaxCommands(d, ch) \in Nat /\ MaxCommands(d, ch) <= Limit(ch)
      BY Sizes DEF MaxCommands, Limit
    <3> QED
      BY <1>3, <1>4, <1>7, <3>1
  <2>2. ASSUME NEW i \in 1 .. n, i <= Slots(ch) PROVE s2[i] \in Command
    <3>1. CASE i = 1
      BY <1>5, <3>1
    <3>2. CASE i # 1
      <4>1. i \in 2 .. Slots(ch) /\ i - 1 \in 1 .. old /\ i - 1 <= Slots(ch)
        BY <1>3, <1>4, <2>2, <3>2
      <4>2. s2[i] = s[i - 1] /\ s[i - 1] \in Command
        BY <1>4, <1>5, <4>1
      <4> QED
        BY <4>2
    <3> QED
      BY <3>1, <3>2
  <2>3. ASSUME n <= Slots(ch) PROVE BeginsBackwards(s2, n, w2)
    <3>1. old < Len(s) /\ BeginsBackwards(s, old, w) /\ w \in Seq(Entries)
      <4>1. w \in Seq(Entries)
        BY <1>3, SeqMonotonic DEF Entries
      <4> QED
        BY <1>3, <1>4, <2>3, <4>1
    <3>2. BeginsBackwards(s2, n, Append(w, cmd))
      BY <1>3, <3>1, EnteredInOrder
    <3> QED
      BY <2>3, <3>2
  <2>4. n > Slots(ch) => w2 = <<>>
    BY <1>3, <1>4
  <2>5. n \in Nat
    BY <1>3
  <2> HIDE DEF s2, w2, n
  <2>6. new \in Device /\ new.ends = d.ends
    <3>1. /\ [d.cfifo EXCEPT ![ch] = s2] \in [Channels -> Seq(Entries)]
          /\ [d.cfctr EXCEPT ![ch] = n] \in [Channels -> Nat]
          /\ [d.wait EXCEPT ![ch] = w2] \in [Channels -> Seq(Command)]
      BY <1>3, <1>5, <1>6, <2>5
    <3> QED
      BY <1>1, <3>1 DEF Device
  <2>7. /\ new.mode = d.mode /\ new.cfs = d.cfs /\ new.fired = d.fired
        /\ new.flags = d.flags /\ new.partial = d.partial
        /\ new.rfifo = d.rfifo /\ new.rfctr = d.rfctr /\ new.due = d.due /\ new.missed = d.missed
        /\ new.cfifo = [d.cfifo EXCEPT ![ch] = s2] /\ new.cfctr = [d.cfctr EXCEPT ![ch] = n]
        /\ new.wait = [d.wait EXCEPT ![ch] = w2]
    BY <1>1 DEF Device
  <2> HIDE DEF new
  <2>8. /\ new.cfifo[ch] = s2 /\ new.cfctr[ch] = n /\ new.wait[ch] = w2
        /\ \A c \in Channels \ {ch} :
             new.cfifo[c] = d.cfifo[c] /\ new.cfctr[c] = d.cfctr[c] /\ new.wait[c] = d.wait[c]
    BY <1>3, <2>7
  <2>9. Waits(new, ch)
    BY <1>5, <2>1, <2>2, <2>3, <2>4, <2>8 DEF Waits
  <2>10. SameElsewhere(d, new, ch) /\ SameResults(d, new, ch) /\ SameStatus(d, new, ch)
    BY <2>7, <2>8 DEF SameElsewhere, SameResults, SameStatus
  <2>11. Sound(new)
    BY <1>1, <2>9, <2>10, OneChannel, ResultsStay, StatusStays
  <2>12. new \in Kept
    BY <2>6, <2>11 DEF Kept
  <2>13. Signal(new, ch, "cfff") \in Kept
    BY <2>12, SignalKept DEF Events
  <2> QED
    BY <1>1, <1>2, <2>12, <2>13
<1>8. CASE n > MaxCommands(d, ch)
  BY <1>1, <1>2, <1>8
<1>9. n <= MaxCommands(d, ch) \/ n > MaxCommands(d, ch)
  <2>1. MaxCommands(d, ch) \in Nat
    BY Sizes DEF MaxCommands
  <2> QED
    BY <1>3, <2>1
<1> QED
  BY <1>7, <1>8, <1>9

\* popCFIFO and the command it returns.  A counter beyond the array's length leads to
\* an entry that is not there, and the emulator ends.
LEMMA RunNextKept ==
  ASSUME NEW d \in Running, NEW ch \in Channels, d.cfctr[ch] # 0, volts \in Values
  PROVE  RunNext(d, ch) \in Kept
<1> DEFINE s == d.cfifo[ch]
           w == d.wait[ch]
           n == d.cfctr[ch]
           w2 == IF w = <<>> THEN w ELSE Tail(w)
           mid == [d EXCEPT !.cfctr[ch] = n - 1, !.wait[ch] = w2]
           popped == Signal(mid, ch, "cfff")
<1>1. d \in Device /\ Sound(d) /\ Results(d, ch) /\ Waits(d, ch) /\ Follows(d, ch) /\ ~d.ends
  BY DEF Running, Kept, Sound
<1>2. RunNext(d, ch) = IF n > Slots(ch) THEN Ends(popped) ELSE ProcessCommand(popped, ch, s[n])
  BY DEF RunNext
<1>3. /\ s \in Seq(Entries) /\ w \in Seq(Command) /\ n \in Nat /\ n > 0
      /\ d.cfctr \in [Channels -> Nat] /\ d.wait \in [Channels -> Seq(Command)]
  BY <1>1 DEF Device
<1>4. /\ Len(s) = Slots(ch) /\ n <= Limit(ch) /\ Slots(ch) \in Nat /\ Limit(ch) \in Nat
      /\ \A i \in 1 .. n : i <= Slots(ch) => s[i] \in Command
      /\ n <= Slots(ch) => BeginsBackwards(s, n, w)
  BY <1>1, Sizes DEF Waits
<1>5. w2 \in Seq(Command) /\ n - 1 \in Nat
  BY <1>3
<1> HIDE DEF s, w, n, w2
<1>6. mid \in Device /\ mid.ends = d.ends
  <2>1. /\ [d.cfctr EXCEPT ![ch] = n - 1] \in [Channels -> Nat]
        /\ [d.wait EXCEPT ![ch] = w2] \in [Channels -> Seq(Command)]
    BY <1>3, <1>5
  <2> QED
    BY <1>1, <2>1 DEF Device
<1>7. /\ mid.mode = d.mode /\ mid.cfs = d.cfs /\ mid.fired = d.fired
      /\ mid.flags = d.flags /\ mid.partial = d.partial
      /\ mid.rfifo = d.rfifo /\ mid.rfctr = d.rfctr /\ mid.due = d.due /\ mid.missed = d.missed
      /\ mid.cfifo = d.cfifo /\ mid.cfctr = [d.cfctr EXCEPT ![ch] = n - 1]
      /\ mid.wait = [d.wait EXCEPT ![ch] = w2]
  BY <1>1 DEF Device
<1> HIDE DEF mid
<1>8. popped \in Device /\ popped.ends = mid.ends
  BY <1>6, SignalKeeps DEF Events
<1>9. CASE n > Slots(ch)
  <2>1. Ends(popped) \in Kept
    BY <1>8, EndsKept
  <2> QED
    BY <1>2, <1>9, <2>1
<1>10. CASE n <= Slots(ch)
  <2>1. s[n] \in Command
    <3>1. n \in 1 .. n
      BY <1>3
    <3> QED
      BY <1>4, <1>10, <3>1
  <2>2. /\ mid.cfctr[ch] = n - 1 /\ mid.wait[ch] = w2
        /\ \A c \in Channels \ {ch} : mid.cfctr[c] = d.cfctr[c] /\ mid.wait[c] = d.wait[c]
    BY <1>3, <1>7
  <2>3. mid.cfifo[ch] = s
    BY <1>7 DEF s
  <2>4. BeginsBackwards(s, n - 1, w2)
    <3>1. w \in Seq(Entries)
      BY <1>3, SeqMonotonic DEF Entries
    <3>2. w # <<>> /\ BeginsBackwards(s, n - 1, Tail(w))
      BY <1>3, <1>4, <1>10, <3>1, LeftInOrder
    <3> QED
      BY <3>2 DEF w2
  <2>5. Waits(mid, ch)
    <3>1. n - 1 <= Limit(ch) /\ ~ (n - 1 > Slots(ch))
      BY <1>3, <1>4, <1>10
    <3>2. \A i \in 1 .. n - 1 : i <= Slots(ch) => s[i] \in Command
      <4>1. \A i \in 1 .. n - 1 : i \in 1 .. n
        BY <1>3
      <4> QED
        BY <1>4, <4>1
    <3> QED
      BY <1>4, <2>2, <2>3, <2>4, <3>1, <3>2 DEF Waits
  <2>6. SameElsewhere(d, mid, ch) /\ SameResults(d, mid, ch) /\ SameStatus(d, mid, ch)
    BY <1>7, <2>2 DEF SameElsewhere, SameResults, SameStatus
  <2>7. Sound(mid)
    BY <1>1, <2>5, <2>6, OneChannel, ResultsStay, StatusStays
  <2>8. mid \in Kept
    BY <1>6, <2>7 DEF Kept
  <2>9. popped \in Running
    <3>1. popped \in Kept
      BY <2>8, SignalKept DEF Events
    <3> QED
      BY <1>1, <1>6, <1>8, <3>1 DEF Running
  <2> HIDE DEF popped
  <2>10. ProcessCommand(popped, ch, s[n]) \in Kept
    BY <2>1, <2>9, CommandKept
  <2> QED
    BY <1>2, <1>3, <1>4, <1>10, <2>10
<1> QED
  BY <1>3, <1>4, <1>9, <1>10

\* The states of the loop of updateMode.
Rounds == [dev : Kept, eoq : BOOLEAN]

LEMMA RunOneKept ==
  ASSUME NEW x \in Rounds, NEW ch \in Channels, volts \in Values
  PROVE  RunOne(x, ch) \in Rounds
<1> DEFINE n == x.dev.cfctr[ch]
           e == n <= Slots(ch) /\ x.dev.cfifo[ch][n].eoq
<1>1. x.dev \in Kept /\ x.eoq \in BOOLEAN
  BY DEF Rounds
<1>2. CASE x.eoq \/ x.dev.ends \/ n = 0
  BY <1>2 DEF RunOne
<1>3. CASE ~ (x.eoq \/ x.dev.ends \/ n = 0)
  <2>1. x.dev \in Running
    BY <1>1, <1>3 DEF Running
  <2>2. RunNext(x.dev, ch) \in Kept
    BY <1>3, <2>1, RunNextKept
  <2>3. e \in BOOLEAN
    OBVIOUS
  <2>4. RunOne(x, ch) = [dev |-> RunNext(x.dev, ch), eoq |-> e]
    BY <1>3 DEF RunOne
  <2> HIDE DEF e
  <2> QED
    BY <2>2, <2>3, <2>4 DEF Rounds
<1> QED
  BY <1>2, <1>3

\* The loop stays among them, however many commands it runs.
LEMMA DrainKept ==
  ASSUME NEW d \in Running, NEW ch \in Channels, volts \in Values
  PROVE  Drain(d, ch) \in Kept
<1> DEFINE Turn(x) == RunOne(x, ch)
           first == [dev |-> d, eoq |-> FALSE]
           h == [x \in Rounds |-> Turn(x)]
           Run(g) == g = [k \in 0 .. Limit(ch) |-> IF k = 0 THEN first ELSE Turn(g[k - 1])]
           after == CHOOSE g : Run(g)
<1>1. ASSUME NEW x \in Rounds PROVE Turn(x) \in Rounds
  BY RunOneKept
<1>2. Limit(ch) \in Nat /\ d.cfctr[ch] \in 0 .. Limit(ch)
  <2>1. d \in Device /\ d.cfctr[ch] \in Nat /\ d.cfctr[ch] <= Limit(ch)
    BY Fields DEF Running, Kept, Sound, Waits
  <2> DEFINE n == d.cfctr[ch]
  <2> HIDE DEF n
  <2> QED
    BY <2>1, Sizes DEF n
<1>3. Drain(d, ch) = after[d.cfctr[ch]].dev
  BY DEF Drain
<1>4. first \in Rounds
  BY DEF Rounds, Running
<1> HIDE DEF Turn, first
<1>5. h \in [Rounds -> Rounds]
  BY <1>1
<1>6. \E g : Run(g)
  <2> HIDE DEF h
  <2>1. PICK g \in [0 .. Limit(ch) -> Rounds] :
          g[0] = first /\ \A k \in 1 .. Limit(ch) : g[k] = h[g[k - 1]]
    <3>1. \E g : IsRun(g, Rounds, first, h, Limit(ch))
      BY <1>2, <1>4, <1>5, RunExists
    <3> QED
      BY <3>1 DEF IsRun
  <2>2. ASSUME NEW k \in 0 .. Limit(ch)
        PROVE  g[k] = IF k = 0 THEN first ELSE Turn(g[k - 1])
    <3>1. CASE k = 0
      BY <2>1, <3>1
    <3>2. CASE k # 0
      <4>1. k \in 1 .. Limit(ch) /\ k - 1 \in 0 .. Limit(ch)
        BY <1>2, <3>2
      <4>2. g[k] = h[g[k - 1]] /\ g[k - 1] \in Rounds
        BY <2>1, <4>1
      <4> QED
        BY <3>2, <4>2 DEF h
    <3> QED
      BY <3>1, <3>2
  <2>3. Run(g)
    BY <2>1, <2>2
  <2> QED
    BY <2>3
<1>7. Run(after)
  <2> HIDE DEF Run
  <2> QED
    BY <1>6
<1> HIDE DEF after
<1>8. /\ after[0] = first
      /\ \A k \in 1 .. Limit(ch) : after[k] = Turn(after[k - 1])
  BY <1>2, <1>7
<1> HIDE DEF Run, h
<1>9. \A k \in 0 .. Limit(ch) : after[k] \in Rounds
  <2>1. \A k \in 1 .. Limit(ch) : after[k - 1] \in Rounds => after[k] \in Rounds
    BY <1>1, <1>8
  <2> QED
    BY <1>2, <1>4, <1>8, <2>1, RunStays
<1>10. after[d.cfctr[ch]] \in Rounds
  BY <1>2, <1>9
<1> QED
  BY <1>3, <1>10 DEF Rounds

-----------------------------------------------------------------------------
(* The operations.                                                         *)

\* A new mode sets the status, and may run what waits.
LEMMA UpdateModeKept ==
  ASSUME NEW d \in Running, NEW ch \in Channels, NEW mode \in Modes, volts \in Values
  PROVE  UpdateMode(d, ch, mode) \in Kept
<1> DEFINE st == Status(mode, FALSE)
           new == [d EXCEPT !.mode[ch] = mode, !.cfs[ch] = st, !.fired[ch] = FALSE]
<1>1. d \in Device /\ Sound(d) /\ Results(d, ch) /\ Waits(d, ch) /\ ~d.ends /\ d \in Kept
  BY DEF Running, Kept, Sound
<1>2. UpdateMode(d, ch, mode) = IF d.mode[ch] = mode THEN d
        ELSE IF mode = "disable" THEN new ELSE Drain(new, ch)
  BY DEF UpdateMode
<1>3. /\ st \in {"idle", "waiting"}
      /\ st = "waiting" <=> mode \in Continuous
  BY DEF Status
<1> HIDE DEF st
<1>4. /\ d.mode \in [Channels -> Modes] /\ d.cfs \in [Channels -> {"idle", "waiting", "triggered"}]
      /\ d.fired \in [Channels -> BOOLEAN]
  BY <1>1 DEF Device
<1>5. new \in Device /\ new.ends = d.ends
  <2>1. /\ [d.mode EXCEPT ![ch] = mode] \in [Channels -> Modes]
        /\ [d.cfs EXCEPT ![ch] = st] \in [Channels -> {"idle", "waiting", "triggered"}]
        /\ [d.fired EXCEPT ![ch] = FALSE] \in [Channels -> BOOLEAN]
    BY <1>3, <1>4
  <2> QED
    BY <1>1, <2>1 DEF Device
<1>6. /\ new.mode = [d.mode EXCEPT ![ch] = mode] /\ new.cfs = [d.cfs EXCEPT ![ch] = st]
      /\ new.fired = [d.fired EXCEPT ![ch] = FALSE]
      /\ new.flags = d.flags /\ new.partial = d.partial /\ new.cfifo = d.cfifo
      /\ new.rfifo = d.rfifo /\ new.rfctr = d.rfctr /\ new.due = d.due /\ new.missed = d.missed
      /\ new.cfctr = d.cfctr /\ new.wait = d.wait
  BY <1>1 DEF Device
<1> HIDE DEF new
<1>7. /\ new.mode[ch] = mode /\ new.cfs[ch] = st /\ new.fired[ch] = FALSE
      /\ \A c \in Channels \ {ch} :
           new.mode[c] = d.mode[c] /\ new.cfs[c] = d.cfs[c] /\ new.fired[c] = d.fired[c]
  BY <1>4, <1>6
<1>8. Follows(new, ch)
  BY <1>3, <1>7 DEF Follows
<1>9. SameElsewhere(d, new, ch) /\ SameResults(d, new, ch) /\ SameCommands(d, new, ch)
  BY <1>6, <1>7 DEF SameElsewhere, SameResults, SameCommands
<1>10. Sound(new)
  BY <1>1, <1>8, <1>9, OneChannel, ResultsStay, CommandsStay
<1>11. new \in Kept /\ new \in Running
  BY <1>1, <1>5, <1>10 DEF Kept, Running
<1>12. Drain(new, ch) \in Kept
  BY <1>11, DrainKept
<1> QED
  BY <1>1, <1>2, <1>11, <1>12

\* CFINV empties the FIFOs of the channel.
LEMMA InvalidatedKept ==
  ASSUME NEW d \in Running, NEW ch \in Channels
  PROVE  Invalidated(d, ch) \in Running
<1> DEFINE new == Invalidated(d, ch)
<1>1. d \in Device /\ Sound(d) /\ Results(d, ch) /\ Waits(d, ch) /\ Follows(d, ch) /\ ~d.ends
  BY DEF Running, Kept, Sound
<1>2. /\ d.cfctr \in [Channels -> Nat] /\ d.rfctr \in [Channels -> Nat]
      /\ d.due \in [Channels -> Seq(Values)] /\ d.wait \in [Channels -> Seq(Command)]
      /\ d.partial \in [Channels -> BOOLEAN] /\ d.missed \in [Channels -> BOOLEAN]
  BY <1>1 DEF Device
<1>3. new \in Device /\ new.ends = d.ends
  <2>1. /\ [d.cfctr EXCEPT ![ch] = 0] \in [Channels -> Nat]
        /\ [d.rfctr EXCEPT ![ch] = 0] \in [Channels -> Nat]
        /\ [d.due EXCEPT ![ch] = <<>>] \in [Channels -> Seq(Values)]
        /\ [d.wait EXCEPT ![ch] = <<>>] \in [Channels -> Seq(Command)]
        /\ [d.partial EXCEPT ![ch] = FALSE] \in [Channels -> BOOLEAN]
        /\ [d.missed EXCEPT ![ch] = FALSE] \in [Channels -> BOOLEAN]
    BY <1>2
  <2> QED
    BY <1>1, <2>1 DEF Device, Invalidated
<1>4. /\ new.mode = d.mode /\ new.cfs = d.cfs /\ new.fired = d.fired
      /\ new.flags = d.flags /\ new.cfifo = d.cfifo
      /\ new.rfifo = d.rfifo /\ new.cfctr = [d.cfctr EXCEPT ![ch] = 0]
      /\ new.rfctr = [d.rfctr EXCEPT ![ch] = 0] /\ new.due = [d.due EXCEPT ![ch] = <<>>]
      /\ new.wait = [d.wait EXCEPT ![ch] = <<>>]
      /\ new.partial = [d.partial EXCEPT ![ch] = FALSE]
      /\ new.missed = [d.missed EXCEPT ![ch] = FALSE]
  BY <1>1 DEF Device, Invalidated
<1> HIDE DEF new
<1>5. /\ new.cfctr[ch] = 0 /\ new.rfctr[ch] = 0 /\ new.due[ch] = <<>> /\ new.wait[ch] = <<>>
      /\ \A c \in Channels \ {ch} :
           /\ new.cfctr[c] = d.cfctr[c] /\ new.rfctr[c] = d.rfctr[c] /\ new.due[c] = d.due[c]
           /\ new.wait[c] = d.wait[c] /\ new.partial[c] = d.partial[c]
           /\ new.missed[c] = d.missed[c]
  BY <1>2, <1>4
<1>6. SameElsewhere(d, new, ch) /\ SameStatus(d, new, ch)
  BY <1>4, <1>5 DEF SameElsewhere, SameStatus
<1>7. Len(<<>>) = 0 /\ \A n \in Nat : 0 <= n
  OBVIOUS
<1>8. Results(new, ch)
  <2>1. Len(d.rfifo[ch]) <= FifoLen /\ FifoLen \in Nat /\ Len(d.rfifo[ch]) \in Nat
    BY <1>1, Fields, LenProperties, Sizes DEF Results
  <2>2. Begins(new.rfifo[ch], 0, <<>>)
    BY <1>4, <1>7, <2>1 DEF Begins
  <2> QED
    BY <1>4, <1>5, <1>7, <2>1, <2>2 DEF Results
<1>9. Waits(new, ch)
  <2>1. Len(d.cfifo[ch]) = Slots(ch) /\ Slots(ch) \in Nat /\ Limit(ch) \in Nat
    BY <1>1, Sizes DEF Waits
  <2>2. BeginsBackwards(new.cfifo[ch], 0, <<>>)
    BY <1>4, <1>7, <2>1 DEF BeginsBackwards
  <2>3. 1 .. 0 = {} /\ 0 <= Limit(ch) /\ ~ (0 > Slots(ch))
    BY <2>1
  <2> QED
    BY <1>4, <1>5, <2>1, <2>2, <2>3 DEF Waits
<1>10. Sound(new)
  BY <1>1, <1>6, <1>8, <1>9, OneChannel, StatusStays
<1>11. new \in Running
  BY <1>1, <1>3, <1>10 DEF Running, Kept
<1> QED
  BY <1>11 DEF new

-----------------------------------------------------------------------------
(* The inductive invariant.                                                *)

\* The state after a reset.
LEMMA AfterResetKept == AfterReset \in Running
<1> DEFINE d == AfterReset
           Array(ch) == [i \in 1 .. Slots(ch) |-> NoCommand]
           zeros == [i \in 1 .. FifoLen \div EntrySize |-> 0]
<1>1. /\ zeros \in Seq(Values) /\ Len(zeros) = FifoLen \div EntrySize
  BY Sizes, EqadcAssumption
<1>2. ASSUME NEW ch \in Channels
      PROVE  Array(ch) \in Seq(Entries) /\ Len(Array(ch)) = Slots(ch)
  BY Sizes DEF Entries
<1> HIDE DEF Array, zeros
<1>3. /\ d.mode = [ch \in Channels |-> "disable"]
      /\ d.cfifo = [ch \in Channels |-> Array(ch)] /\ d.cfctr = [ch \in Channels |-> 0]
      /\ d.rfifo = [ch \in Channels |-> zeros] /\ d.rfctr = [ch \in Channels |-> 0]
      /\ d.flags = [ch \in Channels |-> {"cfff"}] /\ d.cfs = [ch \in Channels |-> "idle"]
      /\ d.due = [ch \in Channels |-> <<>>] /\ d.wait = [ch \in Channels |-> <<>>]
      /\ d.partial = [ch \in Channels |-> FALSE] /\ d.missed = [ch \in Channels |-> FALSE]
      /\ d.fired = [ch \in Channels |-> FALSE] /\ d.ends = FALSE
  BY DEF AfterReset, Array, zeros
<1>4. d \in Device
  <2>1. /\ [ch \in Channels |-> "disable"] \in [Channels -> Modes]
        /\ [ch \in Channels |-> "idle"] \in [Channels -> {"idle", "waiting", "triggered"}]
        /\ [ch \in Channels |-> {"cfff"}] \in [Channels -> SUBSET Events]
        /\ [ch \in Channels |-> [cfff |-> FALSE, dirs |-> FALSE]]
             \in [Channels -> [cfff : BOOLEAN, dirs : BOOLEAN]]
        /\ [a \in Adcs |-> [c \in Configs |-> "inhibit"]] \in [Adcs -> [Configs -> Settings]]
        /\ [ch \in Channels |-> FALSE] \in [Channels -> BOOLEAN]
    BY DEF Modes, Events, Settings
  <2>2. /\ [ch \in Channels |-> 0] \in [Channels -> Nat]
        /\ [ch \in Channels |-> <<>>] \in [Channels -> Seq(Values)]
        /\ [ch \in Channels |-> <<>>] \in [Channels -> Seq(Command)]
    OBVIOUS
  <2>3. /\ [ch \in Channels |-> Array(ch)] \in [Channels -> Seq(Entries)]
        /\ [ch \in Channels |-> zeros] \in [Channels -> Seq(Values)]
    BY <1>1, <1>2
  <2> QED
    BY <2>1, <2>2, <2>3 DEF Device, AfterReset, Array, zeros
<1> HIDE DEF d
<1>5. Len(<<>>) = 0 /\ 1 .. 0 = {}
  OBVIOUS
<1>6. ASSUME NEW ch \in Channels PROVE Results(d, ch) /\ Waits(d, ch) /\ Follows(d, ch)
  <2>1. /\ d.mode[ch] = "disable" /\ d.cfs[ch] = "idle" /\ ~d.fired[ch] /\ d.cfifo[ch] = Array(ch)
        /\ d.cfctr[ch] = 0 /\ d.rfifo[ch] = zeros /\ d.rfctr[ch] = 0
        /\ d.due[ch] = <<>> /\ d.wait[ch] = <<>>
    BY <1>3
  <2>2. Results(d, ch)
    <3>1. Len(zeros) <= FifoLen /\ 0 <= FifoLen /\ 0 <= Len(zeros)
      BY <1>1, Sizes
    <3>2. Begins(zeros, 0, <<>>)
      BY <1>5, <3>1 DEF Begins
    <3> QED
      BY <1>5, <2>1, <3>1, <3>2 DEF Results
  <2>3. Waits(d, ch)
    <3>1. Len(Array(ch)) = Slots(ch) /\ 0 <= Limit(ch) /\ 0 <= Slots(ch) /\ ~ (0 > Slots(ch))
      BY <1>2, Sizes
    <3>2. BeginsBackwards(Array(ch), 0, <<>>)
      BY <1>5, <3>1 DEF BeginsBackwards
    <3> QED
      BY <1>5, <2>1, <3>1, <3>2 DEF Waits
  <2> QED
    BY <2>1, <2>2, <2>3 DEF Follows, Continuous
<1>7. d \in Running
  BY <1>3, <1>4, <1>6 DEF Running, Kept, Sound
<1> QED
  BY <1>7 DEF d

\* An operation goes on with a state that is kept, or ends the emulator.
LEMMA BecomesKept ==
  ASSUME NEW d \in Kept, Becomes(d)
  PROVE  dev' \in Running /\ alive' \in BOOLEAN
<1>1. d.ends \in BOOLEAN
  BY DEF Kept, Device
<1>2. CASE d.ends
  BY <1>2, AfterResetKept DEF Becomes
<1>3. CASE ~d.ends
  BY <1>3 DEF Becomes, Running
<1> QED
  BY <1>2, <1>3

LEMMA InitHolds == Init => EqadcInv
BY AfterResetKept, EqadcAssumption DEF Init, EqadcInv, Running

LEMMA ResetHolds == ASSUME Reset PROVE EqadcInv'
BY AfterResetKept, EqadcAssumption DEF Reset, EqadcInv, Running

LEMMA WriteCFPRHolds ==
  ASSUME EqadcInv, NEW w \in Commands, WriteCFPR(w.ch, w.cmd)
  PROVE  EqadcInv'
<1>1. w.ch \in Channels /\ w.cmd \in Command
  BY EqadcAssumption
<1>2. dev \in Running /\ volts \in Values
  BY DEF EqadcInv, Running
<1>3. /\ PushCFIFO(dev, w.ch, w.cmd) \in Kept
      /\ ProcessCommand(dev, w.ch, w.cmd) \in Kept
  BY <1>1, <1>2, PushCommandKept, CommandKept
<1>4. PICK d \in Kept : Becomes(d)
  BY <1>3 DEF WriteCFPR
<1>5. dev' \in Running /\ alive' \in BOOLEAN
  BY <1>4, BecomesKept
<1> QED
  BY <1>2, <1>5 DEF EqadcInv, Running, WriteCFPR

\* CFEE0, and the status that a trigger leaves.
LEMMA TriggeredKept ==
  ASSUME NEW d \in Running, NEW ch \in Channels, NEW b \in BOOLEAN
  PROVE  /\ [d EXCEPT !.cfeee0 = b] \in Running
         /\ [d EXCEPT !.cfs[ch] = Status(d.mode[ch], TRUE), !.fired[ch] = TRUE] \in Running
<1> DEFINE st == Status(d.mode[ch], TRUE)
           extended == [d EXCEPT !.cfeee0 = b]
           triggered == [d EXCEPT !.cfs[ch] = st, !.fired[ch] = TRUE]
<1>1. /\ d \in Device /\ ~d.ends /\ Sound(d)
      /\ Results(d, ch) /\ Waits(d, ch)
  BY DEF Running, Kept, Sound
<1>2. /\ st \in {"idle", "waiting", "triggered"}
      /\ st = "waiting" <=> d.mode[ch] \in Continuous
      /\ st = "triggered" <=> d.mode[ch] \notin Continuous
  BY DEF Status
<1> HIDE DEF st
<1>3. extended \in Running
  <2>1. extended \in Device /\ ~extended.ends
    BY <1>1 DEF Device
  <2>2. /\ extended.mode = d.mode /\ extended.cfs = d.cfs /\ extended.fired = d.fired
        /\ extended.flags = d.flags
        /\ extended.cfifo = d.cfifo /\ extended.cfctr = d.cfctr /\ extended.wait = d.wait
        /\ extended.rfifo = d.rfifo /\ extended.rfctr = d.rfctr /\ extended.due = d.due
        /\ extended.partial = d.partial /\ extended.missed = d.missed
    BY <1>1 DEF Device
  <2> HIDE DEF extended
  <2>3. /\ SameElsewhere(d, extended, ch) /\ SameResults(d, extended, ch)
        /\ SameCommands(d, extended, ch) /\ SameStatus(d, extended, ch)
    BY <2>2 DEF SameElsewhere, SameResults, SameCommands, SameStatus
  <2>4. Sound(extended)
    BY <1>1, <2>3, OneChannel, ResultsStay, CommandsStay, StatusStays DEF Sound
  <2> QED
    BY <2>1, <2>4 DEF Running, Kept
<1>4. triggered \in Running
  <2>1. /\ d.cfs \in [Channels -> {"idle", "waiting", "triggered"}]
        /\ d.fired \in [Channels -> BOOLEAN]
    BY <1>1 DEF Device
  <2>2. /\ [d.cfs EXCEPT ![ch] = st] \in [Channels -> {"idle", "waiting", "triggered"}]
        /\ [d.fired EXCEPT ![ch] = TRUE] \in [Channels -> BOOLEAN]
    BY <1>2, <2>1
  <2>3. triggered \in Device /\ ~triggered.ends
    BY <1>1, <2>2 DEF Device
  <2>4. /\ triggered.mode = d.mode /\ triggered.flags = d.flags
        /\ triggered.cfifo = d.cfifo /\ triggered.cfctr = d.cfctr /\ triggered.wait = d.wait
        /\ triggered.rfifo = d.rfifo /\ triggered.rfctr = d.rfctr /\ triggered.due = d.due
        /\ triggered.partial = d.partial /\ triggered.missed = d.missed
        /\ triggered.cfs = [d.cfs EXCEPT ![ch] = st]
        /\ triggered.fired = [d.fired EXCEPT ![ch] = TRUE]
    BY <1>1 DEF Device
  <2> HIDE DEF triggered
  <2>5. /\ triggered.cfs[ch] = st /\ triggered.fired[ch] = TRUE
        /\ \A c \in Channels \ {ch} :
             triggered.cfs[c] = d.cfs[c] /\ triggered.fired[c] = d.fired[c]
    BY <2>1, <2>4
  <2>6. /\ SameElsewhere(d, triggered, ch) /\ SameResults(d, triggered, ch)
        /\ SameCommands(d, triggered, ch)
    BY <2>4, <2>5 DEF SameElsewhere, SameResults, SameCommands
  <2>7. Follows(triggered, ch)
    BY <1>2, <2>4, <2>5 DEF Follows
  <2>8. Sound(triggered)
    BY <1>1, <2>6, <2>7, OneChannel, ResultsStay, CommandsStay
  <2> QED
    BY <2>3, <2>8 DEF Running, Kept
<1> QED
  BY <1>3, <1>4 DEF st

LEMMA WriteCFCRHolds ==
  ASSUME EqadcInv, NEW w \in Configures, WriteCFCR(w.ch, w.mode, w.sse, w.cfinv, w.cfeee0, w.stream)
  PROVE  EqadcInv'
<1> DEFINE ch == w.ch
           b == IF ch = 0 THEN w.cfeee0 ELSE dev.cfeee0
           extended == [dev EXCEPT !.cfeee0 = b]
           triggered == IF w.sse
                        THEN [extended EXCEPT !.cfs[ch] = Status(dev.mode[ch], TRUE), !.fired[ch] = TRUE]
                        ELSE extended
           cleared == IF w.cfinv THEN Invalidated(triggered, ch) ELSE triggered
           refused == (w.stream /\ ch = 0) \/ w.mode \notin Modes
<1>1. /\ w.ch \in Channels /\ w.sse \in BOOLEAN /\ w.cfinv \in BOOLEAN
      /\ w.cfeee0 \in BOOLEAN
  BY EqadcAssumption
<1>2. dev \in Running /\ volts \in Values /\ dev \in Device
  BY DEF EqadcInv, Running, Kept
<1>3. b \in BOOLEAN
  BY <1>1, <1>2 DEF Device
<1>4. /\ Becomes(IF refused THEN Ends(cleared) ELSE UpdateMode(cleared, ch, w.mode))
      /\ UNCHANGED volts
  <2>1. extended = [dev EXCEPT !.cfeee0 = IF w.ch = 0 THEN w.cfeee0 ELSE @]
    BY <1>2 DEF Device
  <2> HIDE DEF b
  <2> QED
    BY <2>1 DEF WriteCFCR
<1> HIDE DEF b
<1>5. extended \in Running /\ extended.mode = dev.mode
  BY <1>1, <1>2, <1>3, TriggeredKept DEF Device
<1> HIDE DEF extended
<1>6. triggered \in Running
  BY <1>1, <1>5, TriggeredKept
<1> HIDE DEF triggered
<1>7. cleared \in Running
  BY <1>1, <1>6, InvalidatedKept
<1> HIDE DEF cleared
<1>8. ~refused => UpdateMode(cleared, ch, w.mode) \in Kept
  BY <1>1, <1>2, <1>7, UpdateModeKept
<1>9. Ends(cleared) \in Kept
  BY <1>7, EndsKept DEF Running, Kept
<1> HIDE DEF refused
<1>10. (IF refused THEN Ends(cleared) ELSE UpdateMode(cleared, ch, w.mode)) \in Kept
  BY <1>8, <1>9
<1>11. dev' \in Running /\ alive' \in BOOLEAN
  BY <1>4, <1>10, BecomesKept
<1> QED
  BY <1>2, <1>4, <1>11 DEF EqadcInv, Running

\* An empty array of a counter that is not 0 is that of a continuous scan which was
\* read before it was full.
LEMMA CountedDownKept ==
  ASSUME NEW d \in Running, NEW ch \in Channels, d.rfctr[ch] # 0, d.rfifo[ch] = <<>>
  PROVE  [d EXCEPT !.rfctr[ch] = 0, !.due[ch] = <<>>] \in Kept
<1> DEFINE new == [d EXCEPT !.rfctr[ch] = 0, !.due[ch] = <<>>]
<1>1. /\ d \in Device /\ ~d.ends /\ Sound(d)
      /\ Results(d, ch) /\ Waits(d, ch) /\ Follows(d, ch)
  BY DEF Running, Kept, Sound
<1>2. /\ d.rfctr \in [Channels -> Nat] /\ d.due \in [Channels -> Seq(Values)]
      /\ d.partial[ch] \in BOOLEAN
  BY <1>1 DEF Device
<1>3. new \in Device /\ ~new.ends
  <2>1. /\ [d.rfctr EXCEPT ![ch] = 0] \in [Channels -> Nat]
        /\ [d.due EXCEPT ![ch] = <<>>] \in [Channels -> Seq(Values)]
    BY <1>2
  <2> QED
    BY <1>1, <2>1 DEF Device
<1>4. /\ new.mode = d.mode /\ new.cfs = d.cfs /\ new.fired = d.fired /\ new.flags = d.flags
      /\ new.cfifo = d.cfifo /\ new.cfctr = d.cfctr /\ new.wait = d.wait
      /\ new.rfifo = d.rfifo /\ new.partial = d.partial /\ new.missed = d.missed
      /\ new.rfctr = [d.rfctr EXCEPT ![ch] = 0] /\ new.due = [d.due EXCEPT ![ch] = <<>>]
  BY <1>1 DEF Device
<1> HIDE DEF new
<1>5. /\ new.rfctr[ch] = 0 /\ new.due[ch] = <<>>
      /\ \A c \in Channels \ {ch} : new.rfctr[c] = d.rfctr[c] /\ new.due[c] = d.due[c]
  BY <1>2, <1>4
<1>6. SameElsewhere(d, new, ch) /\ SameCommands(d, new, ch) /\ SameStatus(d, new, ch)
  BY <1>4, <1>5 DEF SameElsewhere, SameCommands, SameStatus
<1>7. Len(<<>>) = 0
  OBVIOUS
<1>8. d.partial[ch]
  <2> SUFFICES ASSUME ~d.partial[ch] PROVE FALSE
    BY <1>2
  <2>1. d.rfctr[ch] <= Len(d.rfifo[ch])
    BY <1>1 DEF Results, Begins
  <2>2. d.rfctr[ch] \in Nat /\ d.rfctr[ch] <= 0
    BY <1>2, <1>7, <2>1
  <2> DEFINE n == d.rfctr[ch]
  <2>3. n \in Nat /\ n <= 0 /\ n # 0
    BY <2>2
  <2> HIDE DEF n
  <2> QED
    BY <2>3
<1>9. Results(new, ch)
  <2>1. Len(new.rfifo[ch]) <= FifoLen /\ 0 <= FifoLen
    BY <1>1, <1>4, Sizes DEF Results
  <2> QED
    BY <1>4, <1>5, <1>7, <1>8, <2>1 DEF Results
<1>10. Sound(new)
  BY <1>1, <1>6, <1>9, OneChannel, CommandsStay, StatusStays
<1>11. new \in Kept
  BY <1>3, <1>10 DEF Kept
<1> QED
  BY <1>11 DEF new

LEMMA ReadRFPRHolds ==
  ASSUME EqadcInv, NEW ch \in Channels, ReadRFPR(ch)
  PROVE  EqadcInv'
<1> DEFINE n == dev.rfctr[ch]
           new == [dev EXCEPT !.rfctr[ch] = 0, !.due[ch] = <<>>]
           more == Signal(new, ch, "rfdf")
           result == IF n = 0 THEN dev
                     ELSE IF dev.rfifo[ch] # <<>> THEN PopRFIFO(dev, ch)
                     ELSE IF dev.mode[ch] \in Continuous THEN Ends(dev)
                     ELSE IF n > 1 THEN more ELSE new
<1>1. dev \in Running /\ dev \in Kept /\ dev \in Device /\ volts \in Values
  BY DEF EqadcInv, Running, Kept
<1>2. Becomes(result) /\ UNCHANGED volts
  BY DEF ReadRFPR
<1>3. n # 0 /\ dev.rfifo[ch] # <<>> => PopRFIFO(dev, ch) \in Kept
  BY <1>1, PopKept DEF Running
<1>4. n # 0 /\ dev.rfifo[ch] = <<>> => new \in Kept /\ more \in Kept
  <2> SUFFICES ASSUME n # 0, dev.rfifo[ch] = <<>> PROVE new \in Kept /\ more \in Kept
    OBVIOUS
  <2>1. new \in Kept
    BY <1>1, CountedDownKept
  <2> HIDE DEF new
  <2>2. more \in Kept
    BY <2>1, SignalKept DEF Events
  <2> QED
    BY <2>1, <2>2
<1>5. Ends(dev) \in Kept
  BY <1>1, EndsKept
<1> HIDE DEF n, new, more
<1>6. result \in Kept
  BY <1>1, <1>3, <1>4, <1>5
<1> HIDE DEF result
<1>7. dev' \in Running /\ alive' \in BOOLEAN
  BY <1>2, <1>6, BecomesKept
<1> QED
  BY <1>1, <1>2, <1>7 DEF EqadcInv, Running

\* Clearing RDFD is noted: from then on nobody is said to be told.
LEMMA WriteFISRHolds ==
  ASSUME EqadcInv, NEW w \in Clears, WriteFISR(w.ch, w.flags)
  PROVE  EqadcInv'
<1> DEFINE ch == w.ch
           f == dev.flags[ch] \ w.flags
           m == dev.missed[ch] \/ "rfdf" \in w.flags
<1>1. ch \in Channels /\ w.flags \in SUBSET Events
  BY EqadcAssumption
<1>2. /\ dev \in Device /\ Sound(dev) /\ ~dev.ends
      /\ Results(dev, ch) /\ Waits(dev, ch) /\ Follows(dev, ch)
  BY <1>1 DEF EqadcInv, Kept, Sound
<1>3. /\ dev.flags \in [Channels -> SUBSET Events] /\ dev.missed \in [Channels -> BOOLEAN]
      /\ f \in SUBSET Events /\ m \in BOOLEAN
  BY <1>1, <1>2 DEF Device
<1>4. dev' = [dev EXCEPT !.flags[ch] = f, !.missed[ch] = m] /\ UNCHANGED <<volts, alive>>
  BY DEF WriteFISR
<1>5. ("rfdf" \in dev.flags[ch] => "rfdf" \in f \/ m) /\ (dev.missed[ch] => m)
  OBVIOUS
<1> HIDE DEF f, m, ch
<1>6. dev' \in Device /\ ~dev'.ends
  <2>1. /\ [dev.flags EXCEPT ![ch] = f] \in [Channels -> SUBSET Events]
        /\ [dev.missed EXCEPT ![ch] = m] \in [Channels -> BOOLEAN]
    BY <1>1, <1>3
  <2> QED
    BY <1>2, <1>4, <2>1 DEF Device
<1>7. /\ dev'.mode = dev.mode /\ dev'.cfs = dev.cfs /\ dev'.fired = dev.fired
      /\ dev'.cfifo = dev.cfifo /\ dev'.cfctr = dev.cfctr /\ dev'.wait = dev.wait
      /\ dev'.rfifo = dev.rfifo /\ dev'.rfctr = dev.rfctr /\ dev'.due = dev.due
      /\ dev'.partial = dev.partial
      /\ dev'.flags = [dev.flags EXCEPT ![ch] = f] /\ dev'.missed = [dev.missed EXCEPT ![ch] = m]
  BY <1>2, <1>4 DEF Device
<1>8. /\ dev'.flags[ch] = f /\ dev'.missed[ch] = m
      /\ \A c \in Channels \ {ch} : dev'.flags[c] = dev.flags[c] /\ dev'.missed[c] = dev.missed[c]
  BY <1>1, <1>3, <1>7
<1>9. /\ SameElsewhere(dev, dev', ch) /\ SameCommands(dev, dev', ch)
      /\ SameStatus(dev, dev', ch)
  BY <1>7, <1>8 DEF SameElsewhere, SameCommands, SameStatus
<1>10. Results(dev', ch)
  BY <1>2, <1>3, <1>5, <1>7, <1>8 DEF Results
<1>11. Sound(dev')
  BY <1>1, <1>2, <1>9, <1>10, OneChannel, CommandsStay, StatusStays
<1> QED
  BY <1>4, <1>6, <1>11 DEF EqadcInv, Kept

LEMMA WriteIDCRHolds ==
  ASSUME EqadcInv, NEW w \in DmaEnables, WriteIDCR(w.ch, [cfff |-> w.cfff, dirs |-> w.dirs])
  PROVE  EqadcInv'
<1> DEFINE new == [cfff |-> w.cfff, dirs |-> w.dirs]
<1>1. w.ch \in Channels /\ new \in [cfff : BOOLEAN, dirs : BOOLEAN]
  BY EqadcAssumption
<1>2. dev \in Device /\ Sound(dev) /\ ~dev.ends
  BY DEF EqadcInv, Kept
<1> HIDE DEF new
<1>3. dev' = [dev EXCEPT !.idcr[w.ch] = new] /\ UNCHANGED <<volts, alive>>
  BY DEF WriteIDCR, new
<1>4. dev' \in Device /\ ~dev'.ends
  <2>1. [dev.idcr EXCEPT ![w.ch] = new] \in [Channels -> [cfff : BOOLEAN, dirs : BOOLEAN]]
    BY <1>1, <1>2 DEF Device
  <2> QED
    BY <1>2, <1>3, <2>1 DEF Device
<1>5. /\ dev'.mode = dev.mode /\ dev'.cfs = dev.cfs /\ dev'.fired = dev.fired /\ dev'.flags = dev.flags
      /\ dev'.cfifo = dev.cfifo /\ dev'.cfctr = dev.cfctr /\ dev'.wait = dev.wait
      /\ dev'.rfifo = dev.rfifo /\ dev'.rfctr = dev.rfctr /\ dev'.due = dev.due
      /\ dev'.partial = dev.partial /\ dev'.missed = dev.missed
  BY <1>2, <1>3 DEF Device
<1>6. /\ SameElsewhere(dev, dev', w.ch) /\ SameResults(dev, dev', w.ch)
      /\ SameCommands(dev, dev', w.ch) /\ SameStatus(dev, dev', w.ch)
  BY <1>5 DEF SameElsewhere, SameResults, SameCommands, SameStatus
<1>7. Sound(dev')
  BY <1>1, <1>2, <1>6, OneChannel, ResultsStay, CommandsStay, StatusStays DEF Sound
<1> QED
  BY <1>3, <1>4, <1>7 DEF EqadcInv, Kept

\* Every step keeps it.
LEMMA StepHolds == ASSUME EqadcInv, [Next]_vars PROVE EqadcInv'
<1>1. CASE Reset
  BY <1>1, ResetHolds
<1>2. ASSUME NEW w \in Commands, WriteCFPR(w.ch, w.cmd) PROVE EqadcInv'
  BY <1>2, WriteCFPRHolds
<1>3. ASSUME NEW w \in Configures, WriteCFCR(w.ch, w.mode, w.sse, w.cfinv, w.cfeee0, w.stream)
      PROVE  EqadcInv'
  BY <1>3, WriteCFCRHolds
<1>4. ASSUME NEW ch \in Channels, ReadRFPR(ch) PROVE EqadcInv'
  BY <1>4, ReadRFPRHolds
<1>5. ASSUME NEW w \in Clears, WriteFISR(w.ch, w.flags) PROVE EqadcInv'
  BY <1>5, WriteFISRHolds
<1>6. ASSUME NEW w \in DmaEnables, WriteIDCR(w.ch, [cfff |-> w.cfff, dirs |-> w.dirs])
      PROVE  EqadcInv'
  BY <1>6, WriteIDCRHolds
<1>7. ASSUME NEW v \in Values, ProcessReceivedData(v) PROVE EqadcInv'
  BY <1>7 DEF ProcessReceivedData, EqadcInv
<1>8. CASE UNCHANGED vars
  BY <1>8 DEF vars, EqadcInv
<1> QED
  BY <1>1, <1>2, <1>3, <1>4, <1>5, <1>6, <1>7, <1>8 DEF Next

-----------------------------------------------------------------------------
(* What follows of the sequences.                                          *)

LEMMA SameSeq ==
  ASSUME NEW S, NEW T, NEW s \in Seq(S), NEW t \in Seq(T), Len(s) = Len(t),
         \A i \in 1 .. Len(s) : s[i] = t[i]
  PROVE  s = t
<1>1. s = [i \in 1 .. Len(s) |-> s[i]] /\ t = [i \in 1 .. Len(t) |-> t[i]]
  OBVIOUS
<1> QED
  BY <1>1

LEMMA BeginsIsSubSeq ==
  ASSUME NEW S, NEW r \in Seq(S), NEW q \in Seq(S), NEW n \in Nat, Begins(r, n, q)
  PROVE  SubSeq(r, 1, n) = q
<1> DEFINE t == SubSeq(r, 1, n)
<1>1. n <= Len(r) /\ Len(q) = n /\ \A i \in 1 .. n : q[i] = r[i]
  BY DEF Begins
<1>2. t \in Seq(S) /\ Len(t) = n /\ \A i \in 1 .. n : t[i] = r[i]
  <2>1. \A i \in 1 .. n : r[i] \in S
    BY <1>1
  <2> QED
    BY <1>1, <2>1
<1> HIDE DEF t
<1>3. t = q
  BY <1>1, <1>2, SameSeq
<1> QED
  BY <1>3 DEF t

LEMMA BackwardsIsReverse ==
  ASSUME NEW S, NEW r \in Seq(S), NEW q \in Seq(S), NEW n \in Nat, BeginsBackwards(r, n, q)
  PROVE  Reverse(SubSeq(r, 1, n)) = q
<1> DEFINE t == SubSeq(r, 1, n)
           u == Reverse(t)
<1>1. n <= Len(r) /\ Len(q) = n /\ \A i \in 1 .. n : q[i] = r[n + 1 - i]
  BY DEF BeginsBackwards
<1>2. t \in Seq(S) /\ Len(t) = n /\ \A i \in 1 .. n : t[i] = r[i]
  <2>1. \A i \in 1 .. n : r[i] \in S
    BY <1>1
  <2> QED
    BY <1>1, <2>1
<1> HIDE DEF t
<1>3. u = [i \in 1 .. Len(t) |-> t[(Len(t) - i) + 1]]
  BY DEF Reverse
<1>4. u \in Seq(S) /\ Len(u) = n /\ \A i \in 1 .. n : u[i] = r[n + 1 - i]
  <2>1. \A i \in 1 .. n : (n - i) + 1 \in 1 .. n /\ (n - i) + 1 = n + 1 - i
    OBVIOUS
  <2>2. \A i \in 1 .. n : t[(n - i) + 1] = r[n + 1 - i] /\ t[(n - i) + 1] \in S
    BY <1>2, <2>1
  <2>3. u = [i \in 1 .. n |-> t[(n - i) + 1]]
    BY <1>2, <1>3
  <2> HIDE DEF u
  <2> QED
    BY <2>2, <2>3
<1> HIDE DEF u
<1>5. u = q
  BY <1>1, <1>4, SameSeq
<1> QED
  BY <1>5 DEF t, u

\* The properties that the run checks follow from the invariant.
LEMMA InvImplies ==
  ASSUME EqadcInv
  PROVE  ResultsInOrder /\ CommandsWait /\ ResultsAnnounced /\ StatusFollowsMode
<1>1. /\ dev \in Device /\ volts \in Values /\ alive \in BOOLEAN
      /\ \A ch \in Channels : Results(dev, ch) /\ Waits(dev, ch) /\ Follows(dev, ch)
  BY DEF EqadcInv, Kept, Sound
<1>2. ResultsInOrder
  <2> SUFFICES ASSUME NEW ch \in Channels, ~dev.partial[ch]
               PROVE  SubSeq(dev.rfifo[ch], 1, dev.rfctr[ch]) = dev.due[ch]
    BY DEF ResultsInOrder
  <2>1. Begins(dev.rfifo[ch], dev.rfctr[ch], dev.due[ch])
    BY <1>1 DEF Results
  <2>2. /\ dev.rfifo[ch] \in Seq(Values) /\ dev.rfctr[ch] \in Nat
        /\ dev.due[ch] \in Seq(Values)
    BY <1>1, Fields
  <2> QED
    BY <2>1, <2>2, BeginsIsSubSeq
<1>3. ASSUME NEW ch \in Channels
      PROVE  /\ Len(dev.cfifo[ch]) = Slots(ch) /\ dev.cfctr[ch] <= Limit(ch)
             /\ Len(dev.rfifo[ch]) <= FifoLen /\ dev.rfctr[ch] <= FifoLen
             /\ Len(dev.due[ch]) = dev.rfctr[ch] /\ Len(dev.wait[ch]) <= Slots(ch)
  <2>1. /\ Len(dev.cfifo[ch]) = Slots(ch) /\ dev.cfctr[ch] <= Limit(ch)
        /\ Len(dev.rfifo[ch]) <= FifoLen /\ dev.rfctr[ch] <= FifoLen
        /\ Len(dev.due[ch]) = dev.rfctr[ch]
    BY <1>1 DEF Results, Waits
  <2>2. CASE dev.cfctr[ch] <= Slots(ch)
    <3>1. Len(dev.wait[ch]) = dev.cfctr[ch]
      BY <1>1, <2>2 DEF Waits, BeginsBackwards
    <3> QED
      BY <2>1, <2>2, <3>1
  <2>3. CASE dev.cfctr[ch] > Slots(ch)
    <3>1. dev.wait[ch] = <<>>
      BY <1>1, <2>3 DEF Waits
    <3>2. Len(<<>>) = 0 /\ 0 <= Slots(ch)
      BY Sizes
    <3> QED
      BY <2>1, <3>1, <3>2
  <2>4. dev.cfctr[ch] <= Slots(ch) \/ dev.cfctr[ch] > Slots(ch)
    <3> DEFINE n == dev.cfctr[ch]
    <3>1. n \in Nat /\ Slots(ch) \in Nat
      BY <1>1, Fields, Sizes
    <3> HIDE DEF n
    <3>2. n <= Slots(ch) \/ n > Slots(ch)
      BY <3>1
    <3> QED
      BY <3>2 DEF n
  <2> QED
    BY <2>2, <2>3, <2>4
<1>4. CommandsWait
  <2>1. TypeOK
    BY <1>1, <1>3 DEF TypeOK
  <2>2. ASSUME NEW ch \in Channels, dev.cfctr[ch] <= Slots(ch)
        PROVE  Reverse(SubSeq(dev.cfifo[ch], 1, dev.cfctr[ch])) = dev.wait[ch]
    <3>1. BeginsBackwards(dev.cfifo[ch], dev.cfctr[ch], dev.wait[ch])
      BY <1>1, <2>2 DEF Waits
    <3>2. /\ dev.cfifo[ch] \in Seq(Entries) /\ dev.cfctr[ch] \in Nat
          /\ dev.wait[ch] \in Seq(Command)
      BY <1>1, Fields
    <3>3. dev.wait[ch] \in Seq(Entries)
      BY <3>2, SeqMonotonic DEF Entries
    <3> QED
      BY <3>1, <3>2, <3>3, BackwardsIsReverse
  <2> QED
    BY <2>1, <2>2 DEF CommandsWait
<1>5. ResultsAnnounced
  BY <1>1 DEF ResultsAnnounced, Results
<1>6. StatusFollowsMode
  BY <1>1 DEF StatusFollowsMode, Follows
<1> QED
  BY <1>2, <1>4, <1>5, <1>6

-----------------------------------------------------------------------------
(* The theorems.                                                           *)

\* Every state the device reaches is sound: the invariant below which the four
\* properties follow (pushRFIFO, popRFIFO, pushCFIFO, popCFIFO and updateMode of
\* eqadc.py keep it).
THEOREM Invariance == Spec => []EqadcInv
<1>1. Init => EqadcInv
  BY InitHolds
<1>2. EqadcInv /\ [Next]_vars => EqadcInv'
  BY StepHolds
<1> QED
  BY <1>1, <1>2, PTL DEF Spec

\* RFPR gives results in the order of their conversions (pushRFIFO, popRFIFO).
THEOREM OrderKept == Spec => []ResultsInOrder
<1>1. EqadcInv => ResultsInOrder
  BY InvImplies
<1> QED
  BY <1>1, Invariance, PTL

\* The types, and the order of the commands that wait for their channel (pushCFIFO,
\* popCFIFO, updateMode).
THEOREM CommandsKept == Spec => []CommandsWait
<1>1. EqadcInv => CommandsWait
  BY InvImplies
<1> QED
  BY <1>1, Invariance, PTL

\* RFDF tells of every result that is there (pushRFIFO, popRFIFO, FISR).
THEOREM Announced == Spec => []ResultsAnnounced
<1>1. EqadcInv => ResultsAnnounced
  BY InvImplies
<1> QED
  BY <1>1, Invariance, PTL

\* CFSR follows the mode of its channel and the triggers since it was set (cfcrUpdate,
\* updateMode, _update_cfsr).
THEOREM StatusKept == Spec => []StatusFollowsMode
<1>1. EqadcInv => StatusFollowsMode
  BY InvImplies
<1> QED
  BY <1>1, Invariance, PTL

-----------------------------------------------------------------------------
(* FlexCAN: the filters.                                                   *)

\* RemoveAt closes the gap.
LEMMA Removed ==
  ASSUME NEW T, NEW s \in Seq(T), NEW n \in 1 .. Len(s)
  PROVE  /\ RemoveAt(s, n) \in Seq(T) /\ Len(RemoveAt(s, n)) = Len(s) - 1
         /\ \A i \in 1 .. Len(s) - 1 : RemoveAt(s, n)[i] = IF i < n THEN s[i] ELSE s[i + 1]
<1> DEFINE a == SubSeq(s, 1, n - 1)
           b == SubSeq(s, n + 1, Len(s))
<1>1. Len(s) \in Nat /\ n \in Nat /\ 1 <= n /\ n <= Len(s)
  BY LenProperties
<1>2. a \in Seq(T) /\ Len(a) = n - 1 /\ \A i \in 1 .. n - 1 : a[i] = s[i]
  <2>1. \A i \in 1 .. n - 1 : s[i] \in T
    BY <1>1, ElementOfSeq
  <2> QED
    BY <1>1, <2>1, SubSeqProperties
<1>3. b \in Seq(T) /\ Len(b) = Len(s) - n /\ \A i \in 1 .. Len(s) - n : b[i] = s[n + i]
  <2>1. \A i \in n + 1 .. Len(s) : s[i] \in T
    BY <1>1, ElementOfSeq
  <2> QED
    BY <1>1, <2>1, SubSeqProperties
<1>4. RemoveAt(s, n) = a \o b
  BY DEF RemoveAt
<1> HIDE DEF a, b
<1>5. /\ a \o b \in Seq(T) /\ Len(a \o b) = Len(a) + Len(b)
      /\ \A i \in 1 .. Len(a) + Len(b) : (a \o b)[i] = IF i <= Len(a) THEN a[i] ELSE b[i - Len(a)]
  BY <1>2, <1>3, ConcatProperties
<1>6. ASSUME NEW i \in 1 .. Len(s) - 1
      PROVE  (a \o b)[i] = IF i < n THEN s[i] ELSE s[i + 1]
  <2>1. CASE i < n
    BY <1>1, <1>2, <1>3, <1>5, <2>1
  <2>2. CASE ~ (i < n)
    <3>1. i - (n - 1) \in 1 .. Len(s) - n /\ i \in 1 .. Len(a) + Len(b) /\ ~ (i <= Len(a))
      BY <1>1, <1>2, <1>3, <2>2
    <3>2. b[i - (n - 1)] = s[n + (i - (n - 1))] /\ n + (i - (n - 1)) = i + 1
      BY <1>1, <1>3, <3>1
    <3> QED
      BY <1>2, <1>5, <2>2, <3>1, <3>2
  <2> QED
    BY <2>1, <2>2
<1> QED
  BY <1>1, <1>2, <1>3, <1>4, <1>5, <1>6

\* An entry that a list of filters holds.
Holds(q, e) == \E i \in 1 .. Len(q) : q[i] = e

\* A mailbox is removed, and no other.
LEMMA InWithout ==
  ASSUME NEW q \in Seq(FilterEntries), NEW mb
  PROVE  /\ Without(q, mb) \in Seq(FilterEntries)
         /\ \A e : e.mb # mb /\ Holds(q, e) => Holds(Without(q, mb), e)
         /\ \A m : m # mb /\ In(q, m) => In(Without(q, mb), m)
<1>1. CASE ~ In(q, mb)
  BY <1>1 DEF Without
<1>2. CASE In(q, mb)
  <2> DEFINE n == CHOOSE i \in 1 .. Len(q) : q[i].mb = mb
             r == RemoveAt(q, n)
  <2>1. n \in 1 .. Len(q) /\ q[n].mb = mb
    BY <1>2 DEF In
  <2>2. Without(q, mb) = r
    BY <1>2 DEF Without
  <2> HIDE DEF n
  <2>3. /\ r \in Seq(FilterEntries) /\ Len(r) = Len(q) - 1
        /\ \A i \in 1 .. Len(q) - 1 : r[i] = IF i < n THEN q[i] ELSE q[i + 1]
    BY <2>1, Removed
  <2> HIDE DEF r
  <2>4. ASSUME NEW e, e.mb # mb, Holds(q, e) PROVE Holds(r, e)
    <3>0. Len(q) \in Nat /\ n \in Nat
      BY <2>1, LenProperties
    <3>1. PICK i \in 1 .. Len(q) : q[i] = e
      BY <2>4 DEF Holds
    <3>2. i # n
      BY <2>1, <2>4, <3>1
    <3>3. CASE i < n
      <4>1. i \in 1 .. Len(q) - 1
        BY <2>1, <3>0, <3>3
      <4>2. r[i] = e /\ i \in 1 .. Len(r)
        BY <2>3, <3>1, <3>3, <4>1
      <4> QED
        BY <4>2 DEF Holds
    <3>4. CASE n < i
      <4> DEFINE j == i - 1
      <4>1. j \in 1 .. Len(q) - 1 /\ ~ (j < n) /\ j + 1 = i
        BY <2>1, <3>0, <3>4
      <4> HIDE DEF j
      <4>2. r[j] = e /\ j \in 1 .. Len(r)
        BY <2>3, <3>1, <4>1
      <4> QED
        BY <4>2 DEF Holds
    <3> QED
      BY <3>0, <3>2, <3>3, <3>4
  <2>5. ASSUME NEW m, m # mb, In(q, m) PROVE In(r, m)
    <3>1. PICK i \in 1 .. Len(q) : q[i].mb = m
      BY <2>5 DEF In
    <3>2. Holds(r, q[i])
      BY <2>4, <2>5, <3>1 DEF Holds
    <3> QED
      BY <3>1, <3>2 DEF Holds, In
  <2> QED
    BY <2>2, <2>3, <2>4, <2>5
<1> QED
  BY <1>1, <1>2

\* An entry is there once it was added, and those of the other mailboxes stay.
LEMMA InWith ==
  ASSUME NEW q \in Seq(FilterEntries), NEW e \in FilterEntries
  PROVE  /\ With(q, e) \in Seq(FilterEntries) /\ Holds(With(q, e), e)
         /\ \A x : x.mb # e.mb /\ Holds(q, x) => Holds(With(q, e), x)
         /\ \A m : In(q, m) => In(With(q, e), m)
<1>1. CASE In(q, e.mb)
  <2> DEFINE r == [i \in 1 .. Len(q) |-> IF q[i].mb = e.mb THEN e ELSE q[i]]
  <2>1. With(q, e) = r
    BY <1>1 DEF With
  <2>2. /\ r \in Seq(FilterEntries) /\ Len(r) = Len(q)
        /\ \A i \in 1 .. Len(q) : r[i].mb = q[i].mb /\ r[i] = IF q[i].mb = e.mb THEN e ELSE q[i]
    OBVIOUS
  <2> HIDE DEF r
  <2>3. \A m : In(q, m) => In(r, m)
    BY <2>2 DEF In
  <2>4. Holds(r, e)
    BY <1>1, <2>2 DEF In, Holds
  <2>5. \A x : x.mb # e.mb /\ Holds(q, x) => Holds(r, x)
    BY <2>2 DEF Holds
  <2> QED
    BY <2>1, <2>2, <2>3, <2>4, <2>5
<1>2. CASE ~ In(q, e.mb)
  <2> DEFINE r == Append(q, e)
  <2>1. With(q, e) = r
    BY <1>2 DEF With
  <2>2. /\ r \in Seq(FilterEntries) /\ Len(r) = Len(q) + 1 /\ r[Len(q) + 1] = e
        /\ \A i \in 1 .. Len(q) : r[i] = q[i]
    BY AppendProperties
  <2> HIDE DEF r
  <2>3. Len(q) \in Nat
    BY LenProperties
  <2>4. Holds(r, e)
    BY <2>2, <2>3 DEF Holds
  <2>5. ASSUME NEW m, In(q, m) PROVE In(r, m)
    BY <2>2, <2>3, <2>5 DEF In
  <2>6. ASSUME NEW x, Holds(q, x) PROVE Holds(r, x)
    BY <2>2, <2>3, <2>6 DEF Holds
  <2> QED
    BY <2>1, <2>2, <2>4, <2>5, <2>6
<1> QED
  BY <1>1, <1>2

Dicts == [BOOLEAN -> Seq(FilterEntries)]
Boxes == [code : CODES, frame : Frame]

LEMMA CanFields ==
  ASSUME NEW st \in FlexCANs
  PROVE  /\ st.mcr \in Mcr /\ st.mcr.fen \in BOOLEAN /\ st.mode \in CanModes /\ st.not_rdy \in BOOLEAN
         /\ st.mb \in [Mailboxes -> Boxes] /\ 0 \in Mailboxes
         /\ \A mb \in Mailboxes : /\ st.mb[mb] \in Boxes /\ st.mb[mb].code \in CODES
                                  /\ st.mb[mb].frame \in Frame
         /\ st.fifo \in Seq(Frame \union {Placeholder})
         /\ st.rx \in Dicts /\ st.rtr \in Dicts
         /\ st.msgAvail \in BOOLEAN /\ st.alive \in BOOLEAN
<1>1. st.mb \in [Mailboxes -> Boxes]
  BY DEF FlexCANs, Boxes
<1>2. \A mb \in Mailboxes : /\ st.mb[mb] \in Boxes /\ st.mb[mb].code \in CODES
                            /\ st.mb[mb].frame \in Frame
  BY <1>1 DEF Boxes
<1> QED
  BY <1>1, <1>2, FlexCanAssumption DEF FlexCANs, Mcr, Dicts

\* Nothing but the filters differs.
Refiltered(st, new) ==
  /\ new \in FlexCANs
  /\ new.mcr = st.mcr /\ new.ctrl = st.ctrl /\ new.mode = st.mode /\ new.not_rdy = st.not_rdy
  /\ new.mb = st.mb /\ new.fifo = st.fifo /\ new.msgAvail = st.msgAvail /\ new.alive = st.alive

LEMMA NewDicts ==
  ASSUME NEW st \in FlexCANs, NEW rx \in Dicts, NEW rtr \in Dicts
  PROVE  /\ Refiltered(st, [st EXCEPT !.rx = rx, !.rtr = rtr])
         /\ [st EXCEPT !.rx = rx, !.rtr = rtr].rx = rx
<1>1. [st EXCEPT !.rx = rx, !.rtr = rtr].rx = rx
  BY DEF FlexCANs
<1>2. [st EXCEPT !.rx = rx, !.rtr = rtr] \in FlexCANs
  BY DEF FlexCANs, Dicts
<1> QED
  BY <1>1, <1>2 DEF Refiltered, FlexCANs

LEMMA EntryMade ==
  ASSUME NEW st \in FlexCANs, NEW mb \in Mailboxes
  PROVE  Entry(st, mb) \in FilterEntries /\ Entry(st, mb).mb = mb
<1> DEFINE f == st.mb[mb].frame
           mask == MaskOn(st, mb)
           id == IF mask THEN <<f.std, f.ext>> ELSE <<0, 0>>
<1>1. st.mcr \in Mcr /\ f \in Frame
  BY CanFields
<1>2. mask \in BOOLEAN
  BY <1>1, FlexCanAssumption DEF MaskOn, Mcr
<1>3. f.std \in 0 .. 1 /\ f.ext \in 0 .. 1
  BY <1>1 DEF Frame
<1>4. id \in (0 .. 1) \X (0 .. 1)
  BY <1>3
<1>5. Entry(st, mb) = [mb |-> mb, mask |-> mask, id |-> id]
  BY DEF Entry
<1> HIDE DEF id, mask
<1> QED
  BY <1>2, <1>4, <1>5 DEF FilterEntries

\* An entry for extended frames, and one of its mailbox for standard frames if the
\* standard part is zero, make a mailbox listen.
LEMMA Hears ==
  ASSUME NEW d, NEW m, NEW e, e.mb = m, Holds(d[TRUE], e), e.id[1] = 0 => In(d[FALSE], m)
  PROVE  Listening(d, m)
<1>1. PICK i \in 1 .. Len(d[TRUE]) : d[TRUE][i] = e
  BY DEF Holds
<1> QED
  BY <1>1 DEF Listening

LEMMA Heard ==
  ASSUME NEW d, NEW m, Listening(d, m)
  PROVE  \E e : e.mb = m /\ Holds(d[TRUE], e) /\ (e.id[1] = 0 => In(d[FALSE], m))
<1>1. PICK i \in 1 .. Len(d[TRUE]) :
        d[TRUE][i].mb = m /\ (d[TRUE][i].id[1] = 0 => In(d[FALSE], m))
  BY DEF Listening
<1>2. Holds(d[TRUE], d[TRUE][i])
  BY DEF Holds
<1> QED
  BY <1>1, <1>2

LEMMA AddedIn ==
  ASSUME NEW d \in Dicts, NEW e \in FilterEntries
  PROVE  /\ Added(d, e) \in Dicts /\ Listening(Added(d, e), e.mb)
         /\ \A m : Listening(d, m) => Listening(Added(d, e), m)
<1> DEFINE a == Added(d, e)
<1>1. \A ide \in BOOLEAN : d[ide] \in Seq(FilterEntries) /\ With(d[ide], e) \in Seq(FilterEntries)
  <2>1. \A ide \in BOOLEAN : d[ide] \in Seq(FilterEntries)
    BY DEF Dicts
  <2> QED
    BY <2>1, InWith
<1>2. a \in Dicts
  BY <1>1 DEF Added, Dicts
<1>3. /\ a[TRUE] = With(d[TRUE], e)
      /\ a[FALSE] = IF e.id[1] = 0 THEN With(d[FALSE], e) ELSE d[FALSE]
  BY DEF Added
<1> HIDE DEF a
<1>0. d[TRUE] \in Seq(FilterEntries) /\ d[FALSE] \in Seq(FilterEntries)
  BY DEF Dicts
<1>4. /\ Holds(a[TRUE], e) /\ \A x : x.mb # e.mb /\ Holds(d[TRUE], x) => Holds(a[TRUE], x)
      /\ \A m : In(d[FALSE], m) => In(a[FALSE], m)
  BY <1>0, <1>3, InWith
<1>5. e.id[1] = 0 => In(a[FALSE], e.mb)
  <2>1. SUFFICES ASSUME e.id[1] = 0 PROVE In(a[FALSE], e.mb)
    OBVIOUS
  <2>2. Holds(a[FALSE], e)
    BY <1>0, <1>3, <2>1, InWith
  <2> QED
    BY <2>2 DEF Holds, In
<1>6. Listening(a, e.mb)
  BY <1>4, <1>5, Hears
<1>7. ASSUME NEW m, Listening(d, m) PROVE Listening(a, m)
  <2>1. CASE m = e.mb
    BY <1>6, <2>1
  <2>2. CASE m # e.mb
    <3>1. PICK x : x.mb = m /\ Holds(d[TRUE], x) /\ (x.id[1] = 0 => In(d[FALSE], m))
      BY <1>7, Heard
    <3>2. Holds(a[TRUE], x) /\ (x.id[1] = 0 => In(a[FALSE], m))
      BY <1>4, <2>2, <3>1
    <3> QED
      BY <3>1, <3>2, Hears
  <2> QED
    BY <2>1, <2>2
<1> QED
  BY <1>2, <1>6, <1>7 DEF a

\* Removed from both dicts.
Gone(d, mb) == [ide \in BOOLEAN |-> Without(d[ide], mb)]

LEMMA GoneFrom ==
  ASSUME NEW d \in Dicts, NEW mb
  PROVE  /\ Gone(d, mb) \in Dicts
         /\ \A m : m # mb /\ Listening(d, m) => Listening(Gone(d, mb), m)
<1> DEFINE g == Gone(d, mb)
<1>0. d[TRUE] \in Seq(FilterEntries) /\ d[FALSE] \in Seq(FilterEntries)
  BY DEF Dicts
<1>1. \A ide \in BOOLEAN : Without(d[ide], mb) \in Seq(FilterEntries)
  <2>1. \A ide \in BOOLEAN : d[ide] \in Seq(FilterEntries)
    BY DEF Dicts
  <2> QED
    BY <2>1, InWithout
<1>2. g \in Dicts
  BY <1>1 DEF Gone, Dicts
<1>3. g[TRUE] = Without(d[TRUE], mb) /\ g[FALSE] = Without(d[FALSE], mb)
  BY DEF Gone
<1> HIDE DEF g
<1>4. ASSUME NEW m, m # mb, Listening(d, m) PROVE Listening(g, m)
  <2>1. PICK x : x.mb = m /\ Holds(d[TRUE], x) /\ (x.id[1] = 0 => In(d[FALSE], m))
    BY <1>4, Heard
  <2>2. Holds(g[TRUE], x)
    BY <1>0, <1>3, <1>4, <2>1, InWithout
  <2>3. In(d[FALSE], m) => In(g[FALSE], m)
    BY <1>0, <1>3, <1>4, InWithout
  <2> QED
    BY <2>1, <2>2, <2>3, Hears
<1> QED
  BY <1>2, <1>4 DEF g

LEMMA PoppedFrom ==
  ASSUME NEW d \in Dicts, NEW mb
  PROVE  /\ Popped(d, mb) \in Dicts
         /\ \A m : m # mb /\ Listening(d, m) => Listening(Popped(d, mb), m)
<1>1. Popped(d, mb) = IF In(d[FALSE], mb) THEN Gone(d, mb) ELSE d
  BY DEF Popped, Gone
<1> QED
  BY <1>1, GoneFrom

\* What each operation on the filters of a mailbox does to those of the others.
Others(st, new, mb) == \A m : m # mb /\ Listening(st.rx, m) => Listening(new.rx, m)

LEMMA AddRx ==
  ASSUME NEW st \in FlexCANs, NEW mb \in Mailboxes
  PROVE  /\ Refiltered(st, filterAddRxMB(st, mb)) /\ Others(st, filterAddRxMB(st, mb), mb)
         /\ Listening(filterAddRxMB(st, mb).rx, mb)
<1> DEFINE e == Entry(st, mb)
           rx == Added(st.rx, e)
           rtr == Popped(st.rtr, mb)
           new == [st EXCEPT !.rx = rx, !.rtr = rtr]
<1>1. st.rx \in Dicts /\ st.rtr \in Dicts
  BY CanFields
<1>2. e \in FilterEntries /\ e.mb = mb
  BY EntryMade
<1> HIDE DEF e
<1>3. rx \in Dicts /\ Listening(rx, mb) /\ \A m : Listening(st.rx, m) => Listening(rx, m)
  BY <1>1, <1>2, AddedIn
<1>4. rtr \in Dicts
  BY <1>1, PoppedFrom
<1>5. filterAddRxMB(st, mb) = new
  BY DEF filterAddRxMB, e, FlexCANs
<1> HIDE DEF rx, rtr
<1>6. Refiltered(st, new) /\ new.rx = rx
  BY <1>3, <1>4, NewDicts
<1> HIDE DEF new
<1> QED
  BY <1>3, <1>5, <1>6 DEF Others

LEMMA AddRtr ==
  ASSUME NEW st \in FlexCANs, NEW mb \in Mailboxes
  PROVE  Refiltered(st, filterAddRtrMB(st, mb)) /\ Others(st, filterAddRtrMB(st, mb), mb)
<1> DEFINE e == Entry(st, mb)
           rtr == Added(st.rtr, e)
           rx == Popped(st.rx, mb)
           new == [st EXCEPT !.rx = rx, !.rtr = rtr]
<1>1. st.rx \in Dicts /\ st.rtr \in Dicts
  BY CanFields
<1>2. e \in FilterEntries
  BY EntryMade
<1> HIDE DEF e
<1>3. rx \in Dicts /\ \A m : m # mb /\ Listening(st.rx, m) => Listening(rx, m)
  BY <1>1, PoppedFrom
<1>4. rtr \in Dicts
  BY <1>1, <1>2, AddedIn
<1>5. filterAddRtrMB(st, mb) = new
  BY DEF filterAddRtrMB, e, FlexCANs
<1> HIDE DEF rx, rtr
<1>6. Refiltered(st, new) /\ new.rx = rx
  BY <1>3, <1>4, NewDicts
<1> HIDE DEF new
<1> QED
  BY <1>3, <1>5, <1>6 DEF Others

LEMMA RemoveMB ==
  ASSUME NEW st \in FlexCANs, NEW mb \in Mailboxes
  PROVE  Refiltered(st, filterRemoveMB(st, mb)) /\ Others(st, filterRemoveMB(st, mb), mb)
<1> DEFINE rtr == Gone(st.rtr, mb)
           rx == Gone(st.rx, mb)
           new == [st EXCEPT !.rx = rx, !.rtr = rtr]
<1>1. st.rx \in Dicts /\ st.rtr \in Dicts
  BY CanFields
<1>3. rx \in Dicts /\ \A m : m # mb /\ Listening(st.rx, m) => Listening(rx, m)
  BY <1>1, GoneFrom
<1>4. rtr \in Dicts
  BY <1>1, GoneFrom
<1>5. filterRemoveMB(st, mb) = new
  BY DEF filterRemoveMB, Gone, FlexCANs
<1> HIDE DEF rx, rtr
<1>6. Refiltered(st, new) /\ new.rx = rx
  BY <1>3, <1>4, NewDicts
<1> HIDE DEF new
<1> QED
  BY <1>3, <1>5, <1>6 DEF Others

LEMMA AddOne ==
  ASSUME NEW st \in FlexCANs, NEW mb \in Mailboxes
  PROVE  /\ Refiltered(st, filterAdd(st, mb)) /\ Others(st, filterAdd(st, mb), mb)
         /\ st.mb[mb].code = "rx_empty" => Listening(filterAdd(st, mb).rx, mb)
<1>1. CASE st.mb[mb].code \in RX_CHECK_FILTER
  <2>1. filterAdd(st, mb) = filterAddRxMB(st, mb)
    BY <1>1 DEF filterAdd
  <2> QED
    BY <2>1, AddRx
<1>2. CASE st.mb[mb].code \notin RX_CHECK_FILTER /\ st.mb[mb].code = TX_RTR
  <2>1. filterAdd(st, mb) = filterAddRtrMB(st, mb)
    BY <1>2 DEF filterAdd
  <2> QED
    BY <1>2, <2>1, AddRtr DEF RX_CHECK_FILTER
<1>3. CASE st.mb[mb].code \notin RX_CHECK_FILTER /\ st.mb[mb].code # TX_RTR
  <2>1. filterAdd(st, mb) = st
    BY <1>3 DEF filterAdd
  <2> QED
    BY <1>3, <2>1 DEF RX_CHECK_FILTER, Refiltered, Others
<1> QED
  BY <1>1, <1>2, <1>3

LEMMA RefilteredAgain ==
  ASSUME NEW a, NEW b, NEW c, Refiltered(a, b), Refiltered(b, c)
  PROVE  Refiltered(a, c)
BY DEF Refiltered

\* After a start, each of the first mailboxes that waits for a frame listens.
LEMMA Started ==
  ASSUME NEW st \in FlexCANs
  PROVE  /\ Refiltered(st, filterUpdate(st))
         /\ \A mb \in Mailboxes :
              mb < 56 /\ st.mb[mb].code = "rx_empty" => Listening(filterUpdate(st).rx, mb)
<1> DEFINE cleared == [ResetFilters(st) EXCEPT
                         !.fifoFilters = {f \in Frame : st.mcr.fen /\ FifoAccepts(st, f)}]
           scanned == Scanned(st)
           S == {s \in FlexCANs : Refiltered(st, s)}
           next(k, s) == IF k - 1 \in scanned THEN filterAdd(s, k - 1) ELSE s
           h == [k \in Nat |-> [s \in S |-> next(k, s)]]
           Run(g) == g = [k \in 0 .. 64 |-> IF k = 0 THEN cleared ELSE next(k, g[k - 1])]
           added == CHOOSE g : Run(g)
           Empty(mb) == mb \in scanned /\ st.mb[mb].code = "rx_empty"
           Here(s, mb) == Listening(s.rx, mb)
<1>1. filterUpdate(st) = added[64]
  BY DEF filterUpdate
<1>2. cleared \in S
  <2> DEFINE r == ResetFilters(st)
             fs == {f \in Frame : st.mcr.fen /\ FifoAccepts(st, f)}
  <2>1. r = [st EXCEPT !.fifoFilters = {}, !.rx = NoFilters, !.rtr = NoFilters]
    BY DEF ResetFilters
  <2>2. NoFilters \in Dicts
    BY EmptySeq DEF NoFilters, Dicts
  <2>3. fs \in SUBSET Frame
    OBVIOUS
  <2> HIDE DEF fs, r
  <2>4. Refiltered(st, r)
    BY <2>1, <2>2 DEF Refiltered, FlexCANs, Dicts
  <2>5. Refiltered(r, [r EXCEPT !.fifoFilters = fs])
    BY <2>3, <2>4 DEF Refiltered, FlexCANs
  <2>6. Refiltered(st, [r EXCEPT !.fifoFilters = fs])
    BY <2>4, <2>5 DEF Refiltered
  <2>7. cleared = [r EXCEPT !.fifoFilters = fs]
    BY DEF r, fs
  <2> QED
    BY <2>6, <2>7 DEF Refiltered
<1>3. \A mb \in scanned : mb \in Mailboxes /\ mb \in 0 .. 63
  BY FlexCanAssumption DEF Scanned
<1>4. \A mb \in Mailboxes : mb < 56 => mb \in scanned
  BY FlexCanAssumption DEF Scanned
<1> HIDE DEF cleared, scanned
<1>5. ASSUME NEW k \in 1 .. 64, NEW s \in S
      PROVE  /\ next(k, s) \in S
             /\ \A mb : Here(s, mb) /\ mb # k - 1 => Here(next(k, s), mb)
             /\ Empty(k - 1) => Here(next(k, s), k - 1)
             /\ k - 1 \notin scanned => next(k, s) = s
  <2>1. CASE k - 1 \in scanned
    <3> DEFINE m == k - 1
    <3>1. m \in Mailboxes
      BY <1>3, <2>1
    <3> HIDE DEF m
    <3>2. /\ Refiltered(s, filterAdd(s, m)) /\ Others(s, filterAdd(s, m), m)
          /\ s.mb[m].code = "rx_empty" => Listening(filterAdd(s, m).rx, m)
      BY <3>1, AddOne
    <3>3. s.mb = st.mb /\ Refiltered(st, filterAdd(s, m)) /\ filterAdd(s, m) \in FlexCANs
      BY <3>2 DEF Refiltered
    <3>4. next(k, s) = filterAdd(s, m)
      BY <2>1 DEF m
    <3> HIDE DEF next
    <3>5. next(k, s) \in S
      BY <3>3, <3>4
    <3> QED
      BY <2>1, <3>2, <3>3, <3>4, <3>5 DEF m, Others
  <2>2. CASE k - 1 \notin scanned
    BY <2>2
  <2> QED
    BY <2>1, <2>2
<1>6. ASSUME NEW k \in Nat, k \notin 1 .. 64, NEW s \in S PROVE next(k, s) = s
  BY <1>3, <1>6
<1> HIDE DEF next, S
<1>7. h \in [Nat -> [S -> S]]
  <2>1. \A k \in Nat, s \in S : next(k, s) \in S
    BY <1>5, <1>6
  <2> QED
    BY <2>1
<1>8. \E g : Run(g)
  <2> HIDE DEF h
  <2>1. PICK g : IsSteps(g, S, cleared, h, 64)
    BY <1>2, <1>7, StepsExist
  <2>2. /\ g \in [0 .. 64 -> S] /\ g[0] = cleared
        /\ \A k \in 1 .. 64 : g[k] = h[k][g[k - 1]]
    BY <2>1 DEF IsSteps
  <2>3. ASSUME NEW k \in 0 .. 64
        PROVE  g[k] = IF k = 0 THEN cleared ELSE next(k, g[k - 1])
    <3>1. CASE k = 0
      BY <2>2, <3>1
    <3>2. CASE k # 0
      <4>1. k \in 1 .. 64 /\ k - 1 \in 0 .. 64 /\ k \in Nat
        BY <3>2
      <4>2. g[k] = h[k][g[k - 1]] /\ g[k - 1] \in S
        BY <2>2, <4>1
      <4> QED
        BY <3>2, <4>1, <4>2 DEF h
    <3> QED
      BY <3>1, <3>2
  <2>4. Run(g)
    BY <2>2, <2>3
  <2> QED
    BY <2>4
<1>9. Run(added)
  <2> HIDE DEF Run
  <2> QED
    BY <1>8
<1> HIDE DEF added
<1>10. added[0] = cleared /\ \A k \in 1 .. 64 : added[k] = next(k, added[k - 1])
  BY <1>9
<1> HIDE DEF Run, h
<1> DEFINE T == {k \in 0 .. 64 : /\ added[k] \in S
                                 /\ \A mb \in 0 .. 63 : mb < k /\ Empty(mb) => Here(added[k], mb)}
<1> HIDE DEF Here, Empty
<1>11. 0 \in T
  BY <1>2, <1>10
<1>12. ASSUME NEW k \in 1 .. 64, k - 1 \in T PROVE k \in T
  <2>1. /\ added[k - 1] \in S
        /\ \A mb \in 0 .. 63 : mb < k - 1 /\ Empty(mb) => Here(added[k - 1], mb)
    BY <1>12
  <2>2. added[k] = next(k, added[k - 1])
    BY <1>10
  <2>3. added[k] \in S
    BY <1>5, <2>1, <2>2
  <2>4. ASSUME NEW mb \in 0 .. 63, mb < k, Empty(mb) PROVE Here(added[k], mb)
    <3>1. CASE mb = k - 1
      <4>1. Empty(k - 1) => Here(next(k, added[k - 1]), k - 1)
        BY <1>5, <2>1
      <4> QED
        BY <2>2, <2>4, <3>1, <4>1
    <3>2. CASE mb # k - 1
      <4>1. mb < k - 1
        BY <2>4, <3>2
      <4>2. Here(added[k - 1], mb)
        BY <2>1, <2>4, <4>1
      <4> QED
        BY <1>5, <2>1, <2>2, <3>2, <4>2
    <3> QED
      BY <3>1, <3>2
  <2> QED
    BY <2>3, <2>4
<1>13. 64 \in T
  <2> HIDE DEF T
  <2>1. \A k \in 1 .. 64 : k - 1 \in T => k \in T
    BY <1>12
  <2>2. \A k \in 0 .. 64 : k \in T
    BY <1>11, <2>1, UpTo
  <2> QED
    BY <2>2
<1>14. added[64] \in S /\ \A mb \in 0 .. 63 : Empty(mb) => Here(added[64], mb)
  BY <1>13
<1> HIDE DEF T
<1>15. Refiltered(st, added[64])
  BY <1>14 DEF S
<1>16. ASSUME NEW mb \in Mailboxes, mb < 56, st.mb[mb].code = "rx_empty"
       PROVE  Listening(added[64].rx, mb)
  <2>1. mb \in scanned /\ mb \in 0 .. 63
    BY <1>3, <1>4, <1>16
  <2>2. Empty(mb)
    BY <1>16, <2>1 DEF Empty
  <2>3. Here(added[64], mb)
    BY <1>14, <2>1, <2>2
  <2> QED
    BY <2>3 DEF Here
<1> QED
  BY <1>1, <1>15, <1>16

-----------------------------------------------------------------------------
(* FlexCAN: what a message does.                                           *)

\* A mailbox that waits for a frame is in the filters.
Listens(st) ==
  st.mode \notin Stopped =>
    \A mb \in Mailboxes : mb < 56 /\ st.mb[mb].code = "rx_empty" => Listening(st.rx, mb)

\* The FIFO has a message in mailbox 0, and those after it in the queue; the mailbox
\* is then no other's.
Right(st) ==
  /\ st \in FlexCANs
  /\ st.not_rdy = (st.mode \in Stopped)
  /\ Len(st.fifo) <= RxFIFO_MAX_LEN
  /\ \A i \in 1 .. Len(st.fifo) : st.fifo[i] = Placeholder <=> i = 1
  /\ Len(st.fifo) # 0 => st.mcr.fen /\ st.mb[0].code = "rx_inactive"
  /\ Listens(st)

Message(st, i) == IF i = 1 THEN st.mb[0].frame ELSE st.fifo[i]
Queue(st) == [i \in 1 .. Len(st.fifo) |-> Message(st, i)]

SameQueue(st, new) ==
  new.fifo = st.fifo /\ (Len(st.fifo) # 0 => new.mb[0].frame = st.mb[0].frame)
Enters(st, new) ==
  /\ Len(new.fifo) = Len(st.fifo) + 1
  /\ \A i \in 1 .. Len(st.fifo) : Message(new, i) = Message(st, i)

\* The flag stays, and it is set when the FIFO was empty and is not any more.
Tells(st, new) ==
  /\ st.msgAvail => new.msgAvail
  /\ Len(st.fifo) = 0 /\ Len(new.fifo) # 0 => new.msgAvail

\* A mailbox with a frame that the firmware has not read keeps it.
Unread(st, mb) == st.mb[mb].code \in {"rx_full", "rx_overrun"} /\ (st.mcr.fen => mb >= 8)
Keeps(st, new) ==
  \A mb \in Mailboxes : Unread(st, mb) => Unread(new, mb) /\ new.mb[mb].frame = st.mb[mb].frame

\* After some messages, of which the last is d.msg if there is more to do; only the
\* one that has no message after it may be in the FIFO.
Links == [st : FlexCANs, msg : Frame, more : BOOLEAN]
Chain(st, d) ==
  /\ d \in Links /\ Right(d.st) /\ d.st.mcr = st.mcr
  /\ Tells(st, d.st) /\ Keeps(st, d.st)
  /\ SameQueue(st, d.st) \/ (~ d.more /\ Enters(st, d.st))

LEMMA Chained ==
  ASSUME NEW a, NEW d, NEW e, Chain(a, d), d.more, Chain(d.st, e)
  PROVE  Chain(a, e)
<1>1. SameQueue(a, d.st)
  BY DEF Chain
<1>2. Tells(a, e.st)
  BY <1>1 DEF Chain, Tells, SameQueue
<1>3. Keeps(a, e.st)
  BY DEF Chain, Keeps
<1>4. SameQueue(d.st, e.st) => SameQueue(a, e.st)
  BY <1>1 DEF SameQueue
<1>5. Enters(d.st, e.st) => Enters(a, e.st)
  <2>1. ASSUME NEW i \in 1 .. Len(a.fifo) PROVE Message(a, i) = Message(d.st, i)
    <3>1. Len(a.fifo) # 0 /\ a.fifo = d.st.fifo
      BY <1>1 DEF SameQueue
    <3>2. a.mb[0].frame = d.st.mb[0].frame
      BY <1>1, <3>1 DEF SameQueue
    <3> QED
      BY <3>1, <3>2 DEF Message
  <2>2. a.fifo = d.st.fifo
    BY <1>1 DEF SameQueue
  <2> QED
    BY <2>1, <2>2 DEF Enters
<1> QED
  BY <1>2, <1>3, <1>4, <1>5 DEF Chain

\* The parts of a controller that no message to or from a mailbox mb changes.
Boxed(st, new, mb) ==
  /\ new \in FlexCANs
  /\ new.mcr = st.mcr /\ new.mode = st.mode /\ new.not_rdy = st.not_rdy /\ new.fifo = st.fifo
  /\ \A m \in Mailboxes \ {mb} : new.mb[m] = st.mb[m]
  /\ Others(st, new, mb)

LEMMA RightAgain ==
  ASSUME NEW st, Right(st), NEW mb \in Mailboxes, NEW new, Boxed(st, new, mb),
         new.mode \notin Stopped /\ mb < 56 /\ new.mb[mb].code = "rx_empty" => Listening(new.rx, mb),
         mb = 0 /\ Len(st.fifo) # 0 => new.mb[0].code = "rx_inactive"
  PROVE  Right(new)
<1>1. Listens(new)
  <2> SUFFICES ASSUME new.mode \notin Stopped, NEW m \in Mailboxes, m < 56, new.mb[m].code = "rx_empty"
               PROVE  Listening(new.rx, m)
    BY DEF Listens
  <2>1. CASE m = mb
    BY <2>1
  <2>2. CASE m # mb
    <3>1. st.mode \notin Stopped /\ st.mb[m].code = "rx_empty"
      BY <2>2 DEF Boxed
    <3>2. Listening(st.rx, m)
      BY <3>1 DEF Right, Listens
    <3> QED
      BY <2>2, <3>2 DEF Boxed, Others
  <2> QED
    BY <2>1, <2>2
<1>2. Len(new.fifo) # 0 => new.mcr.fen /\ new.mb[0].code = "rx_inactive"
  <2>1. CASE mb = 0
    BY <2>1 DEF Boxed, Right
  <2>2. CASE mb # 0
    <3>1. new.mb[0] = st.mb[0]
      BY <2>2, FlexCanAssumption DEF Boxed
    <3> QED
      BY <3>1 DEF Boxed, Right
  <2> QED
    BY <2>1, <2>2
<1> QED
  BY <1>1, <1>2 DEF Boxed, Right

\* A mailbox gets a code, or a frame with its code.
LEMMA Recoded ==
  ASSUME NEW st \in FlexCANs, NEW mb \in Mailboxes, NEW c \in CODES
  PROVE  LET new == setMBCode(st, mb, c) IN
         /\ Boxed(st, new, mb) /\ new.rx = st.rx /\ new.msgAvail = st.msgAvail /\ new.alive = st.alive
         /\ new.mb[mb].code = c /\ new.mb[mb].frame = st.mb[mb].frame
<1> DEFINE box == [st.mb[mb] EXCEPT !.code = c]
           boxes == [st.mb EXCEPT ![mb] = box]
           new == [st EXCEPT !.mb = boxes]
<1>1. st.mb \in [Mailboxes -> Boxes] /\ st.mb[mb] \in Boxes
  BY CanFields
<1>2. box \in Boxes /\ box.code = c /\ box.frame = st.mb[mb].frame
  BY <1>1 DEF Boxes
<1>3. setMBCode(st, mb, c) = new
  BY DEF setMBCode
<1> HIDE DEF box
<1>4. /\ boxes \in [Mailboxes -> Boxes] /\ boxes[mb] = box
      /\ \A m \in Mailboxes \ {mb} : boxes[m] = st.mb[m]
  BY <1>1, <1>2
<1> HIDE DEF boxes
<1>5. /\ new \in FlexCANs /\ new.mb = boxes /\ new.rx = st.rx /\ new.msgAvail = st.msgAvail
      /\ new.mcr = st.mcr /\ new.mode = st.mode /\ new.not_rdy = st.not_rdy /\ new.fifo = st.fifo
      /\ new.alive = st.alive
  BY <1>4 DEF FlexCANs, Boxes
<1> HIDE DEF new
<1> QED
  BY <1>2, <1>3, <1>4, <1>5 DEF Boxed, Others

LEMMA Reframed ==
  ASSUME NEW st \in FlexCANs, NEW mb \in Mailboxes, NEW f \in Frame
  PROVE  LET new == normalRx(st, mb, f) IN
         /\ Boxed(st, new, mb) /\ new.rx = st.rx /\ new.mb[mb].frame = f
         /\ new.mb[mb].code = IF mb = 0 /\ st.mcr.fen THEN "rx_inactive" ELSE "rx_full"
         /\ st.msgAvail => new.msgAvail
         /\ mb = 0 /\ st.mcr.fen => new.msgAvail
<1> DEFINE c == IF mb = 0 /\ st.mcr.fen THEN "rx_inactive" ELSE "rx_full"
           box == [code |-> c, frame |-> f]
           boxes == [st.mb EXCEPT ![mb] = box]
           avail == st.msgAvail \/ (mb = 0 /\ st.mcr.fen)
           new == [st EXCEPT !.mb = boxes, !.msgAvail = avail]
<1>1. st.mb \in [Mailboxes -> Boxes] /\ st.msgAvail \in BOOLEAN /\ avail \in BOOLEAN
  BY CanFields
<1>2. c \in CODES
  BY DEF CODES
<1>3. normalRx(st, mb, f) = new
  <2>1. CASE mb = 0 /\ st.mcr.fen
    <3>1. avail = TRUE /\ c = "rx_inactive"
      BY <2>1
    <3> QED
      BY <2>1, <3>1 DEF normalRx
  <2>2. CASE ~ (mb = 0 /\ st.mcr.fen)
    <3>1. avail = st.msgAvail /\ c = "rx_full"
      BY <1>1, <2>2
    <3>2. normalRx(st, mb, f) = [st EXCEPT !.mb = boxes]
      BY <2>2, <3>1 DEF normalRx
    <3>3. [st EXCEPT !.mb = boxes] = [st EXCEPT !.mb = boxes, !.msgAvail = st.msgAvail]
      BY DEF FlexCANs
    <3> QED
      BY <3>1, <3>2, <3>3
  <2> QED
    BY <2>1, <2>2
<1>4. avail = TRUE <=> st.msgAvail \/ (mb = 0 /\ st.mcr.fen)
  OBVIOUS
<1> HIDE DEF avail
<1>5. box \in Boxes /\ box.code = c /\ box.frame = f
  BY <1>2 DEF Boxes
<1>6. c = IF mb = 0 /\ st.mcr.fen THEN "rx_inactive" ELSE "rx_full"
  OBVIOUS
<1> HIDE DEF box, c
<1>7. /\ boxes \in [Mailboxes -> Boxes] /\ boxes[mb] = box
      /\ \A m \in Mailboxes \ {mb} : boxes[m] = st.mb[m]
  BY <1>1, <1>5
<1> HIDE DEF boxes
<1>8. /\ new \in FlexCANs /\ new.mb = boxes /\ new.rx = st.rx /\ new.msgAvail = avail
      /\ new.mcr = st.mcr /\ new.mode = st.mode /\ new.not_rdy = st.not_rdy /\ new.fifo = st.fifo
  BY <1>1, <1>7 DEF FlexCANs, Boxes
<1> HIDE DEF new
<1> QED
  BY <1>3, <1>4, <1>5, <1>6, <1>7, <1>8 DEF Boxed, Others

\* The first of the filters that match is one of them, and so is the last.
LEMMA FirstOne ==
  ASSUME NEW q \in Seq(FilterEntries), NEW f, NEW S,
         \E i \in 1 .. Len(q) : Accepts(q[i], f) /\ q[i].mb \in S
  PROVE  FirstMatch(q, f, S) \in S
<1> DEFINE hits == {i \in 1 .. Len(q) : Accepts(q[i], f) /\ q[i].mb \in S}
           First(i) == i \in hits /\ \A j \in hits : i <= j
           first == CHOOSE i : First(i)
<1>1. hits \in SUBSET Nat /\ hits # {}
  OBVIOUS
<1>2. \A i \in hits : q[i].mb \in S
  OBVIOUS
<1>3. FirstMatch(q, f, S) = q[CHOOSE i \in hits : \A j \in hits : i <= j].mb
  BY DEF FirstMatch
<1> HIDE DEF hits
<1>4. \E i : First(i)
  BY <1>1, LeastExists
<1>5. First(first)
  BY <1>4
<1>6. (CHOOSE i \in hits : \A j \in hits : i <= j) = first
  OBVIOUS
<1> HIDE DEF first
<1> QED
  BY <1>2, <1>3, <1>5, <1>6

LEMMA LastOne ==
  ASSUME NEW q \in Seq(FilterEntries), NEW f, Matches(q, f)
  PROVE  LastMatch(q, f) \in Mailboxes
<1> DEFINE hits == {i \in 1 .. Len(q) : Accepts(q[i], f)}
           IsLast(i) == i \in hits /\ \A j \in hits : j <= i
           last == CHOOSE i : IsLast(i)
           down == {n \in 0 .. Len(q) : Len(q) - n \in hits}
<1>0. Len(q) \in Nat
  BY LenProperties
<1>1. hits \in SUBSET (1 .. Len(q)) /\ hits # {}
  BY DEF Matches
<1>2. \A i \in hits : q[i].mb \in Mailboxes
  <2>1. \A i \in 1 .. Len(q) : q[i] \in FilterEntries
    BY ElementOfSeq
  <2> QED
    BY <2>1 DEF FilterEntries
<1>3. LastMatch(q, f) = q[CHOOSE i \in hits : \A j \in hits : j <= i].mb
  BY DEF LastMatch
<1> HIDE DEF hits
<1>4. \E i : IsLast(i)
  <2>1. PICK i \in hits : TRUE
    BY <1>1
  <2>2. Len(q) - (Len(q) - i) = i /\ Len(q) - i \in 0 .. Len(q)
    BY <1>0, <1>1, <2>1
  <2>3. Len(q) - i \in down
    BY <2>1, <2>2
  <2>4. down \in SUBSET Nat /\ down # {}
    BY <1>0, <2>3
  <2>5. PICK n \in down : \A m \in down : n <= m
    <3> HIDE DEF down
    <3> QED
      BY <2>4, LeastExists
  <2>6. n \in 0 .. Len(q) /\ Len(q) - n \in hits
    OBVIOUS
  <2>7. ASSUME NEW j \in hits PROVE j <= Len(q) - n
    <3>1. j \in 1 .. Len(q) /\ Len(q) - (Len(q) - j) = j /\ Len(q) - j \in 0 .. Len(q)
      BY <1>0, <1>1
    <3>2. Len(q) - j \in down
      BY <3>1
    <3>3. n <= Len(q) - j
      <4> HIDE DEF down
      <4> QED
        BY <2>5, <3>2
    <3> QED
      BY <1>0, <2>6, <3>1, <3>3
  <2> QED
    BY <2>6, <2>7
<1>5. IsLast(last)
  BY <1>4
<1>6. (CHOOSE i \in hits : \A j \in hits : j <= i) = last
  OBVIOUS
<1> HIDE DEF last
<1> QED
  BY <1>2, <1>3, <1>5, <1>6

\* Nothing happens, but for the end of the emulator.
LEMMA ChainEnds ==
  ASSUME NEW st, Right(st)
  PROVE  Chain(st, Received(st)) /\ Chain(st, Received([st EXCEPT !.alive = FALSE]))
<1> DEFINE dead == [st EXCEPT !.alive = FALSE]
<1>1. st \in FlexCANs
  BY DEF Right
<1>2. NoFrame \in Frame
  BY DEF NoFrame, Frame
<1>3. /\ dead \in FlexCANs /\ dead.mcr = st.mcr /\ dead.mode = st.mode /\ dead.not_rdy = st.not_rdy
      /\ dead.mb = st.mb /\ dead.fifo = st.fifo /\ dead.rx = st.rx /\ dead.msgAvail = st.msgAvail
  BY <1>1 DEF FlexCANs
<1> HIDE DEF dead
<1>4. ASSUME NEW s \in FlexCANs
      PROVE  Received(s) \in Links /\ Received(s).st = s
  BY <1>2 DEF Received, Links
<1>5. Right(dead)
  BY <1>3 DEF Right, Listens
<1>6. Tells(st, dead) /\ Keeps(st, dead) /\ SameQueue(st, dead)
  BY <1>3 DEF Tells, Keeps, Unread, SameQueue
<1>7. Tells(st, st) /\ Keeps(st, st) /\ SameQueue(st, st)
  BY DEF Tells, Keeps, Unread, SameQueue
<1>8. Chain(st, Received(dead))
  BY <1>3, <1>4, <1>5, <1>6 DEF Chain
<1>9. Chain(st, Received(st))
  BY <1>1, <1>4, <1>7 DEF Chain
<1> QED
  BY <1>8, <1>9 DEF dead

\* A message to or from a mailbox that had no unread frame, and is not the FIFO's.
LEMMA ChainBoxed ==
  ASSUME NEW st, Right(st), NEW mb \in Mailboxes, NEW new, Boxed(st, new, mb), Right(new),
         st.msgAvail => new.msgAvail,
         Unread(st, mb) => Unread(new, mb) /\ new.mb[mb].frame = st.mb[mb].frame,
         mb = 0 => Len(st.fifo) = 0
  PROVE  Tells(st, new) /\ Keeps(st, new) /\ SameQueue(st, new) /\ new.mcr = st.mcr
<1>1. Tells(st, new)
  BY DEF Tells, Boxed
<1>2. Keeps(st, new)
  BY DEF Keeps, Unread, Boxed
<1>3. SameQueue(st, new)
  <2>1. CASE mb = 0
    BY <2>1 DEF SameQueue, Boxed
  <2>2. CASE mb # 0
    BY <2>2, FlexCanAssumption DEF SameQueue, Boxed
  <2> QED
    BY <2>1, <2>2
<1> QED
  BY <1>1, <1>2, <1>3 DEF Boxed

\* A new code, and then new filters.
LEMMA RecodedAndFiltered ==
  ASSUME NEW st \in FlexCANs, NEW mb \in Mailboxes, NEW s, Boxed(st, s, mb),
         NEW new, Refiltered(s, new), Others(s, new, mb)
  PROVE  Boxed(st, new, mb) /\ new.mb = s.mb /\ new.msgAvail = s.msgAvail
BY DEF Boxed, Refiltered, Others

\* The transmission of a mailbox: its code changes, and its frame stays.
LEMMA SentBoxed ==
  ASSUME NEW st \in FlexCANs, NEW mb \in Mailboxes, st.mb[mb].code \in Sends
  PROVE  LET new == Sent(st, mb) IN
         /\ Boxed(st, new, mb) /\ new.msgAvail = st.msgAvail
         /\ new.mb[mb].code = "rx_empty" => Listening(new.rx, mb)
<1>0. st.mb[mb].frame.rtr \in BOOLEAN
  BY CanFields DEF Frame
<1>1. CASE st.mb[mb].code = "tx_active" /\ st.mb[mb].frame.rtr
  <2> DEFINE s == setMBCode(st, mb, "rx_empty")
             new == filterAddRxMB(s, mb)
  <2>1. Sent(st, mb) = new
    BY <1>1 DEF Sent
  <2>2. Boxed(st, s, mb) /\ s.msgAvail = st.msgAvail
    BY Recoded DEF CODES
  <2> HIDE DEF s
  <2>3. Refiltered(s, new) /\ Others(s, new, mb) /\ Listening(new.rx, mb)
    BY <2>2, AddRx DEF Boxed
  <2> HIDE DEF new
  <2> QED
    BY <2>1, <2>2, <2>3, RecodedAndFiltered
<1>2. CASE st.mb[mb].code = "tx_active" /\ ~ st.mb[mb].frame.rtr
  <2> DEFINE s == setMBCode(st, mb, "tx_inactive")
             new == filterRemoveMB(s, mb)
  <2>1. Sent(st, mb) = new
    BY <1>2 DEF Sent
  <2>2. Boxed(st, s, mb) /\ s.msgAvail = st.msgAvail /\ s.mb[mb].code = "tx_inactive"
    BY Recoded DEF CODES
  <2> HIDE DEF s
  <2>3. Refiltered(s, new) /\ Others(s, new, mb)
    BY <2>2, RemoveMB DEF Boxed
  <2> HIDE DEF new
  <2>4. Boxed(st, new, mb) /\ new.mb = s.mb /\ new.msgAvail = s.msgAvail
    BY <2>2, <2>3, RecodedAndFiltered
  <2> QED
    BY <2>1, <2>2, <2>4
<1>3. CASE st.mb[mb].code = "tx_rtr_sending"
  <2> DEFINE s == setMBCode(st, mb, TX_RTR)
             new == filterAddRtrMB(s, mb)
  <2>1. Sent(st, mb) = new
    BY <1>3 DEF Sent
  <2>2. Boxed(st, s, mb) /\ s.msgAvail = st.msgAvail /\ s.mb[mb].code = "tx_active"
    BY Recoded DEF CODES, TX_RTR
  <2> HIDE DEF s
  <2>3. Refiltered(s, new) /\ Others(s, new, mb)
    BY <2>2, AddRtr DEF Boxed
  <2> HIDE DEF new
  <2>4. Boxed(st, new, mb) /\ new.mb = s.mb /\ new.msgAvail = s.msgAvail
    BY <2>2, <2>3, RecodedAndFiltered
  <2> QED
    BY <2>1, <2>2, <2>4
<1> QED
  BY <1>0, <1>1, <1>2, <1>3 DEF Sends

LEMMA Transmitted ==
  ASSUME NEW st, Right(st), NEW mb \in Mailboxes
  PROVE  Chain(st, normalTx(st, mb))
<1>0. st \in FlexCANs
  BY DEF Right
<1>1. CASE st.not_rdy \/ st.mb[mb].code \notin Sends
  <2>1. normalTx(st, mb) = Received([st EXCEPT !.alive = FALSE])
    BY <1>1 DEF normalTx
  <2> QED
    BY <2>1, ChainEnds
<1>2. CASE ~ (st.not_rdy \/ st.mb[mb].code \notin Sends)
  <2> DEFINE new == Sent(st, mb)
             msg == from_mb(st, mb)
             more == st.mode \in {"NORMAL", "LOOP_BACK"} /\ ~ st.mcr.srx_dis
  <2>1. normalTx(st, mb) = [st |-> new, msg |-> msg, more |-> more]
    BY <1>2 DEF normalTx
  <2>2. msg \in Frame
    <3>1. st.mb[mb].frame \in Frame
      BY <1>0, CanFields
    <3> QED
      BY <3>1 DEF from_mb, Frame
  <2>3. more \in BOOLEAN
    BY <1>0 DEF FlexCANs, Mcr
  <2>4. /\ Boxed(st, new, mb) /\ new.msgAvail = st.msgAvail
        /\ new.mb[mb].code = "rx_empty" => Listening(new.rx, mb)
    BY <1>0, <1>2, SentBoxed
  <2>5. mb = 0 => Len(st.fifo) = 0
    BY <1>2 DEF Right, Sends
  <2>6. ~ Unread(st, mb)
    BY <1>2 DEF Unread, Sends
  <2> HIDE DEF new, msg, more
  <2>7. Right(new)
    BY <2>4, <2>5, RightAgain
  <2>8. Tells(st, new) /\ Keeps(st, new) /\ SameQueue(st, new) /\ new.mcr = st.mcr
    BY <2>4, <2>5, <2>6, <2>7, ChainBoxed
  <2>9. [st |-> new, msg |-> msg, more |-> more] \in Links
    BY <2>2, <2>3, <2>7 DEF Links, Right
  <2> QED
    BY <2>1, <2>7, <2>8, <2>9 DEF Chain
<1> QED
  BY <1>1, <1>2

\* A state that is not followed by another message.
LEMMA ChainStops ==
  ASSUME NEW st, NEW new, Right(new), new.mcr = st.mcr, Tells(st, new), Keeps(st, new),
         SameQueue(st, new) \/ Enters(st, new)
  PROVE  Chain(st, Received(new))
<1>1. NoFrame \in Frame
  BY DEF NoFrame, Frame
<1>2. Received(new) \in Links /\ Received(new).st = new /\ Received(new).more = FALSE
  BY <1>1 DEF Received, Links, Right
<1> QED
  BY <1>2 DEF Chain

\* A new FIFO, with the mailboxes as they are.
LEMMA Refilled ==
  ASSUME NEW st \in FlexCANs, NEW q \in Seq(Frame \union {Placeholder})
  PROVE  LET new == [st EXCEPT !.fifo = q] IN
         /\ new \in FlexCANs /\ new.fifo = q /\ new.mb = st.mb
         /\ new.mcr = st.mcr /\ new.mode = st.mode /\ new.not_rdy = st.not_rdy
         /\ new.rx = st.rx /\ new.msgAvail = st.msgAvail
BY DEF FlexCANs

\* The FIFO's first message.
LEMMA FirstTaken ==
  ASSUME NEW st, Right(st), NEW f \in Frame, st.mcr.fen, Len(st.fifo) = 0
  PROVE  Chain(st, Received(rxFifoRecv(st, f)))
<1> DEFINE s == normalRx(st, 0, f)
           q == <<Placeholder>>
           new == [s EXCEPT !.fifo = q]
<1>0. st \in FlexCANs /\ 0 \in Mailboxes /\ st.fifo = <<>>
  BY CanFields, EmptySeq DEF Right
<1>1. rxFifoRecv(st, f) = new
  BY <1>0 DEF rxFifoRecv
<1>2. /\ Boxed(st, s, 0) /\ s.rx = st.rx /\ s.mb[0].frame = f
      /\ s.mb[0].code = "rx_inactive" /\ s.msgAvail
  BY <1>0, Reframed
<1>3. q \in Seq(Frame \union {Placeholder}) /\ Len(q) = 1 /\ q[1] = Placeholder
  OBVIOUS
<1> HIDE DEF s, q
<1>4. Right(s)
  BY <1>0, <1>2, RightAgain
<1>5. /\ new \in FlexCANs /\ new.fifo = q /\ new.mb = s.mb
      /\ new.mcr = s.mcr /\ new.mode = s.mode /\ new.not_rdy = s.not_rdy
      /\ new.rx = s.rx /\ new.msgAvail = s.msgAvail
  BY <1>3, <1>4, Refilled DEF Right
<1> HIDE DEF new
<1>6. Right(new)
  <2>0. Len(new.fifo) = 1 /\ new.fifo[1] = Placeholder
    BY <1>3, <1>5
  <2>1. Len(new.fifo) <= RxFIFO_MAX_LEN
    BY <2>0, FlexCanAssumption
  <2>2. \A i \in 1 .. Len(new.fifo) : new.fifo[i] = Placeholder <=> i = 1
    BY <2>0
  <2>3. Listens(new)
    BY <1>4, <1>5 DEF Right, Listens
  <2>4. new.not_rdy = (new.mode \in Stopped) /\ new.mcr.fen /\ new.mb[0].code = "rx_inactive"
    BY <1>2, <1>4, <1>5 DEF Right, Boxed
  <2> QED
    BY <1>5, <2>1, <2>2, <2>3, <2>4 DEF Right
<1>7. new.mcr = st.mcr /\ Tells(st, new)
  BY <1>2, <1>5 DEF Boxed, Tells
<1>8. Keeps(st, new)
  <2> SUFFICES ASSUME NEW m \in Mailboxes, Unread(st, m)
               PROVE  Unread(new, m) /\ new.mb[m].frame = st.mb[m].frame
    BY DEF Keeps
  <2>1. m # 0
    BY DEF Unread
  <2>2. new.mb[m] = st.mb[m]
    BY <1>2, <1>5, <2>1 DEF Boxed
  <2> QED
    BY <1>7, <2>2 DEF Unread
<1>9. Enters(st, new)
  BY <1>3, <1>5 DEF Enters
<1> QED
  BY <1>1, <1>6, <1>7, <1>8, <1>9, ChainStops

\* A message behind the others.
LEMMA NextTaken ==
  ASSUME NEW st, Right(st), NEW f \in Frame, Len(st.fifo) # 0, FifoTakes(st)
  PROVE  Chain(st, Received(rxFifoRecv(st, f)))
<1> DEFINE q == Append(st.fifo, f)
           n == Len(st.fifo)
           new == [st EXCEPT !.fifo = q]
<1>0. st \in FlexCANs /\ st.fifo \in Seq(Frame \union {Placeholder}) /\ n \in Nat
  BY CanFields, LenProperties DEF Right
<1>1. rxFifoRecv(st, f) = new
  BY DEF rxFifoRecv
<1>2. /\ q \in Seq(Frame \union {Placeholder}) /\ Len(q) = n + 1 /\ q[n + 1] = f
      /\ \A i \in 1 .. n : q[i] = st.fifo[i]
  BY <1>0, AppendProperties
<1>3. f # Placeholder
  BY DEF Frame, Placeholder
<1>4. n < RxFIFO_MAX_LEN /\ n # 0
  BY DEF FifoTakes
<1> HIDE DEF q
<1>5. /\ new \in FlexCANs /\ new.fifo = q /\ new.mb = st.mb
      /\ new.mcr = st.mcr /\ new.mode = st.mode /\ new.not_rdy = st.not_rdy
      /\ new.rx = st.rx /\ new.msgAvail = st.msgAvail
  BY <1>0, <1>2, Refilled
<1> HIDE DEF new
<1>6. Right(new)
  <2>1. Len(new.fifo) <= RxFIFO_MAX_LEN
    BY <1>0, <1>2, <1>4, <1>5, FlexCanAssumption
  <2>2. ASSUME NEW i \in 1 .. n + 1 PROVE q[i] = Placeholder <=> i = 1
    <3>1. CASE i = n + 1
      BY <1>0, <1>2, <1>3, <1>4, <3>1
    <3>2. CASE i # n + 1
      <4>1. i \in 1 .. n
        BY <1>0, <3>2
      <4> QED
        BY <1>2, <4>1 DEF Right
    <3> QED
      BY <3>1, <3>2
  <2>3. Listens(new)
    BY <1>5 DEF Right, Listens
  <2>4. new.not_rdy = (new.mode \in Stopped) /\ new.mcr.fen /\ new.mb[0].code = "rx_inactive"
    BY <1>5 DEF Right
  <2> QED
    BY <1>2, <1>5, <2>1, <2>2, <2>3, <2>4 DEF Right
<1>7. new.mcr = st.mcr /\ Tells(st, new) /\ Keeps(st, new)
  BY <1>5 DEF Tells, Keeps, Unread
<1>8. Enters(st, new)
  <2>1. ASSUME NEW i \in 1 .. n PROVE Message(new, i) = Message(st, i)
    BY <1>2, <1>5 DEF Message
  <2> QED
    BY <1>2, <1>5, <2>1 DEF Enters
<1> QED
  BY <1>1, <1>6, <1>7, <1>8, ChainStops

\* A mailbox that waits for a frame gets it.
LEMMA MailboxTakes ==
  ASSUME NEW st, Right(st), NEW mb \in Mailboxes, st.mb[mb].code = "rx_empty", NEW f \in Frame
  PROVE  Chain(st, Received(normalRx(st, mb, f)))
<1> DEFINE new == normalRx(st, mb, f)
<1>0. st \in FlexCANs
  BY DEF Right
<1>2. mb = 0 => Len(st.fifo) = 0
  BY DEF Right
<1>3. ~ Unread(st, mb)
  BY DEF Unread
<1>4. Boxed(st, new, mb) /\ (st.msgAvail => new.msgAvail)
  BY <1>0, Reframed
<1>5. new.mb[mb].code # "rx_empty"
  BY <1>0, Reframed
<1> HIDE DEF new
<1>6. Right(new)
  BY <1>2, <1>4, <1>5, RightAgain
<1>7. Tells(st, new) /\ Keeps(st, new) /\ SameQueue(st, new) /\ new.mcr = st.mcr
  BY <1>2, <1>3, <1>4, <1>6, ChainBoxed
<1> QED
  BY <1>6, <1>7, ChainStops DEF new

\* A frame that meets a full mailbox is lost.
LEMMA FrameLost ==
  ASSUME NEW st, Right(st), NEW f \in Frame
  PROVE  Chain(st, Received(Overrun(st, f)))
<1> DEFINE rx == st.rx[f.ide]
           mb == LastMatch(rx, f)
<1>0. st \in FlexCANs /\ f.ide \in BOOLEAN
  BY DEF Right, Frame
<1>1. CASE ~ (Matches(rx, f) /\ ~ (st.mcr.fen /\ mb = 0))
  <2>1. Overrun(st, f) = st
    BY <1>1 DEF Overrun
  <2> QED
    BY <2>1, ChainEnds
<1>2. CASE Matches(rx, f) /\ ~ (st.mcr.fen /\ mb = 0)
  <2> DEFINE new == setMBCode(st, mb, "rx_overrun")
  <2>1. Overrun(st, f) = new
    BY <1>2 DEF Overrun
  <2>2. mb \in Mailboxes
    <3>1. rx \in Seq(FilterEntries)
      BY <1>0, CanFields DEF Dicts
    <3> HIDE DEF rx
    <3> QED
      BY <1>2, <3>1, LastOne
  <2>3. mb = 0 => Len(st.fifo) = 0
    BY <1>2 DEF Right
  <2> HIDE DEF mb
  <2>4. /\ Boxed(st, new, mb) /\ new.msgAvail = st.msgAvail
        /\ new.mb[mb].code = "rx_overrun" /\ new.mb[mb].frame = st.mb[mb].frame
    BY <1>0, <2>2, Recoded DEF CODES
  <2> HIDE DEF new
  <2>5. Right(new)
    BY <2>2, <2>3, <2>4, RightAgain
  <2>6. Unread(st, mb) => Unread(new, mb) /\ new.mb[mb].frame = st.mb[mb].frame
    BY <2>4 DEF Unread, Boxed
  <2>7. Tells(st, new) /\ Keeps(st, new) /\ SameQueue(st, new) /\ new.mcr = st.mcr
    BY <2>2, <2>3, <2>4, <2>5, <2>6, ChainBoxed
  <2> QED
    BY <2>1, <2>5, <2>7, ChainStops
<1> QED
  BY <1>1, <1>2

LEMMA ReceivedOnce ==
  ASSUME NEW st, Right(st), NEW f \in Frame
  PROVE  Chain(st, receive(st, f))
<1> DEFINE rx == st.rx[f.ide]
           rtr == st.rtr[f.ide]
           empty == {mb \in Mailboxes : st.mb[mb].code = "rx_empty"}
           rxFifo == st.mcr.fen /\ f \in st.fifoFilters /\ FifoTakes(st)
           remote == f.rtr /\ Matches(rtr, f)
           waits == \E i \in 1 .. Len(rx) : Accepts(rx[i], f) /\ rx[i].mb \in empty
           boxed == IF remote THEN normalTx(st, FirstMatch(rtr, f, Mailboxes))
                    ELSE IF waits THEN Received(normalRx(st, FirstMatch(rx, f, empty), f))
                    ELSE Received(Overrun(st, f))
<1>0. st \in FlexCANs /\ f.ide \in BOOLEAN /\ st.not_rdy \in BOOLEAN
  BY CanFields DEF Right, Frame
<1>1. rx \in Seq(FilterEntries) /\ rtr \in Seq(FilterEntries)
  BY <1>0, CanFields DEF Dicts
<1>2. CASE st.not_rdy
  <2>1. receive(st, f) = Received(st)
    BY <1>2 DEF receive
  <2> QED
    BY <2>1, ChainEnds
<1>3. CASE ~ st.not_rdy /\ rxFifo
  <2>1. receive(st, f) = Received(rxFifoRecv(st, f))
    BY <1>3 DEF receive
  <2>2. st.mcr.fen /\ FifoTakes(st)
    BY <1>3
  <2> QED
    BY <2>1, <2>2, FirstTaken, NextTaken
<1>4. CASE ~ st.not_rdy /\ ~ rxFifo
  <2>1. receive(st, f) = boxed
    BY <1>4 DEF receive
  <2>2. CASE remote
    <3> DEFINE mb == FirstMatch(rtr, f, Mailboxes)
    <3>1. \E i \in 1 .. Len(rtr) : Accepts(rtr[i], f) /\ rtr[i].mb \in Mailboxes
      <4>1. \A i \in 1 .. Len(rtr) : rtr[i] \in FilterEntries
        BY <1>1, ElementOfSeq
      <4> QED
        BY <2>2, <4>1 DEF Matches, FilterEntries
    <3> HIDE DEF rtr
    <3>2. mb \in Mailboxes
      BY <1>1, <3>1, FirstOne
    <3> HIDE DEF mb
    <3>3. Chain(st, normalTx(st, mb))
      BY <3>2, Transmitted
    <3> QED
      BY <2>1, <2>2, <3>3 DEF mb
  <2>3. CASE ~ remote /\ waits
    <3> DEFINE mb == FirstMatch(rx, f, empty)
    <3>1. mb \in empty
      <4> HIDE DEF rx, empty
      <4> QED
        BY <1>1, <2>3, FirstOne
    <3> HIDE DEF mb
    <3>2. Chain(st, Received(normalRx(st, mb, f)))
      BY <3>1, MailboxTakes
    <3> QED
      BY <2>1, <2>3, <3>2 DEF mb
  <2>4. CASE ~ remote /\ ~ waits
    <3>1. boxed = Received(Overrun(st, f))
      BY <2>4
    <3> QED
      BY <2>1, <3>1, FrameLost
  <2> QED
    BY <2>2, <2>3, <2>4
<1> QED
  BY <1>0, <1>2, <1>3, <1>4

\* A message, and all those that follow it.
Moves(st, new) ==
  /\ Right(new) /\ new.mcr = st.mcr /\ Tells(st, new) /\ Keeps(st, new)
  /\ SameQueue(st, new) \/ Enters(st, new)

LEMMA ChainSettles ==
  ASSUME NEW st, NEW first, Chain(st, first)
  PROVE  Moves(st, Settled(first))
<1> DEFINE D == {d \in Links : Chain(st, d)}
           N == ChainLength
           next(d) == IF d.more THEN receive(d.st, d.msg) ELSE d
           h == [d \in D |-> next(d)]
           Run(g) == g = [n \in 0 .. N |-> IF n = 0 THEN first ELSE next(g[n - 1])]
           after == CHOOSE g : Run(g)
<1>1. N \in Nat
  <2> DEFINE lo == 0
             hi == 63
  <2>0. Mailboxes \subseteq lo .. hi /\ lo \in Int /\ hi \in Int
    BY FlexCanAssumption
  <2> HIDE DEF lo, hi
  <2>1. IsFiniteSet(lo .. hi)
    BY <2>0, FS_Interval
  <2>2. Cardinality(Mailboxes) \in Nat
    BY <2>0, <2>1, FS_Subset, FS_CardinalityType
  <2> QED
    BY <2>2 DEF ChainLength
<1>2. Settled(first) = after[N].st
  BY DEF Settled
<1>3. first \in D
  BY DEF Chain
<1>4. ASSUME NEW d \in D PROVE next(d) \in D
  <2>1. CASE d.more
    <3>1. Right(d.st) /\ d.msg \in Frame
      BY DEF Chain, Links
    <3>2. Chain(d.st, receive(d.st, d.msg))
      BY <3>1, ReceivedOnce
    <3>3. Chain(st, receive(d.st, d.msg))
      BY <2>1, <3>2, Chained
    <3>4. receive(d.st, d.msg) \in D
      BY <3>3 DEF Chain
    <3> QED
      BY <2>1, <3>4
  <2>2. CASE ~ d.more
    BY <2>2
  <2> QED
    BY <2>1, <2>2
<1> HIDE DEF D, N, next
<1>5. h \in [D -> D]
  BY <1>4
<1>6. \E g : Run(g)
  <2> HIDE DEF h
  <2>1. PICK g : IsRun(g, D, first, h, N)
    BY <1>1, <1>3, <1>5, RunExists
  <2>2. g \in [0 .. N -> D] /\ g[0] = first /\ \A k \in 1 .. N : g[k] = h[g[k - 1]]
    BY <2>1 DEF IsRun
  <2>3. ASSUME NEW k \in 0 .. N
        PROVE  g[k] = IF k = 0 THEN first ELSE next(g[k - 1])
    <3>1. CASE k = 0
      BY <2>2, <3>1
    <3>2. CASE k # 0
      <4>1. k \in 1 .. N /\ k - 1 \in 0 .. N
        BY <1>1, <3>2
      <4>2. g[k] = h[g[k - 1]] /\ g[k - 1] \in D
        BY <2>2, <4>1
      <4> QED
        BY <3>2, <4>2 DEF h
    <3> QED
      BY <3>1, <3>2
  <2>4. Run(g)
    BY <2>2, <2>3
  <2> QED
    BY <2>4
<1>7. Run(after)
  <2> HIDE DEF Run
  <2> QED
    BY <1>6
<1> HIDE DEF after
<1>8. after[0] = first /\ \A k \in 1 .. N : after[k] = next(after[k - 1])
  BY <1>1, <1>7
<1> HIDE DEF Run, h
<1>9. \A k \in 0 .. N : after[k] \in D
  <2>1. \A k \in 1 .. N : after[k - 1] \in D => after[k] \in D
    BY <1>4, <1>8
  <2> QED
    BY <1>1, <1>3, <1>8, <2>1, RunStays
<1>10. after[N] \in D
  BY <1>1, <1>9
<1>11. Chain(st, after[N])
  BY <1>10 DEF D
<1> QED
  BY <1>2, <1>11 DEF Chain, Moves

LEMMA DataProcessed ==
  ASSUME NEW st, Right(st), NEW f \in Frame
  PROVE  Moves(st, processReceivedData(st, f))
BY ReceivedOnce, ChainSettles DEF processReceivedData

-----------------------------------------------------------------------------
(* FlexCAN: the operations.                                                *)

\* The new mode: a start sets the filters.
LEMMA ModeUpdated ==
  ASSUME NEW st, NEW mcr \in Mcr, NEW ctrl \in [lom : BOOLEAN, lpb : BOOLEAN], Right(st),
         Len(st.fifo) # 0 => mcr.fen
  PROVE  LET new == updateMode([st EXCEPT !.mcr = mcr, !.ctrl = ctrl]) IN
         Right(new) /\ new.mb = st.mb /\ new.fifo = st.fifo /\ new.msgAvail = st.msgAvail
<1> DEFINE s == [st EXCEPT !.mcr = mcr, !.ctrl = ctrl]
           mode == CASE mcr.mdis -> "DISABLE"
                     [] ~ mcr.mdis /\ mcr.halt /\ mcr.frz -> "FREEZE"
                     [] ~ mcr.mdis /\ ~ (mcr.halt /\ mcr.frz) ->
                          IF ctrl.lom THEN "LISTEN_ONLY" ELSE IF ctrl.lpb THEN "LOOP_BACK" ELSE "NORMAL"
           stops == mode \in Stopped
           t == [s EXCEPT !.mode = mode, !.not_rdy = stops]
           dead == [s EXCEPT !.alive = FALSE]
<1>0. st \in FlexCANs
  BY DEF Right
<1>1. /\ s \in FlexCANs /\ s.mcr = mcr /\ s.ctrl = ctrl /\ s.mode = st.mode /\ s.not_rdy = st.not_rdy
      /\ s.mb = st.mb /\ s.fifo = st.fifo /\ s.rx = st.rx /\ s.msgAvail = st.msgAvail
  BY <1>0 DEF FlexCANs
<1>2. mode \in CanModes /\ stops \in BOOLEAN
  BY DEF CanModes, Mcr
<1>3. updateMode(s) = IF mcr.soft_rst THEN dead
                      ELSE IF mode \notin Stopped /\ s.mode \in Stopped THEN filterUpdate(t) ELSE t
  BY <1>1 DEF updateMode
<1> HIDE DEF s, mode, stops
<1>4. /\ dead \in FlexCANs /\ dead.mcr = s.mcr /\ dead.mode = s.mode /\ dead.not_rdy = s.not_rdy
      /\ dead.mb = s.mb /\ dead.fifo = s.fifo /\ dead.rx = s.rx /\ dead.msgAvail = s.msgAvail
  BY <1>1 DEF FlexCANs
<1>5. /\ t \in FlexCANs /\ t.mcr = s.mcr /\ t.mode = mode /\ t.not_rdy = stops
      /\ t.mb = s.mb /\ t.fifo = s.fifo /\ t.rx = s.rx /\ t.msgAvail = s.msgAvail
  BY <1>1, <1>2 DEF FlexCANs
<1> HIDE DEF dead, t
<1>9. stops = (mode \in Stopped)
  BY DEF stops
<1>10. Listens(st) /\ Len(s.fifo) <= RxFIFO_MAX_LEN
      /\ \A i \in 1 .. Len(s.fifo) : s.fifo[i] = Placeholder <=> i = 1
      /\ Len(s.fifo) # 0 => s.mcr.fen /\ s.mb[0].code = "rx_inactive"
  BY <1>1 DEF Right
<1>6. CASE mcr.soft_rst
  <2>0. Listens(dead)
    BY <1>1, <1>4, <1>10 DEF Listens
  <2>1. Right(dead)
    BY <1>1, <1>4, <1>10, <2>0 DEF Right
  <2> QED
    BY <1>1, <1>3, <1>4, <1>6, <2>1 DEF s
<1>7. CASE ~ mcr.soft_rst /\ mode \notin Stopped /\ s.mode \in Stopped
  <2> DEFINE new == filterUpdate(t)
  <2>1. /\ Refiltered(t, new)
        /\ \A mb \in Mailboxes : mb < 56 /\ t.mb[mb].code = "rx_empty" => Listening(new.rx, mb)
    BY <1>5, Started
  <2> HIDE DEF new
  <2>2. /\ new \in FlexCANs /\ new.mcr = mcr /\ new.mode = mode /\ new.not_rdy = (mode \in Stopped)
        /\ new.mb = st.mb /\ new.fifo = st.fifo /\ new.msgAvail = st.msgAvail
    BY <1>1, <1>5, <1>9, <2>1 DEF Refiltered
  <2>3. Listens(new)
    BY <1>1, <1>5, <2>1, <2>2 DEF Listens
  <2>4. Right(new)
    BY <1>1, <1>10, <2>2, <2>3 DEF Right
  <2>5. updateMode(s) = new
    BY <1>3, <1>7 DEF new
  <2> QED
    BY <2>2, <2>4, <2>5 DEF s
<1>8. CASE ~ mcr.soft_rst /\ ~ (mode \notin Stopped /\ s.mode \in Stopped)
  <2>1. Listens(t)
    <3>1. t.mb = st.mb /\ t.rx = st.rx
      BY <1>1, <1>5
    <3>2. t.mode \notin Stopped => st.mode \notin Stopped
      BY <1>1, <1>5, <1>8
    <3> QED
      BY <1>10, <3>1, <3>2 DEF Listens
  <2>2. Right(t)
    BY <1>1, <1>5, <1>9, <1>10, <2>1 DEF Right
  <2>3. updateMode(s) = t
    BY <1>3, <1>8
  <2> QED
    BY <1>1, <1>5, <2>2, <2>3 DEF s
<1> QED
  BY <1>6, <1>7, <1>8

\* The FIFO's messages are a sequence of frames.
LEMMA QueueTyped ==
  ASSUME NEW st, Right(st)
  PROVE  /\ Queue(st) \in Seq(Frame) /\ Len(Queue(st)) = Len(st.fifo) /\ Len(st.fifo) \in Nat
         /\ \A i \in 1 .. Len(st.fifo) : Queue(st)[i] = Message(st, i)
<1>1. st.fifo \in Seq(Frame \union {Placeholder}) /\ Len(st.fifo) \in Nat
  BY CanFields, LenProperties DEF Right
<1>2. ASSUME NEW i \in 1 .. Len(st.fifo) PROVE Message(st, i) \in Frame
  <2>1. CASE i = 1
    BY <2>1, CanFields DEF Message, Right
  <2>2. CASE i # 1
    <3>1. st.fifo[i] \in Frame \union {Placeholder}
      BY <1>1, ElementOfSeq
    <3>2. st.fifo[i] # Placeholder
      BY <2>2 DEF Right
    <3> QED
      BY <2>2, <3>1, <3>2 DEF Message
  <2> QED
    BY <2>1, <2>2
<1> DEFINE n == Len(st.fifo)
<1>3. n \in Nat /\ \A i \in 1 .. n : Message(st, i) \in Frame
  BY <1>1, <1>2
<1>4. Queue(st) = [i \in 1 .. n |-> Message(st, i)]
  BY DEF Queue
<1> HIDE DEF n
<1>5. /\ Queue(st) \in Seq(Frame) /\ Len(Queue(st)) = n
      /\ \A i \in 1 .. n : Queue(st)[i] = Message(st, i)
  BY <1>3, <1>4
<1> QED
  BY <1>1, <1>5 DEF n

\* What Flow asks of the FIFO: p before, r after, out in between.
Flows(p, out, r) ==
  LET all == out \o r IN
  /\ Len(all) \in {Len(p), Len(p) + 1}
  /\ SubSeq(all, 1, Len(p)) = p
  /\ \A i \in 1 .. Len(all) : all[i] \in Frame

LEMMA FlowsIn ==
  ASSUME NEW p \in Seq(Frame), NEW r \in Seq(Frame), Len(r) \in {Len(p), Len(p) + 1},
         \A i \in 1 .. Len(p) : r[i] = p[i]
  PROVE  Flows(p, <<>>, r)
<1>1. Len(p) \in Nat /\ Len(r) \in Nat /\ Len(p) <= Len(r)
  BY LenProperties
<1>2. <<>> \o r = r
  BY ConcatEmptySeq
<1> DEFINE u == SubSeq(r, 1, Len(p))
<1>3. u \in Seq(Frame) /\ Len(u) = Len(p) /\ \A i \in 1 .. Len(p) : u[i] = r[i]
  <2>1. \A i \in 1 .. Len(p) : r[i] \in Frame
    BY <1>1, ElementOfSeq
  <2> QED
    BY <1>1, <2>1, SubSeqProperties
<1>4. u = p
  <2> HIDE DEF u
  <2>1. \A i \in 1 .. Len(p) : u[i] = p[i]
    BY <1>3
  <2> QED
    BY <1>3, <2>1, SeqEqual
<1>5. \A i \in 1 .. Len(r) : r[i] \in Frame
  BY ElementOfSeq
<1> QED
  BY <1>2, <1>4, <1>5 DEF Flows

LEMMA FlowsOut ==
  ASSUME NEW p \in Seq(Frame), NEW r \in Seq(Frame), Len(p) # 0, Len(r) = Len(p) - 1,
         \A i \in 1 .. Len(r) : r[i] = p[i + 1]
  PROVE  Flows(p, <<p[1]>>, r)
<1>1. Len(p) \in Nat /\ Len(r) \in Nat
  BY LenProperties
<1>2. p[1] \in Frame
  BY <1>1, ElementOfSeq
<1> DEFINE o == <<p[1]>>
           all == o \o r
<1>3. o \in Seq(Frame) /\ Len(o) = 1 /\ o[1] = p[1]
  BY <1>2
<1> HIDE DEF o
<1>9. ASSUME NEW x \in Seq(Frame), NEW y \in Seq(Frame)
      PROVE  /\ x \o y \in Seq(Frame) /\ Len(x \o y) = Len(x) + Len(y)
             /\ \A i \in 1 .. Len(x) + Len(y) :
                  (x \o y)[i] = IF i <= Len(x) THEN x[i] ELSE y[i - Len(x)]
  BY ConcatProperties
<1>4. /\ all \in Seq(Frame) /\ Len(all) = Len(o) + Len(r)
      /\ \A i \in 1 .. Len(o) + Len(r) : all[i] = IF i <= Len(o) THEN o[i] ELSE r[i - Len(o)]
  BY <1>3, <1>9
<1> HIDE DEF all
<1>5. Len(all) = Len(p)
  BY <1>1, <1>3, <1>4
<1>6. ASSUME NEW i \in 1 .. Len(p) PROVE all[i] = p[i]
  <2>1. CASE i = 1
    BY <1>1, <1>3, <1>4, <2>1
  <2>2. CASE i # 1
    <3>1. i - 1 \in 1 .. Len(r) /\ (i - 1) + 1 = i /\ i \in 1 .. Len(o) + Len(r) /\ ~ (i <= Len(o))
      BY <1>1, <1>3, <2>2
    <3>2. all[i] = r[i - 1]
      BY <1>3, <1>4, <3>1
    <3> QED
      BY <3>1, <3>2
  <2> QED
    BY <2>1, <2>2
<1>7. all = p
  BY <1>4, <1>5, <1>6, SeqEqual
<1>8. SubSeq(p, 1, Len(p)) = p /\ \A i \in 1 .. Len(p) : p[i] \in Frame
  BY ElementOfSeq
<1> QED
  BY <1>7, <1>8 DEF Flows, all, o

\* What every operation but the firmware's last look at a message keeps.
Effects(st, new) ==
  Right(new) /\ Tells(st, new) /\ (SameQueue(st, new) \/ Enters(st, new))

LEMMA EffectsFlow ==
  ASSUME NEW st, NEW new, Right(st), Effects(st, new)
  PROVE  Flows(Queue(st), <<>>, Queue(new))
<1>1. /\ Queue(st) \in Seq(Frame) /\ Len(Queue(st)) = Len(st.fifo) /\ Len(st.fifo) \in Nat
      /\ \A i \in 1 .. Len(st.fifo) : Queue(st)[i] = Message(st, i)
  BY QueueTyped
<1>2. /\ Queue(new) \in Seq(Frame) /\ Len(Queue(new)) = Len(new.fifo) /\ Len(new.fifo) \in Nat
      /\ \A i \in 1 .. Len(new.fifo) : Queue(new)[i] = Message(new, i)
  BY QueueTyped DEF Effects
<1>3. /\ Len(new.fifo) \in {Len(st.fifo), Len(st.fifo) + 1}
      /\ \A i \in 1 .. Len(st.fifo) : Message(new, i) = Message(st, i)
  <2>1. CASE Enters(st, new)
    BY <2>1 DEF Enters
  <2>2. CASE SameQueue(st, new)
    <3>1. new.fifo = st.fifo
      BY <2>2 DEF SameQueue
    <3>2. ASSUME NEW i \in 1 .. Len(st.fifo) PROVE Message(new, i) = Message(st, i)
      <4>1. new.mb[0].frame = st.mb[0].frame
        BY <1>1, <2>2 DEF SameQueue
      <4> QED
        BY <3>1, <4>1 DEF Message
    <3> QED
      BY <3>1, <3>2
  <2> QED
    BY <2>1, <2>2 DEF Effects
<1>4. ASSUME NEW i \in 1 .. Len(st.fifo) PROVE Queue(new)[i] = Queue(st)[i]
  <2>1. i \in 1 .. Len(new.fifo)
    BY <1>1, <1>2, <1>3
  <2> QED
    BY <1>1, <1>2, <1>3, <2>1
<1> QED
  BY <1>1, <1>2, <1>3, <1>4, FlowsIn

CanInv ==
  /\ Right(can) /\ taken \in Seq(Frame) /\ unseen \in BOOLEAN
  /\ Len(can.fifo) # 0 => can.msgAvail \/ unseen

\* Most operations end with Step.
LEMMA StepDone ==
  ASSUME CanInv, NEW new, Effects(can, new), Step(new)
  PROVE  CanInv' /\ Fifo!FifoNext
<1>1. can' = new /\ taken' = <<>> /\ unseen' = unseen
  BY DEF Step
<1>2. Right(new) /\ Tells(can, new)
  BY DEF Effects
<1>3. Len(new.fifo) # 0 => new.msgAvail \/ unseen
  <2>1. Len(can.fifo) # 0 => can.msgAvail \/ unseen
    BY DEF CanInv
  <2> QED
    BY <1>2, <2>1 DEF Tells
<1>4. CanInv'
  <2>1. Right(can') /\ (Len(can'.fifo) # 0 => can'.msgAvail \/ unseen')
    BY <1>1, <1>2, <1>3
  <2>2. taken' \in Seq(Frame) /\ unseen' \in BOOLEAN
    BY <1>1, EmptySeq DEF CanInv
  <2> QED
    BY <2>1, <2>2 DEF CanInv
<1>5. Flows(Queue(can), <<>>, Queue(new))
  BY EffectsFlow DEF CanInv
<1>6. Messages = Queue(can) /\ Messages' = Queue(new)
  BY <1>1 DEF Messages, Queue, Message
<1> HIDE DEF Messages
<1>7. Flows(Messages, taken', Messages')
  BY <1>1, <1>5, <1>6
<1>8. Fifo!Flow
  BY <1>7 DEF Fifo!Flow, Flows
<1> QED
  BY <1>4, <1>8 DEF Fifo!FifoNext

LEMMA EffectsAfter ==
  ASSUME NEW a, NEW b, NEW c, SameQueue(a, b), a.msgAvail => b.msgAvail, Effects(b, c)
  PROVE  Effects(a, c)
<1>1. Tells(a, c)
  BY DEF Effects, Tells, SameQueue
<1>2. SameQueue(b, c) => SameQueue(a, c)
  BY DEF SameQueue
<1>3. Enters(b, c) => Enters(a, c)
  <2>1. ASSUME NEW i \in 1 .. Len(a.fifo) PROVE Message(a, i) = Message(b, i)
    <3>1. a.fifo = b.fifo /\ (Len(a.fifo) # 0 => a.mb[0].frame = b.mb[0].frame)
      BY DEF SameQueue
    <3>2. CASE Len(a.fifo) # 0
      BY <3>1, <3>2 DEF Message
    <3>3. CASE Len(a.fifo) = 0
      BY <3>3
    <3> QED
      BY <3>2, <3>3
  <2>2. a.fifo = b.fifo
    BY DEF SameQueue
  <2> QED
    BY <2>1, <2>2 DEF Enters
<1> QED
  BY <1>1, <1>2, <1>3 DEF Effects

\* The registers of a mailbox that is not the FIFO's.
Rewritten(st, mb, box) == [st EXCEPT !.mb = [st.mb EXCEPT ![mb] = box]]

LEMMA RewrittenBox ==
  ASSUME NEW st \in FlexCANs, NEW mb \in Mailboxes, NEW box \in Boxes
  PROVE  LET new == Rewritten(st, mb, box) IN
         /\ Boxed(st, new, mb) /\ new.mb[mb] = box
         /\ new.rx = st.rx /\ new.msgAvail = st.msgAvail
<1> DEFINE boxes == [st.mb EXCEPT ![mb] = box]
           new == [st EXCEPT !.mb = boxes]
<1>1. st.mb \in [Mailboxes -> Boxes]
  BY CanFields
<1>2. /\ boxes \in [Mailboxes -> Boxes] /\ boxes[mb] = box
      /\ \A m \in Mailboxes \ {mb} : boxes[m] = st.mb[m]
  BY <1>1
<1>3. Rewritten(st, mb, box) = new
  BY DEF Rewritten
<1> HIDE DEF boxes
<1>4. /\ new \in FlexCANs /\ new.mb = boxes /\ new.rx = st.rx /\ new.msgAvail = st.msgAvail
      /\ new.mcr = st.mcr /\ new.mode = st.mode /\ new.not_rdy = st.not_rdy /\ new.fifo = st.fifo
  BY <1>2 DEF FlexCANs, Boxes
<1> HIDE DEF new
<1> QED
  BY <1>2, <1>3, <1>4 DEF Boxed, Others

\* What is written to another mailbox leaves the FIFO alone.
LEMMA NotTheFifo ==
  ASSUME NEW st, Right(st), NEW mb \in Mailboxes, st.mcr.fen => mb >= 8
  PROVE  /\ mb = 0 => Len(st.fifo) = 0
         /\ \A new : Boxed(st, new, mb) => SameQueue(st, new)
<1>1. mb = 0 => Len(st.fifo) = 0
  BY DEF Right
<1>2. ASSUME NEW new, Boxed(st, new, mb) PROVE SameQueue(st, new)
  <2>1. CASE mb = 0
    BY <1>1, <1>2, <2>1 DEF SameQueue, Boxed
  <2>2. CASE mb # 0
    BY <1>2, <2>2, FlexCanAssumption DEF SameQueue, Boxed
  <2> QED
    BY <2>1, <2>2
<1> QED
  BY <1>1, <1>2

LEMMA BoxedEffects ==
  ASSUME NEW st, Right(st), NEW mb \in Mailboxes, st.mcr.fen => mb >= 8, NEW new,
         Boxed(st, new, mb), new.msgAvail = st.msgAvail,
         new.mode \notin Stopped /\ mb < 56 /\ new.mb[mb].code = "rx_empty" => Listening(new.rx, mb)
  PROVE  Right(new) /\ Effects(st, new)
<1>1. (mb = 0 => Len(st.fifo) = 0) /\ SameQueue(st, new)
  BY NotTheFifo
<1>2. Right(new)
  BY <1>1, RightAgain
<1>3. Tells(st, new)
  BY DEF Tells, Boxed
<1> QED
  BY <1>1, <1>2, <1>3 DEF Effects

LEMMA WriteIdHolds ==
  ASSUME CanInv, NEW mb \in Mailboxes, NEW f \in Written[mb], WriteId(mb, f)
  PROVE  CanInv' /\ Fifo!FifoNext
<1> DEFINE old == can.mb[mb]
           frame == [f EXCEPT !.ide = old.frame.ide, !.rtr = old.frame.rtr]
           box == [old EXCEPT !.frame = frame]
           new == Rewritten(can, mb, box)
<1>0. Right(can) /\ can \in FlexCANs
  BY DEF CanInv, Right
<1>1. old \in Boxes /\ old.frame \in Frame /\ old.code \in CODES
  BY <1>0, CanFields
<1>2. f \in Frame
  BY FlexCanAssumption
<1>3. frame \in Frame
  BY <1>1, <1>2 DEF Frame
<1>4. Step(new) /\ (can.mcr.fen => mb >= 8)
  BY DEF WriteId, Writable, Rewritten
<1> HIDE DEF frame
<1>5. box \in Boxes /\ box.code = old.code
  BY <1>1, <1>3 DEF Boxes
<1> HIDE DEF box
<1>6. Boxed(can, new, mb) /\ new.mb[mb] = box /\ new.rx = can.rx /\ new.msgAvail = can.msgAvail
  BY <1>0, <1>5, RewrittenBox
<1> HIDE DEF new
<1>7. new.mode \notin Stopped /\ mb < 56 /\ new.mb[mb].code = "rx_empty" => Listening(new.rx, mb)
  BY <1>0, <1>5, <1>6 DEF Boxed, Right, Listens
<1>8. Effects(can, new)
  BY <1>0, <1>4, <1>6, <1>7, BoxedEffects
<1> QED
  BY <1>4, <1>8, StepDone

LEMMA WriteCodeHolds ==
  ASSUME CanInv, NEW mb \in Mailboxes, NEW f \in Written[mb], NEW code \in CodeSet, WriteCode(mb, code, f)
  PROVE  CanInv' /\ Fifo!FifoNext
<1> DEFINE old == can.mb[mb]
           frame == [old.frame EXCEPT !.ide = f.ide, !.rtr = f.rtr]
           box == [code |-> code, frame |-> frame]
           st == Rewritten(can, mb, box)
           tx == Settled(normalTx(st, mb))
           add == filterAddRxMB(st, mb)
           rem == filterRemoveMB(st, mb)
<1>0. Right(can) /\ can \in FlexCANs
  BY DEF CanInv, Right
<1>1. old \in Boxes /\ old.frame \in Frame /\ code \in CODES /\ f \in Frame
  BY <1>0, CanFields, FlexCanAssumption
<1>2. frame \in Frame
  BY <1>1 DEF Frame
<1>4. can.mcr.fen => mb >= 8
  BY DEF WriteCode, Writable
<1>5. /\ code \in Sends => Step(tx)
      /\ code = "rx_empty" => Step(add)
      /\ code \notin Sends \union {"rx_empty"} => Step(rem)
  BY DEF WriteCode, Rewritten, Sends
<1> HIDE DEF frame
<1>6. box \in Boxes /\ box.code = code
  BY <1>1, <1>2 DEF Boxes
<1> HIDE DEF box
<1>7. Boxed(can, st, mb) /\ st.mb[mb] = box /\ st.rx = can.rx /\ st.msgAvail = can.msgAvail
  BY <1>0, <1>6, RewrittenBox
<1>8. st \in FlexCANs
  BY <1>7 DEF Boxed
<1> HIDE DEF st
<1>9. CASE code \in Sends
  <2>1. Right(st) /\ SameQueue(can, st)
    BY <1>0, <1>4, <1>6, <1>7, <1>9, BoxedEffects, NotTheFifo DEF Sends
  <2>2. Moves(st, tx)
    BY <2>1, Transmitted, ChainSettles
  <2>3. Effects(st, tx)
    BY <2>2 DEF Moves, Effects
  <2> HIDE DEF tx
  <2>4. Effects(can, tx)
    BY <1>7, <2>1, <2>3, EffectsAfter
  <2> QED
    BY <1>5, <1>9, <2>4, StepDone
<1>10. CASE code = "rx_empty"
  <2>1. Refiltered(st, add) /\ Others(st, add, mb) /\ Listening(add.rx, mb)
    BY <1>8, AddRx
  <2> HIDE DEF add
  <2>2. Boxed(can, add, mb) /\ add.msgAvail = can.msgAvail
    BY <1>0, <1>7, <2>1, RecodedAndFiltered
  <2>3. Effects(can, add)
    BY <1>0, <1>4, <2>1, <2>2, BoxedEffects
  <2> QED
    BY <1>5, <1>10, <2>3, StepDone
<1>11. CASE code \notin Sends \union {"rx_empty"}
  <2>1. Refiltered(st, rem) /\ Others(st, rem, mb)
    BY <1>8, RemoveMB
  <2> HIDE DEF rem
  <2>2. Boxed(can, rem, mb) /\ rem.msgAvail = can.msgAvail /\ rem.mb = st.mb
    BY <1>0, <1>7, <2>1, RecodedAndFiltered
  <2>3. rem.mb[mb].code # "rx_empty"
    BY <1>6, <1>7, <1>11, <2>2
  <2>4. Effects(can, rem)
    BY <1>0, <1>4, <2>2, <2>3, BoxedEffects
  <2> QED
    BY <1>5, <1>11, <2>4, StepDone
<1> QED
  BY <1>9, <1>10, <1>11

\* The emulator may end, and nothing else differs.
LEMMA AliveIsNoPart ==
  ASSUME NEW st, Right(st), NEW b \in BOOLEAN
  PROVE  LET new == [st EXCEPT !.alive = b] IN
         Right(new) /\ new.mb = st.mb /\ new.fifo = st.fifo /\ new.msgAvail = st.msgAvail
<1> DEFINE new == [st EXCEPT !.alive = b]
<1>1. st \in FlexCANs
  BY DEF Right
<1>2. /\ new \in FlexCANs /\ new.mcr = st.mcr /\ new.mode = st.mode /\ new.not_rdy = st.not_rdy
      /\ new.mb = st.mb /\ new.fifo = st.fifo /\ new.rx = st.rx /\ new.msgAvail = st.msgAvail
  BY <1>1 DEF FlexCANs
<1> HIDE DEF new
<1>3. Listens(new)
  BY <1>2 DEF Right, Listens
<1>4. Right(new)
  BY <1>2, <1>3 DEF Right
<1> QED
  BY <1>2, <1>4 DEF new

LEMMA NothingMoves ==
  ASSUME NEW st, NEW new, Right(new),
         new.mb = st.mb, new.fifo = st.fifo, new.msgAvail = st.msgAvail
  PROVE  Effects(st, new)
BY DEF Effects, Tells, SameQueue

LEMMA WriteMcrHolds ==
  ASSUME CanInv, NEW m \in McrSet, WriteMcr(m)
  PROVE  CanInv' /\ Fifo!FifoNext
<1> DEFINE new == updateMode([can EXCEPT !.mcr = m])
           b == new.alive /\ ~ /\ new.mode \in {"NORMAL", "LOOP_BACK"}
                               /\ can.mode \in Stopped
                               /\ \E mb \in Mailboxes : new.mb[mb].code \in Sends
           last == [new EXCEPT !.alive = b]
<1>0. Right(can) /\ can \in FlexCANs /\ m \in Mcr
  BY FlexCanAssumption DEF CanInv, Right
<1>1. Step(last) /\ KeepsFifo(m)
  BY DEF WriteMcr
<1>2. can.ctrl \in [lom : BOOLEAN, lpb : BOOLEAN]
  BY <1>0 DEF FlexCANs
<1>3. [can EXCEPT !.mcr = m] = [can EXCEPT !.mcr = m, !.ctrl = can.ctrl]
  BY <1>0 DEF FlexCANs
<1>4. Len(can.fifo) # 0 => m.fen
  <2>1. Len(can.fifo) # 0 => can.fifo # <<>>
    OBVIOUS
  <2>2. Len(can.fifo) # 0 => can.mcr.fen
    BY <1>0 DEF Right
  <2> QED
    BY <1>1, <2>1, <2>2 DEF KeepsFifo
<1> HIDE DEF b
<1>5. Right(new) /\ new.mb = can.mb /\ new.fifo = can.fifo /\ new.msgAvail = can.msgAvail
  <2> DEFINE u == updateMode([can EXCEPT !.mcr = m, !.ctrl = can.ctrl])
  <2>1. Right(u) /\ u.mb = can.mb /\ u.fifo = can.fifo /\ u.msgAvail = can.msgAvail
    BY <1>0, <1>2, <1>4, ModeUpdated
  <2>2. new = u
    BY <1>3
  <2> HIDE DEF u, new
  <2> QED
    BY <2>1, <2>2
<1> HIDE DEF new
<1>6. b \in BOOLEAN
  BY DEF b
<1>7. Right(last) /\ last.mb = new.mb /\ last.fifo = new.fifo /\ last.msgAvail = new.msgAvail
  BY <1>5, <1>6, AliveIsNoPart
<1> HIDE DEF last
<1>8. Effects(can, last)
  BY <1>5, <1>7, NothingMoves
<1> QED
  BY <1>1, <1>8, StepDone

LEMMA WriteCtrlHolds ==
  ASSUME CanInv, NEW ctrl \in CtrlSet, WriteCtrl(ctrl)
  PROVE  CanInv' /\ Fifo!FifoNext
<1> DEFINE new == updateMode([can EXCEPT !.ctrl = ctrl])
<1>0. Right(can) /\ can \in FlexCANs /\ ctrl \in [lom : BOOLEAN, lpb : BOOLEAN] /\ can.mcr \in Mcr
  BY FlexCanAssumption DEF CanInv, Right, FlexCANs
<1>1. Step(new)
  BY DEF WriteCtrl
<1>2. [can EXCEPT !.ctrl = ctrl] = [can EXCEPT !.mcr = can.mcr, !.ctrl = ctrl]
  BY <1>0 DEF FlexCANs
<1>3. Len(can.fifo) # 0 => can.mcr.fen
  BY <1>0 DEF Right
<1>4. Right(new) /\ new.mb = can.mb /\ new.fifo = can.fifo /\ new.msgAvail = can.msgAvail
  <2> DEFINE u == updateMode([can EXCEPT !.mcr = can.mcr, !.ctrl = ctrl])
  <2>1. Right(u) /\ u.mb = can.mb /\ u.fifo = can.fifo /\ u.msgAvail = can.msgAvail
    BY <1>0, <1>3, ModeUpdated
  <2>2. new = u
    BY <1>2
  <2> HIDE DEF u, new
  <2> QED
    BY <2>1, <2>2
<1> HIDE DEF new
<1>5. Effects(can, new)
  BY <1>4, NothingMoves
<1> QED
  BY <1>1, <1>5, StepDone

LEMMA ReceiveHolds ==
  ASSUME CanInv, NEW f \in Frames, Receive(f)
  PROVE  CanInv' /\ Fifo!FifoNext
<1>1. f \in Frame /\ Right(can)
  BY FlexCanAssumption DEF CanInv
<1>2. Moves(can, processReceivedData(can, f))
  BY <1>1, DataProcessed
<1>3. Effects(can, processReceivedData(can, f))
  BY <1>2 DEF Moves, Effects
<1> QED
  BY <1>3, StepDone DEF Receive

LEMMA CanResetHolds ==
  ASSUME CanInv, CanReset
  PROVE  CanInv' /\ Fifo!FifoNext
<1> DEFINE boxes == [mb \in Mailboxes |-> [code |-> "rx_inactive", frame |-> NoFrame]]
           new == AfterCanReset(can.msgAvail)
<1>1. can' = new /\ taken' = <<>> /\ unseen' = FALSE
  BY DEF CanReset
<1>2. boxes \in [Mailboxes -> [code : CODES, frame : Frame]]
  BY DEF CODES, NoFrame, Frame
<1>3. NoFilters \in Dicts /\ <<>> \in Seq(Frame \union {Placeholder})
  BY EmptySeq DEF NoFilters, Dicts
<1>4. ResetMcr \in Mcr
  BY DEF ResetMcr, Mcr
<1>5. can.msgAvail \in BOOLEAN
  BY CanFields DEF CanInv, Right
<1> HIDE DEF boxes
<1>6. new = [mcr |-> ResetMcr, ctrl |-> [lom |-> FALSE, lpb |-> FALSE], mode |-> "DISABLE",
             not_rdy |-> TRUE, mb |-> boxes, fifo |-> <<>>, fifoFilters |-> {}, rx |-> NoFilters,
             rtr |-> NoFilters, msgAvail |-> can.msgAvail, alive |-> TRUE]
  BY DEF AfterCanReset, boxes
<1>7. new \in FlexCANs /\ new.fifo = <<>> /\ new.mode = "DISABLE" /\ new.not_rdy = TRUE
  BY <1>2, <1>3, <1>4, <1>5, <1>6 DEF FlexCANs, CanModes, Dicts
<1> HIDE DEF new
<1>8. Len(new.fifo) = 0
  BY <1>7
<1>9. Right(new)
  <2>1. Listens(new) /\ new.not_rdy = (new.mode \in Stopped)
    BY <1>7 DEF Listens, Stopped
  <2>2. Len(new.fifo) <= RxFIFO_MAX_LEN /\ 1 .. Len(new.fifo) = {}
    BY <1>8, FlexCanAssumption
  <2> QED
    BY <1>7, <1>8, <2>1, <2>2 DEF Right
<1>10. CanInv'
  <2>1. Right(can') /\ (Len(can'.fifo) # 0 => can'.msgAvail \/ unseen')
    BY <1>1, <1>8, <1>9
  <2>2. taken' \in Seq(Frame) /\ unseen' \in BOOLEAN
    BY <1>1, EmptySeq
  <2> QED
    BY <2>1, <2>2 DEF CanInv
<1>11. Messages' = <<>>
  <2>1. Messages' = Queue(new)
    BY <1>1 DEF Messages, Queue, Message
  <2>2. Queue(new) \in Seq(Frame) /\ Len(Queue(new)) = 0
    BY <1>8, <1>9, QueueTyped
  <2> QED
    BY <2>1, <2>2, EmptySeq
<1> HIDE DEF Messages
<1> QED
  BY <1>1, <1>10, <1>11 DEF Fifo!Clear, Fifo!FifoNext

\* The messages after the first move up.
LEMMA PopHolds ==
  ASSUME NEW st, Right(st), Len(st.fifo) # 0
  PROVE  /\ Right(Pop(st)) /\ (Len(Pop(st).fifo) # 0 => Pop(st).msgAvail)
         /\ Flows(Queue(st), <<st.mb[0].frame>>, Queue(Pop(st)))
<1> DEFINE n == Len(st.fifo)
           new == Pop(st)
<1>0. /\ st \in FlexCANs /\ st.fifo \in Seq(Frame \union {Placeholder}) /\ n \in Nat /\ n > 0
      /\ 0 \in Mailboxes /\ st.mcr.fen
  BY CanFields, LenProperties DEF Right
<1>1. /\ Queue(st) \in Seq(Frame) /\ Len(Queue(st)) = n
      /\ \A i \in 1 .. n : Queue(st)[i] = Message(st, i)
  BY QueueTyped
<1>2. Queue(st)[1] = st.mb[0].frame
  BY <1>0, <1>1 DEF Message
<1>3. /\ Right(new) /\ (Len(new.fifo) # 0 => new.msgAvail) /\ Len(new.fifo) = n - 1
      /\ \A i \in 1 .. n - 1 : Message(new, i) = Message(st, i + 1)
  <2>1. CASE n = 1
    <3> DEFINE none == <<>>
    <3>1. none \in Seq(Frame \union {Placeholder}) /\ Len(none) = 0
      BY EmptySeq
    <3>2. new = [st EXCEPT !.fifo = none]
      BY <2>1 DEF Pop
    <3> HIDE DEF none, new
    <3> DEFINE t == [st EXCEPT !.fifo = none]
    <3>8. /\ t \in FlexCANs /\ t.fifo = none /\ t.mb = st.mb
          /\ t.mcr = st.mcr /\ t.mode = st.mode /\ t.not_rdy = st.not_rdy
          /\ t.rx = st.rx /\ t.msgAvail = st.msgAvail
      BY <1>0, <3>1, Refilled
    <3> HIDE DEF t
    <3>9. new = t
      BY <3>2 DEF t
    <3>3. /\ new \in FlexCANs /\ new.fifo = none /\ new.mb = st.mb
          /\ new.mcr = st.mcr /\ new.mode = st.mode /\ new.not_rdy = st.not_rdy
          /\ new.rx = st.rx /\ new.msgAvail = st.msgAvail
      BY <3>8, <3>9
    <3>4. Len(new.fifo) = 0 /\ 1 .. Len(new.fifo) = {}
      BY <3>1, <3>3
    <3>5. Listens(new)
      BY <3>3 DEF Right, Listens
    <3>6. Len(new.fifo) <= RxFIFO_MAX_LEN
      BY <3>4, FlexCanAssumption
    <3>7. Right(new)
      BY <3>3, <3>4, <3>5, <3>6 DEF Right
    <3> QED
      BY <2>1, <3>4, <3>7
  <2>2. CASE n # 1
    <3> DEFINE q == RemoveAt(st.fifo, 2)
               f == st.fifo[2]
               s == [st EXCEPT !.fifo = q]
    <3>0. n > 1 /\ 2 \in 1 .. n
      <4>1. n \in Nat /\ n > 0
        BY <1>0
      <4> HIDE DEF n
      <4> QED
        BY <2>2, <4>1
    <3>1. /\ q \in Seq(Frame \union {Placeholder}) /\ Len(q) = n - 1
          /\ \A i \in 1 .. n - 1 : q[i] = IF i < 2 THEN st.fifo[i] ELSE st.fifo[i + 1]
      BY <1>0, <3>0, Removed
    <3>2. f \in Frame
      <4>1. Queue(st)[2] = f /\ Queue(st)[2] \in Frame
        BY <1>1, <3>0, ElementOfSeq DEF Message
      <4> QED
        BY <4>1
    <3>3. new = normalRx(s, 0, f)
      BY <2>2 DEF Pop
    <3> HIDE DEF q, f
    <3>4. /\ s \in FlexCANs /\ s.fifo = q /\ s.mb = st.mb
          /\ s.mcr = st.mcr /\ s.mode = st.mode /\ s.not_rdy = st.not_rdy
          /\ s.rx = st.rx /\ s.msgAvail = st.msgAvail
      BY <1>0, <3>1, Refilled
    <3> HIDE DEF s
    <3>5. Right(s)
      <4>1. Len(s.fifo) = n - 1
        BY <3>1, <3>4
      <4>2. Len(s.fifo) <= RxFIFO_MAX_LEN
        BY <1>0, <4>1, FlexCanAssumption DEF Right
      <4>3. ASSUME NEW i \in 1 .. n - 1 PROVE q[i] = Placeholder <=> i = 1
        <5>1. \A j \in 1 .. n : st.fifo[j] = Placeholder <=> j = 1
          BY DEF Right
        <5>2. CASE i = 1
          BY <3>0, <3>1, <5>1, <5>2
        <5>3. CASE i # 1
          <6>1. i + 1 \in 1 .. n /\ ~ (i < 2) /\ i + 1 # 1
            BY <1>0, <5>3
          <6> QED
            BY <3>1, <5>1, <5>3, <6>1
        <5> QED
          BY <5>2, <5>3
      <4>4. Listens(s)
        BY <3>4 DEF Right, Listens
      <4>5. s.not_rdy = (s.mode \in Stopped) /\ s.mcr.fen /\ s.mb[0].code = "rx_inactive"
        BY <3>4 DEF Right
      <4> QED
        BY <3>4, <4>1, <4>2, <4>3, <4>4, <4>5 DEF Right
    <3>6. /\ Boxed(s, new, 0) /\ new.mb[0].frame = f /\ new.mb[0].code = "rx_inactive"
          /\ new.msgAvail
      BY <1>0, <3>2, <3>3, <3>4, Reframed
    <3> HIDE DEF new
    <3>7. Right(new)
      BY <1>0, <3>5, <3>6, RightAgain
    <3>8. new.fifo = q
      BY <3>4, <3>6 DEF Boxed
    <3>9. ASSUME NEW i \in 1 .. n - 1 PROVE Message(new, i) = Message(st, i + 1)
      <4>1. CASE i = 1
        <5>1. Message(new, i) = f
          BY <3>6, <4>1 DEF Message
        <5>2. Message(st, i + 1) = f
          BY <4>1 DEF Message, f
        <5> QED
          BY <5>1, <5>2
      <4>2. CASE i # 1
        <5>1. ~ (i < 2) /\ i + 1 # 1
          BY <4>2
        <5>2. q[i] = st.fifo[i + 1]
          BY <3>1, <5>1
        <5> QED
          BY <3>8, <4>2, <5>1, <5>2 DEF Message
      <4> QED
        BY <4>1, <4>2
    <3>10. Len(new.fifo) = n - 1
      BY <3>1, <3>8
    <3> QED
      BY <3>6, <3>7, <3>9, <3>10
  <2> QED
    BY <2>1, <2>2
<1> HIDE DEF new
<1>4. /\ Queue(new) \in Seq(Frame) /\ Len(Queue(new)) = n - 1
      /\ \A i \in 1 .. n - 1 : Queue(new)[i] = Message(new, i)
  <2>1. /\ Queue(new) \in Seq(Frame) /\ Len(Queue(new)) = Len(new.fifo)
        /\ \A i \in 1 .. Len(new.fifo) : Queue(new)[i] = Message(new, i)
    BY <1>3, QueueTyped
  <2>2. Len(new.fifo) = n - 1
    BY <1>3
  <2> HIDE DEF n
  <2> QED
    BY <2>1, <2>2
<1> HIDE DEF n
<1>5. ASSUME NEW i \in 1 .. n - 1 PROVE Queue(new)[i] = Queue(st)[i + 1]
  <2>1. i + 1 \in 1 .. n
    BY <1>0
  <2> QED
    BY <1>1, <1>3, <1>4, <2>1
<1>6. Len(Queue(st)) # 0 /\ Len(Queue(new)) = Len(Queue(st)) - 1
      /\ \A i \in 1 .. Len(Queue(new)) : Queue(new)[i] = Queue(st)[i + 1]
  BY <1>0, <1>1, <1>4, <1>5
<1>7. Flows(Queue(st), <<Queue(st)[1]>>, Queue(new))
  BY <1>1, <1>4, <1>6, FlowsOut
<1> QED
  BY <1>2, <1>3, <1>7 DEF new

LEMMA WriteIflagHolds ==
  ASSUME CanInv, NEW clear \in BOOLEAN, WriteIflag(clear)
  PROVE  CanInv' /\ Fifo!FifoNext
<1> DEFINE avail == can.msgAvail /\ ~ clear
           st == [can EXCEPT !.msgAvail = avail]
           pops == ~ can.not_rdy /\ can.mcr.fen /\ can.fifo # <<>> /\ ~ st.msgAvail
<1>0. /\ Right(can) /\ can \in FlexCANs /\ can.msgAvail \in BOOLEAN /\ avail \in BOOLEAN
      /\ can.fifo \in Seq(Frame \union {Placeholder}) /\ can.mb[0].frame \in Frame
  BY CanFields DEF CanInv, Right
<1>1. Len(can.fifo) # 0 <=> can.fifo # <<>>
  BY <1>0, EmptySeq
<1>2. /\ can' = IF pops THEN Pop(st) ELSE st
      /\ taken' = IF pops THEN <<can.mb[0].frame>> ELSE <<>>
      /\ unseen' = IF pops THEN FALSE ELSE unseen \/ (clear /\ can.fifo # <<>>)
  BY DEF WriteIflag
<1>3. avail = (can.msgAvail /\ ~ clear)
  OBVIOUS
<1> HIDE DEF avail
<1>4. /\ st \in FlexCANs /\ st.mcr = can.mcr /\ st.mode = can.mode /\ st.not_rdy = can.not_rdy
      /\ st.mb = can.mb /\ st.fifo = can.fifo /\ st.rx = can.rx /\ st.msgAvail = avail
  BY <1>0 DEF FlexCANs
<1> HIDE DEF st
<1>5. Right(st)
  <2>1. Listens(st)
    BY <1>0, <1>4 DEF Right, Listens
  <2> QED
    BY <1>0, <1>4, <2>1 DEF Right
<1>6. Queue(st) = Queue(can)
  BY <1>4 DEF Queue, Message
<1>7. CASE pops
  <2> DEFINE new == Pop(st)
             o == <<can.mb[0].frame>>
  <2>1. /\ Right(new) /\ (Len(new.fifo) # 0 => new.msgAvail)
        /\ Flows(Queue(st), o, Queue(new))
    <3>1. Len(st.fifo) # 0 /\ st.mb[0].frame = can.mb[0].frame
      BY <1>1, <1>4, <1>7
    <3> QED
      BY <1>5, <3>1, PopHolds
  <2>2. can' = new /\ taken' = o /\ unseen' = FALSE
    BY <1>2, <1>7
  <2>3. o \in Seq(Frame)
    BY <1>0
  <2> HIDE DEF new, o
  <2>4. CanInv'
    <3>1. Right(can') /\ (Len(can'.fifo) # 0 => can'.msgAvail \/ unseen')
      BY <2>1, <2>2
    <3> QED
      BY <2>2, <2>3, <3>1 DEF CanInv
  <2>5. Messages = Queue(can) /\ Messages' = Queue(new)
    BY <2>2 DEF Messages, Queue, Message
  <2> HIDE DEF Messages
  <2>6. Flows(Messages, taken', Messages')
    BY <1>6, <2>1, <2>2, <2>5
  <2>7. Fifo!Flow
    BY <2>6 DEF Fifo!Flow, Flows
  <2> QED
    BY <2>4, <2>7 DEF Fifo!FifoNext
<1>8. CASE ~ pops
  <2>1. can' = st /\ taken' = <<>> /\ unseen' = (unseen \/ (clear /\ can.fifo # <<>>))
    BY <1>2, <1>8
  <2>2. CanInv'
    <3>1. Len(st.fifo) # 0 => st.msgAvail \/ unseen'
      <4>1. Len(can.fifo) # 0 => can.msgAvail \/ unseen
        BY DEF CanInv
      <4>2. Len(st.fifo) # 0 => Len(can.fifo) # 0 /\ can.fifo # <<>>
        BY <1>1, <1>4
      <4> QED
        BY <1>3, <1>4, <2>1, <4>1, <4>2
    <3>2. Right(can') /\ (Len(can'.fifo) # 0 => can'.msgAvail \/ unseen')
      BY <1>5, <2>1, <3>1
    <3>3. taken' \in Seq(Frame) /\ unseen' \in BOOLEAN
      BY <2>1, EmptySeq DEF CanInv
    <3> QED
      BY <3>2, <3>3 DEF CanInv
  <2>3. Messages = Queue(can) /\ Messages' = Queue(st)
    BY <2>1 DEF Messages, Queue, Message
  <2>4. Flows(Queue(can), <<>>, Queue(can))
    <3>1. Queue(can) \in Seq(Frame)
      BY <1>0, QueueTyped
    <3> QED
      BY <3>1, FlowsIn
  <2> HIDE DEF Messages
  <2>5. Flows(Messages, taken', Messages')
    BY <1>6, <2>1, <2>3, <2>4
  <2>6. Fifo!Flow
    BY <2>5 DEF Fifo!Flow, Flows
  <2> QED
    BY <2>2, <2>6 DEF Fifo!FifoNext
<1> QED
  BY <1>7, <1>8

LEMMA EveryCanStep ==
  ASSUME CanInv, [CanNext]_canVars
  PROVE  CanInv' /\ [Fifo!FifoNext]_<<Messages, taken>>
<1>1. CASE CanReset
  BY <1>1, CanResetHolds
<1>2. ASSUME NEW f \in Frames, Receive(f) PROVE CanInv' /\ Fifo!FifoNext
  BY <1>2, ReceiveHolds
<1>3. ASSUME NEW m \in McrSet, WriteMcr(m) PROVE CanInv' /\ Fifo!FifoNext
  BY <1>3, WriteMcrHolds
<1>4. ASSUME NEW ctrl \in CtrlSet, WriteCtrl(ctrl) PROVE CanInv' /\ Fifo!FifoNext
  BY <1>4, WriteCtrlHolds
<1>5. ASSUME NEW mb \in Mailboxes, NEW f \in Written[mb], WriteId(mb, f)
      PROVE  CanInv' /\ Fifo!FifoNext
  BY <1>5, WriteIdHolds
<1>6. ASSUME NEW mb \in Mailboxes, NEW f \in Written[mb], NEW code \in CodeSet, WriteCode(mb, code, f)
      PROVE  CanInv' /\ Fifo!FifoNext
  BY <1>6, WriteCodeHolds
<1>7. ASSUME NEW clear \in BOOLEAN, WriteIflag(clear) PROVE CanInv' /\ Fifo!FifoNext
  BY <1>7, WriteIflagHolds
<1>8. CASE UNCHANGED canVars
  <2>1. can' = can /\ taken' = taken /\ unseen' = unseen
    BY <1>8 DEF canVars
  <2>2. CanInv'
    BY <2>1 DEF CanInv
  <2>3. Messages' = Messages
    BY <2>1 DEF Messages
  <2> QED
    BY <2>1, <2>2, <2>3
<1> QED
  BY <1>1, <1>2, <1>3, <1>4, <1>5, <1>6, <1>7, <1>8 DEF CanNext

LEMMA CanInitHolds == CanInit => CanInv /\ Fifo!FifoInit
<1> SUFFICES ASSUME CanInit PROVE CanInv /\ Fifo!FifoInit
  OBVIOUS
<1> DEFINE boxes == [mb \in Mailboxes |-> [code |-> "rx_inactive", frame |-> NoFrame]]
<1>1. can = AfterCanReset(FALSE) /\ taken = <<>> /\ unseen = FALSE
  BY DEF CanInit
<1>2. boxes \in [Mailboxes -> [code : CODES, frame : Frame]]
  BY DEF CODES, NoFrame, Frame
<1>3. NoFilters \in Dicts /\ <<>> \in Seq(Frame \union {Placeholder}) /\ ResetMcr \in Mcr
  BY EmptySeq DEF NoFilters, Dicts, ResetMcr, Mcr
<1> HIDE DEF boxes
<1>4. can = [mcr |-> ResetMcr, ctrl |-> [lom |-> FALSE, lpb |-> FALSE], mode |-> "DISABLE",
             not_rdy |-> TRUE, mb |-> boxes, fifo |-> <<>>, fifoFilters |-> {}, rx |-> NoFilters,
             rtr |-> NoFilters, msgAvail |-> FALSE, alive |-> TRUE]
  BY <1>1 DEF AfterCanReset, boxes
<1>5. can \in FlexCANs /\ can.fifo = <<>> /\ can.mode = "DISABLE" /\ can.not_rdy = TRUE
  BY <1>2, <1>3, <1>4 DEF FlexCANs, CanModes, Dicts
<1>6. Len(can.fifo) = 0 /\ 1 .. Len(can.fifo) = {}
  BY <1>5
<1>7. Right(can)
  <2>1. Listens(can) /\ can.not_rdy = (can.mode \in Stopped)
    BY <1>5 DEF Listens, Stopped
  <2>2. Len(can.fifo) <= RxFIFO_MAX_LEN
    BY <1>6, FlexCanAssumption
  <2> QED
    BY <1>5, <1>6, <2>1, <2>2 DEF Right
<1>8. Messages = <<>>
  <2>1. Messages = Queue(can)
    BY DEF Messages, Queue, Message
  <2>2. Queue(can) \in Seq(Frame) /\ Len(Queue(can)) = 0
    BY <1>6, <1>7, QueueTyped
  <2> QED
    BY <2>1, <2>2, EmptySeq
<1> HIDE DEF Messages
<1> QED
  BY <1>1, <1>6, <1>7, <1>8, EmptySeq DEF CanInv, Fifo!FifoInit

-----------------------------------------------------------------------------
(* FlexCAN: the theorems.                                                  *)

\* The FIFO's first message is in mailbox 0, which is then no other's, and announced;
\* and a mailbox that waits for a frame is in the filters: kept by every register
\* write and by a frame with all that follows it.
THEOREM CanInvariance == CanSpec => []CanInv
<1>1. CanInit => CanInv
  BY CanInitHolds
<1>2. CanInv /\ [CanNext]_canVars => CanInv'
  BY EveryCanStep
<1> QED
  BY <1>1, <1>2, PTL DEF CanSpec

\* A firmware that waits for the flag of the receive FIFO gets every message.
THEOREM MessagesAnnounced == CanSpec => []FifoAnnounced
<1>1. CanInv => FifoAnnounced
  <2> SUFFICES ASSUME CanInv PROVE FifoAnnounced
    OBVIOUS
  <2>1. CanTypeOK
    BY DEF CanInv, Right, CanTypeOK
  <2>2. can.fifo # <<>> => Len(can.fifo) # 0
    <3>1. can.fifo \in Seq(Frame \union {Placeholder})
      BY CanFields DEF CanInv, Right
    <3> QED
      BY <3>1, EmptySeq
  <2> QED
    BY <2>1, <2>2 DEF CanInv, FifoAnnounced
<1> QED
  BY <1>1, CanInvariance, PTL

\* A mailbox below 56 that waits for a frame is in the filters: always in those for
\* extended frames, in those for standard ones if the standard part of its identifier
\* is zero, which is what filterAddRxMB gives it (not all that its comments promise).
THEOREM EmptyMailboxesListen == CanSpec => []ReceiversListen
<1>1. CanInv => ReceiversListen
  BY DEF CanInv, Right, Listens, ReceiversListen, Waiting
<1> QED
  BY <1>1, CanInvariance, PTL

\* Mailbox 0 and the queue behind it implement the abstract FIFO, with messages from
\* the bus, from self-reception and after remote requests.
THEOREM FifoKeepsOrder == CanSpec => FifoInOrder
<1>1. CanInit => Fifo!FifoInit
  BY CanInitHolds
<1>2. CanInv /\ [CanNext]_canVars => [Fifo!FifoNext]_<<Messages, taken>>
  BY EveryCanStep
<1> QED
  BY <1>1, <1>2, CanInvariance, PTL DEF CanSpec, FifoInOrder, Fifo!FifoSpec

\* No frame, nor what a controller sends itself because of it, overwrites a mailbox
\* that the firmware has not read.
THEOREM UnreadFramesKept == CanSpec => FullIsKept
<1> DEFINE Untouched == (\E f \in Frames : Receive(f)) =>
                     \A mb \in Mailboxes :
                       can.mb[mb].code \in {"rx_full", "rx_overrun"} /\ (can.mcr.fen => mb >= 8) =>
                       can'.mb[mb].frame = can.mb[mb].frame
<1>1. CanInv => Untouched
  <2> SUFFICES ASSUME CanInv, NEW f \in Frames, Receive(f), NEW mb \in Mailboxes, Unread(can, mb)
               PROVE  can'.mb[mb].frame = can.mb[mb].frame
    BY DEF Unread
  <2>1. f \in Frame /\ Right(can)
    BY FlexCanAssumption DEF CanInv
  <2>2. Moves(can, processReceivedData(can, f))
    BY <2>1, DataProcessed
  <2>3. can' = processReceivedData(can, f)
    BY DEF Receive, Step
  <2> QED
    BY <2>2, <2>3 DEF Moves, Keeps
<1>2. CanInv => [Untouched]_canVars
  BY <1>1
<1> QED
  BY <1>2, CanInvariance, PTL DEF FullIsKept

=============================================================================

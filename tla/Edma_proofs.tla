----------------------------- MODULE Edma_proofs -----------------------------
(***************************************************************************)
(* Proofs about the DMA controller (Edma): for any number of channels, any *)
(* group size and whatever the firmware writes, a request is never         *)
(* forgotten, pending transfers keep the processing function scheduled,    *)
(* and round-robin arbitration passes a channel over a bounded number of   *)
(* times.                                                                  *)
(*                                                                         *)
(* First what the operators on priorities do (Sorted and MoveToEnd make    *)
(* orders, FirstIn picks the first), then what starting, failing and       *)
(* linking transfers do to the part of the state they change (Part), then  *)
(* the inductive invariant and one lemma per action.                       *)
(***************************************************************************)
EXTENDS Edma, FiniteSetTheorems, SequenceTheorems, WellFoundedInduction, TLAPS

-----------------------------------------------------------------------------
(* Orders of a finite set.                                                 *)

\* A set of natural numbers that is not empty has a least element.
LEMMA LeastExists ==
  ASSUME NEW T \in SUBSET Nat, T # {}
  PROVE  \E x \in T : \A y \in T : x <= y
<1> DEFINE R == OpToRel(<, Nat)
<1>1. IsWellFoundedOn(R, Nat)
  BY NatLessThanWellFounded
<1>2. R = {p \in Nat \X Nat : p[1] < p[2]}
  BY DEF OpToRel
<1> HIDE DEF R
<1>3. PICK x \in T : \A y \in T : <<y, x>> \notin R
  BY <1>1, WFMin
<1>4. ASSUME NEW y \in T PROVE x <= y
  <2> DEFINE p == <<y, x>>
  <2>1. p \in Nat \X Nat /\ p[1] = y /\ p[2] = x
    OBVIOUS
  <2>2. p \notin R
    BY <1>3
  <2> HIDE DEF p
  <2>3. ~ (p[1] < p[2])
    BY <1>2, <2>1, <2>2
  <2>4. ~ (y < x) /\ x \in Nat /\ y \in Nat
    BY <2>1, <2>3
  <2> QED
    BY <2>4
<1> QED
  BY <1>4

\* The ranks of the elements of a finite set under a priority are the places
\* 1 .. Cardinality(S), each taken once.
LEMMA RankIsBijection ==
  ASSUME NEW S \in SUBSET Nat, IsFiniteSet(S), NEW pri, \A a \in S : pri[a] \in Nat
  PROVE  /\ Cardinality(S) \in Nat
         /\ \A a \in S : Rank(a, S, pri) \in 1 .. Cardinality(S)
         /\ \A a, b \in S : Rank(a, S, pri) = Rank(b, S, pri) => a = b
         /\ \A i \in 1 .. Cardinality(S) : \E a \in S : Rank(a, S, pri) = i
<1> DEFINE n == Cardinality(S)
           before(a) == {b \in S : Precedes(b, a, pri)}
<1>1. n \in Nat /\ IsFiniteSet(1 .. n) /\ Cardinality(1 .. n) = n
  BY FS_CardinalityType, FS_Interval
<1>2. ASSUME NEW a \in S
      PROVE  /\ IsFiniteSet(before(a)) /\ Cardinality(before(a)) \in Nat
             /\ Cardinality(before(a)) < n
  <2>1. before(a) \in SUBSET S /\ a \notin before(a)
    BY DEF Precedes
  <2>2. /\ IsFiniteSet(before(a)) /\ Cardinality(before(a)) <= n
        /\ Cardinality(before(a)) # n
    BY <2>1, FS_Subset
  <2> QED
    BY <1>1, <2>2, FS_CardinalityType
<1>3. ASSUME NEW a \in S, NEW b \in S, Precedes(a, b, pri)
      PROVE  Cardinality(before(a)) < Cardinality(before(b))
  <2>1. before(a) \in SUBSET before(b)
    <3>1. \A c \in S : Precedes(c, a, pri) => Precedes(c, b, pri)
      <4>1. \A c \in S : c \in Nat /\ pri[c] \in Nat
        OBVIOUS
      <4> QED
        BY <1>3, <4>1 DEF Precedes
    <3> QED
      BY <3>1
  <2>2. a \in before(b) /\ a \notin before(a)
    BY <1>3 DEF Precedes
  <2>3. IsFiniteSet(before(b))
    BY <1>2
  <2>4. /\ Cardinality(before(a)) <= Cardinality(before(b))
        /\ Cardinality(before(a)) # Cardinality(before(b))
    BY <2>1, <2>2, <2>3, FS_Subset
  <2> QED
    BY <1>2, <2>4
<1>4. \A a, b \in S : a # b => Precedes(a, b, pri) \/ Precedes(b, a, pri)
  BY DEF Precedes
<1>5. \A a \in S : Rank(a, S, pri) = Cardinality(before(a)) + 1
  BY DEF Rank
<1> DEFINE f == [a \in S |-> Rank(a, S, pri)]
<1>6. \A a \in S : Rank(a, S, pri) \in 1 .. n
  <2> SUFFICES ASSUME NEW a \in S PROVE Rank(a, S, pri) \in 1 .. n
    OBVIOUS
  <2>1. Cardinality(before(a)) \in Nat /\ Cardinality(before(a)) < n
    BY <1>2
  <2>2. Rank(a, S, pri) = Cardinality(before(a)) + 1
    BY <1>5
  <2> HIDE DEF before, n
  <2> QED
    BY <1>1, <2>1, <2>2
<1>7. \A a, b \in S : Rank(a, S, pri) = Rank(b, S, pri) => a = b
  <2> SUFFICES ASSUME NEW a \in S, NEW b \in S, a # b
               PROVE  Rank(a, S, pri) # Rank(b, S, pri)
    OBVIOUS
  <2>1. Cardinality(before(a)) \in Nat /\ Cardinality(before(b)) \in Nat
    BY <1>2
  <2>2. \/ Cardinality(before(a)) < Cardinality(before(b))
        \/ Cardinality(before(b)) < Cardinality(before(a))
    BY <1>3, <1>4
  <2>3. /\ Rank(a, S, pri) = Cardinality(before(a)) + 1
        /\ Rank(b, S, pri) = Cardinality(before(b)) + 1
    BY <1>5
  <2> HIDE DEF before
  <2> QED
    BY <2>1, <2>2, <2>3
<1>8. f \in Injection(S, 1 .. n)
  <2>1. f \in [S -> 1 .. n] /\ \A a, b \in S : f[a] = f[b] => a = b
    BY <1>6, <1>7
  <2> HIDE DEF f, n
  <2> QED
    BY <2>1 DEF Injection, IsInjective
<1>9. f \in Surjection(S, 1 .. n)
  <2> HIDE DEF f
  <2> QED
    BY <1>1, <1>8, FS_Injection
<1>10. \A i \in 1 .. n : \E a \in S : f[a] = i
  <2> HIDE DEF f, n
  <2> QED
    BY <1>9 DEF Surjection
<1> QED
  BY <1>1, <1>6, <1>7, <1>10

\* What sorted() returns is an order of the set.
LEMMA SortedIsOrder ==
  ASSUME NEW S \in SUBSET Nat, IsFiniteSet(S), NEW pri, \A a \in S : pri[a] \in Nat
  PROVE  IsOrder(Sorted(S, pri), S)
<1> DEFINE n == Cardinality(S)
           s == Sorted(S, pri)
<1>1. /\ n \in Nat
      /\ \A a \in S : Rank(a, S, pri) \in 1 .. n
      /\ \A a, b \in S : Rank(a, S, pri) = Rank(b, S, pri) => a = b
      /\ \A i \in 1 .. n : \E a \in S : Rank(a, S, pri) = i
  BY RankIsBijection
<1>2. \A i \in 1 .. n : s[i] \in S /\ Rank(s[i], S, pri) = i
  BY <1>1 DEF Sorted
<1>3. s \in [1 .. n -> S] /\ DOMAIN s = 1 .. n
  BY <1>2 DEF Sorted
<1> HIDE DEF s, n
<1>4. \A x \in S : \E i \in 1 .. n : s[i] = x
  BY <1>1, <1>2
<1>5. \A i, j \in 1 .. n : s[i] = s[j] => i = j
  BY <1>2
<1> QED
  BY <1>3, <1>4, <1>5 DEF IsOrder, s, n

\* An order of a finite set as a sequence, and the place of an element in it.
LEMMA OrderFacts ==
  ASSUME NEW S, IsFiniteSet(S), NEW s, IsOrder(s, S)
  PROVE  /\ Cardinality(S) \in Nat /\ s \in Seq(S) /\ Len(s) = Cardinality(S)
         /\ \A x \in S : Position(s, x) \in 1 .. Len(s) /\ s[Position(s, x)] = x
         /\ \A i \in 1 .. Len(s) : s[i] \in S /\ Position(s, s[i]) = i
<1> DEFINE n == Cardinality(S)
<1>1. n \in Nat
  BY FS_CardinalityType
<1>2. s \in [1 .. n -> S] /\ DOMAIN s = 1 .. n
  BY DEF IsOrder
<1> HIDE DEF n
<1>3. s \in Seq(S) /\ Len(s) = n
  BY <1>1, <1>2
<1>4. \A x \in S : Position(s, x) \in 1 .. n /\ s[Position(s, x)] = x
  BY <1>2, <1>3 DEF IsOrder, Position
<1>5. \A i \in 1 .. n : s[i] \in S /\ Position(s, s[i]) = i
  <2> SUFFICES ASSUME NEW i \in 1 .. n PROVE s[i] \in S /\ Position(s, s[i]) = i
    OBVIOUS
  <2>1. s[i] \in S
    BY <1>2
  <2>2. Position(s, s[i]) \in 1 .. n /\ s[Position(s, s[i])] = s[i]
    BY <1>4, <2>1
  <2> QED
    BY <1>2, <2>1, <2>2 DEF IsOrder
<1> QED
  BY <1>1, <1>3, <1>4, <1>5 DEF n

\* The element that is moved takes the last place, those behind it move up by one.
LEMMA MoveToEndFacts ==
  ASSUME NEW S, IsFiniteSet(S), NEW s, IsOrder(s, S), NEW x \in S
  PROVE  LET t == MoveToEnd(s, x) IN
         /\ IsOrder(t, S)
         /\ Position(t, x) = Len(s)
         /\ \A y \in S : y # x => Position(t, y) =
              IF Position(s, y) < Position(s, x) THEN Position(s, y) ELSE Position(s, y) - 1
<1> DEFINE n == Cardinality(S)
           k == Position(s, x)
           t == MoveToEnd(s, x)
<1>1. /\ n \in Nat /\ s \in Seq(S) /\ Len(s) = n
      /\ \A y \in S : Position(s, y) \in 1 .. n /\ s[Position(s, y)] = y
      /\ \A i \in 1 .. n : s[i] \in S /\ Position(s, s[i]) = i
  BY OrderFacts
<1>2. k \in 1 .. n /\ s[k] = x
  BY <1>1
<1>3. t = [i \in 1 .. n |-> IF i < k THEN s[i] ELSE IF i < n THEN s[i + 1] ELSE x]
  BY <1>1 DEF MoveToEnd
<1> DEFINE to(y) == IF y = x THEN n
                    ELSE IF Position(s, y) < k THEN Position(s, y) ELSE Position(s, y) - 1
<1> HIDE DEF n, k, t
<1>4. \A i \in 1 .. n : t[i] = IF i < k THEN s[i] ELSE IF i < n THEN s[i + 1] ELSE x
  BY <1>3
<1>5. t \in [1 .. n -> S] /\ DOMAIN t = 1 .. n
  <2>1. ASSUME NEW i \in 1 .. n PROVE t[i] \in S
    <3>1. i < n => i + 1 \in 1 .. n
      BY <1>1
    <3> QED
      BY <1>1, <1>4, <3>1
  <2> QED
    BY <1>3, <2>1
<1>6. ASSUME NEW y \in S PROVE to(y) \in 1 .. n /\ t[to(y)] = y
  <2>1. CASE y = x
    BY <1>1, <1>2, <1>4, <2>1
  <2>2. CASE y # x
    <3> DEFINE p == Position(s, y)
    <3>1. p \in 1 .. n /\ s[p] = y /\ p # k
      BY <1>1, <1>2, <2>2
    <3>2. to(y) = IF p < k THEN p ELSE p - 1
      BY <2>2
    <3> HIDE DEF p, to
    <3>3. CASE p < k
      BY <1>4, <3>1, <3>2, <3>3
    <3>4. CASE p > k
      <4>1. to(y) = p - 1 /\ p - 1 \in 1 .. n /\ ~ (p - 1 < k) /\ p - 1 < n
        BY <1>1, <1>2, <3>1, <3>2, <3>4
      <4>2. t[p - 1] = s[p - 1 + 1] /\ p - 1 + 1 = p
        BY <1>1, <1>4, <3>1, <4>1
      <4> QED
        BY <3>1, <4>1, <4>2
    <3> QED
      BY <1>2, <3>1, <3>3, <3>4
  <2> QED
    BY <2>1, <2>2
<1>7. ASSUME NEW i \in 1 .. n, NEW j \in 1 .. n, t[i] = t[j] PROVE i = j
  <2> DEFINE from(m) == IF m < k THEN m ELSE IF m < n THEN m + 1 ELSE k
  <2>1. \A m \in 1 .. n : from(m) \in 1 .. n /\ t[m] = s[from(m)]
    BY <1>1, <1>2, <1>4
  <2>2. \A m, q \in 1 .. n : from(m) = from(q) => m = q
    BY <1>1, <1>2
  <2> HIDE DEF from
  <2>3. from(i) = from(j)
    BY <1>1, <1>7, <2>1
  <2> QED
    BY <2>2, <2>3
<1>8. IsOrder(t, S)
  <2>1. \A y \in S : \E i \in 1 .. n : t[i] = y
    BY <1>6
  <2>2. \A i, j \in 1 .. n : t[i] = t[j] => i = j
    BY <1>7
  <2> QED
    BY <1>5, <2>1, <2>2 DEF IsOrder, n
<1>9. \A i \in 1 .. n : Position(t, t[i]) = i
  BY <1>8, OrderFacts DEF n
<1>10. \A y \in S : Position(t, y) = to(y)
  BY <1>6, <1>9
<1> QED
  BY <1>1, <1>8, <1>10 DEF t, k

\* The first element of an order that is in a set.
LEMMA FirstInFacts ==
  ASSUME NEW S, IsFiniteSet(S), NEW s, IsOrder(s, S), NEW T, S \intersect T # {}
  PROVE  LET x == FirstIn(s, T) IN
         /\ x \in S /\ x \in T
         /\ \A y \in S \intersect T : y # x => Position(s, x) < Position(s, y)
<1> DEFINE ok == {i \in 1 .. Len(s) : s[i] \in T}
<1>1. /\ s \in Seq(S) /\ Len(s) \in Nat
      /\ \A x \in S : Position(s, x) \in 1 .. Len(s) /\ s[Position(s, x)] = x
      /\ \A i \in 1 .. Len(s) : s[i] \in S /\ Position(s, s[i]) = i
  BY OrderFacts
<1>2. ok \in SUBSET Nat /\ ok # {}
  BY <1>1
<1>3. PICK i \in ok : \A j \in ok : i <= j
  <2> HIDE DEF ok
  <2> QED
    BY <1>2, LeastExists
<1>4. i \in 1 .. Len(s) /\ s[i] \in T /\ \A j \in 1 .. i - 1 : s[j] \notin T
  BY <1>1, <1>3
<1> DEFINE P(m) == s[m] \in T /\ \A j \in 1 .. m - 1 : s[j] \notin T
           f == CHOOSE m \in 1 .. Len(s) : P(m)
<1>5. f \in 1 .. Len(s) /\ P(f)
  BY <1>4
<1>6. FirstIn(s, T) = s[f]
  BY DEF FirstIn
<1> HIDE DEF f, ok
<1>7. Position(s, s[f]) = f /\ s[f] \in S /\ s[f] \in T
  BY <1>1, <1>5
<1>8. ASSUME NEW y \in S \intersect T, y # s[f] PROVE f < Position(s, y)
  <2>1. Position(s, y) \in 1 .. Len(s) /\ s[Position(s, y)] = y
    BY <1>1
  <2>2. Position(s, y) # f /\ Position(s, y) \notin 1 .. f - 1
    BY <1>5, <1>8, <2>1
  <2> QED
    BY <1>1, <1>5, <2>1, <2>2
<1> QED
  BY <1>6, <1>7, <1>8

-----------------------------------------------------------------------------
(* Channels and groups.                                                    *)

LEMMA ChannelsFacts ==
  /\ NumChannels \in Nat /\ GroupSize \in Nat /\ GroupSize >= 1
  /\ Channels \in SUBSET Nat /\ Groups \in SUBSET Nat
  /\ IsFiniteSet(Channels) /\ IsFiniteSet(Groups)
  /\ \A g : Members(g) \in SUBSET Channels /\ IsFiniteSet(Members(g))
  /\ \A c \in Channels : c \div GroupSize \in Groups /\ c \in Members(c \div GroupSize)
  /\ None \notin Channels
<1>1. NumChannels \in Nat \ {0} /\ GroupSize \in Nat \ {0}
  BY EdmaAssumption
<1>2. Channels \in SUBSET Nat /\ IsFiniteSet(Channels)
  BY <1>1, FS_Interval DEF Channels
<1>3. (NumChannels - 1) \div GroupSize \in Int
  BY <1>1
<1>4. Groups \in SUBSET Nat /\ IsFiniteSet(Groups)
  BY <1>3, FS_Interval DEF Groups
<1>5. \A g : Members(g) \in SUBSET Channels /\ IsFiniteSet(Members(g))
  BY <1>2, FS_Subset DEF Members
<1>6. ASSUME NEW c \in Channels PROVE c \div GroupSize \in Groups
  <2>1. c \in Nat /\ c <= NumChannels - 1 /\ NumChannels - 1 \in Nat
    BY <1>1 DEF Channels
  <2>2. \A a, b, n \in Nat : n # 0 /\ a <= b => a \div n \in Nat /\ a \div n <= b \div n
    <3> SUFFICES ASSUME NEW a \in Nat, NEW b \in Nat, NEW n \in Nat, n # 0, a <= b
                 PROVE  a \div n \in Nat /\ a \div n <= b \div n
      OBVIOUS
    <3> DEFINE q == a \div n
               r == b \div n
    <3>1. q \in Nat /\ n * q <= a
      OBVIOUS
    <3>2. r \in Nat /\ b < n * r + n
      OBVIOUS
    <3> HIDE DEF q, r
    <3>3. n * q < n * (r + 1)
      BY <3>1, <3>2
    <3>4. ~ (q >= r + 1)
      BY <3>1, <3>2, <3>3
    <3> QED
      BY <3>1, <3>2, <3>4 DEF q, r
  <2>3. /\ c \div GroupSize \in Nat
        /\ c \div GroupSize <= (NumChannels - 1) \div GroupSize
    BY <1>1, <2>1, <2>2
  <2> DEFINE q == c \div GroupSize
             last == (NumChannels - 1) \div GroupSize
  <2>4. q \in Nat /\ last \in Int /\ q <= last
    BY <1>3, <2>3
  <2>5. Groups = 0 .. last
    BY DEF Groups
  <2> HIDE DEF q, last
  <2>6. q \in Groups
    BY <2>4, <2>5
  <2> QED
    BY <2>6 DEF q
<1>7. \A c \in Channels : c \in Members(c \div GroupSize)
  BY DEF Members
<1>8. None \notin Channels
  BY <1>1 DEF None, Channels
<1>9. GroupSize >= 1
  BY <1>1
<1> QED
  BY <1>1, <1>2, <1>4, <1>5, <1>6, <1>7, <1>8, <1>9

\* A group has no more than GroupSize channels.
LEMMA MembersBound ==
  ASSUME NEW g \in Groups
  PROVE  Cardinality(Members(g)) \in Nat /\ Cardinality(Members(g)) <= GroupSize
<1>1. /\ g \in Nat /\ GroupSize \in Nat /\ GroupSize >= 1
      /\ IsFiniteSet(Members(g)) /\ Members(g) \in SUBSET Nat
  BY ChannelsFacts
<1> DEFINE lo == GroupSize * g
           hi == GroupSize * g + GroupSize - 1
<1>2. lo \in Int /\ hi \in Int /\ hi - lo + 1 = GroupSize /\ ~ (lo > hi)
  BY <1>1
<1>3. Members(g) \in SUBSET (lo .. hi)
  <2> SUFFICES ASSUME NEW c \in Members(g) PROVE c \in lo .. hi
    OBVIOUS
  <2>1. c \in Nat /\ c \div GroupSize = g
    BY <1>1 DEF Members
  <2> QED
    BY <1>1, <2>1
<1> HIDE DEF lo, hi
<1>4. IsFiniteSet(lo .. hi) /\ Cardinality(lo .. hi) = GroupSize
  BY <1>2, FS_Interval
<1>5. Cardinality(Members(g)) <= GroupSize
  BY <1>3, <1>4, FS_Subset
<1> QED
  BY <1>1, <1>5, FS_CardinalityType

\* Both lists of priorities are orders, whatever priorities are written.
Orders ==
  {p \in [grp : Seq(Groups), ch : [Groups -> Seq(Channels)]] :
     IsOrder(p.grp, Groups) /\ \A g \in Groups : IsOrder(p.ch[g], Members(g))}

LEMMA PrioritiesAreOrders ==
  ASSUME NEW m \in Mcr, NEW cp \in [Channels -> Nat]
  PROVE  Priorities(m, cp) \in Orders
<1> DEFINE p == Priorities(m, cp)
           sg == Sorted(Groups, m.grppri)
<1>1. \A g \in Groups : m.grppri[g] \in Nat
  BY DEF Mcr
<1>2. IsOrder(sg, Groups) /\ sg \in Seq(Groups)
  <2>1. IsOrder(sg, Groups)
    BY <1>1, ChannelsFacts, SortedIsOrder
  <2> QED
    BY <2>1, ChannelsFacts, OrderFacts
<1>3. ASSUME NEW g \in Groups
      PROVE  /\ IsOrder(Sorted(Members(g), cp), Members(g))
             /\ Sorted(Members(g), cp) \in Seq(Channels)
  <2> DEFINE t == Sorted(Members(g), cp)
  <2>1. /\ Members(g) \in SUBSET Nat /\ IsFiniteSet(Members(g)) /\ Members(g) \subseteq Channels
        /\ \A c \in Members(g) : cp[c] \in Nat
    BY ChannelsFacts
  <2>2. IsOrder(t, Members(g))
    BY <2>1, SortedIsOrder
  <2>3. t \in Seq(Members(g))
    BY <2>1, <2>2, OrderFacts
  <2> HIDE DEF t
  <2>4. t \in Seq(Channels)
    BY <2>1, <2>3
  <2> QED
    BY <2>2, <2>4 DEF t
<1>4. p = [grp |-> sg, ch |-> [g \in Groups |-> Sorted(Members(g), cp)]]
  BY DEF Priorities
<1> HIDE DEF p, sg
<1>5. p.grp = sg /\ \A g \in Groups : p.ch[g] = Sorted(Members(g), cp)
  BY <1>4
<1>6. p \in [grp : Seq(Groups), ch : [Groups -> Seq(Channels)]]
  BY <1>2, <1>3, <1>4
<1>7. IsOrder(p.grp, Groups) /\ \A g \in Groups : IsOrder(p.ch[g], Members(g))
  BY <1>2, <1>3, <1>5
<1> QED
  BY <1>6, <1>7 DEF Orders, p

-----------------------------------------------------------------------------
(* Starting transfers.                                                     *)

TcdState == [conf : Tcd, start : BOOLEAN, citer : Nat]
Links == Channels \union {NoLink}
Part == [tcd : [Channels -> TcdState], pending : [Channels -> Nat],
         link : [Channels -> Links], halt : BOOLEAN, er : SUBSET Channels, irq : SUBSET Channels, queued : BOOLEAN,
         failed : SUBSET Channels]

\* A channel that has been asked for is pending, or failed, or waits for the halt's end.
Settled(d, c) == d.pending[c] # Idle \/ c \in d.failed \/ (d.halt /\ d.tcd[c].start)

\* The function that processes transfers is scheduled if one is pending.
Awake(d) == (\E c \in Channels : d.pending[c] # Idle) /\ ~d.halt => d.queued

LEMMA AcceptedCount ==
  ASSUME NEW t \in TcdState, ~Rejected(t)
  PROVE  t.citer \in Nat /\ t.citer # Idle
<1>1. t.conf \in Tcd /\ t.citer = t.conf.biter
  BY DEF TcdState, Rejected
<1>2. t.conf.biter \in Nat \ {0}
  BY <1>1 DEF Tcd
<1> QED
  BY <1>1, <1>2 DEF Idle

\* setError and addPending change the fields they name.
LEMMA SetErrorFacts ==
  ASSUME NEW d \in Part, NEW S \in SUBSET Channels, NEW m \in Mcr
  PROVE  LET e == SetError(d, S, m.hoe) IN
         /\ e \in Part
         /\ e.tcd = d.tcd /\ e.pending = d.pending /\ e.irq = d.irq /\ (e.queued <=> d.queued)
         /\ (e.halt <=> d.halt \/ (m.hoe /\ S # {})) /\ e.failed = d.failed \union S
<1>1. SetError(d, S, m.hoe) \in Part
  BY DEF Part, SetError, Mcr
<1> QED
  BY <1>1 DEF SetError, Part

LEMMA AddPendingFacts ==
  ASSUME NEW d \in Part, NEW S \in SUBSET Channels
  PROVE  LET e == AddPending(d, S) IN
         /\ e \in Part
         /\ e.tcd = d.tcd /\ e.irq = d.irq /\ (e.halt <=> d.halt)
         /\ \A c \in Channels : e.pending[c] = IF c \in S THEN d.tcd[c].citer ELSE d.pending[c]
         /\ (e.queued <=> d.queued \/ S # {}) /\ e.failed = d.failed \ S
<1>1. \A c \in Channels : d.tcd[c].citer \in Nat /\ d.tcd[c].conf.linkch \in Links
  BY DEF Part, TcdState, Tcd, Links
<1>2. AddPending(d, S) \in Part
  BY <1>1 DEF Part, AddPending
<1> QED
  BY <1>2 DEF AddPending, Part

\* What startTransfer does to the channels it is called for and to the others.
LEMMA StartAllFacts ==
  ASSUME NEW d \in Part, NEW S \in SUBSET Channels, NEW m \in Mcr
  PROVE  LET e == StartAll(d, S, m.hoe) IN
         /\ e \in Part
         /\ e.irq = d.irq
         /\ \A c \in Channels : d.pending[c] # Idle => e.pending[c] = d.pending[c]
         /\ \A c \in Channels : c \notin S => e.tcd[c] = d.tcd[c]
         /\ \A c \in S : Settled(e, c)
         /\ \A c \in Channels : Settled(d, c) => Settled(e, c)
         /\ \A c \in Channels : e.pending[c] # Idle => d.pending[c] # Idle \/ e.queued
         /\ Awake(d) => Awake(e)
<1> DEFINE new == {c \in S : d.pending[c] = Idle}
           bad == {c \in new : Rejected(d.tcd[c])}
           reached == {c \in new : ~d.halt /\ ~(m.hoe /\ \E b \in bad : b < c)}
           failing == reached \intersect bad
           good == reached \ bad
           tcds == [c \in Channels |->
                      IF c \in new THEN [d.tcd[c] EXCEPT !.start = TRUE] ELSE d.tcd[c]]
           pend == [c \in Channels |-> IF c \in good THEN tcds[c].citer ELSE d.pending[c]]
           e == StartAll(d, S, m.hoe)
<1>1. /\ e \in Part
      /\ e.tcd = tcds /\ e.pending = pend /\ (e.halt <=> d.halt \/ (m.hoe /\ failing # {}))
      /\ e.irq = d.irq /\ (e.queued <=> d.queued \/ good # {})
      /\ e.failed = (d.failed \union failing) \ good
  <2> DEFINE marked == [d EXCEPT !.tcd = [c \in Channels |->
                     IF c \in new THEN [@[c] EXCEPT !.start = TRUE] ELSE @[c]]]
             f == SetError(marked, failing, m.hoe)
  <2>1. e = AddPending(f, good)
    BY DEF StartAll
  <2>2. /\ marked \in Part
        /\ marked.tcd = tcds /\ marked.pending = d.pending /\ (marked.halt <=> d.halt)
        /\ marked.irq = d.irq /\ (marked.queued <=> d.queued) /\ marked.failed = d.failed
    <3> HIDE DEF new
    <3>1. marked \in Part
      <4> DEFINE t == [c \in Channels |->
                    IF c \in new THEN [d.tcd[c] EXCEPT !.start = TRUE] ELSE d.tcd[c]]
      <4>1. t \in [Channels -> TcdState]
        <5>1. d.tcd \in [Channels -> TcdState]
          BY DEF Part
        <5>2. ASSUME NEW c \in Channels PROVE [d.tcd[c] EXCEPT !.start = TRUE] \in TcdState
          BY <5>1 DEF TcdState
        <5> QED
          BY <5>1, <5>2
      <4>2. marked = [d EXCEPT !.tcd = t]
        OBVIOUS
      <4> HIDE DEF t, marked
      <4> QED
        BY <4>1, <4>2 DEF Part
    <3> QED
      BY <3>1 DEF Part
  <2>3. failing \in SUBSET Channels /\ good \in SUBSET Channels
    OBVIOUS
  <2> HIDE DEF tcds, marked, failing, good, e, pend
  <2>4. /\ f \in Part
        /\ f.tcd = tcds /\ f.pending = d.pending /\ f.irq = d.irq /\ (f.queued <=> d.queued)
        /\ (f.halt <=> d.halt \/ (m.hoe /\ failing # {})) /\ f.failed = d.failed \union failing
    <3>1. marked \in Part /\ failing \in SUBSET Channels /\ m \in Mcr
      BY <2>2, <2>3
    <3>2. /\ f \in Part
          /\ f.tcd = marked.tcd /\ f.pending = marked.pending /\ f.irq = marked.irq
          /\ (f.queued <=> marked.queued)
          /\ (f.halt <=> marked.halt \/ (m.hoe /\ failing # {}))
          /\ f.failed = marked.failed \union failing
      BY <3>1, SetErrorFacts
    <3> HIDE DEF f
    <3> QED
      BY <2>2, <3>2
  <2> HIDE DEF f
  <2>5. /\ e \in Part
        /\ e.tcd = tcds /\ e.irq = d.irq /\ (e.halt <=> d.halt \/ (m.hoe /\ failing # {}))
        /\ \A c \in Channels : e.pending[c] = IF c \in good THEN tcds[c].citer ELSE d.pending[c]
        /\ (e.queued <=> d.queued \/ good # {}) /\ e.failed = (d.failed \union failing) \ good
    BY <2>1, <2>3, <2>4, AddPendingFacts
  <2>6. e.pending = pend
    <3>1. e.pending \in [Channels -> Nat]
      BY <2>5 DEF Part
    <3> QED
      BY <2>5, <3>1 DEF pend
  <2> QED
    BY <2>5, <2>6
<1>2. \A c \in Channels : d.tcd[c] \in TcdState /\ d.pending[c] \in Nat
  BY DEF Part
<1>3. \A c \in Channels : /\ tcds[c] \in TcdState
                          /\ c \in new => tcds[c].start
                          /\ tcds[c].citer = d.tcd[c].citer
                          /\ d.tcd[c].start => tcds[c].start
  BY <1>2 DEF TcdState
<1>4. ASSUME NEW c \in good PROVE c \in new /\ pend[c] \in Nat /\ pend[c] # Idle
  <2>1. c \in new /\ c \in Channels /\ ~Rejected(d.tcd[c])
    OBVIOUS
  <2>2. d.tcd[c].citer \in Nat /\ d.tcd[c].citer # Idle
    BY <1>2, <2>1, AcceptedCount
  <2>3. pend[c] = tcds[c].citer
    BY <2>1
  <2> HIDE DEF pend, tcds
  <2> QED
    BY <1>3, <2>1, <2>2, <2>3
<1>5. \A c \in Channels : pend[c] \in Nat /\ (d.pending[c] # Idle => pend[c] = d.pending[c])
  BY <1>2, <1>4
<1>6. \A c \in new : c \in reached \/ d.halt \/ (m.hoe /\ bad # {})
  OBVIOUS
\* the first of those that are rejected is reached, and halts DMA
<1>7. m.hoe /\ bad # {} /\ ~d.halt => failing # {}
  <2> SUFFICES ASSUME m.hoe, bad # {}, ~d.halt PROVE failing # {}
    OBVIOUS
  <2>1. bad \in SUBSET Nat
    BY ChannelsFacts
  <2>2. PICK b \in bad : \A x \in bad : b <= x
    <3> HIDE DEF bad
    <3> QED
      BY <2>1, LeastExists
  <2>3. ~ \E x \in bad : x < b
    <3> HIDE DEF bad
    <3> QED
      BY <2>1, <2>2
  <2>4. b \in reached
    BY <2>3
  <2> QED
    BY <2>4
<1>8. ASSUME NEW c \in S PROVE Settled(e, c)
  <2>1. CASE c \notin new
    BY <1>5, <1>1, <2>1 DEF Settled
  <2>2. CASE c \in good
    BY <1>4, <1>1, <2>2 DEF Settled
  <2>3. CASE c \in failing
    <3>1. c \in e.failed
      BY <1>1, <2>3
    <3> QED
      BY <3>1 DEF Settled
  <2>4. CASE c \in new /\ c \notin reached
    <3>1. e.halt
      BY <1>1, <1>6, <1>7, <2>4
    <3>2. e.tcd[c].start
      BY <1>3, <1>1, <2>4
    <3> QED
      BY <3>1, <3>2 DEF Settled
  <2> QED
    BY <2>1, <2>2, <2>3, <2>4
<1>9. ASSUME NEW c \in Channels, Settled(d, c) PROVE Settled(e, c)
  <2>1. CASE d.pending[c] # Idle
    BY <1>5, <1>1, <2>1 DEF Settled
  <2>2. CASE c \in d.failed
    BY <1>4, <1>1, <2>2 DEF Settled
  <2>3. CASE d.halt /\ d.tcd[c].start
    <3>1. e.halt /\ e.tcd[c].start
      BY <1>3, <1>1, <2>3
    <3> QED
      BY <3>1 DEF Settled
  <2> QED
    BY <1>9, <2>1, <2>2, <2>3 DEF Settled
<1>10. ASSUME Awake(d) PROVE Awake(e)
  <2> SUFFICES ASSUME NEW c \in Channels, e.pending[c] # Idle, ~e.halt PROVE e.queued
    BY DEF Awake
  <2>1. CASE c \in good
    BY <1>1, <2>1
  <2>2. CASE c \notin good
    <3>1. d.pending[c] # Idle /\ ~d.halt
      BY <1>1, <2>2
    <3>2. d.queued
      BY <1>10, <3>1 DEF Awake
    <3> QED
      BY <1>1, <3>2
  <2> QED
    BY <2>1, <2>2
<1>11. \A c \in Channels : c \notin S => e.tcd[c] = d.tcd[c]
  BY <1>1
<1>12. \A c \in Channels : d.pending[c] # Idle => e.pending[c] = d.pending[c]
  BY <1>5, <1>1
<1>13. ASSUME NEW c \in Channels, e.pending[c] # Idle PROVE d.pending[c] # Idle \/ e.queued
  <2>1. CASE c \in good
    BY <1>1, <2>1
  <2>2. CASE c \notin good
    BY <1>1, <1>13, <2>2
  <2> QED
    BY <2>1, <2>2
<1> HIDE DEF e
<1>14. /\ \A c \in S : Settled(e, c)
       /\ \A c \in Channels : Settled(d, c) => Settled(e, c)
       /\ Awake(d) => Awake(e)
  BY <1>8, <1>9, <1>10
<1> QED
  BY <1>1, <1>13, <1>11, <1>12, <1>14 DEF e

-----------------------------------------------------------------------------
(* The inductive invariant, in two parts: the transfers, and the arbitration. *)

\* The channel that goes on without arbitration has iterations left, but for one whose
\* transfer is complete.
ActiveWaits == active # None /\ ~stale => pending[active] # Idle

Transfers ==
  /\ mcr \in Mcr /\ Now \in Part
  /\ erq \subseteq HwChannels /\ hrs \subseteq HwChannels
  /\ active \in Channels \union {None} /\ stale \in BOOLEAN /\ (stale => active # None)
  /\ Awake(Now)
  /\ \A c \in Channels : tcd[c].start \/ c \in hrs \intersect erq => Settled(Now, c)
  /\ ActiveWaits

\* Each iteration of another channel that a pending channel sits out moves it, or its
\* group, one place forward; a channel moves K places' worth, and its group at most
\* K - 1 places back with it.
GroupOf(x) == x \div GroupSize
K == Cardinality(Groups)
Distance(p, x) ==
  (Position(p.ch[GroupOf(x)], x) - 1) * K + Position(p.grp, GroupOf(x)) - 1
Arbitration ==
  /\ chpri \in [Channels -> Nat] /\ fixed \in Orders /\ rr \in Orders
  /\ passed \in [Channels -> Nat]
  /\ \A x \in Channels : passed[x] + Distance(rr, x) < K * GroupSize

IInv == Transfers /\ Arbitration

LEMMA PartIsRecord ==
  ASSUME NEW d \in Part
  PROVE  d = [tcd |-> d.tcd, pending |-> d.pending, link |-> d.link, halt |-> d.halt,
              er |-> d.er, irq |-> d.irq, queued |-> d.queued, failed |-> d.failed]
BY DEF Part

LEMMA NowFields ==
  /\ Now.tcd = tcd /\ Now.pending = pending /\ Now.halt = mcr.halt /\ Now.er = er
  /\ Now.irq = irq /\ Now.queued = queued /\ Now.failed = failed /\ Now.link = link
BY DEF Now

\* A place in a group and a place among the groups are less than K * GroupSize together.
LEMMA DistanceBound ==
  ASSUME NEW p \in Orders, NEW x \in Channels
  PROVE  /\ K \in Nat /\ K >= 1
         /\ Position(p.ch[GroupOf(x)], x) \in 1 .. GroupSize
         /\ Position(p.grp, GroupOf(x)) \in 1 .. K
         /\ Distance(p, x) \in Nat /\ Distance(p, x) < K * GroupSize
<1> DEFINE g == GroupOf(x)
           i == Position(p.ch[g], x)
           j == Position(p.grp, g)
<1>1. g \in Groups /\ x \in Members(g)
  BY ChannelsFacts DEF GroupOf
<1>2. IsOrder(p.grp, Groups) /\ IsOrder(p.ch[g], Members(g))
  BY <1>1 DEF Orders
<1>3. K \in Nat /\ j \in 1 .. K
  BY <1>1, <1>2, ChannelsFacts, OrderFacts DEF K
<1>4. i \in 1 .. Cardinality(Members(g))
  BY <1>1, <1>2, ChannelsFacts, OrderFacts
<1>5. i \in 1 .. GroupSize /\ GroupSize \in Nat
  <2> DEFINE n == Cardinality(Members(g))
  <2>1. n \in Nat /\ n <= GroupSize
    BY <1>1, MembersBound
  <2>2. GroupSize \in Nat
    BY ChannelsFacts
  <2> HIDE DEF n, i
  <2> QED
    BY <1>4, <2>1, <2>2 DEF n
<1>6. Distance(p, x) = (i - 1) * K + j - 1
  BY DEF Distance
<1> HIDE DEF i, j
<1>7. (i - 1) * K \in Nat /\ (i - 1) * K <= (GroupSize - 1) * K
  <2>1. i - 1 \in Nat /\ GroupSize - 1 \in Nat /\ i - 1 <= GroupSize - 1
    BY <1>5
  <2>2. \A a, b, k \in Nat : a <= b => a * k \in Nat /\ a * k <= b * k
    OBVIOUS
  <2> QED
    BY <1>3, <2>1, <2>2
<1>8. (GroupSize - 1) * K + K = K * GroupSize
  BY <1>3, <1>5
<1>9. (GroupSize - 1) * K \in Nat
  BY <1>3, <1>5
<1>10. Distance(p, x) \in Nat /\ Distance(p, x) < K * GroupSize
  BY <1>3, <1>6, <1>7, <1>8, <1>9
<1> QED
  BY <1>3, <1>5, <1>10 DEF i, j

\* The invariant says of the state what the properties say.
LEMMA IInvImplies ==
  ASSUME IInv
  PROVE  TypeOK /\ Scheduled /\ NoRequestForgotten /\ BoundedBypass
<1>1. Transfers /\ Arbitration
  BY DEF IInv
<1>2. /\ tcd \in [Channels -> TcdState] /\ pending \in [Channels -> Nat]
      /\ er \subseteq Channels /\ irq \subseteq Channels /\ queued \in BOOLEAN
      /\ failed \subseteq Channels /\ link \in [Channels -> Channels \union {NoLink}]
  BY <1>1, NowFields DEF Transfers, Part, Links
<1>3. TypeOK
  BY <1>1, <1>2 DEF TypeOK, Transfers, Arbitration, Orders, TcdState
<1>4. Scheduled
  <2>1. Awake(Now)
    BY <1>1 DEF Transfers
  <2> QED
    BY <1>3, <2>1, NowFields DEF Awake, Scheduled, Waiting
<1>5. NoRequestForgotten
  BY <1>1, NowFields DEF Transfers, Settled, NoRequestForgotten
<1>6. ASSUME NEW x \in Channels PROVE passed[x] < Cardinality(Groups) * GroupSize
  <2>1. passed[x] \in Nat /\ passed[x] + Distance(rr, x) < K * GroupSize
    BY <1>1 DEF Arbitration
  <2>2. Distance(rr, x) \in Nat /\ K \in Nat /\ GroupSize \in Nat
    BY <1>1, DistanceBound, ChannelsFacts DEF Arbitration
  <2> QED
    BY <2>1, <2>2 DEF K
<1> QED
  BY <1>3, <1>4, <1>5, <1>6 DEF BoundedBypass

LEMMA ArbitrationUnchanged ==
  ASSUME Arbitration, UNCHANGED <<fixed, rr, passed>>, chpri' \in [Channels -> Nat]
  PROVE  Arbitration'
BY DEF Arbitration, Distance

\* The lists are made anew and nobody has been passed over since.
LEMMA ArbitrationAnew ==
  ASSUME NEW m \in Mcr, NEW cp \in [Channels -> Nat],
         chpri' \in [Channels -> Nat], fixed' = Priorities(m, cp), rr' = fixed',
         passed' = [c \in Channels |-> 0]
  PROVE  Arbitration'
<1>1. fixed' \in Orders /\ rr' \in Orders
  BY PrioritiesAreOrders
<1>2. ASSUME NEW x \in Channels PROVE passed'[x] + Distance(rr', x) < K * GroupSize
  <2>1. Distance(rr', x) \in Nat /\ Distance(rr', x) < K * GroupSize
    BY <1>1, DistanceBound
  <2> QED
    BY <2>1
<1> QED
  BY <1>1, <1>2 DEF Arbitration

\* What an action must establish of the state it leaves for its transfers.
LEMMA TransfersBecome ==
  ASSUME NEW d \in Part, Become(d), mcr' \in Mcr, mcr'.halt = d.halt,
         erq' \subseteq HwChannels, hrs' \subseteq HwChannels,
         active' \in Channels \union {None}, stale' \in BOOLEAN, stale' => active' # None,
         Awake(d),
         \A c \in Channels : d.tcd[c].start \/ c \in hrs' \intersect erq' => Settled(d, c),
         active' # None /\ ~stale' => d.pending[active'] # Idle
  PROVE  Transfers'
<1>1. /\ tcd' = d.tcd /\ pending' = d.pending /\ link' = d.link /\ er' = d.er
      /\ irq' = d.irq /\ queued' = d.queued /\ failed' = d.failed
  BY DEF Become
<1>2. Now' = d
  <2>1. d = [tcd |-> d.tcd, pending |-> d.pending, link |-> d.link, halt |-> d.halt,
             er |-> d.er, irq |-> d.irq, queued |-> d.queued, failed |-> d.failed]
    BY PartIsRecord
  <2>2. d = [tcd |-> tcd', pending |-> pending', link |-> link', halt |-> mcr'.halt,
             er |-> er', irq |-> irq', queued |-> queued', failed |-> failed']
    BY <1>1, <2>1, Zenon
  <2> QED
    BY <2>2, Zenon DEF Now
<1>3. Now' \in Part /\ Awake(Now')
  BY <1>2
<1>4. \A c \in Channels : tcd'[c].start \/ c \in hrs' \intersect erq' => Settled(Now', c)
  BY <1>1, <1>2
<1>5. active' # None /\ ~stale' => pending'[active'] # Idle
  BY <1>1
<1> QED
  BY <1>3, <1>4, <1>5 DEF Transfers, ActiveWaits

\* DMA may be halted by an error, nothing else of MCR changes.
LEMMA McrAfter ==
  ASSUME Transfers, NEW d \in Part, mcr' = [mcr EXCEPT !.halt = d.halt]
  PROVE  mcr' \in Mcr /\ mcr'.halt = d.halt
BY DEF Transfers, Part, Mcr

\* The handlers of requests.
LEMMA HandledInv ==
  ASSUME IInv, NEW d \in Part, Handled(d),
         erq' \subseteq HwChannels, hrs' \subseteq HwChannels, Awake(d),
         \A c \in Channels : d.tcd[c].start \/ c \in hrs' \intersect erq' => Settled(d, c),
         \A c \in Channels : pending[c] # Idle => d.pending[c] # Idle
  PROVE  IInv'
<1>1. /\ Become(d) /\ mcr' = [mcr EXCEPT !.halt = d.halt]
      /\ UNCHANGED <<chpri, fixed, rr, active, stale, passed>>
  BY DEF Handled, BecomeAll
<1>2. Transfers /\ Arbitration
  BY DEF IInv
<1>3. mcr' \in Mcr /\ mcr'.halt = d.halt
  BY <1>1, <1>2, McrAfter
<1>4. /\ active' \in Channels \union {None} /\ stale' \in BOOLEAN /\ (stale' => active' # None)
      /\ active' # None /\ ~stale' => d.pending[active'] # Idle
  BY <1>1, <1>2 DEF Transfers, ActiveWaits
<1>5. Transfers'
  BY <1>1, <1>3, <1>4, TransfersBecome
<1>6. Arbitration'
  BY <1>1, <1>2, ArbitrationUnchanged DEF Arbitration
<1> QED
  BY <1>5, <1>6 DEF IInv

-----------------------------------------------------------------------------
(* Reset, and the handlers of requests and writes.                         *)

LEMMA ResetValues ==
  /\ ResetMcr \in Mcr /\ ResetMcr.halt = FALSE /\ ResetChpri \in [Channels -> Nat]
  /\ \A c \in Channels : ResetTcd(c) \in TcdState /\ ~ResetTcd(c).start
<1>1. Channels \in SUBSET Nat /\ Groups \in SUBSET Nat /\ NumChannels \in Nat
  BY ChannelsFacts
<1>2. ResetMcr \in Mcr /\ ResetMcr.halt = FALSE
  BY <1>1 DEF ResetMcr, Mcr
<1>3. ResetChpri \in [Channels -> Nat]
  BY <1>1 DEF ResetChpri
<1>4. \A c \in Channels : ResetTcd(c) \in TcdState /\ ~ResetTcd(c).start
  BY <1>1 DEF ResetTcd, TcdState, Tcd, NoLink
<1> QED
  BY <1>2, <1>3, <1>4

LEMMA InitInv == Init => IInv
<1> SUFFICES ASSUME Init PROVE IInv
  OBVIOUS
<1>1. /\ mcr \in Mcr /\ mcr.halt = FALSE /\ chpri \in [Channels -> Nat]
      /\ tcd \in [Channels -> TcdState] /\ \A c \in Channels : ~tcd[c].start
  BY ResetValues DEF Init
<1>2. /\ pending = [c \in Channels |-> Idle] /\ erq = {} /\ hrs = {} /\ er = {} /\ irq = {}
      /\ active = None /\ stale = FALSE /\ queued = FALSE /\ failed = {}
      /\ passed = [c \in Channels |-> 0] /\ link = [c \in Channels |-> NoLink]
  BY DEF Init
<1>3. Now \in Part
  <2>1. pending \in [Channels -> Nat] /\ link \in [Channels -> Links]
    BY <1>2 DEF Idle, Links
  <2> QED
    BY <1>1, <1>2, <2>1 DEF Now, Part
<1>4. Awake(Now)
  BY <1>2, NowFields DEF Awake
<1>5. Transfers
  BY <1>1, <1>2, <1>3, <1>4 DEF Transfers, ActiveWaits
<1>6. fixed = Priorities(ResetMcr, ResetChpri) /\ rr = fixed
  BY DEF Init
<1>7. fixed \in Orders /\ rr \in Orders
  BY <1>6, ResetValues, PrioritiesAreOrders
<1>8. ASSUME NEW x \in Channels PROVE passed[x] + Distance(rr, x) < K * GroupSize
  <2>1. Distance(rr, x) \in Nat /\ Distance(rr, x) < K * GroupSize
    BY <1>7, DistanceBound
  <2> QED
    BY <1>2, <2>1
<1>9. passed \in [Channels -> Nat]
  BY <1>2
<1> QED
  BY <1>1, <1>5, <1>7, <1>8, <1>9 DEF IInv, Arbitration

LEMMA ResetInv ==
  ASSUME IInv, Reset
  PROVE  IInv'
<1>1. /\ mcr' \in Mcr /\ mcr'.halt = FALSE /\ chpri' \in [Channels -> Nat]
      /\ tcd' \in [Channels -> TcdState] /\ \A c \in Channels : ~tcd'[c].start
  BY ResetValues DEF Reset
<1>2. /\ pending' = [c \in Channels |-> Idle] /\ erq' = {} /\ hrs' = {} /\ er' = er /\ irq' = {}
      /\ active' = None /\ stale' = FALSE /\ queued' = FALSE /\ failed' = {}
      /\ passed' = [c \in Channels |-> 0] /\ link' = [c \in Channels |-> NoLink]
  BY DEF Reset
<1>3. er \subseteq Channels
  BY NowFields DEF IInv, Transfers, Part
<1> DEFINE d == [tcd |-> tcd', pending |-> pending', link |-> link', halt |-> FALSE,
                 er |-> er', irq |-> irq', queued |-> FALSE, failed |-> failed']
<1>4. d \in Part
  <2>1. pending' \in [Channels -> Nat] /\ link' \in [Channels -> Links]
    BY <1>2 DEF Idle, Links
  <2> QED
    BY <1>1, <1>2, <1>3, <2>1 DEF Part
<1>5. /\ Become(d) /\ d.halt = FALSE /\ d.tcd = tcd' /\ d.pending = pending'
  BY <1>2 DEF Become
<1>6. Awake(d)
  BY <1>2, <1>5 DEF Awake
<1> HIDE DEF d
<1>7. Transfers'
  BY <1>1, <1>2, <1>4, <1>5, <1>6, TransfersBecome
<1>8. fixed' = Priorities(ResetMcr, ResetChpri) /\ rr' = fixed'
  BY DEF Reset
<1>9. Arbitration'
  BY <1>1, <1>2, <1>8, ResetValues, ArbitrationAnew
<1> QED
  BY <1>7, <1>9 DEF IInv

\* What the invariant gives the handlers.
LEMMA InvNow ==
  ASSUME IInv
  PROVE  /\ Now \in Part /\ Awake(Now) /\ mcr \in Mcr /\ mcr.hoe \in BOOLEAN
         /\ erq \subseteq HwChannels /\ hrs \subseteq HwChannels /\ HwChannels \subseteq Channels
         /\ \A c \in Channels : Now.tcd[c].start \/ c \in hrs \intersect erq => Settled(Now, c)
         /\ \A c \in Channels : pending[c] # Idle => Now.pending[c] # Idle
<1>1. Transfers
  BY DEF IInv
<1>2. mcr \in Mcr /\ mcr.hoe \in BOOLEAN
  BY <1>1 DEF Transfers, Mcr
<1> QED
  BY <1>1, <1>2, NowFields, EdmaAssumption DEF Transfers

\* A handler that starts the channels S, and makes no request of any other.
LEMMA StartingInv ==
  ASSUME IInv, NEW d \in Part, NEW S \in SUBSET Channels,
         Handled(StartAll(d, S, mcr.hoe)),
         erq' \subseteq HwChannels, hrs' \subseteq HwChannels, Awake(d),
         \A c \in Channels : c \notin S /\ (d.tcd[c].start \/ c \in hrs' \intersect erq') => Settled(d, c),
         \A c \in Channels : pending[c] # Idle => d.pending[c] # Idle
  PROVE  IInv'
<1> DEFINE e == StartAll(d, S, mcr.hoe)
<1>1. mcr \in Mcr
  BY InvNow
<1>2. /\ e \in Part /\ Awake(e)
      /\ \A c \in Channels : d.pending[c] # Idle => e.pending[c] = d.pending[c]
      /\ \A c \in Channels : c \notin S => e.tcd[c] = d.tcd[c]
      /\ \A c \in S : Settled(e, c)
      /\ \A c \in Channels : Settled(d, c) => Settled(e, c)
  BY <1>1, StartAllFacts
<1>3. Handled(e)
  OBVIOUS
<1> HIDE DEF e
<1>4. ASSUME NEW c \in Channels, e.tcd[c].start \/ c \in hrs' \intersect erq'
      PROVE  Settled(e, c)
  <2>1. CASE c \in S
    BY <1>2, <2>1
  <2>2. CASE c \notin S
    <3>1. e.tcd[c] = d.tcd[c]
      BY <1>2, <2>2
    <3>2. Settled(d, c)
      BY <1>4, <2>2, <3>1
    <3> QED
      BY <1>2, <3>2
  <2> QED
    BY <2>1, <2>2
<1>5. \A c \in Channels : pending[c] # Idle => e.pending[c] # Idle
  BY <1>2
<1> QED
  BY <1>2, <1>3, <1>4, <1>5, HandledInv

LEMMA DmaRequestInv ==
  ASSUME IInv, NEW c \in HwChannels, DmaRequest(c)
  PROVE  IInv'
<1>1. /\ hrs' = hrs \union {c} /\ erq' = erq
      /\ Handled(IF c \in erq THEN StartAll(Now, {c}, mcr.hoe) ELSE Now)
  BY DEF DmaRequest, StartTransfer
<1>2. CASE c \in erq
  <2>1. Handled(StartAll(Now, {c}, mcr.hoe)) /\ {c} \in SUBSET Channels
    BY <1>1, <1>2, InvNow
  <2> QED
    BY <1>1, <2>1, InvNow, StartingInv
<1>3. CASE c \notin erq
  <2>1. Handled(Now) /\ hrs' \intersect erq' = hrs \intersect erq
    BY <1>1, <1>3
  <2> QED
    BY <1>1, <2>1, InvNow, HandledInv
<1> QED
  BY <1>2, <1>3

LEMMA WriteErqInv ==
  ASSUME IInv, NEW S \in SUBSET HwChannels, WriteErq(S)
  PROVE  IInv'
<1> DEFINE N == (S \ erq) \intersect hrs
<1>1. /\ erq' = S /\ hrs' = hrs /\ Handled(StartAll(Now, N, mcr.hoe))
  BY DEF WriteErq
<1>2. N \in SUBSET Channels /\ erq' \subseteq HwChannels
  BY <1>1, InvNow
<1>3. \A c \in Channels : c \notin N /\ c \in hrs' \intersect erq' => c \in hrs \intersect erq
  BY <1>1
<1> HIDE DEF N
<1> QED
  BY <1>1, <1>2, <1>3, InvNow, StartingInv

LEMMA SetErqInv ==
  ASSUME IInv, NEW c \in HwChannels, SetErq(c)
  PROVE  IInv'
<1>1. /\ erq' = erq \union {c} /\ hrs' = hrs
      /\ Handled(IF c \in hrs THEN StartAll(Now, {c}, mcr.hoe) ELSE Now)
  BY DEF SetErq, StartTransfer
<1>2. CASE c \in hrs
  <2>1. Handled(StartAll(Now, {c}, mcr.hoe)) /\ {c} \in SUBSET Channels
    BY <1>1, <1>2, InvNow
  <2> QED
    BY <1>1, <2>1, InvNow, StartingInv
<1>3. CASE c \notin hrs
  <2>1. Handled(Now) /\ hrs' \intersect erq' = hrs \intersect erq
    BY <1>1, <1>3
  <2> QED
    BY <1>1, <2>1, InvNow, HandledInv
<1> QED
  BY <1>2, <1>3

\* START is set before the transfer is started.
LEMMA SetStartInv ==
  ASSUME IInv, NEW c \in SwChannels, SetStart(c)
  PROVE  IInv'
<1> DEFINE d == [Now EXCEPT !.tcd[c].start = TRUE]
<1>1. Handled(StartAll(d, {c}, mcr.hoe)) /\ erq' = erq /\ hrs' = hrs
  BY DEF SetStart, StartTransfer
<1>2. c \in Channels
  BY EdmaAssumption
<1>3. Now \in Part
  BY InvNow
<1>4. /\ d \in Part
      /\ d.pending = Now.pending /\ d.halt = Now.halt /\ d.queued = Now.queued
      /\ d.failed = Now.failed
      /\ \A x \in Channels : x # c => d.tcd[x] = Now.tcd[x]
  BY <1>2, <1>3 DEF Part, TcdState
<1> HIDE DEF d
<1>5. Awake(d) /\ \A x \in Channels : x # c => (Settled(d, x) <=> Settled(Now, x))
  <2>1. Awake(Now)
    BY InvNow
  <2> QED
    BY <1>4, <2>1 DEF Awake, Settled
<1>6. \A x \in Channels : x \notin {c} /\ (d.tcd[x].start \/ x \in hrs' \intersect erq') => Settled(d, x)
  BY <1>1, <1>4, <1>5, InvNow
<1>7. /\ {c} \in SUBSET Channels /\ erq' \subseteq HwChannels /\ hrs' \subseteq HwChannels
      /\ \A x \in Channels : pending[x] # Idle => d.pending[x] # Idle
  BY <1>1, <1>2, <1>4, InvNow
<1> QED
  BY <1>1, <1>4, <1>5, <1>6, <1>7, StartingInv

LEMMA WriteTcdInv ==
  ASSUME IInv, NEW c \in Channels, NEW t \in Tcds[c], WriteTcd(c, t)
  PROVE  IInv'
<1> DEFINE new == [conf |-> t, start |-> FALSE, citer |-> t.biter]
           d == [Now EXCEPT !.tcd[c] = new, !.failed = @ \union {c}]
<1>1. Handled(d) /\ erq' = erq /\ hrs' = hrs
  BY DEF WriteTcd
<1>2. Now \in Part
  BY InvNow
<1>3. new \in TcdState
  <2>1. t \in Tcd
    BY EdmaAssumption
  <2>2. t.biter \in Nat
    BY <2>1 DEF Tcd
  <2> QED
    BY <2>1, <2>2 DEF TcdState
<1> HIDE DEF new
<1>4. /\ d \in Part
      /\ d.pending = Now.pending /\ d.halt = Now.halt /\ d.queued = Now.queued
      /\ d.failed = Now.failed \union {c}
      /\ \A x \in Channels : x # c => d.tcd[x] = Now.tcd[x]
  BY <1>2, <1>3 DEF Part
<1> HIDE DEF d
<1>5. Awake(d)
  <2>1. Awake(Now)
    BY InvNow
  <2> QED
    BY <1>4, <2>1 DEF Awake
<1>6. ASSUME NEW x \in Channels, d.tcd[x].start \/ x \in hrs' \intersect erq'
      PROVE  Settled(d, x)
  <2>1. CASE x = c
    BY <1>4, <2>1 DEF Settled
  <2>2. CASE x # c
    <3>1. Settled(Now, x)
      BY <1>1, <1>4, <1>6, <2>2, InvNow
    <3> QED
      BY <1>4, <2>2, <3>1 DEF Settled
  <2> QED
    BY <2>1, <2>2
<1>7. /\ erq' \subseteq HwChannels /\ hrs' \subseteq HwChannels
      /\ \A x \in Channels : pending[x] # Idle => d.pending[x] # Idle
  BY <1>1, <1>4, InvNow
<1> QED
  BY <1>1, <1>4, <1>5, <1>6, <1>7, HandledInv

LEMMA ClearFlagsInv ==
  ASSUME IInv, NEW c \in FlagChannels, ClearFlags(c)
  PROVE  IInv'
<1> DEFINE d == [tcd |-> tcd, pending |-> pending, link |-> link, halt |-> mcr.halt,
                 er |-> er', irq |-> irq', queued |-> queued, failed |-> failed]
<1>1. /\ er' \subseteq er /\ irq' \subseteq irq
      /\ UNCHANGED <<mcr, chpri, fixed, rr, tcd, erq, hrs, pending, link, active, stale,
                     queued, failed, passed>>
  BY DEF ClearFlags, control
<1>2. Transfers /\ Arbitration
  BY DEF IInv
<1>3. /\ d \in Part /\ Become(d)
      /\ d.pending = Now.pending /\ d.tcd = Now.tcd /\ (d.halt <=> Now.halt)
      /\ d.failed = Now.failed /\ (d.queued <=> Now.queued) /\ d.halt = mcr.halt
      /\ d.tcd = tcd /\ d.pending = pending
  <2>1. Now \in Part
    BY <1>2 DEF Transfers
  <2>2. /\ tcd \in [Channels -> TcdState] /\ pending \in [Channels -> Nat]
        /\ link \in [Channels -> Links] /\ mcr.halt \in BOOLEAN /\ er \in SUBSET Channels /\ irq \in SUBSET Channels
        /\ queued \in BOOLEAN /\ failed \in SUBSET Channels
    BY <2>1, NowFields DEF Part
  <2>3. d \in Part
    BY <1>1, <2>2 DEF Part
  <2>4. Become(d)
    BY <1>1 DEF Become
  <2> QED
    BY <2>3, <2>4, NowFields
<1> HIDE DEF d
<1>4. Awake(d) /\ \A x \in Channels : Settled(Now, x) => Settled(d, x)
  <2>1. Awake(Now)
    BY <1>2 DEF Transfers
  <2> QED
    BY <1>3, <2>1 DEF Awake, Settled
<1>5. mcr' \in Mcr /\ mcr'.halt = d.halt
  BY <1>1, <1>2, <1>3 DEF Transfers
<1>6. \A x \in Channels : d.tcd[x].start \/ x \in hrs' \intersect erq' => Settled(d, x)
  BY <1>1, <1>2, <1>3, <1>4 DEF Transfers
<1>7. /\ active' \in Channels \union {None} /\ stale' \in BOOLEAN /\ (stale' => active' # None)
      /\ active' # None /\ ~stale' => d.pending[active'] # Idle
      /\ erq' \subseteq HwChannels /\ hrs' \subseteq HwChannels
  BY <1>1, <1>2, <1>3 DEF Transfers, ActiveWaits
<1>8. Transfers'
  BY <1>3, <1>4, <1>5, <1>6, <1>7, TransfersBecome
<1>9. Arbitration'
  BY <1>1, <1>2, ArbitrationUnchanged DEF Arbitration
<1> QED
  BY <1>8, <1>9 DEF IInv

\* Nothing that the transfers depend on changes.
LEMMA TransfersUnchanged ==
  ASSUME Transfers,
         UNCHANGED <<mcr, tcd, erq, hrs, er, irq, pending, link, active, stale, queued, failed>>
  PROVE  Transfers'
<1>1. Now' = Now
  BY DEF Now
<1> QED
  BY <1>1 DEF Transfers, ActiveWaits

LEMMA WriteCprInv ==
  ASSUME IInv, NEW cp \in ChpriSet, WriteCpr(cp)
  PROVE  IInv'
<1>1. /\ chpri' \in [Channels -> Nat]
      /\ UNCHANGED <<mcr, fixed, rr, tcd, erq, hrs, er, irq, pending, link, active, stale,
                     queued, failed, passed>>
  BY EdmaAssumption DEF WriteCpr, flags
<1> QED
  BY <1>1, TransfersUnchanged, ArbitrationUnchanged DEF IInv

\* CXFR and ECX leave nothing pending; what was has failed.
LEMMA CancelledFacts ==
  ASSUME NEW d \in Part, NEW error \in BOOLEAN, NEW m \in Mcr
  PROVE  LET e == Cancelled(d, error, m.hoe) IN
         /\ e \in Part
         /\ \A c \in Channels : e.pending[c] = Idle
         /\ \A c \in Channels : d.pending[c] # Idle => c \in e.failed
         /\ \A c \in Channels : d.pending[c] = Idle => e.tcd[c] = d.tcd[c]
         /\ d.failed \subseteq e.failed
         /\ d.halt => e.halt
<1> DEFINE S == {c \in Channels : d.pending[c] # Idle}
           tcds == [c \in Channels |->
                      IF c \in S THEN [d.tcd[c] EXCEPT !.start = FALSE] ELSE d.tcd[c]]
           drop == [d EXCEPT
             !.pending = [c \in Channels |-> Idle], !.failed = @ \union S,
             !.tcd = [c \in Channels |->
               IF c \in S THEN [@[c] EXCEPT !.start = FALSE] ELSE @[c]]]
           e == Cancelled(d, error, m.hoe)
<1>1. e = IF error THEN SetError(drop, S, m.hoe) ELSE drop
  BY DEF Cancelled
<1>2. S \in SUBSET Channels
  OBVIOUS
<1> HIDE DEF e
<1>3. /\ drop \in Part
      /\ drop.tcd = tcds /\ drop.pending = [c \in Channels |-> Idle]
      /\ drop.failed = d.failed \union S /\ (drop.halt <=> d.halt)
  <2> HIDE DEF S
  <2>1. drop \in Part
    BY <1>2 DEF Part, TcdState, Idle
  <2> QED
    BY <2>1 DEF Part
<1> HIDE DEF drop
<1>4. /\ SetError(drop, S, m.hoe) \in Part
      /\ SetError(drop, S, m.hoe).tcd = drop.tcd
      /\ SetError(drop, S, m.hoe).pending = drop.pending
      /\ (SetError(drop, S, m.hoe).halt <=> drop.halt \/ (m.hoe /\ S # {}))
      /\ SetError(drop, S, m.hoe).failed = drop.failed \union S
  <2>1. drop \in Part /\ S \in SUBSET Channels /\ m \in Mcr
    BY <1>2, <1>3
  <2> HIDE DEF S
  <2> QED
    BY <2>1, SetErrorFacts
<1>5. /\ e \in Part /\ e.tcd = tcds /\ e.pending = [c \in Channels |-> Idle]
      /\ e.failed = d.failed \union S /\ (d.halt => e.halt)
  <2>1. CASE error
    <3>1. e = SetError(drop, S, m.hoe)
      BY <1>1, <2>1
    <3> HIDE DEF S, tcds
    <3> QED
      BY <1>3, <1>4, <3>1
  <2>2. CASE ~error
    <3>1. e = drop
      BY <1>1, <2>2
    <3> QED
      BY <1>3, <3>1
  <2> QED
    BY <2>1, <2>2
<1>6. \A c \in Channels : e.pending[c] = Idle
  BY <1>5
<1>7. \A c \in Channels : d.pending[c] # Idle => c \in e.failed
  BY <1>5
<1>8. \A c \in Channels : d.pending[c] = Idle => e.tcd[c] = d.tcd[c]
  BY <1>5
<1> QED
  BY <1>5, <1>6, <1>7, <1>8 DEF e

LEMMA WriteMcrInv ==
  ASSUME IInv, NEW m \in McrSet, NEW cancel \in Cancels, WriteMcr(m, cancel)
  PROVE  IInv'
<1> DEFINE d1 == [Now EXCEPT !.halt = m.halt]
           d2 == IF cancel = "no" THEN d1 ELSE Cancelled(d1, cancel = "ecx", m.hoe)
           anyPending == \E c \in Channels : d2.pending[c] # Idle
           S == {c \in Channels : d2.tcd[c].start}
           e == StartAll(d2, S, m.hoe)
           d3 == IF d2.halt THEN d2 ELSE [e EXCEPT !.queued = @ \/ anyPending]
           held(d, c) == d.pending[c] # Idle \/ c \in d.failed \/ d.tcd[c].start
<1>1. /\ mcr' = [m EXCEPT !.halt = d3.halt] /\ Become(d3)
      /\ fixed' = Priorities(m, chpri) /\ rr' = fixed'
      /\ active' = (IF cancel = "no" THEN active ELSE None)
      /\ stale' = (stale /\ cancel = "no")
      /\ passed' = [c \in Channels |-> 0]
      /\ UNCHANGED <<chpri, erq, hrs>>
  BY DEF WriteMcr
<1>2. m \in Mcr /\ m.halt \in BOOLEAN
  BY EdmaAssumption DEF Mcr
<1>3. Transfers /\ Arbitration /\ Now \in Part
  BY DEF IInv, Transfers
<1>4. /\ d1 \in Part /\ d1.pending = Now.pending /\ d1.tcd = Now.tcd /\ d1.failed = Now.failed
  BY <1>2, <1>3 DEF Part
<1>5. ASSUME NEW c \in Channels, tcd[c].start \/ c \in hrs \intersect erq
      PROVE  held(Now, c)
  BY <1>3, <1>5 DEF Transfers, Settled
<1> HIDE DEF d1
<1>6. /\ d2 \in Part
      /\ \A c \in Channels : tcd[c].start \/ c \in hrs \intersect erq => held(d2, c)
      /\ \A c \in Channels : d2.tcd[c].start => held(d2, c)
      /\ cancel = "no" => d2.pending = pending
  <2>1. CASE cancel = "no"
    BY <1>4, <1>5, <2>1, NowFields
  <2>2. CASE cancel # "no"
    <3>1. d2 = Cancelled(d1, cancel = "ecx", m.hoe) /\ (cancel = "ecx") \in BOOLEAN
      BY <2>2
    <3>2. /\ d2 \in Part
          /\ \A c \in Channels : d1.pending[c] # Idle => c \in d2.failed
          /\ \A c \in Channels : d1.pending[c] = Idle => d2.tcd[c] = d1.tcd[c]
          /\ d1.failed \subseteq d2.failed
      BY <1>2, <1>4, <3>1, CancelledFacts
    <3> HIDE DEF d2
    <3>3. ASSUME NEW c \in Channels, held(Now, c) PROVE held(d2, c)
      BY <1>4, <3>2, <3>3
    <3> QED
      BY <1>5, <2>2, <3>2, <3>3
  <2> QED
    BY <2>1, <2>2
<1> HIDE DEF d2
<1>7. /\ e \in Part
      /\ \A c \in Channels : d2.pending[c] # Idle => e.pending[c] = d2.pending[c]
      /\ \A c \in Channels : c \notin S => e.tcd[c] = d2.tcd[c]
      /\ \A c \in S : Settled(e, c)
      /\ \A c \in Channels : Settled(d2, c) => Settled(e, c)
      /\ \A c \in Channels : e.pending[c] # Idle => d2.pending[c] # Idle \/ e.queued
  <2>1. d2 \in Part /\ S \in SUBSET Channels /\ m \in Mcr
    BY <1>2, <1>6
  <2> HIDE DEF S
  <2>2. e \in Part
    BY <2>1, StartAllFacts
  <2>3. \A c \in Channels : d2.pending[c] # Idle => e.pending[c] = d2.pending[c]
    BY <2>1, StartAllFacts
  <2>4. \A c \in Channels : c \notin S => e.tcd[c] = d2.tcd[c]
    BY <2>1, StartAllFacts
  <2>5. \A c \in S : Settled(e, c)
    BY <2>1, StartAllFacts
  <2>6. \A c \in Channels : Settled(d2, c) => Settled(e, c)
    BY <2>1, StartAllFacts
  <2>7. \A c \in Channels : e.pending[c] # Idle => d2.pending[c] # Idle \/ e.queued
    BY <2>1, StartAllFacts
  <2> QED
    BY <2>4, <2>5, <2>6, <2>7, <2>2, <2>3
<1> HIDE DEF e
<1>8. /\ d3 \in Part /\ Awake(d3)
      /\ \A c \in Channels : d2.pending[c] # Idle => d3.pending[c] # Idle
      /\ \A c \in Channels : d3.tcd[c].start \/ c \in hrs \intersect erq => Settled(d3, c)
  <2>1. CASE d2.halt
    <3>1. d3 = d2
      BY <2>1
    <3>2. Awake(d2)
      BY <2>1 DEF Awake
    <3>3. \A c \in Channels : held(d2, c) => Settled(d2, c)
      BY <2>1 DEF Settled
    <3> QED
      BY <1>6, <3>1, <3>2, <3>3
  <2>2. CASE ~d2.halt
    <3>1. d3 = [e EXCEPT !.queued = @ \/ anyPending]
      BY <2>2
    <3> HIDE DEF anyPending
    <3>2. anyPending \in BOOLEAN
      BY DEF anyPending
    <3>3. /\ d3 \in Part /\ d3.pending = e.pending /\ d3.tcd = e.tcd /\ (d3.halt <=> e.halt)
          /\ d3.failed = e.failed /\ (d3.queued <=> e.queued \/ anyPending)
      <4> HIDE DEF d3
      <4>1. d3 \in Part
        BY <1>7, <3>1, <3>2 DEF Part
      <4> QED
        BY <1>7, <3>1, <4>1 DEF Part
    <3> HIDE DEF d3
    <3>4. Awake(d3)
      <4> SUFFICES ASSUME NEW c \in Channels, d3.pending[c] # Idle PROVE d3.queued
        BY DEF Awake
      <4>1. e.pending[c] # Idle
        BY <3>3
      <4>2. d2.pending[c] # Idle \/ e.queued
        BY <1>7, <4>1
      <4>3. anyPending \/ e.queued
        BY <4>2 DEF anyPending
      <4> QED
        BY <3>3, <4>3
    <3>5. \A c \in Channels : Settled(e, c) => Settled(d3, c)
      BY <3>3 DEF Settled
    <3>6. ASSUME NEW c \in Channels, d3.tcd[c].start \/ c \in hrs \intersect erq
          PROVE  Settled(e, c)
      <4>1. CASE c \in S
        BY <1>7, <4>1
      <4>2. CASE c \notin S
        <5>1. ~d2.tcd[c].start /\ e.tcd[c] = d2.tcd[c]
          BY <1>7, <4>2
        <5>2. held(d2, c)
          BY <1>6, <3>3, <3>6, <5>1
        <5>3. Settled(d2, c)
          BY <5>1, <5>2 DEF Settled
        <5> QED
          BY <1>7, <5>3
      <4> QED
        BY <4>1, <4>2
    <3>7. \A c \in Channels : d2.pending[c] # Idle => d3.pending[c] # Idle
      BY <1>7, <3>3
    <3> QED
      BY <3>3, <3>4, <3>5, <3>6, <3>7
  <2> QED
    BY <2>1, <2>2
<1> HIDE DEF d3
<1>9. mcr' \in Mcr /\ mcr'.halt = d3.halt
  <2>1. d3.halt \in BOOLEAN
    BY <1>8 DEF Part
  <2> QED
    BY <1>1, <1>2, <2>1 DEF Mcr
<1>10. /\ active' \in Channels \union {None} /\ stale' \in BOOLEAN /\ (stale' => active' # None)
       /\ active' # None /\ ~stale' => d3.pending[active'] # Idle
       /\ erq' \subseteq HwChannels /\ hrs' \subseteq HwChannels
  BY <1>1, <1>3, <1>6, <1>8 DEF Transfers, ActiveWaits
<1>11. Transfers'
  <2>1. \A c \in Channels : d3.tcd[c].start \/ c \in hrs' \intersect erq' => Settled(d3, c)
    BY <1>1, <1>8
  <2> QED
    BY <1>1, <1>8, <1>9, <1>10, <2>1, TransfersBecome
<1>12. chpri' \in [Channels -> Nat] /\ chpri \in [Channels -> Nat]
  BY <1>1, <1>3 DEF Arbitration
<1>13. Arbitration'
  BY <1>1, <1>2, <1>12, ArbitrationAnew
<1> QED
  BY <1>11, <1>13 DEF IInv

-----------------------------------------------------------------------------
(* An iteration: the transfers.                                            *)

\* What the invariant says when the processing function runs.
Running(c) ==
  /\ IInv /\ queued /\ ~mcr.halt
  /\ c \in Channels /\ pending[c] # Idle /\ ~stale /\ active \in {None, c}

LEMMA RunningFacts ==
  ASSUME NEW c, Running(c)
  PROVE  /\ c \in Channels /\ c # None /\ pending[c] \in Nat \ {Idle}
         /\ Now \in Part /\ Now.queued /\ queued /\ ~Now.halt /\ mcr \in Mcr /\ Transfers
         /\ tcd[c].conf \in Tcd
         /\ \A x \in Channels : tcd[x].start \/ x \in hrs \intersect erq =>
              pending[x] # Idle \/ x \in failed
<1>1. Transfers /\ Now \in Part /\ mcr \in Mcr
  BY DEF Running, IInv, Transfers
<1>2. c \in Channels /\ pending[c] # Idle /\ queued /\ ~mcr.halt
  BY DEF Running
<1>3. Now.queued /\ ~Now.halt
  BY <1>2, NowFields
<1>4. pending[c] \in Nat /\ tcd[c].conf \in Tcd
  BY <1>1, <1>2, NowFields DEF Part, TcdState
<1>5. c # None
  BY <1>2, ChannelsFacts
<1>6. \A x \in Channels : tcd[x].start \/ x \in hrs \intersect erq =>
        pending[x] # Idle \/ x \in failed
  BY <1>1, <1>2, NowFields DEF Transfers, Settled
<1> QED
  BY <1>1, <1>2, <1>3, <1>4, <1>5, <1>6

LEMMA BegunFacts ==
  ASSUME NEW c \in Channels, Transfers, queued
  PROVE  /\ Begun(c) \in Part
         /\ ~Begun(c).tcd[c].start
         /\ \A x \in Channels : x # c => Begun(c).tcd[x] = tcd[x]
         /\ Begun(c).pending = pending /\ Begun(c).failed = failed /\ Begun(c).queued
<1>1. Now \in Part /\ Now.queued
  BY NowFields DEF Transfers
<1>2. Begun(c) \in Part
  BY <1>1 DEF Begun, Part, TcdState
<1> QED
  BY <1>1, <1>2, NowFields DEF Begun, Part, TcdState

\* What is left of a configuration is written to CITER, and to _pending.
WithCiter(d, c, count) == [d EXCEPT !.tcd[c].citer = count]
Counted(d, c, left, count) == [d EXCEPT !.pending[c] = left, !.tcd[c].citer = count]

LEMMA CiterFacts ==
  ASSUME NEW d \in Part, NEW c \in Channels, NEW count \in Nat
  PROVE  LET e == WithCiter(d, c, count) IN
         /\ e \in Part
         /\ e.pending = d.pending /\ (e.tcd[c].start <=> d.tcd[c].start)
         /\ \A x \in Channels : x # c => e.tcd[x] = d.tcd[x]
         /\ e.failed = d.failed /\ (e.queued <=> d.queued)
<1> DEFINE e == WithCiter(d, c, count)
<1>1. e \in Part
  <2> DEFINE row == [d.tcd[c] EXCEPT !.citer = count]
             rows == [d.tcd EXCEPT ![c] = row]
  <2>1. d.tcd[c] \in TcdState /\ d.tcd \in [Channels -> TcdState]
    BY DEF Part
  <2>2. row \in TcdState
    BY <2>1 DEF TcdState
  <2> HIDE DEF row
  <2>3. rows \in [Channels -> TcdState]
    BY <2>1, <2>2
  <2> HIDE DEF rows
  <2>4. [d EXCEPT !.tcd = rows] \in Part
    BY <2>3 DEF Part
  <2>5. e = [d EXCEPT !.tcd = rows]
    BY DEF WithCiter, rows, row
  <2> QED
    BY <2>4, <2>5
<1>2. /\ e.pending = d.pending /\ (e.tcd[c].start <=> d.tcd[c].start)
      /\ \A x \in Channels : x # c => e.tcd[x] = d.tcd[x]
      /\ e.failed = d.failed /\ (e.queued <=> d.queued)
  BY DEF WithCiter, Part, TcdState
<1> QED
  BY <1>1, <1>2

LEMMA CountFacts ==
  ASSUME NEW d \in Part, NEW c \in Channels, NEW left \in Nat, NEW count \in Nat
  PROVE  LET e == Counted(d, c, left, count) IN
         /\ e \in Part
         /\ e.pending[c] = left /\ (e.tcd[c].start <=> d.tcd[c].start)
         /\ \A x \in Channels : x # c => e.pending[x] = d.pending[x] /\ e.tcd[x] = d.tcd[x]
         /\ e.failed = d.failed /\ (e.queued <=> d.queued)
<1> DEFINE p == [d EXCEPT !.pending[c] = left]
           e == WithCiter(p, c, count)
           f == Counted(d, c, left, count)
<1>1. /\ p \in Part
      /\ p.pending[c] = left /\ p.tcd = d.tcd
      /\ \A x \in Channels : x # c => p.pending[x] = d.pending[x]
      /\ p.failed = d.failed /\ (p.queued <=> d.queued)
  BY DEF Part
<1>2. f = e
  BY DEF Counted, WithCiter
<1> HIDE DEF p, f
<1>3. /\ e \in Part
      /\ e.pending = p.pending /\ (e.tcd[c].start <=> p.tcd[c].start)
      /\ \A x \in Channels : x # c => e.tcd[x] = p.tcd[x]
      /\ e.failed = p.failed /\ (e.queued <=> p.queued)
  BY <1>1, CiterFacts
<1> HIDE DEF e
<1>4. /\ f \in Part
      /\ f.pending[c] = left /\ (f.tcd[c].start <=> d.tcd[c].start)
      /\ \A x \in Channels : x # c => f.pending[x] = d.pending[x] /\ f.tcd[x] = d.tcd[x]
      /\ f.failed = d.failed /\ (f.queued <=> d.queued)
  BY <1>1, <1>2, <1>3
<1> USE DEF f
<1> QED
  BY <1>4

\* Starting some channels leaves the others, and those that were pending, as they were.
LEMMA StartAllKeeps ==
  ASSUME NEW d \in Part, NEW S \in SUBSET Channels, NEW m \in Mcr, NEW x \in Channels
  PROVE  LET e == StartAll(d, S, m.hoe) IN
         /\ e \in Part
         /\ d.pending[x] # Idle => e.pending[x] = d.pending[x]
         /\ x \notin S => e.tcd[x] = d.tcd[x]
         /\ Settled(d, x) => Settled(e, x)
<1>1. StartAll(d, S, m.hoe) \in Part
  BY StartAllFacts
<1>2. \A c \in Channels : d.pending[c] # Idle => StartAll(d, S, m.hoe).pending[c] = d.pending[c]
  BY StartAllFacts
<1>3. \A c \in Channels : c \notin S => StartAll(d, S, m.hoe).tcd[c] = d.tcd[c]
  BY StartAllFacts
<1>4. \A c \in Channels : Settled(d, c) => Settled(StartAll(d, S, m.hoe), c)
  BY StartAllFacts
<1> QED
  BY <1>1, <1>2, <1>3, <1>4

\* A link starts a channel; H are the channels with an enabled hardware request.
LEMMA LinkedFacts ==
  ASSUME NEW d \in Part, mcr \in Mcr, Awake(d), NEW l \in Channels, NEW H,
         \A x \in Channels : d.tcd[x].start \/ x \in H => Settled(d, x)
  PROVE  LET e == Linked(d, l) IN
         /\ e \in Part /\ Awake(e)
         /\ \A x \in Channels : e.tcd[x].start \/ x \in H => Settled(e, x)
         /\ \A x \in Channels : d.pending[x] # Idle => e.pending[x] # Idle
<1> DEFINE S == {l}
           e == StartAll(d, S, mcr.hoe)
<1>1. Linked(d, l) = e
  BY DEF Linked, StartTransfer
<1>2. S \in SUBSET Channels
  OBVIOUS
<1> HIDE DEF S
<1>3. /\ e \in Part
      /\ \A x \in Channels : d.pending[x] # Idle => e.pending[x] = d.pending[x]
      /\ \A x \in Channels : x \notin S => e.tcd[x] = d.tcd[x]
      /\ \A x \in Channels : Settled(d, x) => Settled(e, x)
  <2>1. \A x \in Channels :
          /\ e \in Part
          /\ d.pending[x] # Idle => e.pending[x] = d.pending[x]
          /\ x \notin S => e.tcd[x] = d.tcd[x]
          /\ Settled(d, x) => Settled(e, x)
    BY <1>2, StartAllKeeps
  <2> HIDE DEF e
  <2>3. e \in Part
    BY <2>1
  <2>4. \A x \in Channels : d.pending[x] # Idle => e.pending[x] = d.pending[x]
    BY <2>1
  <2>5. \A x \in Channels : x \notin S => e.tcd[x] = d.tcd[x]
    BY <2>1
  <2>6. \A x \in Channels : Settled(d, x) => Settled(e, x)
    BY <2>1
  <2> QED
    BY <2>3, <2>4, <2>5, <2>6
<1>4. \A x \in S : Settled(e, x)
  BY <1>2, StartAllFacts
<1>5. Awake(d) => Awake(e)
  BY <1>2, StartAllFacts
<1> HIDE DEF e
<1>6. ASSUME NEW x \in Channels, e.tcd[x].start \/ x \in H
      PROVE  Settled(e, x)
  <2>1. CASE x \in S
    BY <1>4, <2>1
  <2>2. CASE x \notin S
    <3>1. Settled(d, x)
      BY <1>3, <1>6, <2>2
    <3> QED
      BY <1>3, <3>1
  <2> QED
    BY <2>1, <2>2
<1>7. \A x \in Channels : d.pending[x] # Idle => e.pending[x] # Idle
  BY <1>3
<1> QED
  BY <1>1, <1>3, <1>5, <1>6, <1>7

LEMMA BusErrorTransfers ==
  ASSUME NEW c, Running(c), BusError(c)
  PROVE  Transfers'
<1> DEFINE idle == [Begun(c) EXCEPT !.pending[c] = Idle]
           d == SetError(idle, {c}, mcr.hoe)
<1>1. /\ Become(d) /\ mcr' = [mcr EXCEPT !.halt = d.halt]
      /\ stale' = (active = c) /\ erq' = erq /\ hrs' = hrs /\ active' = active
  BY DEF BusError, BecomeAll
<1>2. /\ idle \in Part
      /\ \A x \in Channels : x # c => idle.pending[x] = pending[x] /\ idle.tcd[x] = tcd[x]
      /\ idle.failed = failed /\ idle.queued
  <2>1. c \in Channels /\ Now \in Part /\ Now.queued
    BY RunningFacts
  <2>2. idle \in Part
    BY <2>1 DEF Begun, Part, TcdState, Idle
  <2> QED
    BY <2>1, <2>2, NowFields DEF Begun, Part
<1> HIDE DEF idle
<1>3. /\ d \in Part /\ d.tcd = idle.tcd /\ d.pending = idle.pending
      /\ d.queued /\ d.failed = failed \union {c}
  <2>1. idle \in Part /\ {c} \in SUBSET Channels /\ mcr \in Mcr
    BY <1>2, RunningFacts
  <2>2. /\ d \in Part /\ d.tcd = idle.tcd /\ d.pending = idle.pending
        /\ (d.queued <=> idle.queued) /\ d.failed = idle.failed \union {c}
    <3> DEFINE S == {c}
    <3>1. S = {c}
      OBVIOUS
    <3>2. idle \in Part /\ S \in SUBSET Channels /\ mcr \in Mcr
      BY <2>1
    <3> HIDE DEF S
    <3>3. d = SetError(idle, S, mcr.hoe)
      BY <3>1
    <3> HIDE DEF d
    <3>4. /\ SetError(idle, S, mcr.hoe) \in Part
          /\ SetError(idle, S, mcr.hoe).tcd = idle.tcd
          /\ SetError(idle, S, mcr.hoe).pending = idle.pending
          /\ (SetError(idle, S, mcr.hoe).queued <=> idle.queued)
          /\ SetError(idle, S, mcr.hoe).failed = idle.failed \union S
      <4>1. SetError(idle, S, mcr.hoe) \in Part
        BY <3>2, SetErrorFacts
      <4>2. SetError(idle, S, mcr.hoe).tcd = idle.tcd
        BY <3>2, SetErrorFacts
      <4>3. SetError(idle, S, mcr.hoe).pending = idle.pending
        BY <3>2, SetErrorFacts
      <4>4. (SetError(idle, S, mcr.hoe).queued <=> idle.queued)
        BY <3>2, SetErrorFacts
      <4>5. SetError(idle, S, mcr.hoe).failed = idle.failed \union S
        BY <3>2, SetErrorFacts
      <4> QED
        BY <4>1, <4>2, <4>3, <4>4, <4>5
    <3> QED
      BY <3>1, <3>3, <3>4
  <2> QED
    BY <1>2, <2>2
<1> HIDE DEF d
<1>4. mcr' \in Mcr /\ mcr'.halt = d.halt
  BY <1>1, <1>3, RunningFacts, McrAfter
<1>5. ASSUME NEW x \in Channels, d.tcd[x].start \/ x \in hrs' \intersect erq'
      PROVE  Settled(d, x)
  <2>1. CASE x = c
    BY <1>3, <2>1 DEF Settled
  <2>2. CASE x # c
    <3>1. pending[x] # Idle \/ x \in failed
      BY <1>1, <1>2, <1>3, <1>5, <2>2, RunningFacts
    <3> QED
      BY <1>2, <1>3, <2>2, <3>1 DEF Settled
  <2> QED
    BY <2>1, <2>2
<1>6. Awake(d)
  BY <1>3 DEF Awake
<1>7. /\ active' \in Channels \union {None} /\ stale' \in BOOLEAN /\ (stale' => active' # None)
      /\ active' # None /\ ~stale' => d.pending[active'] # Idle
      /\ erq' \subseteq HwChannels /\ hrs' \subseteq HwChannels
  <2>1. active \in {None, c} /\ c # None
    BY RunningFacts DEF Running
  <2>2. Transfers
    BY RunningFacts
  <2> QED
    BY <1>1, <2>1, <2>2 DEF Transfers
<1> QED
  BY <1>1, <1>3, <1>4, <1>5, <1>6, <1>7, TransfersBecome

LEMMA IterateTransfers ==
  ASSUME NEW c, Running(c), Iterate(c)
  PROVE  Transfers'
<1> DEFINE t == tcd[c].conf
           left == pending[c] - 1
           d1 == [Begun(c) EXCEPT !.pending[c] = left, !.tcd[c].citer = left]
           d2 == IF t.int_half /\ t.linkch = NoLink /\ left = t.biter \div 2
                   THEN [d1 EXCEPT !.irq = @ \union {c}] ELSE d1
           again == mcr.clm /\ link[c] = c
           d == IF link[c] = NoLink \/ again THEN d2 ELSE Linked(d2, link[c])
<1>1. /\ left # 0
      /\ Become(d) /\ mcr' = [mcr EXCEPT !.halt = d.halt]
      /\ active' = (IF again THEN c ELSE active)
      /\ stale' = stale /\ erq' = erq /\ hrs' = hrs
  BY DEF Iterate, BecomeAll
<1>2. left \in Nat /\ left # Idle
  BY <1>1, RunningFacts DEF Idle
<1> HIDE DEF left
<1>3. /\ d1 \in Part /\ d1.pending[c] = left /\ ~d1.tcd[c].start
      /\ \A x \in Channels : x # c => d1.pending[x] = pending[x] /\ d1.tcd[x] = tcd[x]
      /\ d1.failed = failed /\ d1.queued
  <2>1. Begun(c) \in Part /\ c \in Channels /\ left \in Nat
    BY <1>2, RunningFacts, BegunFacts
  <2>2. d1 = Counted(Begun(c), c, left, left)
    BY DEF Counted
  <2> HIDE DEF d1
  <2>3. d1 \in Part /\ d1.pending[c] = left
    BY <2>1, <2>2, CountFacts
  <2>4. d1.tcd[c].start <=> Begun(c).tcd[c].start
    BY <2>1, <2>2, CountFacts
  <2>5. \A x \in Channels : x # c =>
          d1.pending[x] = Begun(c).pending[x] /\ d1.tcd[x] = Begun(c).tcd[x]
    BY <2>1, <2>2, CountFacts
  <2>6. d1.failed = Begun(c).failed /\ (d1.queued <=> Begun(c).queued)
    BY <2>1, <2>2, CountFacts
  <2> QED
    BY <2>3, <2>4, <2>5, <2>6, RunningFacts, BegunFacts
<1> HIDE DEF d1
<1>4. /\ d2 \in Part /\ d2.pending = d1.pending /\ d2.tcd = d1.tcd
      /\ d2.failed = failed /\ d2.queued
  <2>1. c \in Channels
    BY RunningFacts
  <2>2. [d1 EXCEPT !.irq = @ \union {c}] \in Part
    BY <1>3, <2>1 DEF Part
  <2>3. /\ [d1 EXCEPT !.irq = @ \union {c}].pending = d1.pending
        /\ [d1 EXCEPT !.irq = @ \union {c}].tcd = d1.tcd
        /\ [d1 EXCEPT !.irq = @ \union {c}].failed = d1.failed
        /\ [d1 EXCEPT !.irq = @ \union {c}].queued = d1.queued
    BY <1>3 DEF Part
  <2> HIDE DEF t
  <2>4. CASE d2 = d1
    BY <1>3, <2>4
  <2>5. CASE d2 = [d1 EXCEPT !.irq = @ \union {c}]
    <3> HIDE DEF d2
    <3> QED
      BY <1>3, <2>2, <2>3, <2>5
  <2> QED
    BY <2>4, <2>5
<1> HIDE DEF d2
<1>5. \A x \in Channels : d2.tcd[x].start \/ x \in hrs \intersect erq => Settled(d2, x)
  <2> SUFFICES ASSUME NEW x \in Channels, d2.tcd[x].start \/ x \in hrs \intersect erq
               PROVE  Settled(d2, x)
    OBVIOUS
  <2>1. CASE x = c
    BY <1>2, <1>3, <1>4, <2>1 DEF Settled
  <2>2. CASE x # c
    <3>1. pending[x] # Idle \/ x \in failed
      BY <1>3, <1>4, <2>2, RunningFacts
    <3> QED
      BY <1>3, <1>4, <2>2, <3>1 DEF Settled
  <2> QED
    BY <2>1, <2>2
<1>6. Awake(d2)
  BY <1>4 DEF Awake
<1>7. /\ d \in Part /\ Awake(d)
      /\ \A x \in Channels : d.tcd[x].start \/ x \in hrs \intersect erq => Settled(d, x)
      /\ \A x \in Channels : d2.pending[x] # Idle => d.pending[x] # Idle
  <2>1. CASE link[c] = NoLink \/ again
    BY <1>4, <1>5, <1>6, <2>1
  <2>2. CASE ~ (link[c] = NoLink \/ again)
    <3>1. d = Linked(d2, link[c])
      BY <2>2
    <3>2. d2 \in Part /\ mcr \in Mcr /\ link[c] \in Channels
      <4>1. Now \in Part /\ c \in Channels
        BY RunningFacts
      <4> QED
        BY <1>4, <2>2, <4>1, RunningFacts, NowFields DEF Part, Links
    <3> HIDE DEF d, t
    <3> QED
      BY <1>5, <1>6, <3>1, <3>2, LinkedFacts
  <2> QED
    BY <2>1, <2>2
<1> HIDE DEF d, again
<1>8. mcr' \in Mcr /\ mcr'.halt = d.halt
  BY <1>1, <1>7, RunningFacts, McrAfter
<1>9. /\ active' \in Channels \union {None} /\ stale' \in BOOLEAN /\ (stale' => active' # None)
      /\ active' # None /\ ~stale' => d.pending[active'] # Idle
      /\ erq' \subseteq HwChannels /\ hrs' \subseteq HwChannels
  <2>1. active \in {None, c} /\ ~stale /\ c \in Channels
    BY RunningFacts DEF Running
  <2>2. d.pending[c] # Idle
    BY <1>2, <1>3, <1>4, <1>7, <2>1
  <2>3. erq \subseteq HwChannels /\ hrs \subseteq HwChannels /\ stale \in BOOLEAN
    BY RunningFacts DEF Transfers
  <2>4. active' \in {None, c}
    BY <1>1, <2>1
  <2> QED
    BY <1>1, <2>1, <2>2, <2>3, <2>4
<1>10. \A x \in Channels : d.tcd[x].start \/ x \in hrs' \intersect erq' => Settled(d, x)
  BY <1>1, <1>7
<1> QED
  BY <1>1, <1>7, <1>8, <1>9, <1>10, TransfersBecome

LEMMA CompleteTransfers ==
  ASSUME NEW c, Running(c), Complete(c)
  PROVE  Transfers'
<1> DEFINE t == tcd[c].conf
           idle == [Begun(c) EXCEPT !.pending[c] = Idle, !.tcd[c].citer = t.biter]
           d == IF t.int_maj THEN [idle EXCEPT !.irq = @ \union {c}] ELSE idle
<1>1. /\ Become(d) /\ mcr' = [mcr EXCEPT !.halt = d.halt]
      /\ hrs' = hrs \ {c} /\ erq' \subseteq erq
      /\ stale' = (active = c) /\ active' = active
  BY DEF Complete, BecomeAll
<1>2. /\ idle \in Part /\ ~idle.tcd[c].start
      /\ \A x \in Channels : x # c => idle.pending[x] = pending[x] /\ idle.tcd[x] = tcd[x]
      /\ idle.failed = failed /\ idle.queued
  <2>1. Begun(c) \in Part /\ c \in Channels /\ t \in Tcd
    BY RunningFacts, BegunFacts
  <2>2. Idle \in Nat /\ t.biter \in Nat
    BY <2>1 DEF Idle, Tcd
  <2> DEFINE biter == t.biter
  <2> HIDE DEF t, biter
  <2>3. Begun(c) \in Part /\ c \in Channels /\ Idle \in Nat /\ biter \in Nat
    BY <2>1, <2>2 DEF biter
  <2>4. idle = Counted(Begun(c), c, Idle, biter)
    BY DEF biter, Counted
  <2> HIDE DEF idle
  <2>5. idle \in Part
    BY <2>3, <2>4, CountFacts
  <2>6. idle.tcd[c].start <=> Begun(c).tcd[c].start
    BY <2>3, <2>4, CountFacts
  <2>7. \A x \in Channels : x # c =>
          idle.pending[x] = Begun(c).pending[x] /\ idle.tcd[x] = Begun(c).tcd[x]
    BY <2>3, <2>4, CountFacts
  <2>8. idle.failed = Begun(c).failed /\ (idle.queued <=> Begun(c).queued)
    BY <2>3, <2>4, CountFacts
  <2> QED
    BY <2>5, <2>6, <2>7, <2>8, RunningFacts, BegunFacts
<1> HIDE DEF idle
<1>3. /\ d \in Part /\ d.pending = idle.pending /\ d.tcd = idle.tcd
      /\ d.failed = failed /\ d.queued
  <2>1. c \in Channels
    BY RunningFacts
  <2>2. [idle EXCEPT !.irq = @ \union {c}] \in Part
    BY <1>2, <2>1 DEF Part
  <2>3. /\ [idle EXCEPT !.irq = @ \union {c}].pending = idle.pending
        /\ [idle EXCEPT !.irq = @ \union {c}].tcd = idle.tcd
        /\ [idle EXCEPT !.irq = @ \union {c}].failed = idle.failed
        /\ [idle EXCEPT !.irq = @ \union {c}].queued = idle.queued
    BY <1>2 DEF Part
  <2>4. CASE d = idle
    BY <1>2, <2>4
  <2>5. CASE d = [idle EXCEPT !.irq = @ \union {c}]
    <3> HIDE DEF d
    <3> QED
      BY <1>2, <2>2, <2>3, <2>5
  <2> QED
    BY <2>4, <2>5
<1> HIDE DEF d
<1>4. mcr' \in Mcr /\ mcr'.halt = d.halt
  BY <1>1, <1>3, RunningFacts, McrAfter
<1>5. ASSUME NEW x \in Channels, d.tcd[x].start \/ x \in hrs' \intersect erq'
      PROVE  Settled(d, x)
  <2>1. x # c
    BY <1>1, <1>2, <1>3, <1>5
  <2>2. pending[x] # Idle \/ x \in failed
    BY <1>1, <1>2, <1>3, <1>5, <2>1, RunningFacts
  <2> QED
    BY <1>2, <1>3, <2>1, <2>2 DEF Settled
<1>6. Awake(d)
  BY <1>3 DEF Awake
<1>7. /\ active' \in Channels \union {None} /\ stale' \in BOOLEAN /\ (stale' => active' # None)
      /\ active' # None /\ ~stale' => d.pending[active'] # Idle
      /\ erq' \subseteq HwChannels /\ hrs' \subseteq HwChannels
  <2>1. active \in {None, c} /\ c # None
    BY RunningFacts DEF Running
  <2>2. Transfers
    BY RunningFacts
  <2> QED
    BY <1>1, <2>1, <2>2 DEF Transfers
<1> QED
  BY <1>1, <1>3, <1>4, <1>5, <1>6, <1>7, TransfersBecome

\* The configuration of a completed transfer goes on: _pending is as it was.
LEMMA RunOnTransfers ==
  ASSUME IInv, queued, ~mcr.halt, active # None, stale, RunOn(active)
  PROVE  Transfers'
<1> DEFINE c == active
           n == IF Begun(c).tcd[c].citer = 0 THEN 0 ELSE Begun(c).tcd[c].citer - 1
           d1 == WithCiter(Begun(c), c, n)
           d == IF mcr.clm THEN d1 ELSE Linked(d1, c)
           H == hrs \intersect erq
<1>1. c \in Channels /\ mcr \in Mcr /\ Now \in Part /\ Transfers
  BY DEF IInv, Transfers
<1>2. /\ Become(d) /\ mcr' = [mcr EXCEPT !.halt = d.halt]
      /\ erq' = erq /\ hrs' = hrs /\ active' = c /\ stale' = stale
  BY DEF RunOn, BecomeAll, WithCiter
<1>3. /\ Begun(c) \in Part
      /\ ~Begun(c).tcd[c].start
      /\ \A x \in Channels : x # c => Begun(c).tcd[x] = tcd[x]
      /\ Begun(c).pending = pending /\ Begun(c).failed = failed /\ Begun(c).queued
  BY <1>1, BegunFacts
<1>4. n \in Nat
  <2>1. Begun(c).tcd[c].citer \in Nat
    BY <1>1, <1>3 DEF Part, TcdState
  <2> QED
    BY <2>1
<1> HIDE DEF n, c
<1>6. /\ d1 \in Part
      /\ d1.pending = Begun(c).pending /\ (d1.tcd[c].start <=> Begun(c).tcd[c].start)
      /\ \A x \in Channels : x # c => d1.tcd[x] = Begun(c).tcd[x]
      /\ d1.failed = Begun(c).failed /\ (d1.queued <=> Begun(c).queued)
  BY <1>1, <1>3, <1>4, CiterFacts
<1> HIDE DEF d1
<1>7. \A x \in Channels : d1.tcd[x].start \/ x \in H => Settled(d1, x)
  <2> SUFFICES ASSUME NEW x \in Channels, d1.tcd[x].start \/ x \in H
               PROVE  Settled(d1, x)
    OBVIOUS
  <2>1. tcd[x].start \/ x \in H
    BY <1>3, <1>6
  <2>2. pending[x] # Idle \/ x \in failed
    BY <1>1, <2>1, NowFields DEF Transfers, Settled
  <2> QED
    BY <1>3, <1>6, <2>2 DEF Settled
<1>8. Awake(d1)
  BY <1>3, <1>6 DEF Awake
<1> HIDE DEF H
<1>9. /\ d \in Part /\ Awake(d)
      /\ \A x \in Channels : d.tcd[x].start \/ x \in H => Settled(d, x)
  <2>1. CASE mcr.clm
    BY <1>6, <1>7, <1>8, <2>1
  <2>2. CASE ~mcr.clm
    <3>1. d = Linked(d1, c)
      BY <2>2
    <3> HIDE DEF d
    <3> QED
      BY <1>1, <1>6, <1>7, <1>8, <3>1, LinkedFacts
  <2> QED
    BY <2>1, <2>2
<1> HIDE DEF d
<1>10. mcr' \in Mcr /\ mcr'.halt = d.halt
  BY <1>1, <1>2, <1>9, McrAfter
<1>11. /\ active' \in Channels \union {None} /\ stale' \in BOOLEAN /\ (stale' => active' # None)
       /\ active' # None /\ ~stale' => d.pending[active'] # Idle
       /\ erq' \subseteq HwChannels /\ hrs' \subseteq HwChannels
  BY <1>1, <1>2 DEF Transfers, c
<1>12. \A x \in Channels : d.tcd[x].start \/ x \in hrs' \intersect erq' => Settled(d, x)
  BY <1>2, <1>9 DEF H
<1> QED
  BY <1>2, <1>9, <1>10, <1>11, <1>12, TransfersBecome

-----------------------------------------------------------------------------
(* An iteration: the arbitration.                                          *)

\* getPending picks a channel that waits, and its group.
LEMMA NextFacts ==
  ASSUME Transfers, Arbitration, Waiting # {}
  PROVE  /\ NextGroup \in Groups /\ NextChannel \in Members(NextGroup) /\ NextChannel \in Waiting
         /\ NextChannel \in Channels /\ GroupOf(NextChannel) = NextGroup
         /\ mcr.erga => \A g \in Groups : g # NextGroup /\ Members(g) \intersect Waiting # {} =>
              Position(rr.grp, NextGroup) < Position(rr.grp, g)
         /\ mcr.erca => \A x \in Members(NextGroup) \intersect Waiting : x # NextChannel =>
              Position(rr.ch[NextGroup], NextChannel) < Position(rr.ch[NextGroup], x)
<1> DEFINE busy == {g \in Groups : Members(g) \intersect Waiting # {}}
           sg == IF mcr.erga THEN rr.grp ELSE fixed.grp
           sc == IF mcr.erca THEN rr.ch[NextGroup] ELSE fixed.ch[NextGroup]
<1>1. NextGroup = FirstIn(sg, busy) /\ NextChannel = FirstIn(sc, Waiting)
  BY DEF NextGroup, NextChannel
<1>2. /\ IsOrder(sg, Groups) /\ IsFiniteSet(Groups)
      /\ \A g \in Groups : IsOrder(rr.ch[g], Members(g)) /\ IsOrder(fixed.ch[g], Members(g))
  BY ChannelsFacts DEF Arbitration, Orders
<1>3. Groups \intersect busy # {}
  <2>1. PICK c \in Channels : c \in Waiting
    BY DEF Waiting
  <2>2. c \div GroupSize \in Groups /\ c \in Members(c \div GroupSize)
    BY ChannelsFacts
  <2> QED
    BY <2>1, <2>2
<1> HIDE DEF sg
<1>4. /\ NextGroup \in Groups /\ NextGroup \in busy
      /\ \A g \in Groups \intersect busy : g # NextGroup =>
           Position(sg, NextGroup) < Position(sg, g)
  <2> HIDE DEF busy
  <2> QED
    BY <1>1, <1>2, <1>3, FirstInFacts
<1>5. IsOrder(sc, Members(NextGroup)) /\ IsFiniteSet(Members(NextGroup))
  BY <1>2, <1>4, ChannelsFacts
<1>6. Members(NextGroup) \intersect Waiting # {}
  BY <1>4
<1> HIDE DEF sc
<1>7. /\ NextChannel \in Members(NextGroup) /\ NextChannel \in Waiting
      /\ \A x \in Members(NextGroup) \intersect Waiting : x # NextChannel =>
           Position(sc, NextChannel) < Position(sc, x)
  BY <1>1, <1>5, <1>6, FirstInFacts
<1>8. NextChannel \in Channels /\ GroupOf(NextChannel) = NextGroup
  BY <1>7 DEF Members, GroupOf
<1> QED
  BY <1>4, <1>7, <1>8 DEF sg, sc

\* The arbitration goes on from the channel it has picked.
LEMMA RotatedIsOrders ==
  ASSUME Transfers, Arbitration, Waiting # {}
  PROVE  Rotated \in Orders
<1>1. /\ NextGroup \in Groups /\ NextChannel \in Members(NextGroup)
  BY NextFacts
<1>2. /\ rr \in [grp : Seq(Groups), ch : [Groups -> Seq(Channels)]]
      /\ IsOrder(rr.grp, Groups) /\ \A g \in Groups : IsOrder(rr.ch[g], Members(g))
  BY DEF Arbitration, Orders
<1> DEFINE mg == MoveToEnd(rr.grp, NextGroup)
           mc == MoveToEnd(rr.ch[NextGroup], NextChannel)
<1>3. IsOrder(mg, Groups) /\ mg \in Seq(Groups)
  <2>1. IsFiniteSet(Groups)
    BY ChannelsFacts
  <2>2. IsOrder(mg, Groups)
    BY <1>1, <1>2, <2>1, MoveToEndFacts
  <2> HIDE DEF mg
  <2> QED
    BY <2>1, <2>2, OrderFacts
<1>4. IsOrder(mc, Members(NextGroup)) /\ mc \in Seq(Channels)
  <2>1. IsFiniteSet(Members(NextGroup)) /\ Members(NextGroup) \in SUBSET Channels
    BY ChannelsFacts
  <2>2. IsOrder(rr.ch[NextGroup], Members(NextGroup))
    BY <1>1, <1>2
  <2>3. IsOrder(mc, Members(NextGroup))
    BY <1>1, <2>1, <2>2, MoveToEndFacts
  <2> HIDE DEF mc
  <2>4. mc \in Seq(Members(NextGroup))
    BY <2>1, <2>3, OrderFacts
  <2> QED
    BY <2>1, <2>3, <2>4
<1>5. /\ Rotated.grp = IF mcr.erga THEN mg ELSE rr.grp
      /\ Rotated.ch = IF mcr.erca THEN [rr.ch EXCEPT ![NextGroup] = mc] ELSE rr.ch
      /\ Rotated = [grp |-> Rotated.grp, ch |-> Rotated.ch]
  BY DEF Rotated
<1> HIDE DEF mg, mc
<1>6. Rotated.grp \in Seq(Groups) /\ IsOrder(Rotated.grp, Groups)
  BY <1>2, <1>3, <1>5
<1>7. /\ Rotated.ch \in [Groups -> Seq(Channels)]
      /\ \A g \in Groups : IsOrder(Rotated.ch[g], Members(g))
  BY <1>1, <1>2, <1>4, <1>5
<1>8. Rotated \in [grp : Seq(Groups), ch : [Groups -> Seq(Channels)]]
  BY <1>5, <1>6, <1>7
<1> QED
  BY <1>6, <1>7, <1>8 DEF Orders

\* With round-robin arbitration everyone who waits comes nearer.
LEMMA ComesNearer ==
  ASSUME Transfers, Arbitration, mcr.erga, mcr.erca,
         NEW x \in Waiting, x # NextChannel
  PROVE  Distance(Rotated, x) + 1 <= Distance(rr, x)
<1> DEFINE g == GroupOf(x)
           n == NextGroup
           c == NextChannel
<1>1. /\ n \in Groups /\ c \in Members(n) /\ GroupOf(c) = n
      /\ \A h \in Groups : h # n /\ Members(h) \intersect Waiting # {} =>
           Position(rr.grp, n) < Position(rr.grp, h)
      /\ \A y \in Members(n) \intersect Waiting : y # c =>
           Position(rr.ch[n], c) < Position(rr.ch[n], y)
  BY NextFacts
<1>2. x \in Channels /\ g \in Groups /\ x \in Members(g)
  BY ChannelsFacts DEF Waiting, GroupOf
<1>3. /\ IsOrder(rr.grp, Groups) /\ \A h \in Groups : IsOrder(rr.ch[h], Members(h))
      /\ rr.ch \in [Groups -> Seq(Channels)] /\ rr \in Orders
  BY DEF Arbitration, Orders
<1>4. /\ Rotated.grp = MoveToEnd(rr.grp, n)
      /\ Rotated.ch = [rr.ch EXCEPT ![n] = MoveToEnd(rr.ch[n], c)]
  BY DEF Rotated
<1>5. /\ Position(Rotated.grp, n) = Len(rr.grp) /\ Len(rr.grp) = K
      /\ \A h \in Groups : h # n => Position(Rotated.grp, h) =
           IF Position(rr.grp, h) < Position(rr.grp, n) THEN Position(rr.grp, h)
           ELSE Position(rr.grp, h) - 1
  <2>1. IsFiniteSet(Groups)
    BY ChannelsFacts
  <2>2. Len(rr.grp) = K
    BY <1>3, <2>1, OrderFacts DEF K
  <2> QED
    BY <1>1, <1>3, <1>4, <2>1, <2>2, MoveToEndFacts
<1>6. \A y \in Members(n) : y # c => Position(Rotated.ch[n], y) =
        IF Position(rr.ch[n], y) < Position(rr.ch[n], c) THEN Position(rr.ch[n], y)
        ELSE Position(rr.ch[n], y) - 1
  <2>1. IsFiniteSet(Members(n))
    BY ChannelsFacts
  <2>2. IsOrder(rr.ch[n], Members(n)) /\ Rotated.ch[n] = MoveToEnd(rr.ch[n], c)
    BY <1>1, <1>3, <1>4
  <2> QED
    BY <1>1, <2>1, <2>2, MoveToEndFacts
<1>7. /\ K \in Nat /\ K >= 1
      /\ Position(rr.ch[g], x) \in Nat /\ Position(rr.ch[g], x) >= 1
      /\ Position(rr.grp, g) \in Nat /\ Position(rr.grp, g) >= 1
  <2>1. GroupSize \in Nat
    BY ChannelsFacts
  <2> QED
    BY <1>2, <1>3, <2>1, DistanceBound
<1>8. /\ \A p, q : p \in 1 .. GroupSize /\ q \in 1 .. K => p \in Nat /\ q \in Nat
      /\ \A h \in Groups : Position(rr.grp, h) \in Nat
      /\ Position(rr.ch[n], c) \in Nat
  <2>1. \A h \in Groups : Position(rr.grp, h) \in 1 .. Len(rr.grp)
    BY <1>3, ChannelsFacts, OrderFacts
  <2>2. c \in Channels /\ GroupSize \in Nat
    BY <1>1, ChannelsFacts
  <2>3. Position(rr.ch[n], c) \in 1 .. GroupSize
    BY <1>1, <1>3, <2>2, DistanceBound
  <2> QED
    BY <1>5, <1>7, <2>1, <2>2, <2>3
<1> DEFINE i == Position(rr.ch[g], x)
           j == Position(rr.grp, g)
<1>9. Distance(rr, x) = (i - 1) * K + j - 1
  BY DEF Distance
<1>10. CASE g = n
  <2>1. Position(Rotated.ch[g], x) = i - 1
    <3>1. Position(rr.ch[n], c) < Position(rr.ch[n], x)
      BY <1>1, <1>2, <1>10
    <3>2. ~ (Position(rr.ch[n], x) < Position(rr.ch[n], c))
      BY <1>7, <1>8, <1>10, <3>1
    <3> QED
      BY <1>2, <1>6, <1>10, <3>2
  <2>2. Position(Rotated.grp, g) = K
    BY <1>5, <1>10
  <2>3. Distance(Rotated, x) = (i - 1 - 1) * K + K - 1
    BY <2>1, <2>2 DEF Distance
  <2>4. (i - 1 - 1) * K + K - 1 = (i - 1) * K - 1
    BY <1>7
  <2>5. (i - 1) * K \in Int
    BY <1>7
  <2> HIDE DEF i, j
  <2> QED
    BY <1>7, <1>9, <2>3, <2>4, <2>5 DEF j
<1>11. CASE g # n
  <2>1. Rotated.ch[g] = rr.ch[g]
    BY <1>2, <1>3, <1>4, <1>11
  <2>2. Position(Rotated.grp, g) = j - 1
    <3>1. Position(rr.grp, n) < Position(rr.grp, g)
      BY <1>1, <1>2, <1>11
    <3>2. ~ (Position(rr.grp, g) < Position(rr.grp, n))
      BY <1>1, <1>2, <1>8, <3>1
    <3> QED
      BY <1>2, <1>5, <1>11, <3>2
  <2>3. Distance(Rotated, x) = (i - 1) * K + (j - 1) - 1
    BY <2>1, <2>2 DEF Distance
  <2>4. (i - 1) * K \in Int
    BY <1>7
  <2> HIDE DEF i
  <2> QED
    BY <1>7, <1>9, <2>3, <2>4
<1> QED
  BY <1>10, <1>11

\* Every channel but the one that is served is passed over once more, at most.
LEMMA ServedArbitration ==
  ASSUME Transfers, Arbitration, Waiting # {}, NEW c, Served(c),
         active = None => c = NextChannel,
         rr' = IF active = None THEN Rotated ELSE rr, UNCHANGED <<chpri, fixed>>
  PROVE  Arbitration'
<1>1. rr' \in Orders
  BY RotatedIsOrders DEF Arbitration
<1>2. /\ passed' = [x \in Channels |->
           IF x # c /\ x \in Waiting /\ pending'[x] # Idle /\ RoundRobin
             THEN passed[x] + 1 ELSE 0]
  BY DEF Served
<1>3. passed \in [Channels -> Nat] /\ passed' \in [Channels -> Nat]
  BY <1>2 DEF Arbitration
<1>4. ASSUME NEW x \in Channels
      PROVE  passed'[x] + Distance(rr', x) < K * GroupSize
  <2>1. Distance(rr', x) \in Nat /\ Distance(rr', x) < K * GroupSize
    BY <1>1, DistanceBound
  <2>2. CASE passed'[x] = 0
    BY <2>1, <2>2
  <2>3. CASE passed'[x] # 0
    <3>1. x # c /\ x \in Waiting /\ RoundRobin /\ passed'[x] = passed[x] + 1
      BY <1>2, <2>3
    <3>2. mcr.erga /\ mcr.erca /\ active = None
      BY <3>1 DEF RoundRobin
    <3>3. rr' = Rotated /\ c = NextChannel
      BY <3>2
    <3>4. Distance(rr', x) + 1 <= Distance(rr, x)
      BY <3>1, <3>2, <3>3, ComesNearer
    <3>5. passed[x] + Distance(rr, x) < K * GroupSize /\ passed[x] \in Nat
      BY <1>3 DEF Arbitration
    <3>6. Distance(rr, x) \in Nat /\ K \in Nat /\ GroupSize \in Nat
      BY ChannelsFacts, DistanceBound DEF Arbitration
    <3>7. K * GroupSize \in Nat
      BY <3>6
    <3> QED
      BY <2>1, <3>1, <3>4, <3>5, <3>6, <3>7
  <2> QED
    BY <2>2, <2>3
<1>5. \A x \in Channels : passed'[x] + Distance(rr', x) < K * GroupSize
  BY <1>4
<1> QED
  BY <1>1, <1>3, <1>5 DEF Arbitration, Distance

-----------------------------------------------------------------------------
(* The processing function, and every step.                                *)

LEMMA ProcessInv ==
  ASSUME IInv, Process
  PROVE  IInv'
<1>1. queued /\ ~mcr.halt /\ Transfers /\ Arbitration /\ UNCHANGED <<chpri, fixed>>
  BY DEF Process, IInv
<1>2. CASE active # None /\ stale /\ RunOn(active) /\ UNCHANGED <<rr, passed>>
  <2>1. Transfers'
    BY <1>1, <1>2, RunOnTransfers
  <2>2. chpri' \in [Channels -> Nat]
    BY <1>1 DEF Arbitration
  <2>3. Arbitration'
    BY <1>1, <1>2, <2>2, ArbitrationUnchanged
  <2> QED
    BY <2>1, <2>3 DEF IInv
<1>3. ASSUME NEW c, Running(c), BusError(c) \/ Iterate(c) \/ Complete(c)
      PROVE  Transfers'
  BY <1>3, BusErrorTransfers, IterateTransfers, CompleteTransfers
<1>4. CASE /\ active # None /\ ~stale
           /\ BusError(active) \/ Iterate(active) \/ Complete(active)
           /\ Served(active) /\ UNCHANGED rr
  <2>1. active \in Channels /\ pending[active] # Idle
    BY <1>1, <1>4 DEF Transfers, ActiveWaits
  <2>2. Running(active)
    BY <1>1, <1>4, <2>1 DEF Running
  <2>3. Transfers'
    BY <1>3, <1>4, <2>2
  <2>4. Waiting # {}
    BY <2>1 DEF Waiting
  <2>5. Arbitration'
    BY <1>1, <1>4, <2>4, ServedArbitration
  <2> QED
    BY <2>3, <2>5 DEF IInv
<1>5. CASE /\ active = None /\ Waiting # {}
           /\ BusError(NextChannel) \/ Iterate(NextChannel) \/ Complete(NextChannel)
           /\ Served(NextChannel) /\ rr' = Rotated
  <2>1. NextChannel \in Channels /\ pending[NextChannel] # Idle
    BY <1>1, <1>5, NextFacts DEF Waiting
  <2>2. ~stale
    BY <1>1, <1>5 DEF Transfers
  <2>3. Running(NextChannel)
    BY <1>1, <1>5, <2>1, <2>2 DEF Running
  <2>4. Transfers'
    BY <1>3, <1>5, <2>3
  <2>5. Arbitration'
    BY <1>1, <1>5, ServedArbitration
  <2> QED
    BY <2>4, <2>5 DEF IInv
<1> QED
  BY <1>2, <1>4, <1>5 DEF Process

LEMMA ProcessNothingInv ==
  ASSUME IInv, ProcessNothing
  PROVE  IInv'
<1> DEFINE d == [Now EXCEPT !.queued = FALSE]
<1>1. /\ Transfers /\ Arbitration
      /\ mcr.halt \/ (active = None /\ Waiting = {})
      /\ queued' = FALSE
      /\ UNCHANGED <<mcr, chpri, fixed, rr, tcd, erq, hrs, er, irq, pending, link, active,
                     stale, failed, passed>>
  BY DEF ProcessNothing, IInv, control, flags
<1>2. Now' \in Part
  BY <1>1 DEF Transfers, Now, Part
<1>3. Awake(Now')
  BY <1>1, NowFields DEF Awake, Now, Waiting
<1>4. \A x \in Channels : tcd'[x].start \/ x \in hrs' \intersect erq' => Settled(Now', x)
  BY <1>1 DEF Transfers, Settled, Now
<1>5. Transfers'
  BY <1>1, <1>2, <1>3, <1>4 DEF Transfers, ActiveWaits
<1>6. chpri' \in [Channels -> Nat]
  BY <1>1 DEF Arbitration
<1>7. Arbitration'
  BY <1>1, <1>6, ArbitrationUnchanged
<1> QED
  BY <1>5, <1>7 DEF IInv

LEMMA NextInv ==
  ASSUME IInv, [Next]_vars
  PROVE  IInv'
<1>1. CASE Reset
  BY <1>1, ResetInv
<1>2. CASE Process
  BY <1>2, ProcessInv
<1>3. CASE ProcessNothing
  BY <1>3, ProcessNothingInv
<1>4. ASSUME NEW c \in HwChannels, DmaRequest(c) PROVE IInv'
  BY <1>4, DmaRequestInv
<1>5. ASSUME NEW c \in HwChannels, SetErq(c) PROVE IInv'
  BY <1>5, SetErqInv
<1>6. ASSUME NEW S \in SUBSET HwChannels, WriteErq(S) PROVE IInv'
  BY <1>6, WriteErqInv
<1>7. ASSUME NEW c \in SwChannels, SetStart(c) PROVE IInv'
  BY <1>7, SetStartInv
<1>8. ASSUME NEW c \in FlagChannels, ClearFlags(c) PROVE IInv'
  BY <1>8, ClearFlagsInv
<1>9. ASSUME NEW c \in Channels, NEW t \in Tcds[c], WriteTcd(c, t) PROVE IInv'
  BY <1>9, WriteTcdInv
<1>10. ASSUME NEW cp \in ChpriSet, WriteCpr(cp) PROVE IInv'
  BY <1>10, WriteCprInv
<1>11. ASSUME NEW m \in McrSet, NEW cancel \in Cancels, WriteMcr(m, cancel) PROVE IInv'
  BY <1>11, WriteMcrInv
<1>12. CASE UNCHANGED vars
  <2>1. UNCHANGED <<mcr, chpri, fixed, rr, tcd, erq, hrs, er, irq, pending, link, active,
                    stale, queued, failed, passed>>
    BY <1>12 DEF vars, control, flags
  <2>2. Transfers'
    BY <2>1, TransfersUnchanged DEF IInv
  <2>3. chpri' \in [Channels -> Nat]
    BY <2>1 DEF IInv, Arbitration
  <2>4. Arbitration'
    BY <2>1, <2>3, ArbitrationUnchanged DEF IInv
  <2> QED
    BY <2>2, <2>4 DEF IInv
<1> QED
  BY <1>1, <1>2, <1>3, <1>4, <1>5, <1>6, <1>7, <1>8, <1>9, <1>10, <1>11, <1>12 DEF Next

-----------------------------------------------------------------------------
(* The theorems.                                                           *)

\* Both parts of the invariant hold in every state.
THEOREM Invariance == Spec => []IInv
<1> QED
  BY InitInv, NextInv, PTL DEF Spec

\* The state has its types: among them, the four lists of priorities are orders of
\* the groups and of the channels of each group, whatever priorities are written and
\* however arbitration rotates them.
THEOREM TypeCorrect == Spec => []TypeOK
<1>1. IInv => TypeOK
  BY IInvImplies
<1> QED
  BY <1>1, Invariance, PTL

\* While DMA is not halted and a transfer is pending, the function that processes
\* transfers is scheduled: it leaves the extra processing only when it is halted or
\* has nothing to do, and whatever ends a halt or starts a transfer puts it back.
THEOREM NeverAsleep == Spec => []Scheduled
<1>1. IInv => Scheduled
  BY IInvImplies
<1> QED
  BY <1>1, Invariance, PTL

\* A request is not forgotten: the channel is pending, or waits for the end of a
\* halt, or its transfer failed, was cancelled or written over.
THEOREM NoneForgotten == Spec => []NoRequestForgotten
<1>1. IInv => NoRequestForgotten
  BY IInvImplies
<1> QED
  BY <1>1, Invariance, PTL

\* Round-robin arbitration is fair, with any number of groups of any size: a channel
\* that waits is passed over less often than there are places in all the groups.
THEOREM BypassBounded == Spec => []BoundedBypass
<1>1. IInv => BoundedBypass
  BY IInvImplies
<1> QED
  BY <1>1, Invariance, PTL

=============================================================================

--------------------------- MODULE McuIntc_proofs ---------------------------
(***************************************************************************)
(* Proofs about McuIntc, for any set of exceptions, any priorities and any *)
(* bound: type correctness, the exactness of hasInterrupt, the order of    *)
(* the queue and of the handler stack, and that no exception is lost.      *)
(* And about Flash, for any layout of main flash and any firmware: what a  *)
(* lock, a program operation and the backup promise.                       *)
(***************************************************************************)
EXTENDS McuIntc, Flash, FiniteSetTheorems, SequenceTheorems, TLAPS

-----------------------------------------------------------------------------
(* Lemmas about the lists.                                                 *)

\* The positions of a sequence are finite, and so is every part of them.
LEMMA Positions ==
  ASSUME NEW S, NEW s \in Seq(S), NEW J \in SUBSET DOMAIN s
  PROVE  /\ DOMAIN s = 1 .. Len(s) /\ Len(s) \in Nat
         /\ IsFiniteSet(DOMAIN s) /\ Cardinality(DOMAIN s) = Len(s)
         /\ IsFiniteSet(J) /\ Cardinality(J) \in Nat
<1>1. DOMAIN s = 1 .. Len(s) /\ Len(s) \in Nat
  BY LenProperties
<1>2. IsFiniteSet(DOMAIN s) /\ Cardinality(DOMAIN s) = Len(s)
  <2>1. 1 \in Int /\ Len(s) \in Int
    BY <1>1
  <2>2. /\ IsFiniteSet(1 .. Len(s))
        /\ Cardinality(1 .. Len(s)) = IF 1 > Len(s) THEN 0 ELSE Len(s) - 1 + 1
    BY <2>1, FS_Interval
  <2>3. QED
    BY <1>1, <2>2
<1>3. IsFiniteSet(J)
  BY <1>2, FS_Subset
<1>4. QED
  BY <1>1, <1>2, <1>3, FS_CardinalityType

\* An arrangement of elements of s is a sequence of those elements.
LEMMA ArrangedSeq ==
  ASSUME NEW S, NEW s \in Seq(S), NEW J \in SUBSET DOMAIN s, NEW order,
         NEW T, \A i \in J : s[i] \in T,
         NEW t \in Arranged(s, J, order)
  PROVE  t \in Seq(T) /\ Len(t) = Cardinality(J)
<1> DEFINE n == Cardinality(J)
<1>1. n \in Nat /\ DOMAIN s = 1 .. Len(s)
  BY Positions
<1>2. PICK f \in Enumerations(J, order) : t = [k \in 1 .. n |-> s[f[k]]]
  BY DEF Arranged
<1>3. f \in [1 .. n -> J]
  BY <1>2 DEF Enumerations
<1> HIDE DEF n
<1>4. \A k \in 1 .. n : s[f[k]] \in T
  BY <1>3
<1>5. t \in [1 .. n -> T]
  BY <1>2, <1>4
<1>6. t \in Seq(T) /\ Len(t) = n
  BY <1>1, <1>5
<1>7. QED
  BY <1>6 DEF n

\* An arrangement in a strict order leaves none of the chosen elements out.
LEMMA ArrangedRange ==
  ASSUME NEW S, NEW s \in Seq(S), NEW J \in SUBSET DOMAIN s, NEW order,
         \A x : <<x, x>> \notin order,
         NEW t \in Arranged(s, J, order)
  PROVE  \A i \in J : s[i] \in Range(t)
<1> DEFINE n == Cardinality(J)
<1>1. n \in Nat /\ IsFiniteSet(J)
  BY Positions
<1>2. PICK f \in Enumerations(J, order) : t = [k \in 1 .. n |-> s[f[k]]]
  BY DEF Arranged
<1>3. f \in [1 .. n -> J] /\ \A a, b \in 1 .. n : a < b => <<f[a], f[b]>> \in order
  BY <1>2 DEF Enumerations
<1>4. IsFiniteSet(1 .. n) /\ Cardinality(1 .. n) = n
  BY <1>1, FS_Interval
<1>5. \A a, b \in 1 .. n : f[a] = f[b] => a = b
  <2> SUFFICES ASSUME NEW a \in 1 .. n, NEW b \in 1 .. n, f[a] = f[b], a # b
               PROVE  FALSE
    OBVIOUS
  <2>1. a < b \/ b < a
    BY <1>1
  <2>2. <<f[a], f[b]>> \in order \/ <<f[b], f[a]>> \in order
    BY <1>3, <2>1
  <2>3. QED
    BY <2>2
<1>6. f \in Injection(1 .. n, J)
  BY <1>3, <1>5 DEF Injection, IsInjective
<1>7. f \in Surjection(1 .. n, J)
  BY <1>1, <1>4, <1>6, FS_Injection
<1>8. QED
  BY <1>2, <1>7 DEF Surjection, Range

\* Of several positions one is the first.
LEMMA Least ==
  ASSUME NEW T \in SUBSET Nat, T # {}
  PROVE  \E m \in T : \A j \in T : m <= j
<1> DEFINE R == OpToRel(<, Nat)
<1>1. \A a, b \in Nat : a < b => <<a, b>> \in R
  BY DEF OpToRel
<1>2. IsWellFoundedOn(R, Nat)
  BY NatLessThanWellFounded
<1> HIDE DEF R
<1>3. PICK m \in T : \A j \in T : <<j, m>> \notin R
  BY <1>2, WFMin
<1>4. \A j \in T : ~(j < m)
  BY <1>1, <1>3
<1>5. QED
  BY <1>4

\* Picking positions in ascending order keeps exactly the chosen elements.
LEMMA PicksFacts ==
  ASSUME NEW S, NEW s \in Seq(S), NEW J \in SUBSET DOMAIN s,
         NEW T, \A i \in J : s[i] \in T,
         NEW t \in Picks(s, J)
  PROVE  t \in Seq(T) /\ Len(t) = Cardinality(J) /\ \A i \in J : s[i] \in Range(t)
<1>1. J \subseteq Nat
  BY Positions
<1>2. \A x : <<x, x>> \notin Ascending(J)
  BY <1>1 DEF Ascending
<1>3. t \in Arranged(s, J, Ascending(J))
  BY DEF Picks
<1>4. t \in Seq(T) /\ Len(t) = Cardinality(J)
  BY <1>3, ArrangedSeq
<1>5. \A i \in J : s[i] \in Range(t)
  BY <1>2, <1>3, ArrangedRange
<1>6. QED
  BY <1>4, <1>5

\* Sorting a list of exceptions gives a sorted list of the same exceptions.
LEMMA SortsFacts ==
  ASSUME NEW s \in Seq(Exc), NEW t \in Sorts(s)
  PROVE  t \in Seq(Exc) /\ Sorted(t) /\ Range(t) = Range(s)
<1> DEFINE J == DOMAIN s
<1>1. J = 1 .. Len(s) /\ Len(s) \in Nat /\ Cardinality(J) = Len(s)
  BY Positions
<1>2. t \in Arranged(s, J, ByPrio(s))
  BY DEF Sorts
<1>3. \A i \in J : s[i] \in Exc /\ Prio[s[i]] \in Nat
  BY <1>1, ElementOfSeq, ExcAssumption
<1>4. \A x : <<x, x>> \notin ByPrio(s)
  BY <1>1, <1>3 DEF ByPrio
<1>5. t \in Seq(Exc) /\ Len(t) = Len(s)
  BY <1>1, <1>2, <1>3, ArrangedSeq
<1>6. Range(s) \subseteq Range(t)
  BY <1>2, <1>4, ArrangedRange DEF Range
<1>7. PICK f \in Enumerations(J, ByPrio(s)) : t = [k \in 1 .. Len(s) |-> s[f[k]]]
  BY <1>1, <1>2 DEF Arranged
<1>8. /\ f \in [1 .. Len(s) -> J]
      /\ \A a, b \in 1 .. Len(s) : a < b => <<f[a], f[b]>> \in ByPrio(s)
  BY <1>1, <1>7 DEF Enumerations
<1>9. Range(t) \subseteq Range(s)
  BY <1>7, <1>8 DEF Range
<1>10. Sorted(t)
  <2> SUFFICES ASSUME NEW a \in 1 .. Len(t), NEW b \in 1 .. Len(t), a < b
               PROVE  Prio[t[a]] <= Prio[t[b]]
    BY DEF Sorted
  <2>1. <<f[a], f[b]>> \in ByPrio(s) /\ t[a] = s[f[a]] /\ t[b] = s[f[b]]
    BY <1>5, <1>7, <1>8
  <2>2. f[a] \in J /\ f[b] \in J
    BY <1>5, <1>8
  <2>3. Prio[s[f[a]]] < Prio[s[f[b]]] \/ Prio[s[f[a]]] = Prio[s[f[b]]]
    BY <2>1 DEF ByPrio
  <2>4. QED
    BY <1>3, <2>1, <2>2, <2>3
<1>11. QED
  BY <1>5, <1>6, <1>9, <1>10

\* The head of a sorted list is as urgent as anything in it.
LEMMA HeadMostUrgent ==
  ASSUME NEW q \in Seq(Exc), q # <<>>, Sorted(q), NEW x \in Range(q)
  PROVE  Head(q) \in Range(q) /\ Prio[Head(q)] <= Prio[x]
<1>1. Len(q) \in Nat /\ Len(q) > 0 /\ DOMAIN q = 1 .. Len(q) /\ Head(q) = q[1]
  BY LenProperties, EmptySeq
<1>2. PICK i \in 1 .. Len(q) : x = q[i]
  BY <1>1 DEF Range
<1>3. q[1] \in Exc /\ x \in Exc
  BY <1>1, <1>2, ElementOfSeq
<1>4. i = 1 \/ 1 < i
  BY <1>2
<1>5. Prio[q[1]] <= Prio[x]
  BY <1>1, <1>2, <1>3, <1>4, ExcAssumption DEF Sorted
<1>6. QED
  BY <1>1, <1>5 DEF Range

\* Whether something can preempt depends on what is queued, not on how it is
\* arranged among equals.
LEMMA ReadySame ==
  ASSUME NEW q \in Seq(Exc), NEW r \in Seq(Exc), Sorted(q), Sorted(r),
         Range(q) = Range(r), NEW lvl \in Nat
  PROVE  Ready(lvl, q) = Ready(lvl, r)
<1>1. q = <<>> <=> r = <<>>
  <2>1. q = <<>> <=> Range(q) = {}
    BY EmptySeq, LenProperties DEF Range
  <2>2. r = <<>> <=> Range(r) = {}
    BY EmptySeq, LenProperties DEF Range
  <2> QED
    BY <2>1, <2>2
<1>2. CASE q # <<>> /\ r # <<>>
  <2>1. Head(q) \in Range(q) /\ Head(r) \in Range(r)
    BY <1>2, HeadTailProperties, LenProperties, EmptySeq DEF Range
  <2>2. Prio[Head(q)] <= Prio[Head(r)] /\ Prio[Head(r)] <= Prio[Head(q)]
    BY <1>2, <2>1, HeadMostUrgent
  <2>3. Prio[Head(q)] \in Nat /\ Prio[Head(r)] \in Nat
    BY <1>2, HeadTailProperties, ExcAssumption
  <2>4. QED
    BY <1>2, <2>2, <2>3 DEF Ready
<1>3. QED
  BY <1>1, <1>2 DEF Ready

\* What appending, joining and dropping the head keep.
LEMMA AppendRange ==
  ASSUME NEW S, NEW q \in Seq(S), NEW e \in S
  PROVE  Append(q, e) \in Seq(S) /\ Range(Append(q, e)) = Range(q) \union {e}
<1>1. Len(q) \in Nat /\ DOMAIN q = 1 .. Len(q)
  BY LenProperties
<1>2. /\ Append(q, e) \in Seq(S) /\ DOMAIN Append(q, e) = 1 .. Len(q) + 1
      /\ \A i \in 1 .. Len(q) : Append(q, e)[i] = q[i]
      /\ Append(q, e)[Len(q) + 1] = e
  BY <1>1
<1>3. \A i \in 1 .. Len(q) + 1 : i \in 1 .. Len(q) \/ i = Len(q) + 1
  BY <1>1
<1>4. 1 .. Len(q) \subseteq 1 .. Len(q) + 1 /\ Len(q) + 1 \in 1 .. Len(q) + 1
  BY <1>1
<1>5. QED
  BY <1>1, <1>2, <1>3, <1>4 DEF Range

LEMMA ConcatRange ==
  ASSUME NEW S, NEW q \in Seq(S), NEW r \in Seq(S)
  PROVE  q \o r \in Seq(S) /\ Range(q \o r) = Range(q) \union Range(r)
<1>1. /\ Len(q) \in Nat /\ DOMAIN q = 1 .. Len(q)
      /\ Len(r) \in Nat /\ DOMAIN r = 1 .. Len(r)
  BY LenProperties
<1>2. /\ q \o r \in Seq(S) /\ DOMAIN (q \o r) = 1 .. Len(q) + Len(r)
      /\ \A i \in 1 .. Len(q) + Len(r) :
           (q \o r)[i] = IF i <= Len(q) THEN q[i] ELSE r[i - Len(q)]
  BY <1>1, ConcatProperties, LenProperties
<1>3. Range(q \o r) \subseteq Range(q) \union Range(r)
  <2> SUFFICES ASSUME NEW i \in 1 .. Len(q) + Len(r)
               PROVE  (q \o r)[i] \in Range(q) \union Range(r)
    BY <1>2 DEF Range
  <2>1. CASE i \in 1 .. Len(q)
    <3>1. (q \o r)[i] = q[i]
      BY <1>1, <1>2, <2>1
    <3> QED
      BY <1>1, <2>1, <3>1 DEF Range
  <2>2. CASE i \notin 1 .. Len(q)
    <3>1. (q \o r)[i] = r[i - Len(q)] /\ i - Len(q) \in 1 .. Len(r)
      BY <1>1, <1>2, <2>2
    <3> QED
      BY <1>1, <3>1 DEF Range
  <2> QED
    BY <2>1, <2>2
<1>4. Range(q) \subseteq Range(q \o r)
  <2>1. \A i \in 1 .. Len(q) : i \in 1 .. Len(q) + Len(r) /\ i <= Len(q)
    BY <1>1
  <2>2. QED
    BY <1>1, <1>2, <2>1 DEF Range
<1>5. Range(r) \subseteq Range(q \o r)
  <2> SUFFICES ASSUME NEW i \in 1 .. Len(r)
               PROVE  r[i] \in Range(q \o r)
    BY <1>1 DEF Range
  <2>1. /\ i + Len(q) \in 1 .. Len(q) + Len(r)
        /\ ~(i + Len(q) <= Len(q))
        /\ (i + Len(q)) - Len(q) = i
    BY <1>1
  <2>2. (q \o r)[i + Len(q)] = r[i]
    BY <1>2, <2>1
  <2>3. QED
    BY <1>2, <2>1, <2>2 DEF Range
<1>6. QED
  BY <1>2, <1>3, <1>4, <1>5

LEMMA TailRange ==
  ASSUME NEW S, NEW q \in Seq(S), q # <<>>
  PROVE  Tail(q) \in Seq(S) /\ Range(q) = {Head(q)} \union Range(Tail(q))
<1>1. Len(q) \in Nat /\ Len(q) > 0 /\ DOMAIN q = 1 .. Len(q)
  BY LenProperties, EmptySeq
<1>2. /\ Tail(q) \in Seq(S) /\ Len(Tail(q)) = Len(q) - 1
      /\ \A i \in 1 .. Len(Tail(q)) : Tail(q)[i] = q[i + 1]
  BY HeadTailProperties
<1>3. DOMAIN Tail(q) = 1 .. Len(q) - 1 /\ Head(q) = q[1]
  BY <1>2, LenProperties
<1>4. Range(q) \subseteq {Head(q)} \union Range(Tail(q))
  <2> SUFFICES ASSUME NEW i \in 1 .. Len(q), i # 1
               PROVE  q[i] \in Range(Tail(q))
    BY <1>1, <1>3 DEF Range
  <2>1. i - 1 \in 1 .. Len(q) - 1 /\ (i - 1) + 1 = i
    BY <1>1
  <2>2. Tail(q)[i - 1] = q[i]
    BY <1>2, <2>1
  <2>3. QED
    BY <1>3, <2>1, <2>2 DEF Range
<1>5. {Head(q)} \union Range(Tail(q)) \subseteq Range(q)
  <2>1. \A i \in 1 .. Len(q) - 1 : i + 1 \in 1 .. Len(q)
    BY <1>1
  <2>2. 1 \in 1 .. Len(q)
    BY <1>1
  <2>3. QED
    BY <1>1, <1>2, <1>3, <2>1, <2>2 DEF Range
<1>6. QED
  BY <1>2, <1>4, <1>5

\* Dropping the head keeps a list sorted.
LEMMA TailSorted ==
  ASSUME NEW q \in Seq(Exc), q # <<>>, Sorted(q)
  PROVE  Sorted(Tail(q))
<1>1. /\ Len(q) \in Nat /\ Len(Tail(q)) = Len(q) - 1
      /\ \A i \in 1 .. Len(Tail(q)) : Tail(q)[i] = q[i + 1]
  BY HeadTailProperties, LenProperties
<1>2. \A i, j \in 1 .. Len(Tail(q)) :
         /\ i + 1 \in 1 .. Len(q) /\ j + 1 \in 1 .. Len(q)
         /\ i < j => i + 1 < j + 1
  BY <1>1
<1>3. QED
  BY <1>1, <1>2 DEF Sorted

-----------------------------------------------------------------------------
(* The inductive invariant.  The flag is exact only together with the      *)
(* order of the queue (re-sorting it must not change its head's urgency),  *)
(* the order of the stack needs the flag to be exact (a handler is entered *)
(* on the flag alone), and no loss needs the types of the lists.           *)

IInv ==
  /\ TypeOK
  /\ HasInterruptExact
  /\ PendingSorted
  /\ StackDiscipline
  /\ AcknowledgesActive
  /\ NothingLost

\* the part of it that INTC._checkDelayedExcs must keep
Queues(p, s, d, o) ==
  /\ p \in Seq(Exc) /\ s \in Seq(Exc) /\ d \in Seq(External)
  /\ Sorted(p)
  /\ o \subseteq Range(p) \union Range(s) \union Range(d)

\* _checkDelayedExcs loses nothing, and leaves the queue sorted and the flag
\* as exact as it was.
LEMMA CheckDelayedFacts ==
  ASSUME Queues(pending, saved, delayed, owed), NEW pri, NEW ee \in BOOLEAN,
         NEW lvl \in Nat,
         CheckDelayed(pri, ee, lvl, Ready(lvl, pending))
  PROVE  /\ Queues(pending', saved', delayed', owed)
         /\ hasInterrupt' = Ready(lvl, pending')
<1> DEFINE go    == {i \in DOMAIN delayed : Psr[delayed[i]] >= pri}
           fresh == {i \in go : delayed[i] \notin Range(pending)}
           first == {i \in fresh : \A j \in fresh : j < i => delayed[j] # delayed[i]}
           stay  == DOMAIN delayed \ go
<1>1. /\ pending \in Seq(Exc) /\ saved \in Seq(Exc) /\ delayed \in Seq(External)
      /\ Sorted(pending)
      /\ owed \subseteq Range(pending) \union Range(saved) \union Range(delayed)
  BY DEF Queues
<1>2. External \subseteq Exc
  BY DEF External
<1>3. \A i \in DOMAIN delayed : delayed[i] \in External
  BY <1>1, LenProperties, ElementOfSeq
<1>4. delayed' \in Picks(delayed, stay)
  BY DEF CheckDelayed
<1>5. delayed' \in Seq(External) /\ \A i \in stay : delayed[i] \in Range(delayed')
  BY <1>1, <1>3, <1>4, PicksFacts
<1>6. CASE ee
  <2>1. PICK old \in Picks(delayed, first) : pending' \in Sorts(pending \o old)
    BY <1>6 DEF CheckDelayed
  <2>2. /\ hasInterrupt' = IF first = {} THEN Ready(lvl, pending) ELSE Ready(lvl, pending')
        /\ saved' = saved
    BY <1>6 DEF CheckDelayed
  <2>3. /\ old \in Seq(Exc) /\ Len(old) = Cardinality(first)
        /\ \A i \in first : delayed[i] \in Range(old)
    BY <1>1, <1>2, <1>3, <2>1, PicksFacts
  <2>4. pending \o old \in Seq(Exc) /\ Range(pending \o old) = Range(pending) \union Range(old)
    BY <1>1, <2>3, ConcatRange
  <2>5. /\ pending' \in Seq(Exc) /\ Sorted(pending')
        /\ Range(pending') = Range(pending) \union Range(old)
    BY <2>1, <2>4, SortsFacts
  <2>6. hasInterrupt' = Ready(lvl, pending')
    <3>1. CASE first # {}
      BY <2>2, <3>1
    <3>2. CASE first = {}
      <4>1. Len(old) = 0
        BY <2>3, <3>2, FS_EmptySet
      <4>2. Range(old) = {}
        BY <2>3, <4>1, LenProperties DEF Range
      <4>3. QED
        BY <1>1, <2>2, <2>5, <3>2, <4>2, ReadySame
    <3>3. QED
      BY <3>1, <3>2
  <2>7. \A i \in fresh : \E j \in first : delayed[j] = delayed[i]
    <3> SUFFICES ASSUME NEW i \in fresh
                 PROVE  \E j \in first : delayed[j] = delayed[i]
      OBVIOUS
    <3> DEFINE same == {j \in fresh : delayed[j] = delayed[i]}
    <3>1. same \subseteq Nat /\ i \in same
      BY <1>1, LenProperties
    <3>2. PICK m \in same : \A j \in same : m <= j
      <4> HIDE DEF same
      <4>1. QED
        BY <3>1, Least
    <3>3. m \in first
      BY <1>1, <3>2, LenProperties
    <3>4. QED
      BY <3>2, <3>3
  <2>8. Range(delayed) \subseteq Range(delayed') \union Range(pending')
    <3> SUFFICES ASSUME NEW i \in DOMAIN delayed
                 PROVE  delayed[i] \in Range(delayed') \union Range(pending')
      BY DEF Range
    <3>1. i \in stay \/ delayed[i] \in Range(pending) \/ i \in fresh
      OBVIOUS
    <3>2. QED
      BY <1>5, <2>3, <2>5, <2>7, <3>1
  <2>9. QED
    BY <1>1, <1>5, <2>2, <2>5, <2>6, <2>8 DEF Queues
<1>7. CASE ~ee
  <2>1. PICK old \in Picks(delayed, fresh) : saved' = saved \o old
    BY <1>7 DEF CheckDelayed
  <2>2. hasInterrupt' = Ready(lvl, pending) /\ pending' = pending
    BY <1>7 DEF CheckDelayed
  <2>3. /\ old \in Seq(Exc)
        /\ \A i \in fresh : delayed[i] \in Range(old)
    BY <1>1, <1>2, <1>3, <2>1, PicksFacts
  <2>4. saved' \in Seq(Exc) /\ Range(saved') = Range(saved) \union Range(old)
    BY <1>1, <2>1, <2>3, ConcatRange
  <2>5. Range(delayed) \subseteq Range(delayed') \union Range(pending) \union Range(saved')
    <3> SUFFICES ASSUME NEW i \in DOMAIN delayed
                 PROVE  delayed[i] \in Range(delayed') \union Range(pending) \union Range(saved')
      BY DEF Range
    <3>1. i \in stay \/ delayed[i] \in Range(pending) \/ i \in fresh
      OBVIOUS
    <3>2. QED
      BY <1>5, <2>3, <2>4, <3>1
  <2>6. QED
    BY <1>1, <1>5, <2>2, <2>4, <2>5 DEF Queues
<1>8. QED
  BY <1>6, <1>7

-----------------------------------------------------------------------------
(* The stack.                                                              *)

\* Entering a handler above the current level keeps the nesting order.
LEMMA PushNested ==
  ASSUME NEW stk \in Seq(Exc), NEW e \in Exc, Nested(stk), Prio[e] < Level(stk)
  PROVE  /\ Append(stk, e) \in Seq(Exc) /\ Nested(Append(stk, e))
         /\ Level(Append(stk, e)) = Prio[e]
<1> DEFINE new == Append(stk, e)
<1>1. /\ new \in Seq(Exc) /\ new # <<>> /\ Len(new) = Len(stk) + 1 /\ Len(stk) \in Nat
      /\ \A i \in 1 .. Len(stk) : new[i] = stk[i]
      /\ new[Len(stk) + 1] = e
  BY AppendProperties, LenProperties
<1>2. \A i \in 1 .. Len(stk) : stk[i] \in Exc /\ Prio[stk[i]] \in Nat
  BY ElementOfSeq, ExcAssumption
<1>3. \A i \in 1 .. Len(stk) : Prio[e] < Prio[stk[i]]
  <2> SUFFICES ASSUME NEW i \in 1 .. Len(stk)
               PROVE  Prio[e] < Prio[stk[i]]
    OBVIOUS
  <2>1. stk # <<>> /\ Len(stk) \in 1 .. Len(stk)
    BY <1>1, EmptySeq
  <2>2. Prio[e] < Prio[stk[Len(stk)]]
    BY <2>1 DEF Level
  <2>3. i = Len(stk) \/ Prio[stk[Len(stk)]] < Prio[stk[i]]
    BY <1>1, <2>1 DEF Nested
  <2>4. Prio[e] \in Nat
    BY ExcAssumption
  <2>5. QED
    BY <1>2, <2>1, <2>2, <2>3, <2>4
<1>4. Nested(new)
  <2> SUFFICES ASSUME NEW i \in 1 .. Len(new), NEW j \in 1 .. Len(new), i < j
               PROVE  Prio[new[j]] < Prio[new[i]]
    BY DEF Nested
  <2>1. i \in 1 .. Len(stk) /\ (j \in 1 .. Len(stk) \/ j = Len(stk) + 1)
    BY <1>1
  <2>2. QED
    BY <1>1, <1>3, <2>1 DEF Nested
<1>5. QED
  BY <1>1, <1>4 DEF Level

\* The first n elements of a sequence.
LEMMA FrontFacts ==
  ASSUME NEW S, NEW s, NEW n \in Nat, \A i \in 1 .. n : s[i] \in S
  PROVE  /\ SubSeq(s, 1, n) \in Seq(S) /\ Len(SubSeq(s, 1, n)) = n
         /\ \A i \in 1 .. n : SubSeq(s, 1, n)[i] = s[i]
<1>1. 1 \in Int /\ n \in Int
  OBVIOUS
<1>2. /\ SubSeq(s, 1, n) \in Seq(S)
      /\ Len(SubSeq(s, 1, n)) = IF 1 <= n THEN n - 1 + 1 ELSE 0
      /\ \A i \in 1 .. n - 1 + 1 : SubSeq(s, 1, n)[i] = s[1 + i - 1]
  BY <1>1, SubSeqProperties
<1>3. \A i \in 1 .. n : i \in 1 .. n - 1 + 1 /\ 1 + i - 1 = i
  OBVIOUS
<1>4. QED
  BY <1>2, <1>3

\* Leaving the innermost handler keeps it too, and the level drops to that of
\* the handler that is resumed.
LEMMA PopNested ==
  ASSUME NEW stk \in Seq(Exc), stk # <<>>, Nested(stk)
  PROVE  LET new == SubSeq(stk, 1, Len(stk) - 1) IN
         /\ new \in Seq(Exc) /\ Nested(new)
         /\ Level(new) = IF Len(stk) = 1 THEN INTC_LEVEL_NONE ELSE Prio[stk[Len(stk) - 1]]
<1> DEFINE new == SubSeq(stk, 1, Len(stk) - 1)
<1>1. Len(stk) \in Nat /\ Len(stk) > 0
  BY LenProperties, EmptySeq
<1>2. \A i \in 1 .. Len(stk) - 1 : stk[i] \in Exc
  BY <1>1, ElementOfSeq
<1>3. /\ new \in Seq(Exc) /\ Len(new) = Len(stk) - 1
      /\ \A i \in 1 .. Len(new) : new[i] = stk[i]
  <2> DEFINE n == Len(stk) - 1
  <2>1. n \in Nat /\ \A i \in 1 .. n : stk[i] \in Exc
    BY <1>1, <1>2
  <2> HIDE DEF n
  <2>2. /\ SubSeq(stk, 1, n) \in Seq(Exc) /\ Len(SubSeq(stk, 1, n)) = n
        /\ \A i \in 1 .. n : SubSeq(stk, 1, n)[i] = stk[i]
    BY <2>1, FrontFacts
  <2>3. QED
    BY <2>2 DEF n
<1> HIDE DEF new
<1>4. Nested(new)
  BY <1>1, <1>3 DEF Nested
<1>5. new = <<>> <=> Len(stk) = 1
  BY <1>1, <1>3, EmptySeq
<1>6. Level(new) = IF Len(stk) = 1 THEN INTC_LEVEL_NONE ELSE Prio[stk[Len(stk) - 1]]
  BY <1>1, <1>3, <1>5 DEF Level
<1>7. QED
  BY <1>3, <1>4, <1>6 DEF new

LEMMA LevelType ==
  ASSUME NEW stk \in Seq(Exc)
  PROVE  Level(stk) \in Nat
<1>1. CASE stk = <<>>
  BY <1>1 DEF Level, INTC_LEVEL_NONE
<1>2. CASE stk # <<>>
  <2>1. Len(stk) \in 1 .. Len(stk)
    BY <1>2, LenProperties, EmptySeq
  <2>2. stk[Len(stk)] \in Exc
    BY <2>1, ElementOfSeq
  <2>3. QED
    BY <1>2, <2>2, ExcAssumption DEF Level
<1>3. QED
  BY <1>1, <1>2

-----------------------------------------------------------------------------
(* One lemma per action.                                                   *)

\* the types of what most actions leave alone
LEMMA Types ==
  ASSUME TypeOK
  PROVE  /\ pending \in Seq(Exc) /\ saved \in Seq(Exc) /\ stack \in Seq(Exc)
         /\ delayed \in Seq(External) /\ delayed \in Seq(Exc)
         /\ External \subseteq Exc /\ curlvl \in Nat
<1>1. External \subseteq Exc
  BY DEF External
<1>2. QED
  BY <1>1, SeqMonotonic DEF TypeOK

\* The initial lists are empty, and so owe nothing.
LEMMA InitInv == Init => IInv
<1> SUFFICES ASSUME Init PROVE IInv
  OBVIOUS
<1>1. \A S : <<>> \in Seq(S) /\ Len(<<>>) = 0
  OBVIOUS
<1>2. TypeOK
  <2>1. msr \in Masks /\ curlvl \in Nat /\ cpr \in 0 .. 15
    BY DEF Init, INTC_LEVEL_NONE, Masks
  <2>2. QED
    BY <1>1, <2>1 DEF Init, TypeOK
<1>3. HasInterruptExact /\ PendingSorted /\ StackDiscipline
  <2>1. HasInterruptExact
    BY DEF Init, HasInterruptExact, Ready
  <2>2. Sorted(<<>>) /\ Nested(<<>>) /\ Level(<<>>) = INTC_LEVEL_NONE
    BY <1>1 DEF Sorted, Nested, Level
  <2>3. QED
    BY <2>1, <2>2 DEF Init, PendingSorted, StackDiscipline
<1>4. AcknowledgesActive /\ NothingLost
  BY DEF Init, AcknowledgesActive, NothingLost
<1>5. QED
  BY <1>2, <1>3, <1>4 DEF IInv

\* A raised exception goes to a list, or is already in the pending one.
LEMMA QueueExceptionInv ==
  ASSUME IInv, NEW e \in Exc, QueueException(e)
  PROVE  IInv'
<1>1. TypeOK /\ HasInterruptExact /\ PendingSorted /\ StackDiscipline
      /\ AcknowledgesActive /\ NothingLost
  BY DEF IInv
<1>2. /\ pending \in Seq(Exc) /\ saved \in Seq(Exc) /\ delayed \in Seq(External)
      /\ delayed \in Seq(Exc) /\ curlvl \in Nat
  BY <1>1, Types
<1>3. /\ owed' = owed \union {e}
      /\ UNCHANGED <<stack, curlvl, msr, hven, cpr, lifo, curExc>>
  BY DEF QueueException, regs, intc
<1>4. owed \subseteq Range(pending) \union Range(saved) \union Range(delayed)
  BY <1>1 DEF NothingLost
<1> DEFINE Goal == /\ Queues(pending', saved', delayed', owed')
                   /\ hasInterrupt' = Ready(curlvl, pending')
<1>5. Goal
  <2>1. CASE e \in Range(pending) /\ UNCHANGED lists
    BY <1>1, <1>2, <1>3, <1>4, <2>1 DEF lists, Queues, HasInterruptExact, PendingSorted
  <2>2. CASE /\ ~ShouldHandle(e)
             /\ saved' = Append(saved, e)
             /\ delayed' = IF Delays(e) THEN Append(delayed, e) ELSE delayed
             /\ UNCHANGED <<pending, hasInterrupt>>
    <3>1. saved' \in Seq(Exc) /\ Range(saved') = Range(saved) \union {e}
      BY <1>2, <2>2, AppendRange
    <3>2. Delays(e) => e \in External
      BY DEF Delays, Below, External
    <3>3. CASE Delays(e)
      <4>1. delayed' = Append(delayed, e)
        BY <2>2, <3>3
      <4>2. delayed' \in Seq(External) /\ Range(delayed') = Range(delayed) \union {e}
        BY <1>2, <3>2, <3>3, <4>1, AppendRange
      <4>3. QED
        BY <1>1, <1>2, <1>3, <1>4, <2>2, <3>1, <4>2 DEF Queues, HasInterruptExact, PendingSorted
    <3>4. CASE ~Delays(e)
      BY <1>1, <1>2, <1>3, <1>4, <2>2, <3>1, <3>4 DEF Queues, HasInterruptExact, PendingSorted
    <3>5. QED
      BY <3>3, <3>4
  <2>3. CASE /\ pending' \in Sorts(Append(pending, e))
             /\ hasInterrupt' = Ready(curlvl, pending')
             /\ UNCHANGED <<saved, delayed>>
    <3>1. /\ Append(pending, e) \in Seq(Exc)
          /\ Range(Append(pending, e)) = Range(pending) \union {e}
      BY <1>2, AppendRange
    <3>2. pending' \in Seq(Exc) /\ Sorted(pending') /\ Range(pending') = Range(pending) \union {e}
      BY <2>3, <3>1, SortsFacts
    <3>3. QED
      BY <1>2, <1>3, <1>4, <2>3, <3>2 DEF Queues
  <2>4. QED
    BY <2>1, <2>2, <2>3 DEF QueueException
<1>6. TypeOK'
  <2>1. hasInterrupt' \in BOOLEAN
    BY <1>5 DEF Ready
  <2>2. owed' \subseteq Exc
    BY <1>1, <1>3 DEF TypeOK
  <2>3. QED
    BY <1>1, <1>3, <1>5, <2>1, <2>2 DEF TypeOK, Queues
<1>7. HasInterruptExact' /\ PendingSorted' /\ NothingLost'
  BY <1>3, <1>5 DEF HasInterruptExact, PendingSorted, NothingLost, Queues
<1>8. StackDiscipline' /\ AcknowledgesActive'
  BY <1>1, <1>3 DEF StackDiscipline, AcknowledgesActive
<1>9. QED
  BY <1>6, <1>7, <1>8 DEF IInv

\* The saved list is split between the pending, the delayed and the saved one.
LEMMA MsrWriteInv ==
  ASSUME IInv, NEW new \in Masks, MsrWrite(new)
  PROVE  IInv'
<1> DEFINE ready == {i \in DOMAIN saved : ShouldHandle(saved[i])}
           below == {i \in DOMAIN saved : Delays(saved[i])}
           stay  == DOMAIN saved \ ready
<1>1. TypeOK /\ HasInterruptExact /\ PendingSorted /\ StackDiscipline
      /\ AcknowledgesActive /\ NothingLost
  BY DEF IInv
<1>2. /\ pending \in Seq(Exc) /\ saved \in Seq(Exc) /\ delayed \in Seq(External)
      /\ curlvl \in Nat /\ Sorted(pending) /\ hasInterrupt = Ready(curlvl, pending)
  BY <1>1, Types DEF PendingSorted, HasInterruptExact
<1>3. /\ msr' = new
      /\ UNCHANGED <<stack, curlvl, hven, cpr, lifo, curExc, owed>>
  BY DEF MsrWrite, intc
<1>4. saved' \in Picks(saved, stay)
  BY DEF MsrWrite
<1>5. PICK again \in Picks(saved, below) : delayed' = delayed \o again
  BY DEF MsrWrite
<1>6. PICK old \in Picks(saved, ready) : pending' \in Sorts(pending \o old)
  BY DEF MsrWrite
<1>7. hasInterrupt' = IF ready = {} THEN hasInterrupt ELSE Ready(curlvl, pending')
  BY DEF MsrWrite
<1>8. \A i \in DOMAIN saved : saved[i] \in Exc
  BY <1>2, LenProperties, ElementOfSeq
<1>9. saved' \in Seq(Exc) /\ \A i \in stay : saved[i] \in Range(saved')
  BY <1>2, <1>4, <1>8, PicksFacts
<1>10. delayed' \in Seq(External) /\ Range(delayed) \subseteq Range(delayed')
  <2>1. \A i \in below : saved[i] \in External
    BY <1>8 DEF Delays, Below, External
  <2>2. again \in Seq(External)
    BY <1>2, <1>5, <2>1, PicksFacts
  <2>3. QED
    BY <1>2, <1>5, <2>2, ConcatRange
<1>11. /\ old \in Seq(Exc) /\ Len(old) = Cardinality(ready)
       /\ \A i \in ready : saved[i] \in Range(old)
  BY <1>2, <1>6, <1>8, PicksFacts
<1>12. /\ pending' \in Seq(Exc) /\ Sorted(pending')
       /\ Range(pending') = Range(pending) \union Range(old)
  <2>1. pending \o old \in Seq(Exc) /\ Range(pending \o old) = Range(pending) \union Range(old)
    BY <1>2, <1>11, ConcatRange
  <2>2. QED
    BY <1>6, <2>1, SortsFacts
<1>13. hasInterrupt' = Ready(curlvl, pending')
  <2>1. CASE ready # {}
    BY <1>7, <2>1
  <2>2. CASE ready = {}
    <3>1. Len(old) = 0
      BY <1>11, <2>2, FS_EmptySet
    <3>2. Range(old) = {}
      BY <1>11, <3>1, LenProperties DEF Range
    <3>3. QED
      BY <1>2, <1>7, <1>12, <2>2, <3>2, ReadySame
  <2>3. QED
    BY <2>1, <2>2
<1>14. NothingLost'
  <2>1. Range(saved) \subseteq Range(saved') \union Range(pending')
    <3> SUFFICES ASSUME NEW i \in DOMAIN saved
                 PROVE  saved[i] \in Range(saved') \union Range(pending')
      BY DEF Range
    <3>1. i \in stay \/ i \in ready
      OBVIOUS
    <3>2. QED
      BY <1>9, <1>11, <1>12, <3>1
  <2>2. QED
    BY <1>1, <1>3, <1>10, <1>12, <2>1 DEF NothingLost
<1>15. TypeOK'
  <2>1. hasInterrupt' \in BOOLEAN
    BY <1>13 DEF Ready
  <2>2. QED
    BY <1>1, <1>3, <1>9, <1>10, <1>12, <2>1 DEF TypeOK
<1>16. HasInterruptExact' /\ PendingSorted' /\ StackDiscipline' /\ AcknowledgesActive'
  BY <1>1, <1>3, <1>12, <1>13
     DEF HasInterruptExact, PendingSorted, StackDiscipline, AcknowledgesActive
<1>17. QED
  BY <1>14, <1>15, <1>16 DEF IInv

\* The reset empties every list, and is owed nothing.
LEMMA TakeResetInv ==
  ASSUME IInv, TakeReset
  PROVE  IInv'
<1>1. TypeOK
  BY DEF IInv
<1>2. \A S : <<>> \in Seq(S) /\ Len(<<>>) = 0
  OBVIOUS
<1>3. /\ pending' = <<>> /\ saved' = <<>> /\ stack' = <<>> /\ delayed' = <<>>
      /\ curlvl' = INTC_LEVEL_NONE /\ hasInterrupt' = FALSE
      /\ msr' = [ee |-> FALSE, ce |-> FALSE] /\ lifo' = <<>> /\ curExc' = None
      /\ owed' = {} /\ hven' = hven /\ cpr' = cpr
  BY DEF TakeReset
<1>4. TypeOK'
  <2>1. msr' \in Masks /\ curlvl' \in Nat
    BY <1>3 DEF INTC_LEVEL_NONE, Masks
  <2>2. QED
    BY <1>1, <1>2, <1>3, <2>1 DEF TypeOK
<1>5. HasInterruptExact'
  BY <1>3 DEF HasInterruptExact, Ready
<1>6. Sorted(<<>>) /\ Nested(<<>>) /\ Level(<<>>) = INTC_LEVEL_NONE
  BY <1>2 DEF Sorted, Nested, Level
<1>7. QED
  BY <1>3, <1>4, <1>5, <1>6
     DEF IInv, PendingSorted, StackDiscipline, AcknowledgesActive, NothingLost

\* handleException takes the head of the pending list.
LEMMA TakeHead ==
  ASSUME IInv, pending # <<>>
  PROVE  /\ Head(pending) \in Exc /\ Tail(pending) \in Seq(Exc) /\ Sorted(Tail(pending))
         /\ owed \ {Head(pending)} \subseteq
              Range(Tail(pending)) \union Range(saved) \union Range(delayed)
<1>1. pending \in Seq(Exc) /\ Sorted(pending)
  BY Types DEF IInv, PendingSorted
<1>2. Head(pending) \in Exc /\ Sorted(Tail(pending))
  BY <1>1, HeadTailProperties, TailSorted
<1>3. /\ Tail(pending) \in Seq(Exc)
      /\ Range(pending) = {Head(pending)} \union Range(Tail(pending))
  BY <1>1, TailRange
<1>4. owed \subseteq Range(pending) \union Range(saved) \union Range(delayed)
  BY DEF IInv, NothingLost
<1>5. QED
  BY <1>2, <1>3, <1>4

LEMMA TakeDebugInv ==
  ASSUME IInv, pending # <<>>, TakeDebug
  PROVE  IInv'
<1>1. TypeOK /\ StackDiscipline /\ AcknowledgesActive
  BY DEF IInv
<1>2. /\ pending' = Tail(pending) /\ hasInterrupt' = Ready(curlvl, pending')
      /\ owed' = owed \ {Head(pending)}
      /\ UNCHANGED <<saved, delayed, stack, curlvl, msr, hven, cpr, lifo, curExc>>
  BY DEF TakeDebug, regs, intc
<1>3. /\ pending' \in Seq(Exc) /\ Sorted(pending')
      /\ owed' \subseteq Range(pending') \union Range(saved) \union Range(delayed)
  BY <1>2, TakeHead
<1>4. TypeOK'
  <2>1. hasInterrupt' \in BOOLEAN
    BY <1>2 DEF Ready
  <2>2. QED
    BY <1>1, <1>2, <1>3, <2>1 DEF TypeOK
<1>5. HasInterruptExact' /\ PendingSorted' /\ NothingLost'
  BY <1>2, <1>3 DEF HasInterruptExact, PendingSorted, NothingLost
<1>6. StackDiscipline' /\ AcknowledgesActive'
  BY <1>1, <1>2 DEF StackDiscipline, AcknowledgesActive
<1>7. QED
  BY <1>4, <1>5, <1>6 DEF IInv

\* A handler is entered on the flag alone: that the flag is exact is what makes
\* the new level more urgent than the old one.
LEMMA EnterHandlerInv ==
  ASSUME IInv, hasInterrupt, EnterHandler
  PROVE  IInv'
<1> DEFINE e == Head(pending)
<1>1. TypeOK /\ HasInterruptExact /\ StackDiscipline /\ AcknowledgesActive
  BY DEF IInv
<1>2. /\ pending' = Tail(pending) /\ stack' = Append(stack, e)
      /\ curlvl' = Prio[e] /\ hasInterrupt' = Ready(Prio[e], pending')
      /\ msr' = [ee |-> FALSE, ce |-> FALSE]
      /\ GetHandler(e) /\ owed' = owed \ {e} /\ UNCHANGED <<saved, delayed, hven>>
  BY DEF EnterHandler, SetupContext
<1>3. pending # <<>> /\ Prio[e] < curlvl
  BY <1>1 DEF HasInterruptExact, Ready
<1>4. /\ e \in Exc /\ pending' \in Seq(Exc) /\ Sorted(pending')
      /\ owed' \subseteq Range(pending') \union Range(saved) \union Range(delayed)
  BY <1>2, <1>3, TakeHead
<1>5. stack \in Seq(Exc) /\ Nested(stack) /\ curlvl = Level(stack)
  BY <1>1 DEF TypeOK, StackDiscipline
<1> HIDE DEF e
<1>6. stack' \in Seq(Exc) /\ Nested(stack') /\ Level(stack') = Prio[e]
  BY <1>2, <1>3, <1>4, <1>5, PushNested
<1>7. Range(stack') = Range(stack) \union {e}
  BY <1>2, <1>4, <1>5, AppendRange
<1>8. /\ curExc' = e \/ curExc' = curExc
      /\ curExc' \in External \union {None}
      /\ cpr' \in 0 .. 15 /\ lifo' \in Seq(0 .. 15)
  <2>1. /\ curExc \in External \union {None}
        /\ cpr \in 0 .. 15 /\ lifo \in Seq(0 .. 15)
    BY <1>1 DEF TypeOK
  <2>2. CASE Kind[e] = "external" /\ curExc' = e
             /\ IF hven THEN SignalIACK(e) ELSE UNCHANGED <<cpr, lifo>>
    <3>1. e \in External
      BY <1>4, <2>2 DEF External
    <3>2. Append(lifo, cpr) \in Seq(0 .. 15) /\ Psr[e] \in 0 .. 15
      BY <1>4, <2>1, AppendProperties, ExcAssumption
    <3>3. cpr' \in 0 .. 15 /\ lifo' \in Seq(0 .. 15)
      BY <2>1, <2>2, <3>2 DEF SignalIACK
    <3>4. QED
      BY <2>2, <3>1, <3>3
  <2>3. CASE UNCHANGED <<cpr, lifo, curExc>>
    BY <2>1, <2>3
  <2>4. QED
    BY <1>2, <2>2, <2>3 DEF GetHandler, intc
<1>9. TypeOK'
  <2>1. hasInterrupt' \in BOOLEAN /\ msr' \in Masks /\ curlvl' \in Nat
    BY <1>2, <1>4, ExcAssumption DEF Ready, Masks
  <2>2. QED
    BY <1>1, <1>2, <1>4, <1>6, <1>8, <2>1 DEF TypeOK
<1>10. HasInterruptExact' /\ PendingSorted' /\ NothingLost'
  BY <1>2, <1>4 DEF HasInterruptExact, PendingSorted, NothingLost
<1>11. StackDiscipline' /\ AcknowledgesActive'
  BY <1>1, <1>2, <1>6, <1>7, <1>8 DEF StackDiscipline, AcknowledgesActive
<1>12. QED
  BY <1>9, <1>10, <1>11 DEF IInv

LEMMA CheckExceptionInv ==
  ASSUME IInv, CheckException
  PROVE  IInv'
<1>1. hasInterrupt /\ pending # <<>>
  BY DEF CheckException, IInv, HasInterruptExact, Ready
<1>2. TakeReset \/ TakeDebug \/ EnterHandler
  BY DEF CheckException
<1>3. QED
  BY <1>1, <1>2, TakeResetInv, TakeDebugInv, EnterHandlerInv

\* What the invariant gives CheckDelayed, and what it gets back.
LEMMA CheckDelayedInv ==
  ASSUME IInv, NEW pri, NEW ee \in BOOLEAN, NEW lvl \in Nat,
         CheckDelayed(pri, ee, lvl, Ready(lvl, pending)),
         owed' = owed, curlvl' = lvl
  PROVE  /\ HasInterruptExact' /\ PendingSorted' /\ NothingLost'
         /\ pending' \in Seq(Exc) /\ saved' \in Seq(Exc) /\ delayed' \in Seq(External)
         /\ hasInterrupt' \in BOOLEAN
<1>1. Queues(pending, saved, delayed, owed)
  BY Types DEF IInv, Queues, PendingSorted, NothingLost
<1>2. /\ Queues(pending', saved', delayed', owed)
      /\ hasInterrupt' = Ready(lvl, pending')
  BY <1>1, CheckDelayedFacts
<1>3. HasInterruptExact' /\ hasInterrupt' \in BOOLEAN
  BY <1>2 DEF HasInterruptExact, Ready
<1>4. QED
  BY <1>2, <1>3 DEF Queues, PendingSorted, NothingLost

LEMMA CprWriteInv ==
  ASSUME IInv, NEW pri \in 0 .. 15, CprWrite(pri)
  PROVE  IInv'
<1>1. TypeOK /\ HasInterruptExact /\ StackDiscipline /\ AcknowledgesActive
  BY DEF IInv
<1>2. /\ cpr' = pri /\ CheckDelayed(pri, msr.ee, curlvl, hasInterrupt)
      /\ UNCHANGED <<stack, curlvl, msr, hven, lifo, curExc, owed>>
  BY DEF CprWrite, regs
<1>3. msr.ee \in BOOLEAN /\ curlvl \in Nat /\ hasInterrupt = Ready(curlvl, pending)
  BY <1>1 DEF TypeOK, Masks, HasInterruptExact
<1>4. /\ HasInterruptExact' /\ PendingSorted' /\ NothingLost'
      /\ pending' \in Seq(Exc) /\ saved' \in Seq(Exc) /\ delayed' \in Seq(External)
      /\ hasInterrupt' \in BOOLEAN
  BY <1>2, <1>3, CheckDelayedInv
<1>5. TypeOK'
  BY <1>1, <1>2, <1>4 DEF TypeOK
<1>6. StackDiscipline' /\ AcknowledgesActive'
  BY <1>1, <1>2 DEF StackDiscipline, AcknowledgesActive
<1>7. QED
  BY <1>4, <1>5, <1>6 DEF IInv

LEMMA IackReadInv ==
  ASSUME IInv, IackRead
  PROVE  IInv'
<1>1. TypeOK /\ HasInterruptExact /\ PendingSorted /\ StackDiscipline
      /\ AcknowledgesActive /\ NothingLost
  BY DEF IInv
<1>2. /\ curExc # None /\ lifo' = Append(lifo, cpr) /\ cpr' = Psr[curExc]
      /\ UNCHANGED <<pending, saved, delayed, hasInterrupt, stack, curlvl,
                     msr, hven, curExc, owed>>
  BY DEF IackRead, SignalIACK, lists, regs
<1>3. cpr' \in 0 .. 15 /\ lifo' \in Seq(0 .. 15)
  <2>1. curExc \in Exc /\ lifo \in Seq(0 .. 15) /\ cpr \in 0 .. 15
    BY <1>1, <1>2 DEF TypeOK, External
  <2>2. QED
    BY <1>2, <2>1, AppendProperties, ExcAssumption
<1>4. TypeOK'
  BY <1>1, <1>2, <1>3 DEF TypeOK
<1>5. QED
  BY <1>1, <1>2, <1>4 DEF IInv, HasInterruptExact, PendingSorted, StackDiscipline,
                          AcknowledgesActive, NothingLost

LEMMA EoirWriteInv ==
  ASSUME IInv, EoirWrite
  PROVE  IInv'
<1>1. TypeOK /\ HasInterruptExact /\ StackDiscipline /\ AcknowledgesActive
  BY DEF IInv
<1>2. /\ CheckDelayed(cpr', msr.ee, curlvl, hasInterrupt)
      /\ UNCHANGED <<stack, curlvl, msr, hven, curExc, owed>>
      /\ IF lifo = <<>>
           THEN cpr' = 0 /\ lifo' = lifo
           ELSE cpr' = lifo[Len(lifo)] /\ lifo' = SubSeq(lifo, 1, Len(lifo) - 1)
  BY DEF EoirWrite, regs
<1>3. cpr' \in 0 .. 15 /\ lifo' \in Seq(0 .. 15)
  <2>1. lifo \in Seq(0 .. 15)
    BY <1>1 DEF TypeOK
  <2>2. CASE lifo = <<>>
    BY <1>2, <2>1, <2>2
  <2>3. CASE lifo # <<>>
    <3> DEFINE n == Len(lifo) - 1
    <3>1. n \in Nat /\ Len(lifo) \in 1 .. Len(lifo) /\ 1 .. n \subseteq 1 .. Len(lifo)
      BY <2>1, <2>3, LenProperties, EmptySeq
    <3>2. lifo[Len(lifo)] \in 0 .. 15 /\ \A i \in 1 .. n : lifo[i] \in 0 .. 15
      BY <2>1, <3>1, ElementOfSeq
    <3>3. lifo' = SubSeq(lifo, 1, n) /\ cpr' = lifo[Len(lifo)]
      BY <1>2, <2>3
    <3> HIDE DEF n
    <3>4. SubSeq(lifo, 1, n) \in Seq(0 .. 15)
      BY <3>1, <3>2, FrontFacts
    <3>5. QED
      BY <3>2, <3>3, <3>4
  <2>4. QED
    BY <2>2, <2>3
<1>4. msr.ee \in BOOLEAN /\ curlvl \in Nat /\ hasInterrupt = Ready(curlvl, pending)
  BY <1>1 DEF TypeOK, Masks, HasInterruptExact
<1>5. /\ HasInterruptExact' /\ PendingSorted' /\ NothingLost'
      /\ pending' \in Seq(Exc) /\ saved' \in Seq(Exc) /\ delayed' \in Seq(External)
      /\ hasInterrupt' \in BOOLEAN
  BY <1>2, <1>4, CheckDelayedInv
<1>6. TypeOK'
  BY <1>1, <1>2, <1>3, <1>5 DEF TypeOK
<1>7. StackDiscipline' /\ AcknowledgesActive'
  BY <1>1, <1>2 DEF StackDiscipline, AcknowledgesActive
<1>8. QED
  BY <1>5, <1>6, <1>7 DEF IInv

\* The level drops, the flag is computed for it, and the INTC forgets its
\* current exception.
LEMMA RfiInv ==
  ASSUME IInv, NEW back \in Masks, Rfi(back)
  PROVE  IInv'
<1> DEFINE lvl == IF Len(stack) = 1 THEN INTC_LEVEL_NONE ELSE Prio[stack[Len(stack) - 1]]
<1>1. TypeOK /\ StackDiscipline
  BY DEF IInv
<1>2. /\ stack # <<>> /\ stack' = SubSeq(stack, 1, Len(stack) - 1)
      /\ curlvl' = lvl /\ msr' = back /\ curExc' = None
      /\ UNCHANGED <<hven, cpr, lifo, owed>>
  BY DEF Rfi
<1>3. PICK ee \in {msr.ee, back.ee} : CheckDelayed(cpr, ee, lvl, Ready(lvl, pending))
  BY DEF Rfi
<1>4. stack' \in Seq(Exc) /\ Nested(stack') /\ Level(stack') = lvl
  <2>1. stack \in Seq(Exc) /\ Nested(stack)
    BY <1>1 DEF TypeOK, StackDiscipline
  <2>2. QED
    BY <1>2, <2>1, PopNested
<1>5. lvl \in Nat
  BY <1>4, LevelType
<1>6. ee \in BOOLEAN
  BY <1>1 DEF TypeOK, Masks
<1> HIDE DEF lvl
<1>7. /\ HasInterruptExact' /\ PendingSorted' /\ NothingLost'
      /\ pending' \in Seq(Exc) /\ saved' \in Seq(Exc) /\ delayed' \in Seq(External)
      /\ hasInterrupt' \in BOOLEAN
  BY <1>2, <1>3, <1>5, <1>6, CheckDelayedInv
<1>8. TypeOK'
  BY <1>1, <1>2, <1>4, <1>5, <1>7 DEF TypeOK
<1>9. StackDiscipline' /\ AcknowledgesActive'
  BY <1>2, <1>4 DEF StackDiscipline, AcknowledgesActive
<1>10. QED
  BY <1>7, <1>8, <1>9 DEF IInv

-----------------------------------------------------------------------------
(* The theorems.                                                           *)

LEMMA NextInv == IInv /\ [Next]_vars => IInv'
<1> SUFFICES ASSUME IInv, [Next]_vars PROVE IInv'
  OBVIOUS
<1>1. MsrSet \subseteq Masks /\ PriSet \subseteq 0 .. 15
  BY ExcAssumption DEF Masks
<1>2. CASE \E e \in Exc : QueueException(e)
  BY <1>2, QueueExceptionInv
<1>3. CASE \E new \in MsrSet : MsrWrite(new)
  BY <1>1, <1>3, MsrWriteInv
<1>4. CASE CheckException
  BY <1>4, CheckExceptionInv
<1>5. CASE \E pri \in PriSet : CprWrite(pri)
  BY <1>1, <1>5, CprWriteInv
<1>6. CASE IackRead
  BY <1>6, IackReadInv
<1>7. CASE EoirWrite
  BY <1>7, EoirWriteInv
<1>8. CASE \E back \in MsrSet : Rfi(back)
  BY <1>1, <1>8, RfiInv
<1>9. CASE UNCHANGED vars
  BY <1>9 DEF vars, IInv, TypeOK, HasInterruptExact, PendingSorted, StackDiscipline,
              AcknowledgesActive, NothingLost
<1>10. QED
  BY <1>2, <1>3, <1>4, <1>5, <1>6, <1>7, <1>8, <1>9 DEF Next

\* The inductive invariant holds in every reachable state.
THEOREM Invariance == Spec => []IInv
BY InitInv, NextInv, PTL DEF Spec

\* Every variable keeps its type, whatever exceptions there are.
THEOREM TypeCorrect == Spec => []TypeOK
<1>1. IInv => TypeOK
  BY DEF IInv
<1>2. QED
  BY <1>1, Invariance, PTL

\* The flag stepi() looks at always says what the queue and the level say, and
\* the queue is always sorted.
THEOREM FlagIsExact == Spec => [](HasInterruptExact /\ PendingSorted)
<1>1. IInv => HasInterruptExact /\ PendingSorted
  BY DEF IInv
<1>2. QED
  BY <1>1, Invariance, PTL

\* Handlers nest in rising urgency: none is interrupted by one that its exception's
\* level does not let through.
THEOREM HandlersNest == Spec => []StackDiscipline
<1>1. IInv => StackDiscipline
  BY DEF IInv
<1>2. QED
  BY <1>1, Invariance, PTL

\* The exception the INTC's registers name as current is one of those being handled.
THEOREM CurrentIsActive == Spec => []AcknowledgesActive
<1>1. IInv => AcknowledgesActive
  BY DEF IInv
<1>2. QED
  BY <1>1, Invariance, PTL

\* No raised exception leaves the two controllers' lists other than by being
\* taken or by a reset.
THEOREM NoneLost == Spec => []NothingLost
<1>1. IInv => NothingLost
  BY DEF IInv
<1>2. QED
  BY <1>1, Invariance, PTL

\* A handler is entered above the current level only, and for the most urgent
\* exception that is pending.
LEMMA UrgentStep ==
  ASSUME IInv, [Next]_vars, Len(stack') > Len(stack)
  PROVE  /\ Prio[stack'[Len(stack')]] < curlvl
         /\ \A x \in Range(pending) : Prio[stack'[Len(stack')]] <= Prio[x]
<1>1. stack \in Seq(Exc) /\ Len(stack) \in Nat /\ pending \in Seq(Exc)
  BY Types, LenProperties DEF IInv
<1>2. stack' # stack
  BY <1>1
<1>3. stack' # <<>>
  BY <1>1
<1>4. ~ \E back \in MsrSet : Rfi(back)
  <2> SUFFICES ASSUME NEW back \in MsrSet, Rfi(back) PROVE FALSE
    OBVIOUS
  <2>1. stack # <<>> /\ Nested(stack) /\ stack' = SubSeq(stack, 1, Len(stack) - 1)
    BY DEF Rfi, IInv, StackDiscipline
  <2> DEFINE n == Len(stack) - 1
  <2>2. n \in Nat /\ n < Len(stack) /\ \A i \in 1 .. n : stack[i] \in Exc
    BY <1>1, <2>1, EmptySeq, ElementOfSeq
  <2>3. stack' = SubSeq(stack, 1, n)
    BY <2>1
  <2> HIDE DEF n
  <2>4. Len(stack') = n
    BY <2>2, <2>3, FrontFacts
  <2>5. QED
    BY <1>1, <2>2, <2>4
<1>5. hasInterrupt /\ EnterHandler
  BY <1>2, <1>3, <1>4 DEF Next, vars, QueueException, MsrWrite, CheckException, TakeReset,
     TakeDebug, CprWrite, IackRead, EoirWrite
<1>6. pending # <<>> /\ Prio[Head(pending)] < curlvl
  BY <1>5 DEF IInv, HasInterruptExact, Ready
<1>7. stack' = Append(stack, Head(pending)) /\ Head(pending) \in Exc
  BY <1>1, <1>5, <1>6, HeadTailProperties DEF EnterHandler
<1>8. stack'[Len(stack')] = Head(pending)
  BY <1>1, <1>7, AppendProperties
<1>9. \A x \in Range(pending) : Prio[Head(pending)] <= Prio[x]
  BY <1>1, <1>6, HeadMostUrgent DEF IInv, PendingSorted
<1>10. QED
  BY <1>6, <1>8, <1>9

THEOREM UrgencyRespected == Spec => MostUrgentFirst
<1>1. IInv /\ [Next]_vars =>
        [Len(stack') > Len(stack) =>
           LET e == stack'[Len(stack')] IN
           /\ Prio[e] < curlvl
           /\ \A x \in Range(pending) : Prio[e] <= Prio[x]]_vars
  BY UrgentStep
<1>2. QED
  BY <1>1, Invariance, PTL DEF Spec, MostUrgentFirst

-----------------------------------------------------------------------------
(* The layout of flash.                                                    *)

\* A row of the map: its fields, and no other row has one of its addresses or
\* its block.
LEMMA MapRow ==
  ASSUME NEW r \in Map
  PROVE  /\ r.start \in Nat /\ r.end \in Nat /\ r.start < r.end /\ r.end <= MainSize
         /\ r.array \in {"A", "B", "AB"} /\ r.block \in Blocks /\ r.block # "S0"
         /\ r.array = "AB" => (r.end - r.start) % 2 = 0
<1>1. r \in [start : Nat, end : Nat, array : Arrays \union {"AB"}, block : Blocks \ {"S0"}]
  BY FlashAssumption
<1>2. r.start < r.end /\ r.end <= MainSize /\ (r.array = "AB" => (r.end - r.start) % 2 = 0)
  BY FlashAssumption
<1> QED
  BY <1>1, <1>2 DEF Arrays

LEMMA MapRows ==
  ASSUME NEW r \in Map, NEW s \in Map, r # s
  PROVE  /\ r.end <= s.start \/ s.end <= r.start
         /\ r.block = s.block => r.array # s.array /\ r.array # "AB" /\ s.array # "AB"
BY FlashAssumption

\* The row of a block that an array has.
LEMMA RowFacts ==
  ASSUME NEW a \in Arrays, NEW b \in Blocks, Has(a, b), b # "S0"
  PROVE  /\ Row(a, b) \in Map /\ Row(a, b).block = b /\ Row(a, b).array \in {a, "AB"}
<1>1. \E r \in Map : r.block = b /\ r.array \in {a, "AB"}
  BY DEF Has
<1> QED
  BY <1>1 DEF Row

LEMMA RowUnique ==
  ASSUME NEW a \in Arrays, NEW r \in Map, r.array \in {a, "AB"}
  PROVE  Has(a, r.block) /\ Row(a, r.block) = r
<1>1. Has(a, r.block) /\ r.block \in Blocks /\ r.block # "S0"
  BY MapRow DEF Has
<1>2. /\ Row(a, r.block) \in Map /\ Row(a, r.block).block = r.block
      /\ Row(a, r.block).array \in {a, "AB"}
  BY <1>1, RowFacts
<1> QED
  BY <1>1, <1>2, MapRows

\* Where the cells of a block are: in shadow flash, one after the other, or two
\* apart with array B behind array A.
LEMMA CellWhere ==
  ASSUME NEW a \in Arrays, NEW b \in Blocks, Has(a, b), NEW i \in 0 .. BlockSize(a, b) - 1
  PROVE  \/ b = "S0" /\ BlockSize(a, b) = 1 /\ Cell(a, b, i) = Shadow(a)
         \/ \E r \in Map : 
              /\ b # "S0" /\ r = Row(a, b) /\ r.block = b /\ r.array = a
              /\ BlockSize(a, b) = r.end - r.start /\ Cell(a, b, i) = r.start + i
         \/ \E r \in Map :
              /\ b # "S0" /\ r = Row(a, b) /\ r.block = b /\ r.array = "AB"
              /\ BlockSize(a, b) = (r.end - r.start) \div 2
              /\ Cell(a, b, i) = r.start + (2 * i) + (IF a = "B" THEN 1 ELSE 0)
<1>1. CASE b = "S0"
  BY <1>1 DEF Cell, BlockSize
<1>2. CASE b # "S0"
  <2> DEFINE r == Row(a, b)
  <2>1. r \in Map /\ r.block = b /\ r.array \in {a, "AB"} /\ a # "AB"
    BY <1>2, RowFacts DEF Arrays
  <2>2. Shared(a, b) <=> r.array = "AB"
    BY <1>2 DEF Shared
  <2> QED
    BY <1>2, <2>1, <2>2 DEF Cell, BlockSize
<1> QED
  BY <1>1, <1>2

\* ... so each is a cell of the block's row, or behind main flash.
LEMMA CellInRow ==
  ASSUME NEW a \in Arrays, NEW b \in Blocks, Has(a, b), NEW i \in 0 .. BlockSize(a, b) - 1
  PROVE  /\ Cell(a, b, i) \in Cells
         /\ b # "S0" => /\ Row(a, b).start <= Cell(a, b, i) /\ Cell(a, b, i) < Row(a, b).end
                        /\ Cell(a, b, i) < MainSize
         /\ b = "S0" => Cell(a, b, i) = Shadow(a)
<1>0. MainSize \in Nat /\ Shadow(a) \in Cells /\ i \in Int
  BY FlashAssumption DEF Shadow, Cells, Size
<1>1. CASE b = "S0"
  BY <1>0, <1>1 DEF Cell
<1>2. ASSUME NEW r \in Map, r = Row(a, b), BlockSize(a, b) = r.end - r.start,
             Cell(a, b, i) = r.start + i, b # "S0"
      PROVE  r.start <= Cell(a, b, i) /\ Cell(a, b, i) < r.end /\ Cell(a, b, i) \in Nat
  BY <1>2, MapRow
<1>3. ASSUME NEW r \in Map, r = Row(a, b), BlockSize(a, b) = (r.end - r.start) \div 2,
             Cell(a, b, i) = r.start + (2 * i) + (IF a = "B" THEN 1 ELSE 0), b # "S0"
      PROVE  r.start <= Cell(a, b, i) /\ Cell(a, b, i) < r.end /\ Cell(a, b, i) \in Nat
  <2> DEFINE n == r.end - r.start
  <2>1. n \in Int /\ r.start \in Nat /\ r.end \in Nat
    BY MapRow
  <2>2. 0 <= i /\ i <= (n \div 2) - 1
    BY <1>3, <2>1
  <2>3. 2 * i + 1 < n
    BY <2>1, <2>2
  <2> QED
    BY <1>0, <1>3, <2>1, <2>2, <2>3
<1>4. CASE b # "S0"
  <2> DEFINE r == Row(a, b)
             c == Cell(a, b, i)
  <2>1. r \in Map /\ r.start <= c /\ c < r.end /\ c \in Nat
    BY <1>2, <1>3, <1>4, CellWhere
  <2> HIDE DEF r, c
  <2>2. c < MainSize
    BY <1>0, <2>1, MapRow
  <2>3. c \in Cells
    BY <1>0, <2>1, <2>2 DEF Cells, Size
  <2> QED
    BY <1>4, <2>1, <2>2, <2>3 DEF r, c
<1> QED
  BY <1>1, <1>4

\* No two cells of a block are the same,
LEMMA CellInjective ==
  ASSUME NEW a \in Arrays, NEW b \in Blocks, Has(a, b),
         NEW i \in 0 .. BlockSize(a, b) - 1, NEW j \in 0 .. BlockSize(a, b) - 1,
         Cell(a, b, i) = Cell(a, b, j)
  PROVE  i = j
<1>1. CASE b = "S0"
  BY <1>1 DEF BlockSize
<1>2. CASE b # "S0"
  <2> DEFINE r == Row(a, b)
  <2>1. r.start \in Nat /\ i \in Int /\ j \in Int
    BY <1>2, RowFacts, MapRow
  <2> HIDE DEF r
  <2>2. \/ Cell(a, b, i) = r.start + i /\ Cell(a, b, j) = r.start + j
        \/ /\ Cell(a, b, i) = r.start + (2 * i) + (IF a = "B" THEN 1 ELSE 0)
           /\ Cell(a, b, j) = r.start + (2 * j) + (IF a = "B" THEN 1 ELSE 0)
    BY <1>2 DEF Cell, r
  <2> QED
    BY <2>1, <2>2
<1> QED
  BY <1>1, <1>2

\* and no two blocks share one.
LEMMA BlocksDisjoint ==
  ASSUME NEW a \in Arrays, NEW b \in Blocks, Has(a, b), NEW i \in 0 .. BlockSize(a, b) - 1,
         NEW a2 \in Arrays, NEW b2 \in Blocks, Has(a2, b2), NEW j \in 0 .. BlockSize(a2, b2) - 1,
         Cell(a, b, i) = Cell(a2, b2, j)
  PROVE  a = a2 /\ b = b2
<1> DEFINE c == Cell(a, b, i)
           r == Row(a, b)
           s == Row(a2, b2)
<1>0. MainSize \in Nat /\ c \in Nat /\ i \in Int /\ j \in Int
  BY CellInRow, FlashAssumption DEF Cells
<1>1. Shadow("A") = MainSize + 1 /\ Shadow("B") = MainSize
  BY FlashAssumption DEF Shadow
<1>2. /\ b = "S0" => c = Shadow(a)
      /\ b # "S0" => r.start <= c /\ c < r.end /\ c < MainSize
      /\ b2 = "S0" => c = Shadow(a2)
      /\ b2 # "S0" => s.start <= c /\ c < s.end /\ c < MainSize
  BY CellInRow
<1>3. b = "S0" <=> b2 = "S0"
  <2> HIDE DEF c, r, s
  <2> QED
    BY <1>0, <1>1, <1>2 DEF Arrays
<1>4. CASE b = "S0"
  <2>1. Shadow(a) = Shadow(a2)
    BY <1>2, <1>3, <1>4
  <2> QED
    BY <1>0, <1>1, <1>3, <1>4, <2>1 DEF Arrays
<1>5. CASE b # "S0"
  <2>1. /\ r \in Map /\ r.block = b /\ r.array \in {a, "AB"}
        /\ s \in Map /\ s.block = b2 /\ s.array \in {a2, "AB"}
    BY <1>3, <1>5, RowFacts
  <2>2. r.start \in Nat /\ r.end \in Nat /\ s.start \in Nat /\ s.end \in Nat
    BY <2>1, MapRow
  <2>3. r.start <= c /\ c < r.end /\ s.start <= c /\ c < s.end
    BY <1>2, <1>3, <1>5
  <2> HIDE DEF r, s, c
  <2>4. r = s
    <3> SUFFICES ASSUME r # s PROVE FALSE
      OBVIOUS
    <3>1. r.end <= s.start \/ s.end <= r.start
      BY <2>1, MapRows
    <3> QED
      BY <1>0, <2>2, <2>3, <3>1
  <2>5. b = b2
    BY <2>1, <2>4
  <2>6. ASSUME a # a2 PROVE FALSE
    <3>1. r.array = "AB"
      BY <2>1, <2>4, <2>6 DEF Arrays
    <3>2. /\ c = r.start + (2 * i) + (IF a = "B" THEN 1 ELSE 0)
          /\ c = r.start + (2 * j) + (IF a2 = "B" THEN 1 ELSE 0)
      <4>1. Shared(a, b) /\ Shared(a2, b2)
        BY <1>3, <1>5, <2>4, <3>1 DEF Shared, r, s
      <4> QED
        BY <1>3, <1>5, <2>4, <4>1 DEF Cell, c, r, s
    <3>3. (a = "A" /\ a2 = "B") \/ (a = "B" /\ a2 = "A")
      BY <2>6 DEF Arrays
    <3> QED
      BY <1>0, <2>2, <3>2, <3>3
  <2> QED
    BY <2>5, <2>6
<1> QED
  BY <1>4, <1>5

\* The block of an address, and where the address is in it: the conversion and its
\* inverse close.
LEMMA TargetFacts ==
  ASSUME NEW c \in Cells
  PROVE  LET t == Target(c) IN
         /\ t.array \in Arrays /\ t.block \in Blocks /\ Has(t.array, t.block)
         /\ t.off \in 0 .. BlockSize(t.array, t.block) - 1 /\ t.off \in Nat
         /\ BlockSize(t.array, t.block) \in Nat
         /\ Cell(t.array, t.block, t.off) = c
<1> DEFINE t == Target(c)
<1>0. MainSize \in Nat /\ c \in Nat /\ c < MainSize + 2 /\ "A" \in Arrays /\ "B" \in Arrays /\ "S0" \in Blocks
  BY FlashAssumption DEF Cells, Size, Arrays, Blocks
<1>1. CASE c >= MainSize
  <2>1. t = [array |-> IF c = Shadow("A") THEN "A" ELSE "B", block |-> "S0", off |-> 0]
    BY <1>1 DEF Target
  <2>2. t.array = (IF c = Shadow("A") THEN "A" ELSE "B") /\ t.block = "S0" /\ t.off = 0
    BY <2>1
  <2> HIDE DEF t
  <2>3. Shadow("A") = MainSize + 1 /\ Shadow("B") = MainSize
    BY <1>0 DEF Shadow
  <2>4. t.array \in Arrays /\ Shadow(t.array) = c
    BY <1>0, <1>1, <2>2, <2>3
  <2>5. Has(t.array, t.block) /\ BlockSize(t.array, t.block) = 1 /\ Cell(t.array, t.block, t.off) = Shadow(t.array)
    BY <2>2 DEF Has, BlockSize, Cell
  <2> QED
    BY <1>0, <2>2, <2>4, <2>5 DEF t
<1>2. CASE ~(c >= MainSize)
  <2> DEFINE r == CHOOSE s \in Map : c >= s.start /\ c < s.end
             new == c - r.start
  <2>1. \E s \in Map : c >= s.start /\ c < s.end
    <3>1. c \in 0 .. MainSize - 1
      BY <1>0, <1>2
    <3>2. PICK s \in Map : s.start <= c /\ c < s.end
      BY <3>1, FlashAssumption
    <3>3. s.start \in Nat
      BY MapRow
    <3> QED
      BY <1>0, <3>2, <3>3
  <2>2. r \in Map /\ c >= r.start /\ c < r.end
    BY <2>1
  <2>3. t = IF r.array # "AB" THEN [array |-> r.array, block |-> r.block, off |-> new]
            ELSE [array |-> IF new % 2 = 1 THEN "B" ELSE "A", block |-> r.block, off |-> new \div 2]
    BY <1>2 DEF Target
  <2> HIDE DEF r, t
  <2>4. /\ r.start \in Nat /\ r.end \in Nat /\ r.array \in {"A", "B", "AB"} /\ r.block \in Blocks
        /\ r.block # "S0" /\ (r.array = "AB" => (r.end - r.start) % 2 = 0)
    BY <2>2, MapRow
  <2>5. new \in Nat /\ new < r.end - r.start /\ r.start + new = c
    BY <1>0, <2>2, <2>4
  <2>6. CASE r.array # "AB"
    <3>1. t.array = r.array /\ t.block = r.block /\ t.off = new
      BY <2>3, <2>6
    <3> HIDE DEF new
    <3>2. t.array \in Arrays /\ Has(t.array, r.block) /\ Row(t.array, r.block) = r
      BY <2>2, <2>4, <2>6, <3>1, RowUnique DEF Arrays
    <3>3. BlockSize(t.array, r.block) = r.end - r.start /\ Cell(t.array, r.block, new) = r.start + new
      BY <2>4, <2>6, <3>2 DEF BlockSize, Cell, Shared
    <3>4. new \in 0 .. r.end - r.start - 1 /\ r.end - r.start \in Nat
      BY <2>4, <2>5
    <3> QED
      BY <2>4, <2>5, <3>1, <3>2, <3>3, <3>4 DEF t
  <2>7. CASE r.array = "AB"
    <3>1. t.array = (IF new % 2 = 1 THEN "B" ELSE "A") /\ t.block = r.block /\ t.off = new \div 2
      BY <2>3, <2>7
    <3> HIDE DEF new
    <3>2. t.array \in Arrays /\ Has(t.array, r.block) /\ Row(t.array, r.block) = r
      BY <2>2, <2>7, <3>1, RowUnique DEF Arrays
    <3>3. /\ BlockSize(t.array, r.block) = (r.end - r.start) \div 2
          /\ Cell(t.array, r.block, t.off) = r.start + (2 * t.off) + (IF t.array = "B" THEN 1 ELSE 0)
      BY <2>4, <2>7, <3>2 DEF BlockSize, Cell, Shared
    <3>4. t.off \in Nat /\ new = 2 * t.off + (IF t.array = "B" THEN 1 ELSE 0)
      BY <2>5, <3>1
    <3>5. (r.end - r.start) \div 2 \in Nat /\ t.off <= (r.end - r.start) \div 2 - 1
      <4> DEFINE n == r.end - r.start
      <4>1. n \in Int /\ n % 2 = 0 /\ new < n /\ new \in Nat
        BY <2>4, <2>5, <2>7
      <4> HIDE DEF n
      <4>2. n \div 2 \in Int /\ n = 2 * (n \div 2)
        BY <4>1
      <4>3. n \div 2 \in Nat /\ t.off <= n \div 2 - 1
        BY <3>4, <4>1, <4>2
      <4> QED
        BY <4>3 DEF n
    <3>6. t.off \in 0 .. BlockSize(t.array, t.block) - 1
      BY <3>1, <3>3, <3>4, <3>5
    <3> QED
      BY <2>4, <2>5, <3>1, <3>2, <3>3, <3>4, <3>5, <3>6 DEF t
  <2> QED
    BY <2>6, <2>7
<1> QED
  BY <1>1, <1>2

\* What save writes: sequences of cells, among them every cell of the block.
LEMMA SavedFacts ==
  ASSUME NEW a \in Arrays, NEW b \in Blocks, Has(a, b)
  PROVE  Saved(a, b) \in Seq(Cells) /\ BlockCells(a, b) \subseteq Range(Saved(a, b))
<1>0. MainSize \in Nat
  BY FlashAssumption
<1>1. CASE b = "S0"
  <2>1. Saved(a, b) = <<Shadow(a)>> /\ Shadow(a) \in Cells
    BY <1>0, <1>1 DEF Saved, Shadow, Cells, Size
  <2>2. <<Shadow(a)>> \in Seq(Cells) /\ Shadow(a) \in Range(<<Shadow(a)>>)
    BY <2>1 DEF Range
  <2>3. \A c \in BlockCells(a, b) : c = Shadow(a)
    BY <1>1 DEF BlockCells, Cell
  <2> QED
    BY <2>1, <2>2, <2>3
<1>2. CASE b # "S0"
  <2> DEFINE f == Row(a, b).start
             e == Row(a, b).end
             s == Saved(a, b)
  <2>1. f \in Nat /\ e \in Nat /\ f < e /\ e <= MainSize
    BY <1>2, RowFacts, MapRow
  <2>2. s = [i \in 1 .. e - f |-> f + i - 1]
    BY <1>2 DEF Saved
  <2>3. \A c \in BlockCells(a, b) : c \in Nat /\ f <= c /\ c < e
    BY <1>2, CellInRow DEF BlockCells, Cells
  <2> HIDE DEF f, e, s
  <2>4. \A i \in 1 .. e - f : f + i - 1 \in Cells
    BY <1>0, <2>1 DEF Cells, Size
  <2>5. s \in Seq(Cells) /\ DOMAIN s = 1 .. e - f
    BY <2>1, <2>2, <2>4
  <2>6. ASSUME NEW c \in BlockCells(a, b) PROVE c \in Range(s)
    <3>1. c - f + 1 \in 1 .. e - f /\ f + (c - f + 1) - 1 = c
      BY <2>1, <2>3, <2>6
    <3> QED
      BY <2>2, <2>5, <3>1 DEF Range
  <2> QED
    BY <2>5, <2>6 DEF s
<1> QED
  BY <1>1, <1>2

\* What is saved of several blocks is what is saved of each.
LEMMA SavesFacts ==
  ASSUME NEW a \in Arrays, NEW changed \in SUBSET Blocks, \A b \in changed : Has(a, b)
  PROVE  /\ Saves(a, changed) \in Seq(Cells)
         /\ \A b \in changed : BlockCells(a, b) \subseteq Range(Saves(a, changed))
<1> DEFINE part(b) == IF b \in changed THEN Saved(a, b) ELSE <<>>
           p == part("S0")
           q == part("L0")
           r == part("M0")
           s == part("H0")
<1>1. Saves(a, changed) = p \o q \o r \o s
  BY DEF Saves
<1>2. \A b \in changed : part(b) \in Seq(Cells) /\ BlockCells(a, b) \subseteq Range(part(b))
  BY SavedFacts
<1>3. p \in Seq(Cells) /\ q \in Seq(Cells) /\ r \in Seq(Cells) /\ s \in Seq(Cells)
  <2>1. \A b : part(b) \in Seq(Cells)
    BY <1>2
  <2> QED
    BY <2>1
<1>4. \A b \in changed : BlockCells(a, b) \subseteq Range(p) \union Range(q) \union Range(r) \union Range(s)
  BY <1>2 DEF Blocks
<1> HIDE DEF p, q, r, s
<1> DEFINE u == p \o q
           v == u \o r
           w == v \o s
<1>5. u \in Seq(Cells) /\ Range(u) = Range(p) \union Range(q)
  BY <1>3, ConcatRange
<1> HIDE DEF u
<1>6. v \in Seq(Cells) /\ Range(v) = Range(u) \union Range(r)
  BY <1>3, <1>5, ConcatRange
<1> HIDE DEF v
<1>7. w \in Seq(Cells) /\ Range(w) = Range(v) \union Range(s)
  BY <1>3, <1>6, ConcatRange
<1>8. Saves(a, changed) = w
  BY <1>1 DEF u, v
<1> HIDE DEF w
<1> QED
  BY <1>4, <1>5, <1>6, <1>7, <1>8

\* The whole of flash, which a start without a backup saves.
LEMMA WholeFlash ==
  LET s == [i \in 1 .. Size |-> i - 1] IN s \in Seq(Cells) /\ Range(s) = Cells
<1> DEFINE s == [i \in 1 .. Size |-> i - 1]
<1>1. Size \in Nat
  BY FlashAssumption DEF Size
<1>2. s \in Seq(Cells) /\ DOMAIN s = 1 .. Size
  BY <1>1 DEF Cells
<1>3. \A c \in Cells : c \in Range(s)
  <2> TAKE c \in Cells
  <2>1. c + 1 \in 1 .. Size /\ (c + 1) - 1 = c
    BY <1>1 DEF Cells
  <2> QED
    BY <1>2, <2>1 DEF Range
<1>4. Range(s) \subseteq Cells
  BY <1>1 DEF Range, Cells
<1> QED
  BY <1>2, <1>3, <1>4

-----------------------------------------------------------------------------
(* The inductive invariant of Flash.                                       *)

\* The cells the debugger writes.
Poked == {w.cell : w \in DebugWrites}

\* What an array's buffer holds while an operation waits: data for each cell of the
\* block, that is what the firmware wrote, or what is in flash; a cell the debugger
\* wrote may have changed since it was copied.
Buffer(a, b, d, want, m) ==
  /\ IF b = "none" THEN d = NoData ELSE b \in Blocks /\ Has(a, b)
  /\ d # NoData => Len(d) = BlockSize(a, b)
  /\ \A x \in want : \E i \in 1 .. Len(d) : x = <<Cell(a, b, i - 1), d[i]>>
  /\ \A i \in 1 .. Len(d) :
       \/ <<Cell(a, b, i - 1), d[i]>> \in want
       \/ d[i] = m[Cell(a, b, i - 1)]
       \/ Cell(a, b, i - 1) \in Poked

Buffers == \A a \in Arrays : Buffer(a, arr[a].write.block, arr[a].write.data, wanted[a], mem)

\* What the backup lacks is still to be saved: a cell that differs from flash, and,
\* while the emulator runs, a cell behind the end of the file.
Backed ==
  /\ \A c \in Cells : c < fileLen => file[c] = mem[c] \/ c \in Range(saving) \/ c \in unsaved
  /\ phase = "on" => \A c \in Cells : c >= fileLen => c \in Range(saving)

FlashInv == FlashTypeOK /\ Buffers /\ Backed

-----------------------------------------------------------------------------
(* What the handlers do to the buffer.                                     *)

LEMMA BufferNone ==
  ASSUME NEW a, NEW m
  PROVE  Buffer(a, "none", NoData, {}, m)
<1>1. Len(NoData) = 0
  BY DEF NoData
<1>2. 1 .. 0 = {}
  OBVIOUS
<1> QED
  BY <1>1, <1>2 DEF Buffer

\* The first write of an erase names the block.
LEMMA BufferErase ==
  ASSUME NEW a, NEW b \in Blocks, Has(a, b), NEW m
  PROVE  Buffer(a, b, NoData, {}, m)
<1>1. Len(NoData) = 0
  BY DEF NoData
<1>2. 1 .. 0 = {} /\ b # "none"
  BY DEF Blocks
<1> QED
  BY <1>1, <1>2 DEF Buffer

\* The first write of a program operation copies the block.
LEMMA BufferCopies ==
  ASSUME NEW a \in Arrays, NEW b \in Blocks, Has(a, b), BlockSize(a, b) \in Nat \ {0},
         mem \in [Cells -> Vals]
  PROVE  /\ Contents(a, b) \in Seq(Vals) /\ Contents(a, b) # NoData
         /\ Buffer(a, b, Contents(a, b), {}, mem)
<1> DEFINE n == BlockSize(a, b)
           d == Contents(a, b)
           at(i) == Cell(a, b, i - 1)
<1>1. \A i \in 1 .. n : at(i) \in Cells
  <2> TAKE i \in 1 .. n
  <2>1. i - 1 \in 0 .. n - 1
    OBVIOUS
  <2> QED
    BY <2>1, CellInRow
<1>2. d = [i \in 1 .. n |-> mem[at(i)]]
  BY DEF Contents
<1>3. \A i \in 1 .. n : mem[at(i)] \in Vals
  BY <1>1
<1> HIDE DEF at, d, n
<1>4. n \in Nat \ {0}
  BY DEF n
<1>5. d \in Seq(Vals) /\ Len(d) = n /\ \A i \in 1 .. n : d[i] = mem[at(i)]
  BY <1>2, <1>3, <1>4
<1>6. d # NoData
  BY <1>4, <1>5 DEF NoData
<1>7. b # "none"
  BY DEF Blocks
<1> QED
  BY <1>5, <1>6, <1>7 DEF Buffer, d, at, n

\* A write puts its value into the buffer at the place of its address.
LEMMA BufferTakes ==
  ASSUME NEW a \in Arrays, NEW b \in Blocks, NEW d \in Seq(Vals), NEW want, NEW m,
         Buffer(a, b, d, want, m), d # NoData,
         NEW k \in 0 .. BlockSize(a, b) - 1, NEW v \in Vals
  PROVE  LET c == Cell(a, b, k)
             e == [d EXCEPT ![k + 1] = v]
         IN  /\ e \in Seq(Vals) /\ e # NoData
             /\ Buffer(a, b, e, {x \in want : x[1] # c} \union {<<c, v>>}, m)
<1> DEFINE n == Len(d)
           c == Cell(a, b, k)
           e == [d EXCEPT ![k + 1] = v]
           at(i) == Cell(a, b, i - 1)
           new == {x \in want : x[1] # c} \union {<<c, v>>}
<1>0. b # "none" /\ Has(a, b)
  BY DEF Buffer, Blocks
<1>1. n \in Nat /\ n = BlockSize(a, b) /\ k \in Int
  BY DEF Buffer
<1>2. k + 1 \in 1 .. n /\ at(k + 1) = c
  BY <1>1
<1>3. /\ e \in Seq(Vals) /\ Len(e) = n /\ e[k + 1] = v
      /\ \A i \in 1 .. n : i # k + 1 => e[i] = d[i]
  <2>1. DOMAIN d = 1 .. n /\ \A i \in 1 .. n : d[i] \in Vals
    OBVIOUS
  <2> QED
    BY <1>1, <1>2, <2>1
<1>4. \A i \in 1 .. n : i # k + 1 => at(i) # c
  <2> SUFFICES ASSUME NEW i \in 1 .. n, at(i) = c PROVE i = k + 1
    OBVIOUS
  <2>1. i - 1 \in 0 .. BlockSize(a, b) - 1
    BY <1>1
  <2>2. i - 1 = k
    BY <1>0, <2>1, CellInjective
  <2> QED
    BY <1>1, <2>2
<1>5. /\ \A x \in want : \E i \in 1 .. n : x = <<at(i), d[i]>>
      /\ \A i \in 1 .. n : <<at(i), d[i]>> \in want \/ d[i] = m[at(i)] \/ at(i) \in Poked
  BY DEF Buffer
<1> HIDE DEF e, n, at, c
<1>6. \A x \in new : \E i \in 1 .. n : x = <<at(i), e[i]>>
  <2> SUFFICES ASSUME NEW x \in want, x[1] # c PROVE \E i \in 1 .. n : x = <<at(i), e[i]>>
    BY <1>2, <1>3
  <2>1. PICK i \in 1 .. n : x = <<at(i), d[i]>>
    BY <1>5
  <2>2. i # k + 1
    BY <1>2, <2>1
  <2> QED
    BY <1>3, <2>1, <2>2
<1>7. \A i \in 1 .. n : <<at(i), e[i]>> \in new \/ e[i] = m[at(i)] \/ at(i) \in Poked
  <2> TAKE i \in 1 .. n
  <2>1. CASE i = k + 1
    BY <1>2, <1>3, <2>1
  <2>2. CASE i # k + 1
    <3>1. e[i] = d[i] /\ at(i) # c
      BY <1>3, <1>4, <2>2
    <3>2. <<at(i), d[i]>>[1] = at(i)
      OBVIOUS
    <3> QED
      BY <1>5, <3>1, <3>2
  <2> QED
    BY <2>1, <2>2
<1>8. e # NoData
  BY <1>1, <1>2, <1>3 DEF NoData
<1>9. Buffer(a, b, e, new, m)
  <2> HIDE DEF new
  <2> QED
    BY <1>0, <1>1, <1>3, <1>6, <1>7 DEF Buffer, at
<1> QED
  BY <1>3, <1>8, <1>9 DEF c, e

\* A buffer stays right while flash changes only elsewhere, or where the debugger
\* writes.
LEMMA BufferStays ==
  ASSUME NEW a \in Arrays, NEW b \in Blocks \union {"none"}, NEW d \in Seq(Vals), NEW want, NEW m, NEW m2,
         Buffer(a, b, d, want, m),
         b # "none" => \A i \in 0 .. BlockSize(a, b) - 1 :
                         m2[Cell(a, b, i)] = m[Cell(a, b, i)] \/ Cell(a, b, i) \in Poked
  PROVE  Buffer(a, b, d, want, m2)
<1>1. \A i \in 1 .. Len(d) :
        m2[Cell(a, b, i - 1)] = m[Cell(a, b, i - 1)] \/ Cell(a, b, i - 1) \in Poked
  <2> TAKE i \in 1 .. Len(d)
  <2>1. Len(d) \in Nat /\ Len(d) # 0
    OBVIOUS
  <2>2. d # NoData
    BY <2>1 DEF NoData
  <2>3. Len(d) = BlockSize(a, b) /\ b # "none"
    BY <2>2 DEF Buffer
  <2>4. i - 1 \in 0 .. BlockSize(a, b) - 1
    BY <2>1, <2>3
  <2> QED
    BY <2>3, <2>4
<1> QED
  BY <1>1 DEF Buffer

-----------------------------------------------------------------------------
(* What an operation does to flash.                                        *)

\* Programming puts the buffer's data where they belong, and changes no other cell.
LEMMA ProgramFacts ==
  ASSUME FlashTypeOK, Buffers, NEW a \in Arrays, NEW w, w = arr[a].write, w.block # "none"
  PROVE  /\ Has(a, w.block) /\ Program(a, w) \in [Cells -> Vals]
         /\ \A c \in Cells : ~(Writable(a, w.block) /\ c \in BlockCells(a, w.block)) => Program(a, w)[c] = mem[c]
         /\ Writable(a, w.block) =>
              \A i \in 1 .. Len(w.data) : /\ Cell(a, w.block, i - 1) \in Cells
                                          /\ Program(a, w)[Cell(a, w.block, i - 1)] = w.data[i]
         /\ \A c \in Cells : (\A i \in 1 .. Len(w.data) : c # Cell(a, w.block, i - 1)) => Program(a, w)[c] = mem[c]
<1> DEFINE b == w.block
           d == w.data
           n == Len(d)
           at(i) == Cell(a, b, i - 1)
           p == Program(a, w)
           pick(c) == CHOOSE i \in 1 .. n : c = at(i)
<1>1. b \in Blocks /\ d \in Seq(Vals) /\ mem \in [Cells -> Vals]
  BY DEF FlashTypeOK, FlashArrays
<1>2. Buffer(a, b, d, wanted[a], mem)
  BY DEF Buffers
<1>3. Has(a, b) /\ (d # NoData => n = BlockSize(a, b)) /\ n \in Nat
  BY <1>1, <1>2 DEF Buffer
<1>4. \A i \in 1 .. n : i - 1 \in 0 .. BlockSize(a, b) - 1
  <2> TAKE i \in 1 .. n
  <2>1. n # 0
    BY <1>3
  <2>2. d # NoData
    BY <2>1 DEF NoData
  <2> QED
    BY <1>3, <2>2
<1>5. \A i \in 1 .. n : at(i) \in Cells /\ at(i) \in BlockCells(a, b)
  BY <1>1, <1>3, <1>4, CellInRow DEF BlockCells
<1>6. \A i, j \in 1 .. n : at(i) = at(j) => i = j
  <2> SUFFICES ASSUME NEW i \in 1 .. n, NEW j \in 1 .. n, at(i) = at(j) PROVE i = j
    OBVIOUS
  <2>1. i - 1 = j - 1
    BY <1>1, <1>3, <1>4, CellInjective
  <2> QED
    BY <1>3, <2>1
<1>7. p = [c \in Cells |-> IF Writable(a, b) /\ \E i \in 1 .. n : c = at(i) THEN d[pick(c)] ELSE mem[c]]
  BY DEF Program
<1>8. \A c : (\E i \in 1 .. n : c = at(i)) => pick(c) \in 1 .. n /\ at(pick(c)) = c
  OBVIOUS
<1>9. \A i \in 1 .. n : d[i] \in Vals
  BY <1>1
<1> HIDE DEF at, p, b, n, pick
<1>10. p \in [Cells -> Vals]
  BY <1>1, <1>7, <1>8, <1>9
<1>11. \A c \in Cells : (\A i \in 1 .. n : c # at(i)) => p[c] = mem[c]
  BY <1>7
<1>12. \A c \in Cells : ~(Writable(a, b) /\ c \in BlockCells(a, b)) => p[c] = mem[c]
  BY <1>5, <1>7
<1>13. Writable(a, b) => \A i \in 1 .. n : at(i) \in Cells /\ p[at(i)] = d[i]
  <2> SUFFICES ASSUME Writable(a, b), NEW i \in 1 .. n PROVE at(i) \in Cells /\ p[at(i)] = d[i]
    OBVIOUS
  <2>1. pick(at(i)) = i
    BY <1>6, <1>8
  <2> QED
    BY <1>5, <1>7, <2>1
<1> QED
  BY <1>3, <1>10, <1>11, <1>12, <1>13 DEF at, p, b, n

LEMMA EraseFacts ==
  ASSUME FlashTypeOK, NEW a \in Arrays
  PROVE  /\ Erasable(a) \in SUBSET Blocks /\ \A b \in Erasable(a) : Has(a, b) /\ Writable(a, b)
         /\ Erase(a) \in [Cells -> Vals]
         /\ \A c \in Cells : Erase(a)[c] = mem[c] \/ \E b \in Erasable(a) : c \in BlockCells(a, b)
<1>1. arr[a].sel \in SUBSET Blocks /\ "S0" \in Blocks /\ mem \in [Cells -> Vals] /\ Erased \in Vals
  BY FlashAssumption DEF FlashTypeOK, FlashArrays, Blocks
<1>2. Erasable(a) \in SUBSET Blocks /\ \A b \in Erasable(a) : Has(a, b) /\ Writable(a, b)
  BY <1>1 DEF Erasable
<1>3. Erase(a) = [c \in Cells |-> IF \E b \in Erasable(a) : c \in BlockCells(a, b) THEN Erased ELSE mem[c]]
  BY DEF Erase
<1> QED
  BY <1>1, <1>2, <1>3

-----------------------------------------------------------------------------
(* The arrays' registers.                                                  *)

LEMMA NoWriteFacts ==
  /\ NoWrite \in [block : Blocks \union {"none"}, data : Seq(Vals)]
  /\ NoWrite.block = "none" /\ NoWrite.data = NoData
BY DEF NoWrite, NoData

\* Only the buffer that waits for nothing has no block.
LEMMA NoWriteIs ==
  ASSUME FlashTypeOK, Buffers, NEW a \in Arrays
  PROVE  /\ arr[a].write.block = "none" <=> arr[a].write = NoWrite
         /\ arr[a].write.block = "none" => arr[a].write.data = NoData
<1>1. arr[a].write \in [block : Blocks \union {"none"}, data : Seq(Vals)]
  BY DEF FlashTypeOK, FlashArrays
<1>2. arr[a].write = [block |-> arr[a].write.block, data |-> arr[a].write.data]
  BY <1>1
<1>3. arr[a].write.block = "none" => arr[a].write.data = NoData
  BY DEF Buffers, Buffer
<1>4. NoWrite = [block |-> "none", data |-> NoData]
  BY DEF NoWrite
<1> QED
  BY <1>2, <1>3, <1>4, NoWriteFacts

\* An array's state has its types.
Sound(st) ==
  /\ st \in FlashArrays
  /\ st.lock.hlr \subseteq {"H0"}
  /\ st.lock.lmlr \union st.lock.slmlr \subseteq {"S0", "L0", "M0"}

LEMMA ArraySound ==
  FlashTypeOK => \A a \in Arrays : Sound(arr[a])
BY DEF FlashTypeOK, Sound

LEMMA SoundType ==
  ASSUME FlashTypeOK, NEW a \in Arrays, NEW st, Sound(st), arr' = [arr EXCEPT ![a] = st]
  PROVE  /\ arr' \in [Arrays -> FlashArrays]
         /\ \A x \in Arrays : arr'[x].lock.hlr \subseteq {"H0"}
                              /\ arr'[x].lock.lmlr \union arr'[x].lock.slmlr \subseteq {"S0", "L0", "M0"}
         /\ arr'[a] = st /\ \A x \in Arrays \ {a} : arr'[x] = arr[x]
BY DEF FlashTypeOK, Sound

LEMMA ResetSound ==
  ASSUME NEW a \in Arrays, NEW st, Sound(st), NEW m \in [Cells -> Vals]
  PROVE  Sound(ResetArray(st, m, a)) /\ ResetArray(st, m, a).write = st.write
<1> DEFINE x == ShadowLocks[m[Shadow(a)]]
           l == [r \in LockRegs |-> x \intersect Covered(r)]
           y == ResetArray(st, m, a)
<1>1. Shadow(a) \in Cells
  BY FlashAssumption DEF Shadow, Cells, Size
<1>2. x \in SUBSET Blocks
  BY <1>1, FlashAssumption
<1> HIDE DEF x
<1>3. /\ l \in [LockRegs -> SUBSET Blocks]
      /\ l.hlr \subseteq {"H0"} /\ l.lmlr \union l.slmlr \subseteq {"S0", "L0", "M0"}
  BY <1>2 DEF LockRegs, Covered
<1>4. y = [st EXCEPT !.key = {}, !.sel = {}, !.lock = l]
  BY DEF ResetArray, x
<1> HIDE DEF l, y
<1>5. y \in FlashArrays /\ y.lock = l /\ y.write = st.write
  BY <1>3, <1>4 DEF Sound, FlashArrays
<1> QED
  BY <1>3, <1>5 DEF Sound, y

LEMMA PowerUpSound == Sound(PowerUp) /\ PowerUp.write = NoWrite
<1> DEFINE l == [r \in LockRegs |-> Covered(r)]
<1>1. /\ l \in [LockRegs -> SUBSET Blocks]
      /\ l.hlr \subseteq {"H0"} /\ l.lmlr \union l.slmlr \subseteq {"S0", "L0", "M0"}
  BY DEF LockRegs, Covered, Blocks
<1>2. PowerUp = [pgm |-> FALSE, ers |-> FALSE, peas |-> FALSE, key |-> {}, sel |-> {},
                 lock |-> l, write |-> NoWrite]
  BY DEF PowerUp
<1> HIDE DEF l
<1>3. PowerUp \in FlashArrays /\ PowerUp.lock = l /\ PowerUp.write = NoWrite
  BY <1>1, <1>2, NoWriteFacts DEF FlashArrays
<1> QED
  BY <1>1, <1>3 DEF Sound

-----------------------------------------------------------------------------
(* The invariant holds initially and is kept by every step.                *)

LEMMA BuffersStay ==
  ASSUME FlashTypeOK, Buffers, mem' = mem,
         \A a \in Arrays : arr'[a].write = arr[a].write /\ wanted'[a] = wanted[a]
  PROVE  Buffers'
BY DEF Buffers

LEMMA BackedStays ==
  ASSUME Backed, UNCHANGED <<mem, file, fileLen, saving, unsaved>>, phase' = phase \/ phase' = "off"
  PROVE  Backed'
BY DEF Backed

LEMMA RestStays ==
  ASSUME FlashTypeOK, UNCHANGED <<mem, file, fileLen, saving, unsaved>>, phase' = phase \/ phase' = "off"
  PROVE  /\ mem' \in [Cells -> Vals] /\ file' \in [Cells -> Vals]
         /\ fileLen' \in 0 .. Size /\ saving' \in Seq(Cells)
         /\ phase' \in {"on", "off"} /\ unsaved' \subseteq Cells
BY DEF FlashTypeOK

\* The arrays as the power finds them, with no write waiting.
LEMMA FreshArrays ==
  ASSUME NEW f, NEW m, f \in [Arrays -> FlashArrays],
         \A a \in Arrays : Sound(f[a]) /\ f[a].write = NoWrite,
         arr' = f, wanted' = [a \in Arrays |-> {}], mem' = m
  PROVE  /\ arr' \in [Arrays -> FlashArrays]
         /\ \A a \in Arrays : arr'[a].lock.hlr \subseteq {"H0"}
                              /\ arr'[a].lock.lmlr \union arr'[a].lock.slmlr \subseteq {"S0", "L0", "M0"}
         /\ wanted' \in [Arrays -> SUBSET (Cells \X Vals)]
         /\ Buffers'
<1>1. \A a \in Arrays : Buffer(a, arr'[a].write.block, arr'[a].write.data, wanted'[a], mem')
  BY BufferNone, NoWriteFacts
<1> QED
  BY <1>1 DEF Sound, Buffers

LEMMA PoweredUp ==
  /\ [a \in Arrays |-> PowerUp] \in [Arrays -> FlashArrays]
  /\ \A a \in Arrays : Sound([x \in Arrays |-> PowerUp][a]) /\ [x \in Arrays |-> PowerUp][a].write = NoWrite
BY PowerUpSound DEF Sound

LEMMA FlashInitInv == FlashInit => FlashInv
<1> SUFFICES ASSUME FlashInit PROVE FlashInv
  OBVIOUS
<1>1. FlashTypeOK
  <2>1. arr \in [Arrays -> FlashArrays] /\ \A a \in Arrays : Sound(arr[a]) /\ arr[a].write = NoWrite
    BY PoweredUp DEF FlashInit
  <2>2. wanted \in [Arrays -> SUBSET (Cells \X Vals)]
    BY DEF FlashInit
  <2>3. mem \in [Cells -> Vals] /\ file \in [Cells -> Vals] /\ phase = "off" /\ unsaved = {}
    BY FlashAssumption DEF FlashInit
  <2>4. fileLen \in 0 .. Size
    BY FlashAssumption DEF FlashInit, Size
  <2>5. saving \in Seq(Cells)
    BY DEF FlashInit
  <2> QED
    BY <2>1, <2>2, <2>3, <2>4, <2>5 DEF FlashTypeOK, Sound
<1>2. Buffers
  <2>1. \A a \in Arrays : arr[a].write = NoWrite /\ wanted[a] = {}
    BY PowerUpSound DEF FlashInit
  <2>2. \A a \in Arrays : arr[a].write.block = "none" /\ arr[a].write.data = NoData
    BY <2>1, NoWriteFacts
  <2>3. \A a \in Arrays : Buffer(a, "none", NoData, {}, mem)
    BY BufferNone
  <2> QED
    BY <2>1, <2>2, <2>3 DEF Buffers
<1>3. Backed
  <2>1. fileLen = 0 /\ phase = "off" /\ \A c \in Cells : c \in Nat
    BY DEF FlashInit, Cells
  <2>2. \A c \in Cells : ~(c < fileLen)
    BY <2>1
  <2> QED
    BY <2>1, <2>2 DEF Backed
<1> QED
  BY <1>1, <1>2, <1>3 DEF FlashInv

\* The end of the process.
LEMMA OffInv ==
  ASSUME FlashInv, Off, UNCHANGED <<mem, file, fileLen, saving, unsaved>>
  PROVE  FlashInv'
<1>1. /\ FlashTypeOK /\ Backed /\ mem' = mem
      /\ arr' = [a \in Arrays |-> PowerUp] /\ wanted' = [a \in Arrays |-> {}] /\ phase' = "off"
  BY DEF FlashInv, Off
<1>2. FlashTypeOK' /\ Buffers'
  BY <1>1, PoweredUp, FreshArrays, RestStays DEF FlashTypeOK
<1> QED
  BY <1>1, <1>2, BackedStays DEF FlashInv

LEMMA StartInv ==
  ASSUME FlashInv, NEW reset_backup \in BOOLEAN, Start(reset_backup)
  PROVE  FlashInv'
<1> DEFINE f == [a \in Arrays |-> ResetArray(PowerUp, mem', a)]
           s == [i \in 1 .. Size |-> i - 1]
<1>0. /\ Size \in Nat /\ Size # 0 /\ \A c \in Cells : c \in Nat /\ c < Size
      /\ Image \in [Cells -> Vals] /\ <<>> \in Seq(Cells)
  <2>1. Size \in Nat /\ Size # 0
    BY FlashAssumption DEF Size
  <2>2. \A c \in Cells : c \in Nat /\ c < Size
    BY <2>1 DEF Cells
  <2> QED
    BY <2>1, <2>2, FlashAssumption
<1>1. /\ phase' = "on" /\ fileLen' = (IF reset_backup THEN 0 ELSE fileLen)
      /\ \/ fileLen' = Size /\ mem' = file /\ saving' = <<>>
         \/ fileLen' # Size /\ mem' = Image /\ saving' = s
      /\ arr' = f /\ wanted' = [a \in Arrays |-> {}] /\ unsaved' = {} /\ file' = file
  BY DEF Start
<1>2. s \in Seq(Cells) /\ Range(s) = Cells
  BY WholeFlash
<1> HIDE DEF s
<1>3. /\ file \in [Cells -> Vals] /\ fileLen \in 0 .. Size
  BY DEF FlashInv, FlashTypeOK
<1>4. mem' \in [Cells -> Vals] /\ saving' \in Seq(Cells) /\ fileLen' \in 0 .. Size
  <2>1. fileLen' \in 0 .. Size
    BY <1>0, <1>1, <1>3
  <2>2. mem' \in [Cells -> Vals]
    BY <1>0, <1>1, <1>3
  <2>3. saving' \in Seq(Cells)
    BY <1>0, <1>1, <1>2
  <2> QED
    BY <2>1, <2>2, <2>3
<1>5. \A a \in Arrays : Sound(ResetArray(PowerUp, mem', a)) /\ ResetArray(PowerUp, mem', a).write = NoWrite
  BY <1>4, PowerUpSound, ResetSound
<1>6. f \in [Arrays -> FlashArrays] /\ \A a \in Arrays : Sound(f[a]) /\ f[a].write = NoWrite
  BY <1>5 DEF Sound
<1> HIDE DEF f
<1>7. /\ arr' \in [Arrays -> FlashArrays]
      /\ \A a \in Arrays : arr'[a].lock.hlr \subseteq {"H0"}
                           /\ arr'[a].lock.lmlr \union arr'[a].lock.slmlr \subseteq {"S0", "L0", "M0"}
      /\ wanted' \in [Arrays -> SUBSET (Cells \X Vals)]
      /\ Buffers'
  BY <1>1, <1>6, FreshArrays
<1>8. FlashTypeOK'
  BY <1>1, <1>3, <1>4, <1>7 DEF FlashTypeOK
<1>9. Backed'
  <2>1. CASE fileLen' = Size
    <3>1. mem' = file /\ \A c \in Cells : ~(c >= fileLen')
      BY <1>0, <1>1, <2>1
    <3> QED
      BY <1>1, <3>1 DEF Backed
  <2>2. CASE fileLen' # Size
    BY <1>1, <1>2, <2>2 DEF Backed
  <2> QED
    BY <2>1, <2>2
<1> QED
  BY <1>7, <1>8, <1>9 DEF FlashInv

LEMMA SaveCellInv ==
  ASSUME FlashInv, SaveCell
  PROVE  FlashInv'
<1> DEFINE h == Head(saving)
<1>1. /\ phase = "on" /\ saving # <<>> /\ file' = [file EXCEPT ![h] = mem[h]]
      /\ fileLen' = (IF h < fileLen THEN fileLen ELSE h + 1)
      /\ saving' = Tail(saving)
      /\ UNCHANGED <<arr, mem, phase, wanted, unsaved>>
  BY DEF SaveCell
<1>2. saving \in Seq(Cells) /\ mem \in [Cells -> Vals] /\ file \in [Cells -> Vals] /\ fileLen \in 0 .. Size
  BY DEF FlashInv, FlashTypeOK
<1>3. saving' \in Seq(Cells) /\ Range(saving) = {h} \union Range(saving') /\ h \in Range(saving)
  BY <1>1, <1>2, TailRange
<1>4. h \in Cells /\ \A c \in Cells : c \in Nat /\ c < Size /\ Size \in Nat
  <2>1. h \in Cells
    BY <1>1, <1>2, TailRange
  <2>2. Size \in Nat
    BY FlashAssumption DEF Size
  <2> QED
    BY <2>1, <2>2 DEF Cells
<1> HIDE DEF h
<1>5. fileLen' \in 0 .. Size
  BY <1>1, <1>2, <1>4
<1>6. file' \in [Cells -> Vals] /\ file'[h] = mem[h] /\ \A c \in Cells : c # h => file'[c] = file[c]
  BY <1>1, <1>2, <1>4
<1>7. FlashTypeOK'
  <2>1. FlashTypeOK
    BY DEF FlashInv
  <2> QED
    BY <1>1, <1>3, <1>5, <1>6, <2>1 DEF FlashTypeOK
<1>8. Buffers'
  BY <1>1, BuffersStay DEF FlashInv
<1>9. Backed'
  <2>1. /\ \A c \in Cells : c < fileLen => file[c] = mem[c] \/ c \in Range(saving) \/ c \in unsaved
        /\ \A c \in Cells : c >= fileLen => c \in Range(saving)
    BY <1>1 DEF FlashInv, Backed
  <2>2. \A c \in Cells : file'[c] = mem[c] \/ c \in Range(saving') \/ c \in unsaved
    <3> TAKE c \in Cells
    <3>1. c < fileLen \/ c >= fileLen
      BY <1>2, <1>4
    <3> QED
      BY <1>3, <1>6, <2>1, <3>1
  <2>3. \A c \in Cells : c >= fileLen' => c \in Range(saving')
    <3> SUFFICES ASSUME NEW c \in Cells, c >= fileLen' PROVE c \in Range(saving')
      OBVIOUS
    <3>1. c >= fileLen /\ c # h
      BY <1>1, <1>2, <1>4
    <3> QED
      BY <1>3, <2>1, <3>1
  <2> QED
    BY <1>1, <2>2, <2>3 DEF Backed
<1> QED
  BY <1>7, <1>8, <1>9 DEF FlashInv

\* The handlers that only change an array's registers, not its buffer.
LEMMA RegistersInv ==
  ASSUME FlashInv, NEW a \in Arrays, NEW st, Sound(st), st.write = arr[a].write,
         arr' = [arr EXCEPT ![a] = st], UNCHANGED <<mem, file, fileLen, saving, phase, wanted, unsaved>>
  PROVE  FlashInv'
<1>0. FlashTypeOK /\ Buffers /\ Backed
  BY DEF FlashInv
<1>1. /\ arr' \in [Arrays -> FlashArrays]
      /\ \A x \in Arrays : arr'[x].lock.hlr \subseteq {"H0"}
                           /\ arr'[x].lock.lmlr \union arr'[x].lock.slmlr \subseteq {"S0", "L0", "M0"}
      /\ arr'[a] = st /\ \A x \in Arrays \ {a} : arr'[x] = arr[x]
  BY <1>0, SoundType
<1>2. FlashTypeOK'
  BY <1>0, <1>1, RestStays DEF FlashTypeOK
<1>3. Buffers'
  <2>1. \A x \in Arrays : arr'[x].write = arr[x].write
    BY <1>1
  <2> QED
    BY <1>0, <2>1, BuffersStay
<1> QED
  BY <1>0, <1>2, <1>3, BackedStays DEF FlashInv

LEMMA FlashResetInv ==
  ASSUME FlashInv, Reset
  PROVE  FlashInv'
<1> DEFINE f == [a \in Arrays |-> ResetArray(arr[a], mem, a)]
<1>1. arr' = f /\ UNCHANGED <<mem, file, fileLen, saving, phase, wanted, unsaved>>
  BY DEF Reset
<1>2. FlashTypeOK /\ Buffers /\ Backed /\ mem \in [Cells -> Vals]
  BY DEF FlashInv, FlashTypeOK
<1>3. \A a \in Arrays : Sound(ResetArray(arr[a], mem, a)) /\ ResetArray(arr[a], mem, a).write = arr[a].write
  BY <1>2, ArraySound, ResetSound
<1>4. f \in [Arrays -> FlashArrays] /\ \A a \in Arrays : Sound(f[a]) /\ f[a].write = arr[a].write
  BY <1>3 DEF Sound
<1> HIDE DEF f
<1>5. FlashTypeOK'
  BY <1>1, <1>2, <1>4, RestStays DEF FlashTypeOK, Sound
<1>6. Buffers'
  BY <1>1, <1>2, <1>4, BuffersStay
<1> QED
  BY <1>1, <1>2, <1>5, <1>6, BackedStays DEF FlashInv

LEMMA WriteLockInv ==
  ASSUME FlashInv, NEW w \in LockWrites, WriteLock(w)
  PROVE  FlashInv'
<1> DEFINE a == w.array
           st == arr[a]
<1>1. a \in Arrays /\ w.reg \in LockRegs /\ (w.locks = PASSWORD \/ w.locks \in SUBSET Blocks)
  BY FlashAssumption
<1>2. Sound(st) /\ FlashTypeOK
  BY <1>1, ArraySound DEF FlashInv
<1>3. UNCHANGED <<mem, file, fileLen, saving, phase, wanted, unsaved>>
  BY DEF WriteLock
<1>4. CASE w.locks = PASSWORD
  <2> DEFINE y == [st EXCEPT !.key = @ \union {w.reg}]
  <2>1. arr' = [arr EXCEPT ![a] = y]
    BY <1>4 DEF WriteLock
  <2>2. y \in FlashArrays /\ y.lock = st.lock /\ y.write = st.write
    BY <1>1, <1>2 DEF Sound, FlashArrays
  <2> HIDE DEF y
  <2>3. Sound(y)
    BY <1>2, <2>2 DEF Sound
  <2> QED
    BY <1>1, <1>3, <2>1, <2>2, <2>3, RegistersInv
<1>5. CASE w.locks # PASSWORD
  <2> DEFINE l == [st.lock EXCEPT ![w.reg] = w.locks \intersect Covered(w.reg)]
             y == [st EXCEPT !.lock = l]
  <2>1. arr' = [arr EXCEPT ![a] = y]
    BY <1>5 DEF WriteLock
  <2>2. w.locks \in SUBSET Blocks /\ st.lock \in [LockRegs -> SUBSET Blocks]
    BY <1>1, <1>2, <1>5 DEF Sound, FlashArrays
  <2>3. /\ l \in [LockRegs -> SUBSET Blocks]
        /\ l.hlr \subseteq {"H0"} /\ l.lmlr \union l.slmlr \subseteq {"S0", "L0", "M0"}
    BY <1>1, <1>2, <2>2 DEF LockRegs, Covered, Sound
  <2> HIDE DEF l
  <2>4. y \in FlashArrays /\ y.lock = l /\ y.write = st.write
    BY <1>2, <2>3 DEF Sound, FlashArrays
  <2> HIDE DEF y
  <2>5. Sound(y)
    BY <2>3, <2>4 DEF Sound
  <2> QED
    BY <1>1, <1>3, <2>1, <2>4, <2>5, RegistersInv
<1> QED
  BY <1>4, <1>5

LEMMA SelectInv ==
  ASSUME FlashInv, NEW a \in Arrays, NEW blocks \in Selections, Select(a, blocks)
  PROVE  FlashInv'
<1> DEFINE y == [arr[a] EXCEPT !.sel = blocks]
<1>1. arr' = [arr EXCEPT ![a] = y] /\ UNCHANGED <<mem, file, fileLen, saving, phase, wanted, unsaved>>
  BY DEF Select
<1>2. Sound(arr[a]) /\ blocks \in SUBSET Blocks
  BY FlashAssumption, ArraySound DEF FlashInv
<1>3. y \in FlashArrays /\ y.lock = arr[a].lock /\ y.write = arr[a].write
  BY <1>2 DEF Sound, FlashArrays
<1> HIDE DEF y
<1>4. Sound(y)
  BY <1>2, <1>3 DEF Sound
<1> QED
  BY <1>1, <1>3, <1>4, RegistersInv

\* What the start of an operation changes in flash are cells of unlocked blocks,
\* and all of these are to be saved; the buffer is empty afterwards.
LEMMA HighVoltageFacts ==
  ASSUME FlashTypeOK, Buffers, saving = <<>>, NEW a \in Arrays, NEW op \in Operations, HighVoltage(a, op)
  PROVE  /\ \E changed \in SUBSET Blocks :
              /\ \A b \in changed : Has(a, b) /\ Writable(a, b)
              /\ \A c \in Cells : mem'[c] = mem[c] \/ \E b \in changed : c \in BlockCells(a, b)
              /\ \A b \in changed : BlockCells(a, b) \subseteq Range(saving')
         /\ mem' \in [Cells -> Vals] /\ saving' \in Seq(Cells) /\ phase' = phase
         /\ \A c \in unsaved : c \in unsaved' \/ c \in Range(saving')
         /\ unsaved' \subseteq unsaved
         /\ \E st : /\ Sound(st) /\ arr' = [arr EXCEPT ![a] = st]
                    /\ \/ /\ mem' = mem /\ wanted' = wanted /\ st.write = arr[a].write
                          /\ arr[a].write = NoWrite \/ ~(op.pgm \/ op.ers)
                       \/ /\ st.write = NoWrite /\ wanted' = [wanted EXCEPT ![a] = {}]
                          /\ mem' = (IF op.pgm THEN Program(a, arr[a].write) ELSE Erase(a))
                          /\ arr[a].write # NoWrite /\ (op.pgm \/ op.ers)
<1> DEFINE w == arr[a].write
           happens == w # NoWrite /\ (op.pgm \/ op.ers)
           done == [arr[a] EXCEPT !.pgm = FALSE, !.ers = FALSE, !.peas = FALSE]
           changed == IF op.pgm THEN {b \in {w.block} : Writable(a, b)} ELSE Erasable(a)
<1>1. Sound(arr[a]) /\ mem \in [Cells -> Vals] /\ saving \in Seq(Cells)
  BY ArraySound DEF FlashTypeOK
<1>2. Sound(done) /\ done.write = w
  <2>1. done \in FlashArrays /\ done.lock = arr[a].lock /\ done.write = w
    BY <1>1 DEF Sound, FlashArrays
  <2> HIDE DEF done
  <2> QED
    BY <1>1, <2>1 DEF Sound
<1>3. CASE ~happens
  <2>1. arr' = [arr EXCEPT ![a] = done] /\ UNCHANGED <<mem, saving, phase, wanted, unsaved>>
    BY <1>3 DEF HighVoltage
  <2>2. {} \in SUBSET Blocks /\ \A b \in {} : Has(a, b) /\ Writable(a, b)
    OBVIOUS
  <2>3. w = NoWrite \/ ~(op.pgm \/ op.ers)
    BY <1>3
  <2> HIDE DEF done, happens
  <2>4. \E st : /\ Sound(st) /\ arr' = [arr EXCEPT ![a] = st] /\ st.write = w
                /\ mem' = mem /\ wanted' = wanted
    BY <1>2, <2>1
  <2> QED
    BY <1>1, <2>1, <2>2, <2>3, <2>4
<1>4. CASE happens
  <2> DEFINE st == [done EXCEPT !.write = NoWrite]
  <2>1. /\ mem' = (IF op.pgm THEN Program(a, w) ELSE Erase(a))
        /\ saving' = Saves(a, changed) /\ arr' = [arr EXCEPT ![a] = st]
        /\ wanted' = [wanted EXCEPT ![a] = {}] /\ unsaved' = unsaved \ Range(saving') /\ phase' = phase
    BY <1>4 DEF HighVoltage
  <2>2. w # NoWrite /\ (op.pgm \/ op.ers) /\ w.block # "none"
    BY <1>4, NoWriteIs
  <2>3. Sound(st) /\ st.write = NoWrite
    <3> HIDE DEF done
    <3>1. st \in FlashArrays /\ st.lock = done.lock /\ st.write = NoWrite
      BY <1>2, NoWriteFacts DEF Sound, FlashArrays
    <3> HIDE DEF st
    <3> QED
      BY <1>2, <3>1 DEF Sound
  <2>4. /\ changed \in SUBSET Blocks
        /\ \A b \in changed : Has(a, b) /\ Writable(a, b)
        /\ mem' \in [Cells -> Vals]
        /\ \A c \in Cells : mem'[c] = mem[c] \/ \E b \in changed : c \in BlockCells(a, b)
    <3>1. CASE op.pgm
      <4>1. changed = {b \in {w.block} : Writable(a, b)} /\ mem' = Program(a, w)
        BY <2>1, <3>1
      <4>2. w.block \in Blocks
        BY <1>1, <2>2 DEF Sound, FlashArrays
      <4>3. /\ Has(a, w.block) /\ Program(a, w) \in [Cells -> Vals]
            /\ \A c \in Cells : ~(Writable(a, w.block) /\ c \in BlockCells(a, w.block)) => Program(a, w)[c] = mem[c]
        BY <2>2, ProgramFacts
      <4> HIDE DEF changed, w
      <4>4. \A c \in Cells : mem'[c] = mem[c] \/ \E b \in changed : c \in BlockCells(a, b)
        BY <4>1, <4>3
      <4> QED
        BY <4>1, <4>2, <4>3, <4>4
    <3>2. CASE ~op.pgm
      <4>1. changed = Erasable(a) /\ mem' = Erase(a)
        BY <2>1, <3>2
      <4> HIDE DEF changed
      <4> QED
        BY <4>1, EraseFacts
    <3> QED
      BY <3>1, <3>2
  <2> HIDE DEF changed, st, w
  <2>5. saving' \in Seq(Cells) /\ \A b \in changed : BlockCells(a, b) \subseteq Range(saving')
    BY <2>1, <2>4, SavesFacts
  <2>6. \E x : /\ Sound(x) /\ arr' = [arr EXCEPT ![a] = x] /\ x.write = NoWrite
    BY <2>1, <2>3
  <2>7. \A c \in unsaved : c \in unsaved' \/ c \in Range(saving')
    BY <2>1
  <2>8. unsaved' \subseteq unsaved
    BY <2>1
  <2> QED
    BY <2>1, <2>2, <2>4, <2>5, <2>6, <2>7, <2>8 DEF w
<1> QED
  BY <1>3, <1>4

\* A change of flash in one array's blocks leaves the buffer of the other alone.
LEMMA OthersStay ==
  ASSUME FlashTypeOK, Buffers, NEW a \in Arrays, NEW x \in Arrays, x # a, NEW m,
         NEW changed \in SUBSET Blocks, \A b \in changed : Has(a, b),
         \A c \in Cells : m[c] = mem[c] \/ \E b \in changed : c \in BlockCells(a, b)
  PROVE  Buffer(x, arr[x].write.block, arr[x].write.data, wanted[x], m)
<1> DEFINE b == arr[x].write.block
           d == arr[x].write.data
<1>1. b \in Blocks \union {"none"} /\ d \in Seq(Vals)
  BY DEF FlashTypeOK, FlashArrays
<1>2. Buffer(x, b, d, wanted[x], mem)
  BY DEF Buffers
<1> HIDE DEF d, b
<1>3. ASSUME b # "none", NEW i \in 0 .. BlockSize(x, b) - 1
      PROVE  m[Cell(x, b, i)] = mem[Cell(x, b, i)]
  <2>1. b \in Blocks /\ Has(x, b)
    BY <1>1, <1>2, <1>3 DEF Buffer
  <2>2. Cell(x, b, i) \in Cells
    BY <1>3, <2>1, CellInRow
  <2>3. ASSUME NEW y \in changed, Cell(x, b, i) \in BlockCells(a, y) PROVE FALSE
    <3>1. PICK j \in 0 .. BlockSize(a, y) - 1 : Cell(x, b, i) = Cell(a, y, j)
      BY <2>3 DEF BlockCells
    <3>2. y \in Blocks /\ Has(a, y)
      OBVIOUS
    <3> QED
      BY <1>3, <2>1, <3>1, <3>2, BlocksDisjoint
  <2> QED
    BY <2>2, <2>3
<1> QED
  BY <1>1, <1>2, <1>3, BufferStays DEF b, d

LEMMA HighVoltageInv ==
  ASSUME FlashInv, Idle, NEW a \in Arrays, NEW op \in Operations, HighVoltage(a, op),
         UNCHANGED <<file, fileLen>>
  PROVE  FlashInv'
<1>0. FlashTypeOK /\ Buffers /\ Backed /\ saving = <<>> /\ phase = "on"
  BY DEF FlashInv, Idle
<1>1. /\ mem' \in [Cells -> Vals] /\ saving' \in Seq(Cells) /\ phase' = phase
      /\ \A c \in unsaved : c \in unsaved' \/ c \in Range(saving')
      /\ unsaved' \subseteq unsaved
  BY <1>0, HighVoltageFacts
<1>2. PICK changed \in SUBSET Blocks :
        /\ \A b \in changed : Has(a, b) /\ Writable(a, b)
        /\ \A c \in Cells : mem'[c] = mem[c] \/ \E b \in changed : c \in BlockCells(a, b)
        /\ \A b \in changed : BlockCells(a, b) \subseteq Range(saving')
  BY <1>0, HighVoltageFacts
<1>3. PICK st : /\ Sound(st) /\ arr' = [arr EXCEPT ![a] = st]
                /\ \/ mem' = mem /\ wanted' = wanted /\ st.write = arr[a].write
                   \/ st.write = NoWrite /\ wanted' = [wanted EXCEPT ![a] = {}]
  BY <1>0, HighVoltageFacts
<1>4. /\ arr' \in [Arrays -> FlashArrays]
      /\ \A x \in Arrays : arr'[x].lock.hlr \subseteq {"H0"}
                           /\ arr'[x].lock.lmlr \union arr'[x].lock.slmlr \subseteq {"S0", "L0", "M0"}
      /\ arr'[a] = st /\ \A x \in Arrays \ {a} : arr'[x] = arr[x]
  BY <1>0, <1>3, SoundType
<1>5. /\ wanted' \in [Arrays -> SUBSET (Cells \X Vals)]
      /\ \A x \in Arrays \ {a} : wanted'[x] = wanted[x]
  BY <1>0, <1>3 DEF FlashTypeOK
<1>6. FlashTypeOK'
  BY <1>0, <1>1, <1>4, <1>5 DEF FlashTypeOK
<1>7. Buffers'
  <2>1. ASSUME NEW x \in Arrays \ {a}
        PROVE  Buffer(x, arr'[x].write.block, arr'[x].write.data, wanted'[x], mem')
    <3>1. Buffer(x, arr[x].write.block, arr[x].write.data, wanted[x], mem')
      BY <1>0, <1>2, OthersStay
    <3> QED
      BY <1>4, <1>5, <3>1
  <2>2. Buffer(a, arr'[a].write.block, arr'[a].write.data, wanted'[a], mem')
    <3>1. CASE mem' = mem /\ wanted' = wanted /\ st.write = arr[a].write
      <4>1. Buffer(a, arr[a].write.block, arr[a].write.data, wanted[a], mem)
        BY <1>0 DEF Buffers
      <4> QED
        BY <1>4, <3>1, <4>1
    <3>2. CASE st.write = NoWrite /\ wanted' = [wanted EXCEPT ![a] = {}]
      <4>1. wanted'[a] = {} /\ arr'[a].write.block = "none" /\ arr'[a].write.data = NoData
        BY <1>0, <1>4, <3>2, NoWriteFacts DEF FlashTypeOK
      <4> QED
        BY <4>1, BufferNone
    <3> QED
      BY <1>3, <3>1, <3>2
  <2> QED
    BY <2>1, <2>2 DEF Buffers
<1>8. Backed'
  <2>1. \A c \in Range(saving) : FALSE
    BY <1>0 DEF Range
  <2>2. \A c \in Cells : c < fileLen => file'[c] = mem'[c] \/ c \in Range(saving') \/ c \in unsaved'
    <3> SUFFICES ASSUME NEW c \in Cells, c < fileLen
                 PROVE  file[c] = mem'[c] \/ c \in Range(saving') \/ c \in unsaved'
      OBVIOUS
    <3>1. file[c] = mem[c] \/ c \in unsaved
      BY <1>0, <2>1 DEF Backed
    <3>2. mem'[c] = mem[c] \/ c \in Range(saving')
      BY <1>2
    <3> QED
      BY <1>1, <3>1, <3>2
  <2>3. \A c \in Cells : ~(c >= fileLen)
    BY <1>0, <2>1 DEF Backed
  <2> QED
    BY <2>2, <2>3 DEF Backed
<1> QED
  BY <1>6, <1>7, <1>8 DEF FlashInv

LEMMA FlashMcrInv ==
  ASSUME FlashInv, NEW a \in Arrays, NEW op \in Operations, WriteMcr(a, op)
  PROVE  FlashInv'
<1>1. CASE op.ehv /\ Fails(a, op) /\ Off /\ UNCHANGED <<mem, saving, unsaved>>
  BY <1>1, OffInv DEF WriteMcr
<1>2. CASE op.ehv /\ ~Fails(a, op) /\ HighVoltage(a, op)
  BY <1>2, HighVoltageInv DEF WriteMcr
<1>3. CASE /\ ~op.ehv /\ arr' = [arr EXCEPT ![a].pgm = op.pgm, ![a].ers = op.ers]
           /\ UNCHANGED <<mem, saving, phase, wanted, unsaved>>
  <2> DEFINE y == [arr[a] EXCEPT !.pgm = op.pgm, !.ers = op.ers]
  <2>1. op.pgm \in BOOLEAN /\ op.ers \in BOOLEAN
    BY FlashAssumption
  <2>2. Sound(arr[a]) /\ FlashTypeOK
    BY ArraySound DEF FlashInv
  <2>3. arr' = [arr EXCEPT ![a] = y]
    <3>1. arr \in [Arrays -> FlashArrays]
      BY <2>2 DEF FlashTypeOK
    <3> QED
      BY <1>3, <3>1
  <2>4. y \in FlashArrays /\ y.lock = arr[a].lock /\ y.write = arr[a].write
    BY <2>1, <2>2 DEF Sound, FlashArrays
  <2> HIDE DEF y
  <2>5. Sound(y)
    BY <2>2, <2>4 DEF Sound
  <2>6. UNCHANGED <<mem, file, fileLen, saving, phase, wanted, unsaved>>
    BY <1>3 DEF WriteMcr
  <2> QED
    BY <2>3, <2>4, <2>5, <2>6, RegistersInv
<1> QED
  BY <1>1, <1>2, <1>3 DEF WriteMcr

\* A write leaves its value in the buffer, names the block of an erase, or is
\* ignored; or it ends the emulator.
LEMMA WriteFacts ==
  ASSUME FlashTypeOK, Buffers, NEW w \in Writes, Write(w)
  PROVE  /\ UNCHANGED <<mem, file, fileLen, saving, unsaved>>
         /\ \/ Off
            \/ UNCHANGED <<arr, wanted, phase>>
            \/ \E a \in Arrays : \E st : 
                 /\ Sound(st) /\ arr' = [arr EXCEPT ![a] = st] /\ phase' = phase
                 /\ wanted' \in [Arrays -> SUBSET (Cells \X Vals)]
                 /\ \A x \in Arrays \ {a} : wanted'[x] = wanted[x]
                 /\ Buffer(a, st.write.block, st.write.data, wanted'[a], mem)
<1> DEFINE t == Target(w.cell)
           a == t.array
           st == arr[a]
           ignored == ~Writable(a, t.block) /\ ~st.ers
           first == st.write = NoWrite /\ (st.pgm \/ st.ers)
           buf == IF ~first THEN st.write
                  ELSE [block |-> t.block, data |-> IF st.pgm THEN Contents(a, t.block) ELSE NoData]
           peas == IF first /\ ~st.pgm THEN t.block = "S0" ELSE st.peas
           data == IF ~ignored /\ st.pgm THEN [buf.data EXCEPT ![t.off + 1] = w.val] ELSE buf.data
           new == [buf EXCEPT !.data = data]
           next == [st EXCEPT !.write = new, !.peas = peas]
           more == {x \in wanted[a] : x[1] # w.cell} \union {<<w.cell, w.val>>}
<1>1. w.cell \in Cells /\ w.val \in Vals
  BY FlashAssumption
<1>2. /\ a \in Arrays /\ t.block \in Blocks /\ Has(a, t.block)
      /\ t.off \in 0 .. BlockSize(a, t.block) - 1 /\ t.off \in Nat
      /\ BlockSize(a, t.block) \in Nat /\ Cell(a, t.block, t.off) = w.cell
  BY <1>1, TargetFacts
<1>3. UNCHANGED <<mem, file, fileLen, saving, unsaved>> /\ (st.write = NoWrite \/ st.write.block = t.block)
  BY DEF Write, OneBlock
<1>4. \/ Off
      \/ UNCHANGED <<arr, wanted, phase>>
      \/ /\ ~ignored /\ ~(st.pgm /\ buf.data = NoData) /\ phase' = phase
         /\ arr' = [arr EXCEPT ![a].write = new, ![a].peas = peas]
         /\ wanted' = IF ~st.pgm THEN wanted ELSE [wanted EXCEPT ![a] = more]
  BY DEF Write
<1>5. /\ Sound(st) /\ wanted[a] \in SUBSET (Cells \X Vals) /\ mem \in [Cells -> Vals]
      /\ wanted \in [Arrays -> SUBSET (Cells \X Vals)]
      /\ Buffer(a, st.write.block, st.write.data, wanted[a], mem)
  BY <1>2, ArraySound DEF FlashTypeOK, Buffers
<1>6. st.write \in [block : Blocks \union {"none"}, data : Seq(Vals)] /\ st.pgm \in BOOLEAN /\ st.peas \in BOOLEAN
  BY <1>5 DEF Sound, FlashArrays
<1> HIDE DEF t
<1>7. st.write.block = "none" <=> st.write = NoWrite
  BY <1>2, NoWriteIs
<1>8. CASE /\ ~ignored /\ ~(st.pgm /\ buf.data = NoData) /\ phase' = phase
           /\ arr' = [arr EXCEPT ![a].write = new, ![a].peas = peas]
           /\ wanted' = IF ~st.pgm THEN wanted ELSE [wanted EXCEPT ![a] = more]
  <2>1. BlockSize(a, t.block) \in Nat \ {0}
    BY <1>2
  <2>2. /\ buf \in [block : Blocks \union {"none"}, data : Seq(Vals)]
        /\ Buffer(a, buf.block, buf.data, wanted[a], mem)
        /\ st.pgm => buf.block = t.block
    <3>1. CASE ~first
      <4>1. buf = st.write
        BY <3>1
      <4>2. st.pgm => st.write # NoWrite
        BY <3>1
      <4> HIDE DEF buf, first
      <4> QED
        BY <1>3, <1>5, <1>6, <4>1, <4>2
    <3>2. CASE first
      <4> DEFINE d == IF st.pgm THEN Contents(a, t.block) ELSE NoData
      <4>1. buf = [block |-> t.block, data |-> d]
        BY <3>2
      <4>2. wanted[a] = {}
        <5>1. st.write.block = "none" /\ st.write.data = NoData
          BY <3>2, NoWriteFacts
        <5>2. \A x \in wanted[a] : \E i \in 1 .. Len(NoData) : TRUE
          BY <1>5, <5>1 DEF Buffer
        <5>3. Len(NoData) = 0 /\ 1 .. 0 = {}
          BY DEF NoData
        <5> QED
          BY <5>2, <5>3
      <4>3. d \in Seq(Vals) /\ Buffer(a, t.block, d, {}, mem)
        <5>1. CASE st.pgm
          BY <1>2, <1>5, <2>1, <5>1, BufferCopies
        <5>2. CASE ~st.pgm
          <6>1. d = NoData /\ NoData \in Seq(Vals)
            BY <5>2 DEF NoData
          <6> QED
            BY <1>2, <6>1, BufferErase
        <5> QED
          BY <5>1, <5>2
      <4> HIDE DEF d, buf
      <4>4. buf.block = t.block /\ buf.data = d /\ buf \in [block : Blocks \union {"none"}, data : Seq(Vals)]
        BY <1>2, <4>1, <4>3
      <4> QED
        BY <4>2, <4>3, <4>4
    <3> QED
      BY <3>1, <3>2
  <2>3. new.block = buf.block /\ new.data = data
    <3> HIDE DEF buf, data
    <3> QED
      BY <2>2
  <2>4. data \in Seq(Vals) /\ Buffer(a, buf.block, data, wanted'[a], mem)
    <3>1. CASE st.pgm
      <4> DEFINE d == buf.data
                 k == t.off
                 c == Cell(a, t.block, k)
                 e == [d EXCEPT ![k + 1] = w.val]
      <4>1. data = e
        BY <1>8, <3>1
      <4>2. /\ d \in Seq(Vals) /\ d # NoData /\ Buffer(a, t.block, d, wanted[a], mem)
            /\ k \in 0 .. BlockSize(a, t.block) - 1
        BY <1>2, <1>8, <2>2, <3>1
      <4>3. wanted'[a] = {x \in wanted[a] : x[1] # c} \union {<<c, w.val>>}
        BY <1>2, <1>5, <1>8, <3>1
      <4> HIDE DEF d, k, data
      <4>4. e \in Seq(Vals) /\ Buffer(a, t.block, e, {x \in wanted[a] : x[1] # c} \union {<<c, w.val>>}, mem)
        BY <1>1, <1>2, <4>2, BufferTakes
      <4> HIDE DEF e, c
      <4> QED
        BY <2>2, <3>1, <4>1, <4>3, <4>4
    <3>2. CASE ~st.pgm
      <4>1. data = buf.data /\ wanted'[a] = wanted[a]
        BY <1>8, <3>2
      <4> HIDE DEF data, buf
      <4> QED
        BY <2>2, <4>1
    <3> QED
      BY <3>1, <3>2
  <2>5. new \in [block : Blocks \union {"none"}, data : Seq(Vals)]
    <3> HIDE DEF buf, data
    <3> QED
      BY <2>2, <2>4
  <2>6. peas \in BOOLEAN
    BY <1>6
  <2>7. arr' = [arr EXCEPT ![a] = next]
    <3>1. arr \in [Arrays -> FlashArrays]
      BY DEF FlashTypeOK
    <3> HIDE DEF new, peas
    <3> QED
      BY <1>2, <1>8, <3>1
  <2>8. Sound(next) /\ next.write = new
    <3> HIDE DEF new, peas
    <3>1. next \in FlashArrays /\ next.lock = st.lock /\ next.write = new
      BY <1>5, <2>5, <2>6 DEF Sound, FlashArrays
    <3> HIDE DEF next
    <3> QED
      BY <1>5, <3>1 DEF Sound
  <2>9. wanted' \in [Arrays -> SUBSET (Cells \X Vals)] /\ \A x \in Arrays \ {a} : wanted'[x] = wanted[x]
    <3>1. more \in SUBSET (Cells \X Vals)
      BY <1>1, <1>5
    <3> HIDE DEF more
    <3> QED
      BY <1>2, <1>5, <1>8, <3>1
  <2> HIDE DEF next, new, data, buf
  <2>10. Buffer(a, next.write.block, next.write.data, wanted'[a], mem)
    BY <2>3, <2>4, <2>8
  <2> QED
    BY <1>2, <1>3, <1>8, <2>7, <2>8, <2>9, <2>10
<1> QED
  BY <1>3, <1>4, <1>8

LEMMA WriteInv ==
  ASSUME FlashInv, NEW w \in Writes, Write(w)
  PROVE  FlashInv'
<1>0. FlashTypeOK /\ Buffers /\ Backed
  BY DEF FlashInv
<1>1. UNCHANGED <<mem, file, fileLen, saving, unsaved>>
  BY <1>0, WriteFacts
<1>2. CASE Off
  BY <1>1, <1>2, OffInv
<1>3. CASE UNCHANGED <<arr, wanted, phase>>
  <2>1. FlashTypeOK' /\ Buffers' /\ Backed'
    BY <1>0, <1>1, <1>3, BuffersStay, BackedStays DEF FlashTypeOK
  <2> QED
    BY <2>1 DEF FlashInv
<1>4. ASSUME NEW a \in Arrays, NEW st,
             Sound(st), arr' = [arr EXCEPT ![a] = st], phase' = phase,
             wanted' \in [Arrays -> SUBSET (Cells \X Vals)],
             \A x \in Arrays \ {a} : wanted'[x] = wanted[x],
             Buffer(a, st.write.block, st.write.data, wanted'[a], mem)
      PROVE  FlashInv'
  <2>1. /\ arr' \in [Arrays -> FlashArrays]
        /\ \A x \in Arrays : arr'[x].lock.hlr \subseteq {"H0"}
                             /\ arr'[x].lock.lmlr \union arr'[x].lock.slmlr \subseteq {"S0", "L0", "M0"}
        /\ arr'[a] = st /\ \A x \in Arrays \ {a} : arr'[x] = arr[x]
    BY <1>0, <1>4, SoundType
  <2>2. FlashTypeOK'
    BY <1>0, <1>1, <1>4, <2>1, RestStays DEF FlashTypeOK
  <2>3. Buffers'
    <3>1. ASSUME NEW x \in Arrays \ {a}
          PROVE  Buffer(x, arr'[x].write.block, arr'[x].write.data, wanted'[x], mem')
      <4>1. Buffer(x, arr[x].write.block, arr[x].write.data, wanted[x], mem)
        BY <1>0 DEF Buffers
      <4>2. arr'[x] = arr[x] /\ wanted'[x] = wanted[x] /\ mem' = mem
        BY <1>1, <1>4, <2>1
      <4> QED
        BY <4>1, <4>2
    <3>2. Buffer(a, arr'[a].write.block, arr'[a].write.data, wanted'[a], mem')
      BY <1>1, <1>4, <2>1
    <3> QED
      BY <3>1, <3>2 DEF Buffers
  <2>4. Backed'
    BY <1>0, <1>1, <1>4, BackedStays
  <2> QED
    BY <2>2, <2>3, <2>4 DEF FlashInv
<1>5. CASE \E a \in Arrays : \E st : 
                 /\ Sound(st) /\ arr' = [arr EXCEPT ![a] = st] /\ phase' = phase
                 /\ wanted' \in [Arrays -> SUBSET (Cells \X Vals)]
                 /\ \A x \in Arrays \ {a} : wanted'[x] = wanted[x]
                 /\ Buffer(a, st.write.block, st.write.data, wanted'[a], mem)
  BY <1>4, <1>5
<1> QED
  BY <1>0, <1>2, <1>3, <1>5, WriteFacts

LEMMA DebugWriteInv ==
  ASSUME FlashInv, NEW w \in DebugWrites, DebugWrite(w)
  PROVE  FlashInv'
<1>0. FlashTypeOK /\ Buffers /\ Backed /\ saving = <<>> /\ phase = "on"
  BY DEF FlashInv, DebugWrite, Idle
<1>1. /\ mem' = [mem EXCEPT ![w.cell] = w.val] /\ unsaved' = unsaved \union {w.cell}
      /\ UNCHANGED <<arr, file, fileLen, saving, phase, wanted>>
  BY DEF DebugWrite
<1>2. w.cell \in Cells /\ w.val \in Vals /\ w.cell \in Poked
  BY FlashAssumption DEF Poked
<1>3. mem \in [Cells -> Vals] /\ unsaved \subseteq Cells
  BY <1>0 DEF FlashTypeOK
<1>4. mem' \in [Cells -> Vals] /\ \A c \in Cells : c # w.cell => mem'[c] = mem[c]
  BY <1>1, <1>2, <1>3
<1>5. FlashTypeOK'
  BY <1>0, <1>1, <1>2, <1>3, <1>4 DEF FlashTypeOK
<1>6. Buffers'
  <2>1. ASSUME NEW x \in Arrays
        PROVE  Buffer(x, arr[x].write.block, arr[x].write.data, wanted[x], mem')
    <3> DEFINE b == arr[x].write.block
               d == arr[x].write.data
    <3>1. b \in Blocks \union {"none"} /\ d \in Seq(Vals)
      BY <1>0 DEF FlashTypeOK, FlashArrays
    <3>2. Buffer(x, b, d, wanted[x], mem)
      BY <1>0 DEF Buffers
    <3> HIDE DEF b, d
    <3>3. ASSUME b # "none", NEW i \in 0 .. BlockSize(x, b) - 1
          PROVE  mem'[Cell(x, b, i)] = mem[Cell(x, b, i)] \/ Cell(x, b, i) \in Poked
      <4>1. b \in Blocks /\ Has(x, b)
        BY <3>1, <3>2, <3>3 DEF Buffer
      <4>2. Cell(x, b, i) \in Cells
        BY <3>3, <4>1, CellInRow
      <4> QED
        BY <1>2, <1>4, <4>2
    <3> QED
      BY <3>1, <3>2, <3>3, BufferStays DEF b, d
  <2> QED
    BY <1>1, <2>1 DEF Buffers
<1>7. Backed'
  <2>1. \A c \in Cells : c < fileLen => file[c] = mem'[c] \/ c \in Range(saving) \/ c \in unsaved'
    BY <1>0, <1>1, <1>4 DEF Backed
  <2>2. \A c \in Cells : c >= fileLen => c \in Range(saving)
    BY <1>0 DEF Backed
  <2> QED
    BY <1>0, <1>1, <2>1, <2>2 DEF Backed
<1> QED
  BY <1>5, <1>6, <1>7 DEF FlashInv

LEMMA FlashStep == FlashInv /\ [FlashNext]_flashVars => FlashInv'
<1> SUFFICES ASSUME FlashInv, [FlashNext]_flashVars PROVE FlashInv'
  OBVIOUS
<1>1. ASSUME NEW reset_backup \in BOOLEAN, Start(reset_backup) PROVE FlashInv'
  BY <1>1, StartInv
<1>2. CASE SaveCell
  BY <1>2, SaveCellInv
<1>3. CASE Stop
  BY <1>3, OffInv DEF Stop
<1>4. CASE Reset
  BY <1>4, FlashResetInv
<1>5. ASSUME NEW w \in LockWrites, WriteLock(w) PROVE FlashInv'
  BY <1>5, WriteLockInv
<1>6. ASSUME NEW a \in Arrays, NEW blocks \in Selections, Select(a, blocks) PROVE FlashInv'
  BY <1>6, SelectInv
<1>7. ASSUME NEW a \in Arrays, NEW op \in Operations, WriteMcr(a, op) PROVE FlashInv'
  BY <1>7, FlashMcrInv
<1>8. ASSUME NEW w \in Writes, Write(w) PROVE FlashInv'
  BY <1>8, WriteInv
<1>9. ASSUME NEW w \in DebugWrites, DebugWrite(w) PROVE FlashInv'
  BY <1>9, DebugWriteInv
<1>10. CASE UNCHANGED flashVars
  <2>1. UNCHANGED <<arr, mem, file, fileLen, saving, phase, wanted, unsaved>>
    BY <1>10 DEF flashVars
  <2>2. FlashTypeOK' /\ Buffers' /\ Backed'
    BY <2>1, BuffersStay, BackedStays DEF FlashInv, FlashTypeOK
  <2> QED
    BY <2>2 DEF FlashInv
<1> QED
  BY <1>1, <1>2, <1>3, <1>4, <1>5, <1>6, <1>7, <1>8, <1>9, <1>10 DEF FlashNext

-----------------------------------------------------------------------------
(* The theorems about Flash.                                               *)

\* The inductive invariant holds in every state, so each array's buffer holds what
\* the firmware wrote into it, and what the backup lacks is on its way there.
THEOREM FlashInvariance == FlashSpec => []FlashInv
<1> QED
  BY FlashInitInv, FlashStep, PTL DEF FlashSpec

\* Which handlers change flash while the emulator runs.
LEMMA MemChanges ==
  ASSUME FlashInv, FlashNext, mem' # mem, phase = "on"
  PROVE  \/ \E a \in Arrays, op \in Operations : HighVoltage(a, op) /\ Idle
         \/ \E w \in DebugWrites : DebugWrite(w)
<1>1. ASSUME NEW reset_backup \in BOOLEAN, Start(reset_backup) PROVE FALSE
  BY <1>1 DEF Start
<1>2. ASSUME NEW w \in Writes, Write(w) PROVE FALSE
  BY <1>2, WriteFacts DEF FlashInv
<1>3. ASSUME NEW a \in Arrays, NEW op \in Operations, WriteMcr(a, op) PROVE HighVoltage(a, op) /\ Idle
  BY <1>3 DEF WriteMcr
<1>4. ASSUME NEW w \in LockWrites, WriteLock(w) PROVE FALSE
  BY <1>4 DEF WriteLock
<1>5. ASSUME NEW a \in Arrays, NEW blocks \in Selections, Select(a, blocks) PROVE FALSE
  BY <1>5 DEF Select
<1>6. ~SaveCell /\ ~Stop /\ ~Reset
  BY DEF SaveCell, Stop, Reset
<1> QED
  BY <1>1, <1>2, <1>3, <1>4, <1>5, <1>6 DEF FlashNext

LEMMA LockedStep ==
  ASSUME FlashInv, [FlashNext]_flashVars, mem' # mem, phase = "on",
         NEW a \in Arrays, NEW b \in Blocks, Has(a, b), ~Writable(a, b), NEW c \in BlockCells(a, b)
  PROVE  mem'[c] = mem[c] \/ c \in unsaved'
<1>0. FlashTypeOK /\ Buffers
  BY DEF FlashInv
<1>1. FlashNext
  BY DEF flashVars
<1>2. PICK i \in 0 .. BlockSize(a, b) - 1 : c = Cell(a, b, i)
  BY DEF BlockCells
<1>3. c \in Cells
  BY <1>2, CellInRow
<1>4. ASSUME NEW x \in Arrays, NEW op \in Operations, HighVoltage(x, op), Idle
      PROVE  mem'[c] = mem[c]
  <2>1. saving = <<>>
    BY <1>4 DEF Idle
  <2>2. PICK changed \in SUBSET Blocks :
          /\ \A y \in changed : Has(x, y) /\ Writable(x, y)
          /\ \A e \in Cells : mem'[e] = mem[e] \/ \E y \in changed : e \in BlockCells(x, y)
    BY <1>0, <1>4, <2>1, HighVoltageFacts
  <2>3. ASSUME NEW y \in changed, c \in BlockCells(x, y) PROVE FALSE
    <3>1. PICK j \in 0 .. BlockSize(x, y) - 1 : c = Cell(x, y, j)
      BY <2>3 DEF BlockCells
    <3>2. y \in Blocks /\ Has(x, y) /\ Writable(x, y)
      BY <2>2
    <3>3. Cell(a, b, i) = Cell(x, y, j)
      BY <1>2, <3>1
    <3>4. a = x /\ b = y
      BY <3>2, <3>3, BlocksDisjoint
    <3> QED
      BY <3>2, <3>4
  <2> QED
    BY <1>3, <2>2, <2>3
<1>5. ASSUME NEW w \in DebugWrites, DebugWrite(w)
      PROVE  mem'[c] = mem[c] \/ c \in unsaved'
  <2>1. mem' = [mem EXCEPT ![w.cell] = w.val] /\ unsaved' = unsaved \union {w.cell}
    BY <1>5 DEF DebugWrite
  <2>2. mem \in [Cells -> Vals]
    BY <1>0 DEF FlashTypeOK
  <2> QED
    BY <1>3, <2>1, <2>2
<1> QED
  BY <1>1, <1>4, <1>5, MemChanges

\* Whatever the layout of flash and whatever the firmware does, a block that is locked
\* when an operation starts keeps its contents (LockedNeverChange).
THEOREM LockedNeverChanges == FlashSpec => LockedNeverChange
<1>1. FlashInv => FlashTypeOK
  BY DEF FlashInv
<1>2. FlashInv /\ [FlashNext]_flashVars =>
        [mem' # mem /\ phase = "on" =>
           \A a \in Arrays, b \in Blocks :
             Has(a, b) /\ ~Writable(a, b) =>
               \A c \in BlockCells(a, b) : mem'[c] = mem[c] \/ c \in unsaved']_flashVars
  BY LockedStep
<1> QED
  BY <1>1, <1>2, FlashInvariance, PTL DEF FlashSpec, LockedNeverChange

LEMMA LandsStep ==
  ASSUME FlashInv, NEW a \in Arrays, NEW op \in Operations, op.ehv, op.pgm,
         arr[a].write # NoWrite, phase' = "on", Writable(a, arr[a].write.block), WriteMcr(a, op),
         NEW c \in Cells
  PROVE  IF \E v \in Vals : <<c, v>> \in wanted[a] THEN <<c, mem'[c]>> \in wanted[a]
         ELSE mem'[c] = mem[c] \/ \E w \in DebugWrites : w.cell = c
<1> DEFINE w == arr[a].write
           d == w.data
           at(i) == Cell(a, w.block, i - 1)
<1>0. FlashTypeOK /\ Buffers /\ saving = <<>>
  BY DEF FlashInv, WriteMcr, Idle
<1>1. HighVoltage(a, op)
  BY DEF WriteMcr, Off
<1>2. mem' = Program(a, w)
  BY <1>1 DEF HighVoltage
<1>3. w.block # "none"
  BY <1>0, NoWriteIs
<1>4. /\ \A i \in 1 .. Len(d) : at(i) \in Cells /\ Program(a, w)[at(i)] = d[i]
      /\ \A e \in Cells : (\A i \in 1 .. Len(d) : e # at(i)) => Program(a, w)[e] = mem[e]
  BY <1>0, <1>3, ProgramFacts
<1>5. /\ \A x \in wanted[a] : \E i \in 1 .. Len(d) : x = <<at(i), d[i]>>
      /\ \A i \in 1 .. Len(d) : <<at(i), d[i]>> \in wanted[a] \/ d[i] = mem[at(i)] \/ at(i) \in Poked
  BY <1>0 DEF Buffers, Buffer
<1>6. wanted[a] \in SUBSET (Cells \X Vals)
  BY <1>0 DEF FlashTypeOK
<1> HIDE DEF w, d, at
<1>7. CASE \E v \in Vals : <<c, v>> \in wanted[a]
  <2>1. PICK v \in Vals : <<c, v>> \in wanted[a]
    BY <1>7
  <2>2. PICK i \in 1 .. Len(d) : <<c, v>> = <<at(i), d[i]>>
    BY <1>5, <2>1
  <2>3. c = at(i) /\ v = d[i]
    BY <2>2
  <2>4. mem'[c] = v
    BY <1>2, <1>4, <2>3
  <2> QED
    BY <1>7, <2>1, <2>4
<1>8. CASE ~\E v \in Vals : <<c, v>> \in wanted[a]
  <2>1. CASE \E i \in 1 .. Len(d) : c = at(i)
    <3>1. PICK i \in 1 .. Len(d) : c = at(i)
      BY <2>1
    <3>2. <<c, d[i]>> \notin wanted[a]
      <4> SUFFICES ASSUME <<c, d[i]>> \in wanted[a] PROVE FALSE
        OBVIOUS
      <4>1. <<c, d[i]>> \in Cells \X Vals
        BY <1>6
      <4>2. d[i] \in Vals
        BY <4>1
      <4> QED
        BY <1>8, <4>2
    <3>3. d[i] = mem[c] \/ c \in Poked
      BY <1>5, <3>1, <3>2
    <3> QED
      BY <1>2, <1>4, <1>8, <3>1, <3>3 DEF Poked
  <2>2. CASE ~\E i \in 1 .. Len(d) : c = at(i)
    BY <1>2, <1>4, <1>8, <2>2
  <2> QED
    BY <2>1, <2>2
<1> QED
  BY <1>7, <1>8

\* Whatever the layout, also where the arrays share a block in turns, programming puts
\* each value at the address it was written to and changes no other (ProgramLands).
THEOREM ProgrammingLands == FlashSpec => ProgramLands
<1>1. FlashInv /\ [FlashNext]_flashVars =>
        [\A a \in Arrays, op \in Operations :
           op.ehv /\ op.pgm /\ arr[a].write # NoWrite /\ arr'[a].write = NoWrite
             /\ phase' = "on" /\ Writable(a, arr[a].write.block) /\ WriteMcr(a, op) =>
           \A c \in Cells :
             IF \E v \in Vals : <<c, v>> \in wanted[a] THEN <<c, mem'[c]>> \in wanted[a]
             ELSE mem'[c] = mem[c] \/ \E w \in DebugWrites : w.cell = c]_flashVars
  BY LandsStep
<1> QED
  BY <1>1, FlashInvariance, PTL DEF FlashSpec, ProgramLands

LEMMA KeptStep ==
  ASSUME FlashInv, phase = "off", fileLen = Size, Start(FALSE), NEW c \in Cells
  PROVE  mem'[c] = mem[c] \/ c \in Range(saving) \/ c \in unsaved
<1>1. mem' = file
  BY DEF Start
<1>2. c < fileLen
  <2>1. Size \in Nat
    BY FlashAssumption DEF Size
  <2> QED
    BY <2>1 DEF Cells
<1> QED
  BY <1>1, <1>2 DEF FlashInv, Backed

\* Wherever the emulator was stopped, a complete backup restores what flash held, but
\* for the cells that were just being saved and those the debugger wrote (FlashIsKept).
THEOREM BackupRestores == FlashSpec => FlashIsKept
<1>1. FlashInv /\ [FlashNext]_flashVars =>
        [phase = "off" /\ fileLen = Size /\ Start(FALSE) =>
           \A c \in Cells : mem'[c] = mem[c] \/ c \in Range(saving) \/ c \in unsaved]_flashVars
  BY KeptStep
<1> QED
  BY <1>1, FlashInvariance, PTL DEF FlashSpec, FlashIsKept

=============================================================================

-------------------------- MODULE EmuTimers_proofs --------------------------
(***************************************************************************)
(* Proofs about EmuTimers, for any number of timers and any durations: the *)
(* list is always sorted, and no timer is overdue by as many ticks as      *)
(* there are timers.  The second needs a count: of N timers, at most N - k *)
(* are overdue by k ticks or more, since every tick serves the one that is *)
(* overdue by most.  And about Clocks, which gives the ticks their length: *)
(* the copies the clock tree keeps are those of its registers.             *)
(***************************************************************************)
EXTENDS EmuTimers, FiniteSetTheorems, TLAPS

Late(k) == {t \in Timer : LateBy(t, k)}
Counted == \A k \in 0 .. N : Cardinality(Late(k)) <= N - k

IInv == TypeOK /\ TimersSorted /\ Counted

-----------------------------------------------------------------------------
LEMMA NIsNat ==
  /\ N \in Nat /\ IsFiniteSet(Timer)
  /\ \A S \in SUBSET Timer : IsFiniteSet(S) /\ Cardinality(S) \in Nat /\ Cardinality(S) <= N
<1>1. IsFiniteSet(Timer)
  BY TimerAssumption
<1>2. \A S \in SUBSET Timer :
         IsFiniteSet(S) /\ Cardinality(S) <= Cardinality(Timer)
  BY <1>1, FS_Subset
<1>3. QED
  BY <1>1, <1>2, FS_CardinalityType DEF N

\* The first timer of a sorted list expires no later than any other, and if it
\* does not run none does.
LEMMA FirstIsEarliest ==
  ASSUME TypeOK, TimersSorted, NEW t \in Timer, target[t] # None
  PROVE  /\ N > 0 /\ order[1] \in Timer
         /\ target[order[1]] # None /\ target[order[1]] <= target[t]
<1>1. PICK i \in 1 .. N : order[i] = t
  BY DEF TimersSorted, Sortings
<1>2. N > 0 /\ 1 \in 1 .. N /\ order[1] \in Timer
  BY <1>1, NIsNat DEF TypeOK
<1>3. CASE i = 1
  BY <1>1, <1>2, <1>3, TimerAssumption DEF TypeOK
<1>4. CASE i # 1
  <2>1. 1 < i
    BY <1>2, <1>4, NIsNat
  <2>2. ~Before(target, order[i], order[1])
    BY <1>2, <2>1 DEF TimersSorted, Sortings
  <2>3. target[order[1]] # None /\ ~(target[t] < target[order[1]])
    BY <1>1, <2>2 DEF Before
  <2>4. target[t] \in Int /\ target[order[1]] \in Int
    BY <1>2, <2>3 DEF TypeOK
  <2>5. QED
    BY <1>2, <2>3, <2>4
<1>5. QED
  BY <1>3, <1>4

\* If no timer becomes more overdue, the count stays.
LEMMA CountKept ==
  ASSUME Counted, \A k \in 1 .. N : \A t \in Timer : LateBy(t, k)' => LateBy(t, k)
  PROVE  Counted'
<1> SUFFICES ASSUME NEW k \in 0 .. N
             PROVE  Cardinality(Late(k)') <= N - k
  BY DEF Counted
<1>1. Late(k)' \in SUBSET Timer
  BY DEF Late
<1>2. CASE k = 0
  BY <1>1, <1>2, NIsNat
<1>3. CASE k # 0
  <2>1. k \in 1 .. N
    BY <1>3, NIsNat
  <2>2. Late(k)' \subseteq Late(k) /\ Late(k) \in SUBSET Timer
    BY <2>1 DEF Late
  <2>3. Cardinality(Late(k)') <= Cardinality(Late(k))
    BY <2>2, NIsNat, FS_Subset
  <2>4. Cardinality(Late(k)) \in Nat /\ Cardinality(Late(k)') \in Nat
    BY <1>1, <2>2, NIsNat
  <2>5. Cardinality(Late(k)) <= N - k
    BY DEF Counted
  <2>6. QED
    BY <2>3, <2>4, <2>5, NIsNat
<1>4. QED
  BY <1>2, <1>3

-----------------------------------------------------------------------------
\* Some sorted list of the timers exists in the initial state, and there
\* nothing is overdue.
LEMMA InitHolds == Init => IInv
<1> SUFFICES ASSUME Init PROVE IInv
  OBVIOUS
<1>1. TypeOK
  BY DEF Init, TypeOK, Sortings, Nobody
<1>2. TimersSorted
  BY DEF Init, TimersSorted
<1>3. ASSUME NEW k \in 0 .. N
      PROVE  Late(k) = {}
  BY DEF Init, Nobody, Late, LateBy
<1>4. Counted
  BY <1>3, NIsNat, FS_EmptySet DEF Counted
<1>5. QED
  BY <1>1, <1>2, <1>4 DEF IInv

\* The sort is part of every action that changes a target.
LEMMA SortedKept ==
  ASSUME order' \in Sortings(target')
  PROVE  TimersSorted' /\ order' \in [1 .. N -> Timer]
BY DEF TimersSorted, Sortings

-----------------------------------------------------------------------------
(* What the owners of the timers do.  None of it makes a timer more overdue *)
(* at the tick it happens at.                                               *)

LEMMA StartKeeps ==
  ASSUME IInv, NEW t \in Timer, NEW d \in Duration, Start(t, d)
  PROVE  IInv'
<1>1. d \in Nat /\ ticks \in Nat /\ ticks + d \in Int
  BY TimerAssumption DEF IInv, TypeOK
<1>2. TypeOK' /\ TimersSorted'
  BY <1>1, SortedKept DEF Start, IInv, TypeOK
<1>3. ASSUME NEW k \in 1 .. N, NEW u \in Timer, LateBy(u, k)'
      PROVE  LateBy(u, k)
  <2>1. CASE u = t
    <3>1. target'[u] = ticks + d /\ ticks' = ticks /\ ticks + d # None
      BY <1>1, <2>1, TimerAssumption DEF Start, IInv, TypeOK
    <3>2. ticks - (ticks + d) >= k
      BY <1>3, <3>1 DEF LateBy
    <3>3. QED
      BY <1>1, <3>2, NIsNat
  <2>2. CASE u # t
    BY <1>3, <2>2 DEF Start, IInv, TypeOK, LateBy
  <2>3. QED
    BY <2>1, <2>2
<1>4. Counted'
  BY <1>3, CountKept DEF IInv
<1>5. QED
  BY <1>2, <1>4 DEF IInv

LEMMA StopKeeps ==
  ASSUME IInv, NEW t \in Timer, Stop(t)
  PROVE  IInv'
<1>1. TypeOK' /\ TimersSorted'
  BY SortedKept DEF Stop, IInv, TypeOK
<1>2. ASSUME NEW k \in 1 .. N, NEW u \in Timer, LateBy(u, k)'
      PROVE  LateBy(u, k)
  <2>1. CASE u = t
    BY <1>2, <2>1 DEF Stop, IInv, TypeOK, LateBy
  <2>2. CASE u # t
    BY <1>2, <2>2 DEF Stop, IInv, TypeOK, LateBy
  <2>3. QED
    BY <2>1, <2>2
<1>3. Counted'
  BY <1>2, CountKept DEF IInv
<1>4. QED
  BY <1>1, <1>3 DEF IInv

LEMMA PauseKeeps ==
  ASSUME IInv, NEW t \in Timer, Pause(t)
  PROVE  IInv'
<1>1. ticks \in Nat /\ target[t] \in Int /\ target[t] - ticks \in Int
  BY DEF Pause, Running, IInv, TypeOK
<1>2. TypeOK' /\ TimersSorted'
  BY <1>1, SortedKept DEF Pause, IInv, TypeOK
<1>3. ASSUME NEW k \in 1 .. N, NEW u \in Timer, LateBy(u, k)'
      PROVE  LateBy(u, k)
  <2>1. CASE u = t
    <3>1. target'[u] = None /\ remaining'[u] = target[t] - ticks
      BY <2>1 DEF Pause, IInv, TypeOK
    <3>2. 0 - (target[t] - ticks) >= k
      BY <1>3, <3>1 DEF LateBy
    <3>3. ticks - target[t] >= k
      BY <1>1, <3>2, NIsNat
    <3>4. QED
      BY <2>1, <3>3 DEF LateBy, Pause, Running
  <2>2. CASE u # t
    BY <1>3, <2>2 DEF Pause, IInv, TypeOK, LateBy
  <2>3. QED
    BY <2>1, <2>2
<1>4. Counted'
  BY <1>3, CountKept DEF IInv
<1>5. QED
  BY <1>2, <1>4 DEF IInv

LEMMA ResumeKeeps ==
  ASSUME IInv, NEW t \in Timer, Resume(t)
  PROVE  IInv'
<1>1. ticks \in Nat /\ remaining[t] \in Int /\ ticks + remaining[t] \in Int /\ target[t] = None
  BY DEF Resume, IInv, TypeOK
<1>2. TypeOK' /\ TimersSorted'
  BY <1>1, SortedKept DEF Resume, IInv, TypeOK
<1>3. ASSUME NEW k \in 1 .. N, NEW u \in Timer, LateBy(u, k)'
      PROVE  LateBy(u, k)
  <2>1. CASE u = t
    <3>1. target'[u] = ticks + remaining[t] /\ remaining'[u] = None /\ ticks' = ticks
      BY <2>1 DEF Resume, IInv, TypeOK
    <3>2. ticks - (ticks + remaining[t]) >= k
      BY <1>3, <3>1 DEF LateBy
    <3>3. 0 - remaining[t] >= k
      BY <1>1, <3>2, NIsNat
    <3>4. QED
      BY <1>1, <2>1, <3>3 DEF LateBy, Resume
  <2>2. CASE u # t
    BY <1>3, <2>2 DEF Resume, IInv, TypeOK, LateBy
  <2>3. QED
    BY <2>1, <2>2
<1>4. Counted'
  BY <1>3, CountKept DEF IInv
<1>5. QED
  BY <1>2, <1>4 DEF IInv

\* The clock goes back to 0 and each timer stops or keeps what it had.
LEMMA ResetKeeps ==
  ASSUME IInv, SystimeReset
  PROVE  IInv'
<1>1. PICK met \in SUBSET Timer :
        /\ target' = [t \in Timer |-> IF t \in met THEN None ELSE target[t]]
        /\ remaining' = [t \in Timer |-> IF t \in met THEN None ELSE remaining[t]]
  <2>1. CASE {t \in Timer : Running(t)} = {} /\ UNCHANGED <<target, remaining>>
    <3>1. /\ target' = [t \in Timer |-> IF t \in {} THEN None ELSE target[t]]
          /\ remaining' = [t \in Timer |-> IF t \in {} THEN None ELSE remaining[t]]
      BY <2>1 DEF IInv, TypeOK
    <3>2. {} \in SUBSET Timer
      OBVIOUS
    <3>3. QED
      BY <3>1, <3>2, Zenon
  <2>2. CASE \E met \in SUBSET Timer :
               /\ target' = [t \in Timer |-> IF t \in met THEN None ELSE target[t]]
               /\ remaining' = [t \in Timer |-> IF t \in met THEN None ELSE remaining[t]]
    BY <2>2
  <2>3. ASSUME NEW p \in 1 .. N,
               NEW q \in Queue({t \in Timer : Running(t)} \ {order[p]})
        PROVE  {order[p]} \union {q[i] : i \in {j \in DOMAIN q : j > p /\ (j - p) % 2 = 1}}
                 \in SUBSET Timer
    <3> DEFINE R == {t \in Timer : Running(t)} \ {order[p]}
    <3>1. q \in [1 .. Cardinality(R) -> R]
      BY DEF Queue
    <3>2. \A i \in DOMAIN q : q[i] \in Timer
      BY <3>1
    <3>3. order[p] \in Timer
      BY DEF IInv, TypeOK
    <3>4. QED
      BY <3>2, <3>3
  <2>4. QED
    BY <2>1, <2>2, <2>3 DEF SystimeReset
<1>2. ticks' = 0 /\ ticks \in Nat
  BY DEF SystimeReset, IInv, TypeOK
<1>3. TypeOK' /\ TimersSorted'
  <2>1. order' \in Sortings(target')
    BY DEF SystimeReset
  <2>2. QED
    BY <1>1, <1>2, <2>1, SortedKept DEF IInv, TypeOK
<1>4. ASSUME NEW k \in 1 .. N, NEW u \in Timer, LateBy(u, k)'
      PROVE  LateBy(u, k)
  <2>1. target'[u] \in {None, target[u]} /\ remaining'[u] \in {None, remaining[u]}
    BY <1>1
  <2>2. CASE target'[u] # None
    <3>1. target'[u] = target[u] /\ target[u] \in Int /\ 0 - target[u] >= k
      BY <1>2, <1>4, <2>1, <2>2 DEF LateBy, IInv, TypeOK
    <3>2. ticks - target[u] >= k
      BY <1>2, <3>1, NIsNat
    <3>3. QED
      BY <2>2, <3>1, <3>2 DEF LateBy
  <2>3. CASE target'[u] = None
    <3>1. remaining'[u] # None /\ 0 - remaining'[u] >= k
      BY <1>4, <2>3 DEF LateBy
    <3>2. remaining[u] = remaining'[u] /\ target[u] = None
      BY <2>1, <3>1 DEF IInv, TypeOK
    <3>3. QED
      BY <3>1, <3>2 DEF LateBy
  <2>4. QED
    BY <2>2, <2>3
<1>5. Counted'
  BY <1>4, CountKept DEF IInv
<1>6. QED
  BY <1>3, <1>5 DEF IInv

-----------------------------------------------------------------------------
(* A tick: every timer that runs and is not served becomes overdue by one   *)
(* more, and the one that is served is the one overdue by most.             *)

\* Nothing is served: then the first timer is not due, so no timer is.
LEMMA IdleTickKeeps ==
  ASSUME IInv, ticks' = ticks + 1,
         ~(N > 0 /\ Expired(order[1], ticks')), UNCHANGED <<order, target, remaining>>
  PROVE  IInv'
<1>1. TypeOK' /\ TimersSorted'
  BY DEF IInv, TypeOK, TimersSorted
<1>2. ASSUME NEW k \in 1 .. N, NEW u \in Timer, LateBy(u, k)'
      PROVE  LateBy(u, k)
  <2>1. CASE target[u] = None
    BY <1>2, <2>1 DEF LateBy
  <2>2. CASE target[u] # None
    <3>1. /\ N > 0 /\ target[order[1]] # None /\ order[1] \in Timer
          /\ target[order[1]] <= target[u]
      BY <2>2, FirstIsEarliest DEF IInv
    <3>2. ~(ticks + 1 >= target[order[1]])
      BY <3>1 DEF Expired, Running
    <3>3. ticks + 1 - target[u] >= k
      BY <1>2, <2>2 DEF LateBy, IInv, TypeOK
    <3>4. ticks \in Nat /\ target[u] \in Int /\ target[order[1]] \in Int
      BY <2>2, <3>1 DEF IInv, TypeOK
    <3>5. FALSE
      BY <3>1, <3>2, <3>3, <3>4, NIsNat
    <3>6. QED
      BY <3>5
  <2>3. QED
    BY <2>1, <2>2
<1>3. Counted'
  BY <1>2, CountKept DEF IInv
<1>4. QED
  BY <1>1, <1>3 DEF IInv

\* The served timer h is not overdue after the tick, and whatever is overdue by
\* k was overdue by k - 1: so the count for k is that for k - 1 without h, if h
\* was among them.  If it was not, nothing that ran was.
LEMMA ServedTickCount ==
  ASSUME IInv, ticks' = ticks + 1, N > 0,
         Expired(order[1], ticks'), Callback(order[1], ticks')
  PROVE  Counted'
<1>0. PICK h \in Timer : h = order[1]
  BY NIsNat DEF IInv, TypeOK
<1>1. target[h] \in Int /\ ticks \in Nat
  BY <1>0 DEF Expired, Running, IInv, TypeOK
<1>2. remaining[h] = None /\ remaining' = remaining
  BY <1>0, <1>1 DEF Expired, Running, Callback, IInv, TypeOK
<1>3. PICK next \in {None} \union {ticks' + d : d \in Duration} :
        target' = [target EXCEPT ![h] = next]
  BY <1>0 DEF Callback
<1>4. \A u \in Timer : u # h => target'[u] = target[u]
  BY <1>3
<1>5. \A k \in 1 .. N : ~LateBy(h, k)'
  <2>1. SUFFICES ASSUME NEW k \in 1 .. N, LateBy(h, k)' PROVE FALSE
    OBVIOUS
  <2>2. target'[h] = next
    BY <1>1, <1>3 DEF IInv, TypeOK
  <2>3. CASE next = None
    BY <1>2, <2>1, <2>2, <2>3 DEF LateBy
  <2>4. CASE next # None
    <3>1. PICK d \in Duration : next = ticks' + d
      BY <1>3, <2>4
    <3>2. d \in Nat /\ ticks' \in Nat /\ next \in Int
      <4>1. d \in Nat
        BY TimerAssumption
      <4>2. ticks' \in Nat
        BY <1>1 DEF IInv, TypeOK
      <4>3. QED
        BY <3>1, <4>1, <4>2
    <3>3. ticks' - next >= k
      BY <2>1, <2>2, <2>4, <3>2 DEF LateBy
    <3>4. QED
      BY <3>1, <3>2, <3>3, NIsNat
  <2>5. QED
    BY <2>3, <2>4
<1> SUFFICES ASSUME NEW k \in 0 .. N
             PROVE  Cardinality(Late(k)') <= N - k
  BY DEF Counted
<1> DEFINE A == Late(k)'
           B == Late(k - 1)
<1>6. A \in SUBSET Timer /\ B \in SUBSET Timer /\ Late(k) \in SUBSET Timer
  BY DEF Late
<1>7. CASE k = 0
  BY <1>6, <1>7, NIsNat
<1>8. CASE k # 0
  <2>1. k \in 1 .. N /\ k - 1 \in 0 .. N
    BY <1>8, NIsNat
  <2>2. h \notin A
    BY <1>5, <2>1 DEF Late
  <2>3. CASE h \in B
    <3>1. A \subseteq B \ {h}
      <4>1. SUFFICES ASSUME NEW u \in Timer, LateBy(u, k)', u # h PROVE LateBy(u, k - 1)
        BY <2>2 DEF Late
      <4>2. target'[u] = target[u] /\ remaining'[u] = remaining[u]
        BY <1>2, <1>4, <4>1
      <4>3. CASE target[u] # None
        <5>1. ticks + 1 - target[u] >= k /\ target[u] \in Int
          BY <4>1, <4>2, <4>3 DEF LateBy, IInv, TypeOK
        <5>2. ticks - target[u] >= k - 1
          BY <1>1, <2>1, <5>1
        <5>3. QED
          BY <4>3, <5>2 DEF LateBy
      <4>4. CASE target[u] = None
        <5>1. remaining[u] # None /\ 0 - remaining[u] >= k /\ remaining[u] \in Int
          BY <4>1, <4>2, <4>4 DEF LateBy, IInv, TypeOK
        <5>2. 0 - remaining[u] >= k - 1
          BY <2>1, <5>1
        <5>3. QED
          BY <4>4, <5>1, <5>2 DEF LateBy
      <4>5. QED
        BY <4>3, <4>4
    <3>2. IsFiniteSet(B) /\ IsFiniteSet(B \ {h})
      BY <1>6, NIsNat
    <3>3. Cardinality(B \ {h}) = Cardinality(B) - 1
      BY <2>3, <3>2, FS_RemoveElement
    <3>4. Cardinality(A) <= Cardinality(B \ {h})
      BY <3>1, <3>2, FS_Subset
    <3>5. Cardinality(B) <= N - (k - 1)
      BY <2>1 DEF Counted, IInv
    <3>6. Cardinality(A) \in Nat /\ Cardinality(B) \in Nat
      BY <1>6, NIsNat
    <3> HIDE DEF A, B
    <3>7. Cardinality(A) <= N - k
      BY <2>1, <3>3, <3>4, <3>5, <3>6, NIsNat
    <3>8. QED
      BY <3>7 DEF A
  <2>4. CASE h \notin B
    <3>1. ~(ticks - target[h] >= k - 1)
      BY <1>1, <2>4, TimerAssumption DEF Late, LateBy
    <3>2. A \subseteq Late(k)
      <4>1. SUFFICES ASSUME NEW u \in Timer, LateBy(u, k)', u # h PROVE LateBy(u, k)
        BY <2>2 DEF Late
      <4>2. target'[u] = target[u] /\ remaining'[u] = remaining[u]
        BY <1>2, <1>4, <4>1
      <4>3. CASE target[u] # None
        <5>1. target[h] <= target[u] /\ target[u] \in Int
          BY <1>0, <4>3, FirstIsEarliest DEF IInv, TypeOK
        <5>2. ticks + 1 - target[u] >= k
          BY <1>1, <4>1, <4>2, <4>3 DEF LateBy, IInv, TypeOK
        <5>3. FALSE
          BY <1>1, <2>1, <3>1, <5>1, <5>2
        <5>4. QED
          BY <5>3
      <4>4. CASE target[u] = None
        BY <4>1, <4>2, <4>4 DEF LateBy
      <4>5. QED
        BY <4>3, <4>4
    <3>3. Cardinality(A) <= Cardinality(Late(k))
      BY <1>6, <3>2, NIsNat, FS_Subset
    <3>4. Cardinality(Late(k)) <= N - k
      BY DEF Counted, IInv
    <3>5. Cardinality(A) \in Nat /\ Cardinality(Late(k)) \in Nat
      BY <1>6, NIsNat
    <3> HIDE DEF A, B
    <3>6. Cardinality(A) <= N - k
      BY <3>3, <3>4, <3>5, NIsNat
    <3>7. QED
      BY <3>6 DEF A
  <2>5. QED
    BY <2>3, <2>4
<1>9. QED
  BY <1>7, <1>8

LEMMA TickKeeps ==
  ASSUME IInv, Tick
  PROVE  IInv'
<1>1. ticks' = ticks + 1
  BY DEF Tick
<1>2. CASE N > 0 /\ Expired(order[1], ticks') /\ Callback(order[1], ticks')
  <2>1. Counted'
    BY <1>1, <1>2, ServedTickCount
  <2>2. \A d \in Duration : ticks' + d \in Int
    BY <1>1, TimerAssumption DEF IInv, TypeOK
  <2>3. order[1] \in Timer /\ remaining[order[1]] = None
    BY <1>2, NIsNat DEF Expired, Running, IInv, TypeOK
  <2>4. TypeOK' /\ TimersSorted'
    BY <1>1, <1>2, <2>2, <2>3, SortedKept DEF Callback, IInv, TypeOK
  <2>5. QED
    BY <2>1, <2>4 DEF IInv
<1>3. CASE ~(N > 0 /\ Expired(order[1], ticks')) /\ UNCHANGED <<order, target, remaining>>
  BY <1>1, <1>3, IdleTickKeeps
<1>4. QED
  BY <1>2, <1>3 DEF Tick

-----------------------------------------------------------------------------
\* The invariant holds in every state, for every set of timers and durations.
THEOREM Invariance == Spec => []IInv
<1>1. ASSUME IInv, [Next]_vars
      PROVE  IInv'
  <2>1. CASE UNCHANGED vars
    BY <1>1, <2>1 DEF vars, IInv, TypeOK, TimersSorted, Counted, Late, LateBy
  <2>2. CASE \E t \in Timer, d \in Duration : Start(t, d)
    BY <1>1, <2>2, StartKeeps
  <2>3. CASE \E t \in Timer : Stop(t)
    BY <1>1, <2>3, StopKeeps
  <2>4. CASE \E t \in Timer : Pause(t)
    BY <1>1, <2>4, PauseKeeps
  <2>5. CASE \E t \in Timer : Resume(t)
    BY <1>1, <2>5, ResumeKeeps
  <2>6. CASE Tick
    BY <1>1, <2>6, TickKeeps
  <2>7. CASE SystimeReset
    BY <1>1, <2>7, ResetKeeps
  <2>8. QED
    BY <1>1, <2>1, <2>2, <2>3, <2>4, <2>5, <2>6, <2>7 DEF Next
<1>2. QED
  BY <1>1, InitHolds, PTL DEF Spec

\* Types, and no timer is running and paused at once (EmuTimer.start, stop,
\* pause, resume).
THEOREM TypeCorrect == Spec => []TypeOK
<1>1. IInv => TypeOK
  BY DEF IInv
<1>2. QED
  BY <1>1, Invariance, PTL

\* The head of _timers, the only timer tick() looks at, is the one to expire.
THEOREM AlwaysSorted == Spec => []TimersSorted
<1>1. IInv => TimersSorted
  BY DEF IInv
<1>2. QED
  BY <1>1, Invariance, PTL

\* One expiry per tick is enough: no running timer is overdue by as many ticks
\* as there are timers.
THEOREM NoneStarved == Spec => []NeverStarved
<1>1. IInv => NeverStarved
  <2>1. SUFFICES ASSUME IInv, NEW t \in Timer, LateBy(t, N) PROVE FALSE
    BY DEF NeverStarved
  <2>2. t \in Late(N) /\ Late(N) \in SUBSET Timer
    BY <2>1 DEF Late
  <2>3. Cardinality(Late(N)) <= N - N /\ IsFiniteSet(Late(N))
    BY <2>1, <2>2, NIsNat DEF IInv, Counted
  <2>4. Cardinality(Late(N)) = 0
    BY <2>2, <2>3, NIsNat
  <2>5. Late(N) = {}
    BY <2>3, <2>4, FS_EmptySet
  <2>6. QED
    BY <2>2, <2>5
<1>2. QED
  BY <1>1, Invariance, PTL

-----------------------------------------------------------------------------
(* The clock tree, for any strapping of the pins and any values the firmware    *)
(* writes.                                                                      *)
CONSTANTS Pllcfg, Emfds, Epredivs, Erfds
VARIABLES clkcfg, eprediv, emfd, clkcfgDis, erfd, savedClkcfg, synsr, pll, sysdiv, freq, stale

C == INSTANCE Clocks

ClockInv == C!PllFollows /\ C!FreqFollows

LEMMA ClockInit == C!Init => ClockInv
  BY DEF C!Init, ClockInv, C!PllFollows, C!FreqFollows, C!PllAtReset

LEMMA ClockNext == ClockInv /\ [C!Next]_(C!vars) => ClockInv'
<1> SUFFICES ASSUME ClockInv, [C!Next]_(C!vars) PROVE ClockInv'
  OBVIOUS
<1>1. CASE C!Reset
  BY <1>1 DEF C!Reset, ClockInv, C!PllFollows, C!FreqFollows, C!PllAtReset
<1>2. ASSUME NEW c \in 0 .. 7, NEW ep \in Epredivs, NEW em \in Emfds, C!WriteEsyncr1(c, ep, em)
      PROVE  ClockInv'
  <2>1. C!PllFollows'
    BY <1>2 DEF C!WriteEsyncr1, C!ConfigClock, C!PllFollows
  <2>2. C!FreqFollows'
    <3>1. SUFFICES ASSUME ~stale' PROVE freq' = C!FCpu(pll', sysdiv')
      BY DEF C!FreqFollows
    <3>2. ~stale /\ pll' = pll /\ freq' = freq /\ sysdiv' = sysdiv
      BY <1>2, <3>1 DEF C!WriteEsyncr1
    <3> QED
      BY <3>2 DEF ClockInv, C!FreqFollows
  <2> QED
    BY <2>1, <2>2 DEF ClockInv
<1>3. ASSUME NEW dis \in BOOLEAN, NEW rf \in Erfds, C!WriteEsyncr2(dis, rf)
      PROVE  ClockInv'
  <2>1. C!PllFollows'
    BY <1>3 DEF C!WriteEsyncr2, C!ConfigClock, ClockInv, C!PllFollows
  <2>2. C!FreqFollows'
    <3>1. SUFFICES ASSUME ~stale' PROVE freq' = C!FCpu(pll', sysdiv')
      BY DEF C!FreqFollows
    <3>2. ~stale /\ pll' = pll /\ freq' = freq /\ sysdiv' = sysdiv
      BY <1>3, <3>1 DEF C!WriteEsyncr2
    <3> QED
      BY <3>2 DEF ClockInv, C!FreqFollows
  <2> QED
    BY <2>1, <2>2 DEF ClockInv
<1>4. ASSUME NEW s \in C!Sysdiv, C!WriteSysdiv(s) PROVE ClockInv'
  <2>1. C!PllFollows'
    BY <1>4 DEF C!WriteSysdiv, C!esyncr, ClockInv, C!PllFollows
  <2>2. C!FreqFollows'
    <3>1. pll' = pll /\ sysdiv' = s
      BY <1>4 DEF C!WriteSysdiv
    <3>2. CASE s.ipclkdiv = C!RESERVED
      BY <1>4, <3>2 DEF C!WriteSysdiv, C!FreqFollows
    <3>3. CASE s.ipclkdiv # C!RESERVED
      BY <1>4, <3>1, <3>3 DEF C!WriteSysdiv, C!FreqFollows
    <3> QED
      BY <3>2, <3>3
  <2> QED
    BY <2>1, <2>2 DEF ClockInv
<1>5. CASE UNCHANGED C!vars
  BY <1>5 DEF C!vars, C!esyncr, ClockInv, C!PllFollows, C!FreqFollows
<1> QED
  BY <1>1, <1>2, <1>3, <1>4, <1>5 DEF C!Next

\* The inductive invariant of the clock tree.
THEOREM ClockInvariance == C!Spec => []ClockInv
  BY ClockInit, ClockNext, PTL DEF C!Spec

\* The PLL is always what its registers say.
THEOREM PllTrue == C!Spec => []C!PllFollows
<1>1. ClockInv => C!PllFollows
  BY DEF ClockInv
<1> QED
  BY <1>1, ClockInvariance, PTL

\* The emulated time keeps the core's frequency but in the two cases named.
THEOREM FreqTrue == C!Spec => []C!FreqFollows
<1>1. ClockInv => C!FreqFollows
  BY DEF ClockInv
<1> QED
  BY <1>1, ClockInvariance, PTL

\* A locked CLKCFG stays: it is restored from a copy that is never out of date.
THEOREM LockHolds == C!Spec => C!ModeLocked
<1>1. ClockInv /\ [C!Next]_(C!vars) => [C!Locked]_(C!vars)
  <2> SUFFICES ASSUME ClockInv, C!Next PROVE C!Locked
    OBVIOUS
  <2>1. CASE C!Reset
    BY <2>1 DEF C!Locked
  <2>2. ASSUME NEW c \in 0 .. 7, NEW ep \in Epredivs, NEW em \in Emfds, C!WriteEsyncr1(c, ep, em)
        PROVE  C!Locked
    BY <2>2 DEF C!WriteEsyncr1, ClockInv, C!PllFollows, C!Locked
  <2>3. ASSUME NEW dis \in BOOLEAN, NEW rf \in Erfds, C!WriteEsyncr2(dis, rf) PROVE C!Locked
    BY <2>3 DEF C!WriteEsyncr2, C!Locked
  <2>4. ASSUME NEW s \in C!Sysdiv, C!WriteSysdiv(s) PROVE C!Locked
    BY <2>4 DEF C!WriteSysdiv, C!esyncr, C!Locked
  <2> QED
    BY <2>1, <2>2, <2>3, <2>4 DEF C!Next
<1> QED
  BY <1>1, ClockInvariance, PTL DEF C!Spec, C!ModeLocked

-----------------------------------------------------------------------------
LEMMA DividedSlower ==
  ASSUME NEW n \in Nat, NEW d \in Nat, NEW j \in Nat, NEW k \in Nat, j <= k
  PROVE  C!NoFaster(C!Divided(<<n, d>>, k), C!Divided(<<n, d>>, j))
<1>1. d * j <= d * k
  OBVIOUS
<1>2. n * (d * j) <= n * (d * k)
  <2>1. d * j \in Nat /\ d * k \in Nat
    OBVIOUS
  <2>2. \A a, b \in Nat : a <= b => n * a <= n * b
    OBVIOUS
  <2> QED
    BY <1>1, <2>1, <2>2
<1> QED
  BY <1>2 DEF C!NoFaster, C!Divided

\* Whatever the dividers, but for the reserved one: the peripherals run no faster than
\* the eTPUs, these no faster than the core, the core no faster than the system clock.
THEOREM ClocksOrdered ==
  ASSUME NEW n \in Nat, NEW d \in Nat, NEW s \in C!Sysdiv, s.ipclkdiv # C!RESERVED
  PROVE  /\ C!NoFaster(C!FPeriph(<<n, d>>, s), C!FEtpu(<<n, d>>, s))
         /\ C!NoFaster(C!FEtpu(<<n, d>>, s), C!FCpu(<<n, d>>, s))
         /\ C!NoFaster(C!FCpu(<<n, d>>, s), C!Divided(C!FSys(<<n, d>>, s), 1))
<1>1. PICK k \in Nat : C!FSys(<<n, d>>, s) = <<n, k>>
  <2>1. s.sysclkdiv \in {0, 1, 2, 3}
    BY DEF C!Sysdiv
  <2>2. <<2, 4, 8, 16>>[s.sysclkdiv + 1] \in Nat
    BY <2>1
  <2>3. (IF s.bypass THEN 1 ELSE <<2, 4, 8, 16>>[s.sysclkdiv + 1]) \in Nat
    BY <2>2
  <2> QED
    BY <2>3 DEF C!FSys
<1>2. s.ipclkdiv \in {0, 1, 3}
  BY DEF C!Sysdiv, C!RESERVED
<1> DEFINE e == IF s.ipclkdiv = 1 THEN 1 ELSE 2
           c == IF s.ipclkdiv = 3 THEN 2 ELSE 1
<1>3. e \in Nat /\ c \in Nat /\ 1 <= c /\ c <= e /\ e <= 2
  BY <1>2
<1>4. /\ C!FPeriph(<<n, d>>, s) = C!Divided(<<n, k>>, 2)
      /\ C!FEtpu(<<n, d>>, s) = C!Divided(<<n, k>>, e)
      /\ C!FCpu(<<n, d>>, s) = C!Divided(<<n, k>>, c)
  BY <1>1 DEF C!FPeriph, C!FEtpu, C!FCpu
<1> HIDE DEF e, c
<1> QED
  BY <1>1, <1>3, <1>4, DividedSlower

=============================================================================

---------------------------- MODULE ExternalIO_proofs ----------------------------
(***************************************************************************)
(* Proofs about ExternalIO, for any number of clients, messages and any    *)
(* size of the sockets' buffers: what a client sends arrives in order and  *)
(* once, and what the peripheral transmits reaches a client without a gap. *)
(*                                                                         *)
(* First what Picked returns, then the invariant and one lemma per action. *)
(***************************************************************************)
EXTENDS ExternalIO, FiniteSetTheorems, SequenceTheorems, TLAPS

-----------------------------------------------------------------------------
(* Picking elements of a sequence.                                         *)

\* f goes through the places 1 .. N of the chosen elements from left to right.
Enumerates(f, N, P) ==
  /\ f \in [1 .. N -> P]
  /\ \A a, b \in 1 .. N : a < b => f[a] < f[b]
  /\ \A i \in P : \E k \in 1 .. N : f[k] = i

LEMMA SomeOfMany ==
  ASSUME NEW n \in Nat, NEW P \in SUBSET (1 .. n)
  PROVE  /\ IsFiniteSet(P) /\ Cardinality(P) \in Nat
         /\ \A i \in P : UpTo(P, i) \in 1 .. Cardinality(P)
         /\ \A i, j \in P : i < j => UpTo(P, i) < UpTo(P, j)
<1> DEFINE below(i) == {j \in P : j <= i}
<1>1. IsFiniteSet(P) /\ Cardinality(P) \in Nat
  <2>1. IsFiniteSet(1 .. n)
    BY FS_Interval
  <2>2. IsFiniteSet(P)
    BY <2>1, FS_Subset
  <2> QED
    BY <2>2, FS_CardinalityType
<1>2. ASSUME NEW i \in P
      PROVE  /\ IsFiniteSet(below(i)) /\ Cardinality(below(i)) \in 1 .. Cardinality(P)
             /\ UpTo(P, i) = Cardinality(below(i))
  <2>1. below(i) \in SUBSET P /\ i \in below(i)
    OBVIOUS
  <2>2. IsFiniteSet(below(i)) /\ Cardinality(below(i)) <= Cardinality(P)
    BY <1>1, <2>1, FS_Subset
  <2>3. Cardinality(below(i)) # 0 /\ Cardinality(below(i)) \in Nat
    BY <2>1, <2>2, FS_EmptySet, FS_CardinalityType
  <2>4. UpTo(P, i) = Cardinality(below(i))
    BY DEF UpTo
  <2> HIDE DEF below
  <2> QED
    BY <1>1, <2>2, <2>3, <2>4
<1>3. ASSUME NEW i \in P, NEW j \in P, i < j PROVE UpTo(P, i) < UpTo(P, j)
  <2>1. below(i) \in SUBSET below(j)
    <3>1. \A k \in P : k \in Nat
      OBVIOUS
    <3>2. \A k \in P : k <= i => k <= j
      BY <1>3, <3>1
    <3> QED
      BY <3>2
  <2>2. j \in below(j) /\ j \notin below(i)
    <3>1. i \in Nat /\ j \in Nat
      OBVIOUS
    <3> QED
      BY <1>3, <3>1
  <2>3. /\ Cardinality(below(i)) <= Cardinality(below(j))
        /\ Cardinality(below(i)) # Cardinality(below(j))
    BY <1>2, <2>1, <2>2, FS_Subset
  <2> HIDE DEF below
  <2> QED
    BY <1>1, <1>2, <2>3
<1> QED
  BY <1>1, <1>2, <1>3

\* The chosen elements have an enumeration, and Picked follows it.
LEMMA PickedFacts ==
  ASSUME NEW T, NEW s \in Seq(T), NEW S
  PROVE  \E N \in Nat : \E f :
           Enumerates(f, N, Places(s, S)) /\ Picked(s, S) = [k \in 1 .. N |-> s[f[k]]]
<1> DEFINE P == Places(s, S)
           N == Cardinality(P)
           r == [i \in P |-> UpTo(P, i)]
           f == [k \in 1 .. N |-> CHOOSE i \in P : UpTo(P, i) = k]
<1>1. P \in SUBSET (1 .. Len(s)) /\ Len(s) \in Nat
  BY DEF Places
<1>2. /\ IsFiniteSet(P) /\ N \in Nat
      /\ \A i \in P : UpTo(P, i) \in 1 .. N
      /\ \A i, j \in P : i < j => UpTo(P, i) < UpTo(P, j)
  <2> HIDE DEF P
  <2> QED
    BY <1>1, SomeOfMany
<1>3. \A i \in P : i \in Nat
  BY <1>1
<1>4. Picked(s, S) = [k \in 1 .. N |-> s[f[k]]]
  BY DEF Picked
<1> HIDE DEF P
<1>5. \A i, j \in P : UpTo(P, i) = UpTo(P, j) => i = j
  <2> SUFFICES ASSUME NEW i \in P, NEW j \in P, i # j PROVE UpTo(P, i) # UpTo(P, j)
    OBVIOUS
  <2>1. i < j \/ j < i
    BY <1>3
  <2>2. UpTo(P, i) < UpTo(P, j) \/ UpTo(P, j) < UpTo(P, i)
    BY <1>2, <2>1
  <2>3. UpTo(P, i) \in Nat /\ UpTo(P, j) \in Nat
    BY <1>2
  <2> QED
    BY <2>2, <2>3
<1>6. \A k \in 1 .. N : \E i \in P : UpTo(P, i) = k
  <2>1. r \in Injection(P, 1 .. N)
    <3>1. r \in [P -> 1 .. N] /\ \A a, b \in P : r[a] = r[b] => a = b
      BY <1>2, <1>5
    <3> HIDE DEF r, N
    <3> QED
      BY <3>1 DEF Injection, IsInjective
  <2>2. IsFiniteSet(1 .. N) /\ Cardinality(1 .. N) = N
    BY <1>2, FS_Interval
  <2>3. r \in Surjection(P, 1 .. N)
    <3> HIDE DEF r
    <3> QED
      BY <2>1, <2>2, FS_Injection
  <2>4. \A k \in 1 .. N : \E i \in P : r[i] = k
    <3> HIDE DEF r, N
    <3> QED
      BY <2>3 DEF Surjection
  <2> QED
    BY <2>4
<1>7. \A k \in 1 .. N : f[k] \in P /\ UpTo(P, f[k]) = k
  BY <1>6
<1>8. f \in [1 .. N -> P]
  BY <1>7
<1> HIDE DEF f, N
<1>9. ASSUME NEW a \in 1 .. N, NEW b \in 1 .. N, a < b PROVE f[a] < f[b]
  <2>1. f[a] \in Nat /\ f[b] \in Nat /\ f[a] # f[b]
    BY <1>3, <1>7, <1>9
  <2>2. ~ (f[b] < f[a])
    <3> SUFFICES ASSUME f[b] < f[a] PROVE FALSE
      OBVIOUS
    <3>1. UpTo(P, f[b]) < UpTo(P, f[a])
      BY <1>2, <1>7
    <3>2. b < a
      BY <1>7, <3>1
    <3> QED
      BY <1>2, <1>9, <3>2
  <2> QED
    BY <2>1, <2>2
<1>10. \A i \in P : \E k \in 1 .. N : f[k] = i
  BY <1>2, <1>5, <1>7
<1>11. Enumerates(f, N, P)
  BY <1>8, <1>9, <1>10 DEF Enumerates
<1> QED
  BY <1>2, <1>4, <1>11 DEF P

\* Whoever goes through the places from left to right finds what Picked returns.
LEMMA PickedIs ==
  ASSUME NEW T, NEW s \in Seq(T), NEW S, NEW N \in Nat, NEW f, Enumerates(f, N, Places(s, S))
  PROVE  Picked(s, S) = [k \in 1 .. N |-> s[f[k]]]
<1> DEFINE P == Places(s, S)
<1>1. P \in SUBSET (1 .. Len(s)) /\ Len(s) \in Nat
  BY DEF Places
<1>2. Picked(s, S) = [k \in 1 .. Cardinality(P) |-> s[CHOOSE i \in P : UpTo(P, i) = k]]
  BY DEF Picked
<1>3. Enumerates(f, N, P)
  OBVIOUS
<1> HIDE DEF P
<1>4. \A i \in P : i \in Nat
  BY <1>1
<1>5. /\ f \in [1 .. N -> P]
      /\ \A a, b \in 1 .. N : a < b => f[a] < f[b]
      /\ \A i \in P : \E k \in 1 .. N : f[k] = i
  BY <1>3 DEF Enumerates
<1>6. \A a, b \in 1 .. N : /\ f[a] <= f[b] <=> a <= b
                           /\ f[a] = f[b] => a = b
  <2> SUFFICES ASSUME NEW a \in 1 .. N, NEW b \in 1 .. N
               PROVE  /\ f[a] <= f[b] <=> a <= b
                      /\ f[a] = f[b] => a = b
    OBVIOUS
  <2>1. f[a] \in Nat /\ f[b] \in Nat
    BY <1>4, <1>5
  <2>2. (a < b => f[a] < f[b]) /\ (b < a => f[b] < f[a]) /\ (a = b => f[a] = f[b])
    BY <1>5
  <2> QED
    BY <2>1, <2>2
<1>7. ASSUME NEW k \in 1 .. N PROVE UpTo(P, f[k]) = k
  <2> DEFINE B == {j \in P : j <= f[k]}
             g == [i \in 1 .. k |-> f[i]]
  <2>1. \A i \in 1 .. k : i \in 1 .. N
    OBVIOUS
  <2>2. g \in [1 .. k -> B] /\ \A a, b \in 1 .. k : g[a] = g[b] => a = b
    BY <1>5, <1>6, <2>1
  <2>3. \A j \in B : \E i \in 1 .. k : g[i] = j
    <3> SUFFICES ASSUME NEW j \in B PROVE \E i \in 1 .. k : g[i] = j
      OBVIOUS
    <3>1. PICK i \in 1 .. N : f[i] = j
      BY <1>5
    <3>2. i <= k
      BY <1>6, <3>1
    <3>3. i \in 1 .. k
      BY <3>2
    <3> QED
      BY <3>1, <3>3
  <2> HIDE DEF B, g
  <2>4. g \in Bijection(1 .. k, B)
    BY <2>2, <2>3 DEF Bijection, Injection, Surjection, IsInjective
  <2>5. ExistsBijection(1 .. k, B) /\ k \in Nat
    BY <2>4 DEF ExistsBijection
  <2>6. Cardinality(B) = k
    BY <2>5, FS_CountingElements
  <2> QED
    BY <2>6 DEF UpTo, B
<1>8. Cardinality(P) = N
  <2>1. f \in Bijection(1 .. N, P)
    BY <1>5, <1>6 DEF Bijection, Injection, Surjection, IsInjective
  <2>2. ExistsBijection(1 .. N, P)
    BY <2>1 DEF ExistsBijection
  <2> QED
    BY <2>2, FS_CountingElements
<1>9. ASSUME NEW k \in 1 .. N PROVE (CHOOSE i \in P : UpTo(P, i) = k) = f[k]
  <2>1. \A i \in P : UpTo(P, i) = k <=> i = f[k]
    BY <1>5, <1>7
  <2>2. f[k] \in P
    BY <1>5
  <2> QED
    BY <2>1, <2>2
<1> QED
  BY <1>2, <1>8, <1>9

Distinct(s) == \A i, j \in 1 .. Len(s) : s[i] = s[j] => i = j

\* What is picked are the chosen elements; of a list without repetitions, none twice.
LEMMA PickedSeq ==
  ASSUME NEW T, NEW s \in Seq(T), NEW S
  PROVE  /\ Picked(s, S) \in Seq(T) /\ Picked(s, S) \in Seq(S)
         /\ Range(Picked(s, S)) = Range(s) \intersect S
         /\ Distinct(s) => Distinct(Picked(s, S))
<1> DEFINE P == Places(s, S)
<1>1. PICK N \in Nat : \E f : Enumerates(f, N, P) /\ Picked(s, S) = [k \in 1 .. N |-> s[f[k]]]
  BY PickedFacts
<1>2. PICK f : Enumerates(f, N, P) /\ Picked(s, S) = [k \in 1 .. N |-> s[f[k]]]
  BY <1>1
<1>3. P = {i \in 1 .. Len(s) : s[i] \in S} /\ Len(s) \in Nat /\ DOMAIN s = 1 .. Len(s)
  BY DEF Places
<1> HIDE DEF P
<1> DEFINE r == Picked(s, S)
<1>4. r = [k \in 1 .. N |-> s[f[k]]]
  BY <1>2
<1> HIDE DEF r
<1>5. /\ f \in [1 .. N -> P]
      /\ \A a, b \in 1 .. N : a < b => f[a] < f[b]
      /\ \A i \in P : \E k \in 1 .. N : f[k] = i
  BY <1>2 DEF Enumerates
<1>6. \A k \in 1 .. N : r[k] = s[f[k]] /\ r[k] \in T /\ r[k] \in S
  BY <1>3, <1>4, <1>5, ElementOfSeq
<1>7. r \in Seq(T) /\ r \in Seq(S) /\ Len(r) = N /\ DOMAIN r = 1 .. N
  BY <1>4, <1>6
<1>8. Range(r) = Range(s) \intersect S
  <2>1. ASSUME NEW x \in Range(r) PROVE x \in Range(s) \intersect S
    <3>1. PICK k \in 1 .. N : r[k] = x
      BY <1>7 DEF Range
    <3>2. f[k] \in 1 .. Len(s) /\ x = s[f[k]] /\ x \in S
      BY <1>3, <1>5, <1>6, <3>1
    <3> QED
      BY <1>3, <3>2 DEF Range
  <2>2. ASSUME NEW x \in Range(s) \intersect S PROVE x \in Range(r)
    <3>1. PICK i \in 1 .. Len(s) : s[i] = x
      BY <1>3 DEF Range
    <3>2. i \in P
      BY <1>3, <3>1
    <3>3. PICK k \in 1 .. N : f[k] = i
      BY <1>5, <3>2
    <3> QED
      BY <1>6, <1>7, <3>1, <3>3 DEF Range
  <2> QED
    BY <2>1, <2>2
<1>9. ASSUME Distinct(s) PROVE Distinct(r)
  <2>1. \A i, j \in 1 .. Len(s) : s[i] = s[j] => i = j
    BY <1>9 DEF Distinct
  <2>2. \A a \in 1 .. N : f[a] \in 1 .. Len(s) /\ f[a] \in Nat
    BY <1>3, <1>5
  <2>3. ASSUME NEW a \in 1 .. N, NEW b \in 1 .. N, r[a] = r[b] PROVE a = b
    <3>1. f[a] = f[b]
      BY <1>6, <2>1, <2>2, <2>3
    <3>2. ~ (a < b) /\ ~ (b < a)
      BY <1>5, <2>2, <3>1
    <3> QED
      BY <3>2
  <2> QED
    BY <1>7, <2>3 DEF Distinct
<1> QED
  BY <1>7, <1>8, <1>9 DEF r

LEMMA PickedEmpty ==
  ASSUME NEW S
  PROVE  Picked(<<>>, S) = <<>>
<1>1. <<>> \in Seq({}) /\ Range(<<>>) = {}
  BY DEF Range
<1>2. Picked(<<>>, S) \in Seq({})
  BY <1>1, PickedSeq
<1> QED
  BY <1>2

LEMMA PickedAppend ==
  ASSUME NEW T, NEW s \in Seq(T), NEW e \in T, NEW S
  PROVE  Picked(Append(s, e), S) = IF e \in S THEN Append(Picked(s, S), e) ELSE Picked(s, S)
<1> DEFINE P == Places(s, S)
           t == Append(s, e)
           Q == Places(t, S)
           n == Len(s)
<1>1. PICK N \in Nat : \E f : Enumerates(f, N, P) /\ Picked(s, S) = [k \in 1 .. N |-> s[f[k]]]
  BY PickedFacts
<1>2. PICK f : Enumerates(f, N, P) /\ Picked(s, S) = [k \in 1 .. N |-> s[f[k]]]
  BY <1>1
<1>3. /\ t \in Seq(T) /\ n \in Nat /\ Len(t) = n + 1
      /\ \A i \in 1 .. n : t[i] = s[i]
      /\ t[n + 1] = e
  OBVIOUS
<1>4. P = {i \in 1 .. n : s[i] \in S} /\ Q = {i \in 1 .. Len(t) : t[i] \in S}
  BY DEF Places
<1>5. \A i \in P : i \in 1 .. n
  BY <1>4
<1> HIDE DEF P, Q, t, n
<1>6. Q = IF e \in S THEN P \union {n + 1} ELSE P
  <2>1. \A i \in 1 .. n + 1 : i \in 1 .. n \/ i = n + 1
    BY <1>3
  <2>2. n + 1 \in 1 .. n + 1 /\ \A i \in 1 .. n : i \in 1 .. n + 1 /\ i # n + 1
    BY <1>3
  <2> QED
    BY <1>3, <1>4, <2>1, <2>2
<1>7. /\ f \in [1 .. N -> P]
      /\ \A a, b \in 1 .. N : a < b => f[a] < f[b]
      /\ \A i \in P : \E k \in 1 .. N : f[k] = i
  BY <1>2 DEF Enumerates
<1> DEFINE r == Picked(s, S)
<1>8. r = [k \in 1 .. N |-> s[f[k]]] /\ Len(r) = N /\ r \in Seq(T)
  BY <1>2, PickedSeq
<1> HIDE DEF r
<1>9. CASE e \notin S
  <2>1. Enumerates(f, N, Q)
    BY <1>2, <1>6, <1>9
  <2>2. Picked(t, S) = [k \in 1 .. N |-> t[f[k]]]
    BY <1>3, <2>1, PickedIs DEF Q
  <2>3. \A k \in 1 .. N : t[f[k]] = s[f[k]]
    BY <1>3, <1>5, <1>7
  <2> QED
    BY <1>8, <1>9, <2>2, <2>3 DEF r, t
<1>10. CASE e \in S
  <2> DEFINE g == [k \in 1 .. N + 1 |-> IF k = N + 1 THEN n + 1 ELSE f[k]]
  <2>1. \A k \in 1 .. N + 1 : k = N + 1 \/ (k \in 1 .. N /\ k # N + 1)
    OBVIOUS
  <2>2. g \in [1 .. N + 1 -> Q]
    BY <1>6, <1>7, <1>10, <2>1
  <2>3. (\A k \in 1 .. N : g[k] = f[k]) /\ g[N + 1] = n + 1 /\ N + 1 \in 1 .. N + 1
    OBVIOUS
  <2> HIDE DEF g
  <2>4. ASSUME NEW a \in 1 .. N + 1, NEW b \in 1 .. N + 1, a < b PROVE g[a] < g[b]
    <3>1. a \in 1 .. N
      BY <2>4
    <3>2. CASE b = N + 1
      BY <1>3, <1>5, <1>7, <2>3, <3>1, <3>2
    <3>3. CASE b \in 1 .. N
      BY <1>7, <2>3, <2>4, <3>1, <3>3
    <3> QED
      BY <2>1, <3>2, <3>3
  <2>5. \A i \in Q : \E k \in 1 .. N + 1 : g[k] = i
    <3> SUFFICES ASSUME NEW i \in Q PROVE \E k \in 1 .. N + 1 : g[k] = i
      OBVIOUS
    <3>1. CASE i = n + 1
      BY <2>3, <3>1
    <3>2. CASE i \in P
      <4>1. PICK k \in 1 .. N : f[k] = i
        BY <1>7, <3>2
      <4>2. k \in 1 .. N + 1
        OBVIOUS
      <4> QED
        BY <2>3, <4>1, <4>2
    <3> QED
      BY <1>6, <1>10, <3>1, <3>2
  <2>6. Enumerates(g, N + 1, Q)
    BY <2>2, <2>4, <2>5 DEF Enumerates
  <2>7. Picked(t, S) = [k \in 1 .. N + 1 |-> t[g[k]]]
    <3>1. N + 1 \in Nat /\ Enumerates(g, N + 1, Places(t, S))
      BY <2>6 DEF Q
    <3> DEFINE m == N + 1
    <3> HIDE DEF m
    <3>2. m \in Nat /\ Enumerates(g, m, Places(t, S))
      BY <3>1 DEF m
    <3>3. Picked(t, S) = [k \in 1 .. m |-> t[g[k]]]
      BY <1>3, <3>2, PickedIs
    <3> QED
      BY <3>3 DEF m
  <2>8. \A k \in 1 .. N : t[g[k]] = r[k]
    BY <1>3, <1>5, <1>7, <1>8, <2>3
  <2>9. t[g[N + 1]] = e
    BY <1>3, <2>3
  <2> DEFINE u == [k \in 1 .. N + 1 |-> t[g[k]]]
             v == Append(r, e)
  <2>10. v \in Seq(T) /\ Len(v) = N + 1 /\ (\A k \in 1 .. N : v[k] = r[k]) /\ v[N + 1] = e
    BY <1>8
  <2>11. \A k \in 1 .. N + 1 : v[k] = t[g[k]]
    <3> HIDE DEF v
    <3> QED
      BY <2>1, <2>8, <2>9, <2>10
  <2>12. v = [k \in 1 .. N + 1 |-> t[g[k]]]
    <3> HIDE DEF v
    <3>1. v = [k \in 1 .. N + 1 |-> v[k]]
      BY <2>10
    <3> QED
      BY <2>11, <3>1
  <2> QED
    BY <1>10, <2>7, <2>12 DEF r, t
<1> QED
  BY <1>9, <1>10

LEMMA PickedFirst ==
  ASSUME NEW T, NEW s \in Seq(T), s # <<>>, NEW S
  PROVE  /\ Head(s) \in S => Picked(s, S) # <<>> /\ Picked(s, S)[1] = Head(s)
                               /\ Picked(Tail(s), S) = Tail(Picked(s, S))
         /\ Head(s) \notin S => Picked(s, S) = Picked(Tail(s), S)
<1> DEFINE P == Places(s, S)
           t == Tail(s)
           Q == Places(t, S)
           n == Len(s)
<1>1. PICK N \in Nat : \E f : Enumerates(f, N, P) /\ Picked(s, S) = [k \in 1 .. N |-> s[f[k]]]
  BY PickedFacts
<1>2. PICK f : Enumerates(f, N, P) /\ Picked(s, S) = [k \in 1 .. N |-> s[f[k]]]
  BY <1>1
<1>3. /\ t \in Seq(T) /\ n \in Nat /\ n >= 1 /\ Len(t) = n - 1
      /\ \A i \in 1 .. n - 1 : t[i] = s[i + 1]
      /\ s[1] = Head(s)
  BY EmptySeq, LenProperties, HeadTailProperties
<1>4. P = {i \in 1 .. n : s[i] \in S} /\ Q = {i \in 1 .. n - 1 : t[i] \in S}
  BY <1>3 DEF Places
<1> HIDE DEF P, Q, t, n
<1>5. \A i \in P : i \in 1 .. n /\ i \in Nat
  BY <1>4
<1>6. /\ \A i \in Q : i \in 1 .. n - 1 /\ i + 1 \in P
      /\ \A i \in P : i # 1 => i - 1 \in Q
      /\ 1 \in P <=> Head(s) \in S
  <2>1. \A i \in 1 .. n - 1 : i + 1 \in 1 .. n
    BY <1>3
  <2>2. \A i \in 1 .. n : i # 1 => i - 1 \in 1 .. n - 1 /\ (i - 1) + 1 = i
    BY <1>3
  <2>3. 1 \in 1 .. n
    BY <1>3
  <2> QED
    BY <1>3, <1>4, <2>1, <2>2, <2>3
<1>7. /\ f \in [1 .. N -> P]
      /\ \A a, b \in 1 .. N : a < b => f[a] < f[b]
      /\ \A i \in P : \E k \in 1 .. N : f[k] = i
  BY <1>2 DEF Enumerates
<1> DEFINE r == Picked(s, S)
<1>8. r = [k \in 1 .. N |-> s[f[k]]] /\ Len(r) = N /\ r \in Seq(T)
  BY <1>2, PickedSeq
<1> HIDE DEF r
<1>9. CASE Head(s) \notin S
  <2> DEFINE g == [k \in 1 .. N |-> f[k] - 1]
  <2>1. \A k \in 1 .. N : f[k] \in P /\ f[k] # 1 /\ f[k] \in Nat /\ f[k] - 1 \in Q
    BY <1>5, <1>6, <1>7, <1>9
  <2>2. g \in [1 .. N -> Q] /\ \A k \in 1 .. N : g[k] = f[k] - 1
    BY <2>1
  <2> HIDE DEF g
  <2>3. \A a, b \in 1 .. N : a < b => g[a] < g[b]
    <3> SUFFICES ASSUME NEW a \in 1 .. N, NEW b \in 1 .. N, a < b PROVE g[a] < g[b]
      OBVIOUS
    <3>1. f[a] < f[b] /\ f[a] \in Nat /\ f[b] \in Nat
      BY <1>7, <2>1
    <3> QED
      BY <2>2, <3>1
  <2>4. \A i \in Q : \E k \in 1 .. N : g[k] = i
    <3> SUFFICES ASSUME NEW i \in Q PROVE \E k \in 1 .. N : g[k] = i
      OBVIOUS
    <3>1. PICK k \in 1 .. N : f[k] = i + 1
      BY <1>6, <1>7
    <3>2. i \in Nat
      BY <1>3, <1>6
    <3> QED
      BY <2>2, <3>1, <3>2
  <2>5. Enumerates(g, N, Q)
    BY <2>2, <2>3, <2>4 DEF Enumerates
  <2>6. Picked(t, S) = [k \in 1 .. N |-> t[g[k]]]
    BY <1>3, <2>5, PickedIs DEF Q
  <2>7. ASSUME NEW k \in 1 .. N PROVE t[g[k]] = s[f[k]]
    <3>1. g[k] \in 1 .. n - 1 /\ f[k] \in Nat /\ g[k] = f[k] - 1
      BY <1>6, <2>1, <2>2
    <3>2. t[g[k]] = s[g[k] + 1] /\ g[k] + 1 = f[k]
      BY <1>3, <3>1
    <3> QED
      BY <3>2
  <2> QED
    BY <1>8, <1>9, <2>6, <2>7 DEF r, t
<1>10. CASE Head(s) \in S
  <2>1. PICK k1 \in 1 .. N : f[k1] = 1
    BY <1>6, <1>7, <1>10
  <2>2. N >= 1 /\ 1 \in 1 .. N /\ N - 1 \in Nat
    BY <2>1
  <2>3. f[1] = 1
    <3>1. f[1] \in Nat /\ f[1] >= 1
      BY <1>5, <1>7, <2>2
    <3>2. k1 = 1 \/ 1 < k1
      OBVIOUS
    <3>3. ~ (1 < k1)
      BY <1>7, <2>1, <2>2, <3>1
    <3> QED
      BY <2>1, <3>2, <3>3
  <2>4. \A k \in 1 .. N - 1 : k + 1 \in 1 .. N /\ 1 < k + 1
    BY <2>2
  <2>5. \A k \in 1 .. N - 1 : f[k + 1] \in P /\ f[k + 1] # 1 /\ f[k + 1] \in Nat /\ f[k + 1] - 1 \in Q
    <3> SUFFICES ASSUME NEW k \in 1 .. N - 1
                 PROVE  f[k + 1] \in P /\ f[k + 1] # 1 /\ f[k + 1] \in Nat /\ f[k + 1] - 1 \in Q
      OBVIOUS
    <3>1. f[k + 1] \in P /\ f[1] < f[k + 1]
      BY <1>7, <2>2, <2>4
    <3>2. f[k + 1] \in Nat /\ f[k + 1] # 1
      BY <1>5, <2>3, <3>1
    <3> QED
      BY <1>6, <3>1, <3>2
  <2> DEFINE g == [k \in 1 .. N - 1 |-> f[k + 1] - 1]
  <2>6. g \in [1 .. N - 1 -> Q] /\ \A k \in 1 .. N - 1 : g[k] = f[k + 1] - 1
    BY <2>5
  <2> HIDE DEF g
  <2>7. \A a, b \in 1 .. N - 1 : a < b => g[a] < g[b]
    <3> SUFFICES ASSUME NEW a \in 1 .. N - 1, NEW b \in 1 .. N - 1, a < b PROVE g[a] < g[b]
      OBVIOUS
    <3>0. a + 1 < b + 1
      BY <2>2
    <3>1. f[a + 1] < f[b + 1] /\ f[a + 1] \in Nat /\ f[b + 1] \in Nat
      BY <1>7, <2>4, <2>5, <3>0
    <3> QED
      BY <2>6, <3>1
  <2>8. \A i \in Q : \E k \in 1 .. N - 1 : g[k] = i
    <3> SUFFICES ASSUME NEW i \in Q PROVE \E k \in 1 .. N - 1 : g[k] = i
      OBVIOUS
    <3>1. i \in Nat /\ i >= 1 /\ i + 1 # 1
      BY <1>3, <1>6
    <3>2. PICK k \in 1 .. N : f[k] = i + 1
      BY <1>6, <1>7
    <3>3. k # 1
      BY <2>3, <3>1, <3>2
    <3>4. k - 1 \in 1 .. N - 1 /\ (k - 1) + 1 = k
      BY <2>2, <3>3
    <3>5. g[k - 1] = f[(k - 1) + 1] - 1
      BY <2>6, <3>4
    <3>6. g[k - 1] = i
      <4>1. f[(k - 1) + 1] = i + 1
        BY <3>2, <3>4
      <4> QED
        BY <3>1, <3>5, <4>1
    <3> QED
      BY <3>4, <3>6
  <2>9. Enumerates(g, N - 1, Q)
    BY <2>6, <2>7, <2>8 DEF Enumerates
  <2>10. Picked(t, S) = [k \in 1 .. N - 1 |-> t[g[k]]]
    BY <1>3, <2>2, <2>9, PickedIs DEF Q
  <2>11. \A k \in 1 .. N - 1 : t[g[k]] = r[k + 1]
    <3> SUFFICES ASSUME NEW k \in 1 .. N - 1 PROVE t[g[k]] = r[k + 1]
      OBVIOUS
    <3>1. g[k] \in 1 .. n - 1 /\ f[k + 1] \in Nat /\ g[k] = f[k + 1] - 1
      BY <1>6, <2>5, <2>6
    <3>2. t[g[k]] = s[g[k] + 1] /\ g[k] + 1 = f[k + 1]
      BY <1>3, <3>1
    <3>3. r[k + 1] = s[f[k + 1]]
      BY <1>8, <2>4
    <3> QED
      BY <3>2, <3>3
  <2>12. r # <<>> /\ r[1] = Head(s)
    <3>1. r[1] = s[f[1]]
      BY <1>8, <2>2
    <3>2. Len(r) # 0
      BY <1>8, <2>2
    <3>3. r # <<>>
      BY <1>8, <3>2, EmptySeq
    <3> QED
      BY <1>3, <2>3, <3>1, <3>3
  <2> DEFINE v == Tail(r)
  <2>13. v \in Seq(T) /\ Len(v) = N - 1 /\ \A k \in 1 .. N - 1 : v[k] = r[k + 1]
    <3>1. r \in Seq(T) /\ r # <<>> /\ Len(r) = N
      BY <1>8, <2>12
    <3>2. /\ Tail(r) \in Seq(T) /\ Len(Tail(r)) = Len(r) - 1
          /\ \A k \in 1 .. Len(Tail(r)) : Tail(r)[k] = r[k + 1]
      BY <3>1, HeadTailProperties
    <3> QED
      BY <3>1, <3>2
  <2>14. v = [k \in 1 .. N - 1 |-> t[g[k]]]
    <3> HIDE DEF v
    <3>1. v = [k \in 1 .. N - 1 |-> v[k]]
      BY <2>2, <2>13
    <3>2. \A k \in 1 .. N - 1 : v[k] = t[g[k]]
      BY <2>11, <2>13
    <3> QED
      BY <3>1, <3>2
  <2> QED
    BY <1>10, <2>10, <2>12, <2>14 DEF r, t
<1> QED
  BY <1>9, <1>10

-----------------------------------------------------------------------------
(* Sequences.                                                              *)

LEMMA LeavesFirst ==
  ASSUME NEW T, NEW s \in Seq(T), s # <<>>
  PROVE  /\ Len(s) \in Nat /\ Len(s) >= 1 /\ Len(Tail(s)) = Len(s) - 1
         /\ s[1] = Head(s) /\ Head(s) \in T /\ Tail(s) \in Seq(T)
         /\ \A i \in 1 .. Len(s) - 1 : Tail(s)[i] = s[i + 1]
         /\ Range(s) = {Head(s)} \union Range(Tail(s))
         /\ Distinct(s) => Distinct(Tail(s)) /\ Head(s) \notin Range(Tail(s))
<1> DEFINE t == Tail(s)
           n == Len(s)
<1>1. /\ n \in Nat /\ n >= 1 /\ s[1] = Head(s) /\ Head(s) \in T /\ t \in Seq(T) /\ Len(t) = n - 1
      /\ \A i \in 1 .. n - 1 : t[i] = s[i + 1]
  BY EmptySeq, LenProperties, HeadTailProperties
<1>2. DOMAIN s = 1 .. n /\ DOMAIN t = 1 .. n - 1
  BY <1>1, LenProperties
<1> HIDE DEF t, n
<1>3. \A i \in 1 .. n - 1 : i + 1 \in 1 .. n /\ i + 1 # 1
  BY <1>1
<1>4. \A i \in 1 .. n : i # 1 => i - 1 \in 1 .. n - 1 /\ (i - 1) + 1 = i
  BY <1>1
<1>5. Range(s) = {Head(s)} \union Range(t)
  <2>1. ASSUME NEW x \in Range(s) PROVE x \in {Head(s)} \union Range(t)
    <3>1. PICK i \in 1 .. n : s[i] = x
      BY <1>2 DEF Range
    <3>2. CASE i = 1
      BY <1>1, <3>1, <3>2
    <3>3. CASE i # 1
      <4>1. t[i - 1] = x /\ i - 1 \in DOMAIN t
        BY <1>1, <1>2, <1>4, <3>1, <3>3
      <4> QED
        BY <4>1 DEF Range
    <3> QED
      BY <3>2, <3>3
  <2>2. Head(s) \in Range(s)
    <3>1. 1 \in 1 .. n
      BY <1>1
    <3> QED
      BY <1>1, <1>2, <3>1 DEF Range
  <2>3. ASSUME NEW x \in Range(t) PROVE x \in Range(s)
    <3>1. PICK i \in 1 .. n - 1 : t[i] = x
      BY <1>2 DEF Range
    <3> QED
      BY <1>1, <1>2, <1>3, <3>1 DEF Range
  <2> QED
    BY <2>1, <2>2, <2>3
<1>6. ASSUME Distinct(s) PROVE Distinct(t) /\ Head(s) \notin Range(t)
  <2>1. \A i, j \in 1 .. n : s[i] = s[j] => i = j
    BY <1>6 DEF Distinct, n
  <2>2. ASSUME NEW i \in 1 .. n - 1, NEW j \in 1 .. n - 1, t[i] = t[j] PROVE i = j
    <3>1. s[i + 1] = s[j + 1]
      BY <1>1, <2>2
    <3>2. i + 1 = j + 1
      BY <1>3, <2>1, <3>1
    <3> QED
      BY <1>1, <3>2
  <2>3. ASSUME NEW i \in 1 .. n - 1 PROVE t[i] # Head(s)
    <3>1. 1 \in 1 .. n
      BY <1>1
    <3> QED
      BY <1>1, <1>3, <2>1, <3>1
  <2> QED
    BY <1>1, <1>2, <2>2, <2>3 DEF Distinct, Range
<1> QED
  BY <1>1, <1>5, <1>6 DEF t, n

LEMMA JoinsLast ==
  ASSUME NEW T, NEW s \in Seq(T), NEW e \in T
  PROVE  /\ Append(s, e) \in Seq(T) /\ Len(Append(s, e)) = Len(s) + 1 /\ Append(s, e) # <<>>
         /\ Range(Append(s, e)) = Range(s) \union {e}
         /\ Distinct(s) /\ e \notin Range(s) => Distinct(Append(s, e))
<1> DEFINE t == Append(s, e)
           n == Len(s)
<1>1. /\ n \in Nat /\ t \in Seq(T) /\ Len(t) = n + 1
      /\ \A i \in 1 .. n : t[i] = s[i]
      /\ t[n + 1] = e
  OBVIOUS
<1>2. DOMAIN s = 1 .. n /\ DOMAIN t = 1 .. n + 1
  BY <1>1, LenProperties
<1> HIDE DEF t, n
<1>3. /\ \A i \in 1 .. n + 1 : i \in 1 .. n \/ i = n + 1
      /\ \A i \in 1 .. n : i \in 1 .. n + 1
      /\ n + 1 \in 1 .. n + 1
  BY <1>1
<1>4. Range(t) = Range(s) \union {e}
  <2>1. ASSUME NEW x \in Range(t) PROVE x \in Range(s) \union {e}
    <3>1. PICK i \in 1 .. n + 1 : t[i] = x
      BY <1>2 DEF Range
    <3> QED
      BY <1>1, <1>2, <1>3, <3>1 DEF Range
  <2>2. ASSUME NEW x \in Range(s) PROVE x \in Range(t)
    <3>1. PICK i \in 1 .. n : s[i] = x
      BY <1>2 DEF Range
    <3> QED
      BY <1>1, <1>2, <1>3, <3>1 DEF Range
  <2>3. e \in Range(t)
    BY <1>1, <1>2, <1>3 DEF Range
  <2> QED
    BY <2>1, <2>2, <2>3
<1>5. ASSUME Distinct(s), e \notin Range(s) PROVE Distinct(t)
  <2>1. \A i, j \in 1 .. n : s[i] = s[j] => i = j
    BY <1>5 DEF Distinct, n
  <2>2. \A i \in 1 .. n : s[i] # e
    BY <1>2, <1>5 DEF Range
  <2>3. \A i, j \in 1 .. n + 1 : t[i] = t[j] => i = j
    BY <1>1, <1>3, <2>1, <2>2
  <2> QED
    BY <1>1, <2>3 DEF Distinct
<1>6. t # <<>>
  BY <1>1
<1> QED
  BY <1>1, <1>4, <1>5, <1>6 DEF t, n

\* Two sequences are equal if they have the same length and the same elements.
LEMMA SameSeq ==
  ASSUME NEW T, NEW s \in Seq(T), NEW U, NEW t \in Seq(U), Len(s) = Len(t),
         \A i \in 1 .. Len(s) : s[i] = t[i]
  PROVE  s = t
<1>1. s = [i \in 1 .. Len(s) |-> s[i]] /\ t = [i \in 1 .. Len(t) |-> t[i]]
  BY LenProperties
<1> QED
  BY <1>1

LEMMA Joined ==
  ASSUME NEW T, NEW s \in Seq(T), NEW t \in Seq(T)
  PROVE  /\ s \o t \in Seq(T) /\ Len(s \o t) = Len(s) + Len(t)
         /\ Len(s) \in Nat /\ Len(t) \in Nat
         /\ \A i \in 1 .. Len(s) : (s \o t)[i] = s[i]
         /\ \A i \in 1 .. Len(t) : (s \o t)[Len(s) + i] = t[i]
OBVIOUS

\* Moving the first element of a sequence to the end of the one before it.
LEMMA MovesOver ==
  ASSUME NEW T, NEW s \in Seq(T), NEW t \in Seq(T), t # <<>>
  PROVE  Append(s, Head(t)) \o Tail(t) = s \o t
<1> DEFINE a == Append(s, Head(t))
           r == Tail(t)
           u == a \o r
           v == s \o t
           n == Len(s)
           m == Len(t)
<1>1. /\ n \in Nat /\ m \in Nat /\ m >= 1 /\ t[1] = Head(t) /\ Head(t) \in T
      /\ r \in Seq(T) /\ Len(r) = m - 1 /\ \A i \in 1 .. m - 1 : r[i] = t[i + 1]
  BY LeavesFirst
<1>2. /\ a \in Seq(T) /\ Len(a) = n + 1
      /\ \A i \in 1 .. n : a[i] = s[i]
      /\ a[n + 1] = Head(t)
  BY <1>1
<1> HIDE DEF a, r
<1>3. /\ u \in Seq(T) /\ Len(u) = Len(a) + Len(r)
      /\ \A i \in 1 .. Len(a) : u[i] = a[i]
      /\ \A i \in 1 .. Len(r) : u[Len(a) + i] = r[i]
  <2>1. a \in Seq(T) /\ r \in Seq(T)
    BY <1>1, <1>2
  <2> QED
    BY <2>1, Joined
<1>4. /\ v \in Seq(T) /\ Len(v) = n + m
      /\ \A i \in 1 .. n : v[i] = s[i]
      /\ \A i \in 1 .. m : v[n + i] = t[i]
  BY Joined
<1> HIDE DEF u, v, n, m
<1>5. Len(u) = n + m
  BY <1>1, <1>2, <1>3
<1>6. ASSUME NEW i \in 1 .. n + m PROVE u[i] = v[i]
  <2>1. CASE i \in 1 .. n
    <3>1. i \in 1 .. n + 1
      BY <1>1, <2>1
    <3> QED
      BY <1>2, <1>3, <1>4, <2>1, <3>1
  <2>2. CASE i = n + 1
    <3>1. 1 \in 1 .. m /\ n + 1 \in 1 .. n + 1
      BY <1>1
    <3> QED
      BY <1>1, <1>2, <1>3, <1>4, <2>2, <3>1
  <2>3. CASE i \in n + 2 .. n + m
    <3>1. i - (n + 1) \in 1 .. m - 1 /\ (n + 1) + (i - (n + 1)) = i
      BY <1>1, <2>3
    <3>2. u[i] = r[i - (n + 1)]
      BY <1>1, <1>2, <1>3, <3>1
    <3>3. i - n \in 1 .. m /\ n + (i - n) = i /\ (i - (n + 1)) + 1 = i - n
      BY <1>1, <2>3
    <3>4. v[i] = t[i - n] /\ r[i - (n + 1)] = t[i - n]
      BY <1>1, <1>4, <3>1, <3>3
    <3> QED
      BY <3>2, <3>4
  <2> QED
    BY <1>1, <2>1, <2>2, <2>3
<1> QED
  <2>1. u = v
    BY <1>3, <1>4, <1>5, <1>6, SameSeq
  <2> QED
    BY <2>1 DEF u, v, a, r

\* Taking the first element of the first of two sequences.
LEMMA TakesFirst ==
  ASSUME NEW T, NEW s \in Seq(T), NEW t \in Seq(T), s # <<>>
  PROVE  /\ s \o t \in Seq(T) /\ s \o t # <<>> /\ Head(s \o t) = Head(s)
         /\ Tail(s \o t) = Tail(s) \o t
<1> DEFINE v == s \o t
           w == Tail(v)
           r == Tail(s)
           u == r \o t
           n == Len(s)
           m == Len(t)
<1>1. /\ n \in Nat /\ n >= 1 /\ s[1] = Head(s) /\ Head(s) \in T
      /\ r \in Seq(T) /\ Len(r) = n - 1 /\ \A i \in 1 .. n - 1 : r[i] = s[i + 1]
  BY LeavesFirst
<1>2. /\ v \in Seq(T) /\ Len(v) = n + m /\ m \in Nat
      /\ \A i \in 1 .. n : v[i] = s[i]
      /\ \A i \in 1 .. m : v[n + i] = t[i]
  BY Joined
<1> HIDE DEF r
<1>3. /\ u \in Seq(T) /\ Len(u) = n - 1 + m
      /\ \A i \in 1 .. n - 1 : u[i] = r[i]
      /\ \A i \in 1 .. m : u[n - 1 + i] = t[i]
  <2>1. /\ u \in Seq(T) /\ Len(u) = Len(r) + m /\ Len(r) = n - 1
        /\ \A i \in 1 .. Len(r) : u[i] = r[i]
        /\ \A i \in 1 .. m : u[Len(r) + i] = t[i]
    <3>0. r \in Seq(T)
      BY <1>1
    <3>1. Len(r) = n - 1
      BY <1>1
    <3>2. /\ r \o t \in Seq(T) /\ Len(r \o t) = Len(r) + Len(t)
          /\ \A i \in 1 .. Len(r) : (r \o t)[i] = r[i]
          /\ \A i \in 1 .. Len(t) : (r \o t)[Len(r) + i] = t[i]
      BY <3>0, Joined
    <3> HIDE DEF n
    <3> QED
      BY <3>0, <3>1, <3>2
  <2> HIDE DEF u, n, m
  <2> QED
    BY <1>1, <2>1
<1> HIDE DEF v
<1>4. v # <<>>
  BY <1>1, <1>2
<1>5. /\ w \in Seq(T) /\ Len(w) = n + m - 1 /\ v[1] = Head(v)
      /\ \A i \in 1 .. n + m - 1 : w[i] = v[i + 1]
  BY <1>2, <1>4, LeavesFirst
<1> HIDE DEF u, w, n, m
<1>6. ASSUME NEW i \in 1 .. n + m - 1 PROVE u[i] = w[i]
  <2>1. CASE i \in 1 .. n - 1
    <3>1. i + 1 \in 1 .. n
      BY <1>1, <2>1
    <3> QED
      BY <1>1, <1>2, <1>3, <1>5, <2>1, <3>1
  <2>2. CASE i \in n .. n + m - 1
    <3>1. i - n + 1 \in 1 .. m /\ n - 1 + (i - n + 1) = i /\ n + (i - n + 1) = i + 1
      BY <1>1, <1>2, <2>2
    <3>2. u[i] = t[i - n + 1]
      BY <1>3, <3>1
    <3>3. v[i + 1] = t[i - n + 1]
      BY <1>2, <3>1
    <3> QED
      BY <1>5, <3>2, <3>3
  <2> QED
    BY <1>1, <1>2, <2>1, <2>2
<1>7. Len(u) = n + m - 1 /\ Len(w) = n + m - 1
  BY <1>1, <1>2, <1>3, <1>5
<1>8. u = w
  BY <1>3, <1>5, <1>6, <1>7, SameSeq
<1>9. Head(v) = Head(s)
  <2>1. 1 \in 1 .. n
    BY <1>1
  <2> QED
    BY <1>1, <1>2, <1>5, <2>1
<1> QED
  BY <1>2, <1>4, <1>8, <1>9 DEF u, v, w, r

-----------------------------------------------------------------------------
(* What a client has sent and the IO thread has not yet taken.             *)

\* The messages k + 1 .. m, each as two halves of its length and its body, less the
\* halves of the first that have been taken already.
Stream(k, m, taken) ==
  [i \in 1 .. 3 * (m - k) - taken |->
     IF (i + taken) % 3 = 0 THEN k + ((i + taken) \div 3) ELSE Half]

LEMMA StreamType ==
  ASSUME NEW m \in Nat, NEW k \in 0 .. m, NEW taken \in {0, 2}, taken = 2 => k < m
  PROVE  /\ 3 * (m - k) - taken \in Nat
         /\ Stream(k, m, taken) \in Seq(0 .. m)
         /\ Len(Stream(k, m, taken)) = 3 * (m - k) - taken
         /\ \A i \in 1 .. 3 * (m - k) - taken :
              Stream(k, m, taken)[i] = IF (i + taken) % 3 = 0 THEN k + ((i + taken) \div 3) ELSE Half
<1> DEFINE n == 3 * (m - k) - taken
           s == Stream(k, m, taken)
<1>1. n \in Nat
  OBVIOUS
<1>2. ASSUME NEW i \in 1 .. n
      PROVE  (IF (i + taken) % 3 = 0 THEN k + ((i + taken) \div 3) ELSE Half) \in 0 .. m
  <2>1. (i + taken) \div 3 \in Nat /\ (i + taken) \div 3 <= m - k
    <3>1. i \in Nat /\ i + taken \in Nat /\ i + taken <= 3 * (m - k)
      OBVIOUS
    <3> DEFINE x == i + taken
               y == m - k
    <3>2. x \in Nat /\ y \in Nat /\ x <= 3 * y
      BY <3>1
    <3> HIDE DEF x, y
    <3>3. x \div 3 \in Nat /\ x \div 3 <= y
      BY <3>2
    <3> QED
      BY <3>3 DEF x, y
  <2> DEFINE q == (i + taken) \div 3
  <2> HIDE DEF q
  <2>2. k + q \in 0 .. m
    BY <2>1 DEF q
  <2> QED
    BY <2>2 DEF Half, q
<1>3. s = [i \in 1 .. n |-> IF (i + taken) % 3 = 0 THEN k + ((i + taken) \div 3) ELSE Half]
  BY DEF Stream
<1>4. /\ s \in [1 .. n -> 0 .. m]
      /\ \A i \in 1 .. n :
           s[i] = IF (i + taken) % 3 = 0 THEN k + ((i + taken) \div 3) ELSE Half
  BY <1>2, <1>3
<1> HIDE DEF n, s
<1>5. s \in Seq(0 .. m) /\ Len(s) = n
  BY <1>1, <1>4
<1> QED
  BY <1>1, <1>4, <1>5 DEF n, s

LEMMA StreamWhole ==
  ASSUME NEW m \in Nat, NEW k \in 0 .. m
  PROVE  /\ Stream(k, m, 0) \in Seq(0 .. m) /\ Len(Stream(k, m, 0)) = 3 * (m - k)
         /\ \A i \in 1 .. 3 * (m - k) :
              Stream(k, m, 0)[i] = IF i % 3 = 0 THEN k + (i \div 3) ELSE Half
<1> DEFINE taken == 0
           n == 3 * (m - k)
<1>1. taken \in {0, 2} /\ (taken = 2 => k < m) /\ n - taken = n /\ n \in Nat
  OBVIOUS
<1>2. \A i \in Nat : i + taken = i
  OBVIOUS
<1> HIDE DEF taken
<1>3. /\ Stream(k, m, taken) \in Seq(0 .. m) /\ Len(Stream(k, m, taken)) = n - taken
      /\ \A i \in 1 .. n - taken :
           Stream(k, m, taken)[i] = IF (i + taken) % 3 = 0 THEN k + ((i + taken) \div 3) ELSE Half
  BY <1>1, StreamType
<1> HIDE DEF n
<1> QED
  BY <1>1, <1>2, <1>3 DEF taken, n

\* The bodies in it are the messages that are still to come, in their order.
LEMMA BodiesOfStream ==
  ASSUME NEW m \in Nat, NEW k \in 0 .. m, NEW taken \in {0, 2}, taken = 2 => k < m
  PROVE  Bodies(Stream(k, m, taken)) = [j \in 1 .. m - k |-> k + j]
<1> DEFINE s == Stream(k, m, taken)
           n == 3 * (m - k) - taken
           N == m - k
           P == Places(s, Nat \ {Half})
           f == [j \in 1 .. N |-> 3 * j - taken]
<1>1. /\ n \in Nat /\ s \in Seq(0 .. m) /\ Len(s) = n
      /\ \A i \in 1 .. n :
           s[i] = IF (i + taken) % 3 = 0 THEN k + ((i + taken) \div 3) ELSE Half
  BY StreamType
<1> HIDE DEF s
<1>2. \A i \in 1 .. n : i \in P <=> (i + taken) % 3 = 0
  <2> SUFFICES ASSUME NEW i \in 1 .. n PROVE i \in P <=> (i + taken) % 3 = 0
    OBVIOUS
  <2>1. i \in P <=> s[i] \in Nat \ {Half}
    BY <1>1 DEF Places
  <2>2. CASE (i + taken) % 3 = 0
    <3> DEFINE x == i + taken
               q == x \div 3
    <3>1. x \in Nat /\ x >= 1 /\ x % 3 = 0
      BY <2>2
    <3> HIDE DEF x
    <3>2. q \in Nat /\ q >= 1
      BY <3>1
    <3> HIDE DEF q
    <3>3. s[i] = k + q
      BY <1>1, <2>2 DEF x, q
    <3> QED
      BY <2>1, <2>2, <3>2, <3>3 DEF Half
  <2>3. CASE (i + taken) % 3 # 0
    BY <1>1, <2>1, <2>3
  <2> QED
    BY <2>2, <2>3
<1>3. \A i \in P : i \in 1 .. n
  BY <1>1 DEF Places
<1> HIDE DEF P
<1>4. ASSUME NEW j \in 1 .. N
      PROVE  /\ 3 * j - taken \in 1 .. n
             /\ ((3 * j - taken) + taken) % 3 = 0 /\ ((3 * j - taken) + taken) \div 3 = j
  OBVIOUS
<1>5. f \in [1 .. N -> P] /\ \A j \in 1 .. N : f[j] = 3 * j - taken
  BY <1>2, <1>4
<1> HIDE DEF f, n
<1>6. \A a, b \in 1 .. N : a < b => f[a] < f[b]
  BY <1>5
<1>7. ASSUME NEW i \in P PROVE \E j \in 1 .. N : f[j] = i
  <2>1. i \in 1 .. n /\ (i + taken) % 3 = 0
    BY <1>2, <1>3
  <2> DEFINE x == i + taken
             q == x \div 3
  <2>2. x \in Nat /\ x >= 1 /\ x <= 3 * N /\ x % 3 = 0 /\ N \in Nat /\ i = x - taken
    BY <2>1 DEF n
  <2> HIDE DEF x, N
  <2>3. q \in 1 .. N /\ 3 * q = x
    BY <2>2
  <2> HIDE DEF q
  <2>4. f[q] = 3 * q - taken
    BY <1>5, <2>3
  <2> QED
    BY <2>2, <2>3, <2>4
<1>8. Enumerates(f, N, P) /\ N \in Nat
  BY <1>5, <1>6, <1>7 DEF Enumerates
<1>9. Bodies(s) = [j \in 1 .. N |-> s[f[j]]]
  <2> HIDE DEF N
  <2> QED
    BY <1>1, <1>8, PickedIs DEF P, Bodies
<1>10. \A j \in 1 .. N : s[f[j]] = k + j
  <2> SUFFICES ASSUME NEW j \in 1 .. N PROVE s[f[j]] = k + j
    OBVIOUS
  <2>1. f[j] = 3 * j - taken
    BY <1>5
  <2>2. 3 * j - taken \in 1 .. n /\ ((3 * j - taken) + taken) % 3 = 0
        /\ ((3 * j - taken) + taken) \div 3 = j
    BY <1>4 DEF n
  <2> DEFINE i == 3 * j - taken
  <2> HIDE DEF i
  <2>3. i \in 1 .. n /\ (i + taken) % 3 = 0 /\ (i + taken) \div 3 = j
    BY <2>2 DEF i
  <2>4. s[i] = k + j
    BY <1>1, <2>3 DEF n
  <2> QED
    BY <2>1, <2>4 DEF i
<1> QED
  BY <1>9, <1>10 DEF s

\* ExternalIOClient.send adds a message at the end.
LEMMA StreamGrows ==
  ASSUME NEW m \in Nat, NEW k \in 0 .. m, NEW taken \in {0, 2}, taken = 2 => k < m
  PROVE  Stream(k, m, taken) \o Framed(m + 1) = Stream(k, m + 1, taken)
<1> DEFINE s == Stream(k, m, taken)
           t == Stream(k, m + 1, taken)
           n == 3 * (m - k) - taken
           z == Framed(m + 1)
           u == s \o z
<1>1. /\ n \in Nat /\ s \in Seq(Nat) /\ Len(s) = n
      /\ \A i \in 1 .. n :
           s[i] = IF (i + taken) % 3 = 0 THEN k + ((i + taken) \div 3) ELSE Half
  <2>1. /\ n \in Nat /\ s \in Seq(0 .. m) /\ Len(s) = n
        /\ \A i \in 1 .. n :
             s[i] = IF (i + taken) % 3 = 0 THEN k + ((i + taken) \div 3) ELSE Half
    BY StreamType
  <2> HIDE DEF s, n
  <2>2. 0 .. m \subseteq Nat
    OBVIOUS
  <2> QED
    BY <2>1, <2>2, SeqMonotonic
<1>2. /\ t \in Seq(0 .. m + 1) /\ Len(t) = n + 3
      /\ \A i \in 1 .. n + 3 :
           t[i] = IF (i + taken) % 3 = 0 THEN k + ((i + taken) \div 3) ELSE Half
  <2>1. m + 1 \in Nat /\ k \in 0 .. m + 1 /\ (taken = 2 => k < m + 1)
    OBVIOUS
  <2>2. 3 * ((m + 1) - k) - taken = n + 3
    OBVIOUS
  <2> DEFINE w == m + 1
  <2> HIDE DEF w
  <2>3. w \in Nat /\ k \in 0 .. w /\ (taken = 2 => k < w)
    BY <2>1 DEF w
  <2>4. /\ Stream(k, w, taken) \in Seq(0 .. w)
        /\ Len(Stream(k, w, taken)) = 3 * (w - k) - taken
        /\ \A i \in 1 .. 3 * (w - k) - taken :
             Stream(k, w, taken)[i] = IF (i + taken) % 3 = 0 THEN k + ((i + taken) \div 3) ELSE Half
    BY <2>3, StreamType
  <2> HIDE DEF n
  <2> QED
    BY <2>2, <2>4 DEF w
<1>3. /\ z \in Seq(Nat) /\ Len(z) = 3 /\ z[1] = Half /\ z[2] = Half /\ z[3] = m + 1
  BY DEF Framed, Half
<1> HIDE DEF s, t, z
<1>4. /\ u \in Seq(Nat) /\ Len(u) = n + 3
      /\ \A i \in 1 .. n : u[i] = s[i]
      /\ \A i \in 1 .. 3 : u[n + i] = z[i]
  <2>1. /\ u \in Seq(Nat) /\ Len(u) = Len(s) + Len(z)
        /\ \A i \in 1 .. Len(s) : u[i] = s[i]
        /\ \A i \in 1 .. Len(z) : u[Len(s) + i] = z[i]
    <3>1. s \in Seq(Nat) /\ z \in Seq(Nat)
      BY <1>1, <1>3
    <3> QED
      BY <3>1, Joined
  <2> HIDE DEF u, n
  <2> QED
    BY <1>1, <1>3, <2>1
<1> HIDE DEF u
<1>5. /\ (n + 1 + taken) % 3 # 0 /\ (n + 2 + taken) % 3 # 0
      /\ (n + 3 + taken) % 3 = 0 /\ k + ((n + 3 + taken) \div 3) = m + 1
  <2>1. /\ n + 1 + taken = 3 * (m - k) + 1 /\ n + 2 + taken = 3 * (m - k) + 2
        /\ n + 3 + taken = 3 * (m - k) + 3
    OBVIOUS
  <2> DEFINE y == m - k
  <2>2. y \in Nat /\ k + (y + 1) = m + 1
    OBVIOUS
  <2> HIDE DEF y
  <2>3. (3 * y + 1) % 3 # 0 /\ (3 * y + 2) % 3 # 0 /\ (3 * y + 3) % 3 = 0 /\ (3 * y + 3) \div 3 = y + 1
    BY <2>2
  <2> HIDE DEF n
  <2> QED
    BY <2>1, <2>2, <2>3 DEF y
<1> HIDE DEF n
<1>6. ASSUME NEW i \in 1 .. n + 3 PROVE u[i] = t[i]
  <2>1. i \in 1 .. n \/ i = n + 1 \/ i = n + 2 \/ i = n + 3
    BY <1>1
  <2>2. CASE i \in 1 .. n
    BY <1>1, <1>2, <1>4, <2>2
  <2>3. CASE i = n + 1
    <3>1. u[i] = Half
      BY <1>3, <1>4, <2>3
    <3> QED
      BY <1>2, <1>5, <2>3, <3>1
  <2>4. CASE i = n + 2
    <3>1. u[i] = Half
      BY <1>3, <1>4, <2>4
    <3> QED
      BY <1>2, <1>5, <2>4, <3>1
  <2>5. CASE i = n + 3
    <3>1. u[i] = m + 1
      BY <1>3, <1>4, <2>5
    <3> QED
      BY <1>2, <1>5, <2>5, <3>1
  <2> QED
    BY <2>1, <2>2, <2>3, <2>4, <2>5
<1>7. u = t
  BY <1>2, <1>4, <1>6, SameSeq
<1> QED
  BY <1>7 DEF u, s, t, z

\* _recvData takes the length of the next message, and then its body.
LEMMA StreamShrinks ==
  ASSUME NEW m \in Nat, NEW k \in 0 .. m, k < m
  PROVE  /\ Tail(Tail(Stream(k, m, 0))) = Stream(k, m, 2)
         /\ Head(Stream(k, m, 2)) = k + 1
         /\ Tail(Stream(k, m, 2)) = Stream(k + 1, m, 0)
<1> DEFINE s == Stream(k, m, 0)
           t == Stream(k, m, 2)
           u == Stream(k + 1, m, 0)
           n == 3 * (m - k)
<1>1. /\ n \in Nat /\ n >= 3 /\ s \in Seq(0 .. m) /\ Len(s) = n
      /\ \A i \in 1 .. n : s[i] = IF i % 3 = 0 THEN k + (i \div 3) ELSE Half
  <2>1. n \in Nat /\ n >= 3
    OBVIOUS
  <2> QED
    BY <2>1, StreamWhole
<1>2. /\ t \in Seq(0 .. m) /\ Len(t) = n - 2
      /\ \A i \in 1 .. n - 2 : t[i] = IF (i + 2) % 3 = 0 THEN k + ((i + 2) \div 3) ELSE Half
  BY StreamType
<1>3. /\ u \in Seq(0 .. m) /\ Len(u) = n - 3
      /\ \A i \in 1 .. n - 3 : u[i] = IF i % 3 = 0 THEN (k + 1) + (i \div 3) ELSE Half
  <2> DEFINE w == k + 1
  <2>1. w \in 0 .. m /\ w = k + 1 /\ u = Stream(w, m, 0)
    OBVIOUS
  <2> HIDE DEF w
  <2>2. /\ Stream(w, m, 0) \in Seq(0 .. m) /\ Len(Stream(w, m, 0)) = 3 * (m - w)
        /\ \A i \in 1 .. 3 * (m - w) :
             Stream(w, m, 0)[i] = IF i % 3 = 0 THEN w + (i \div 3) ELSE Half
    BY <2>1, StreamWhole
  <2>3. n - 3 \in Nat /\ 3 * (m - w) = n - 3
    BY <1>1 DEF w
  <2> HIDE DEF n, u
  <2> QED
    BY <2>1, <2>2, <2>3
<1> HIDE DEF s, t, u, n
<1>4. /\ Tail(s) \in Seq(0 .. m) /\ Len(Tail(s)) = n - 1
      /\ \A i \in 1 .. n - 1 : Tail(s)[i] = s[i + 1]
  <2>1. s # <<>>
    BY <1>1
  <2> QED
    BY <1>1, <2>1, LeavesFirst
<1> DEFINE r == Tail(s)
<1> HIDE DEF r
<1>5. /\ Tail(r) \in Seq(0 .. m) /\ Len(Tail(r)) = n - 2
      /\ \A i \in 1 .. n - 2 : Tail(r)[i] = r[i + 1]
  <2>1. r # <<>> /\ r \in Seq(0 .. m) /\ Len(r) = n - 1
    <3>1. r \in Seq(0 .. m) /\ Len(r) = n - 1 /\ n - 1 # 0
      BY <1>1, <1>4 DEF r
    <3> QED
      BY <3>1
  <2>2. /\ Tail(r) \in Seq(0 .. m) /\ Len(Tail(r)) = Len(r) - 1
        /\ \A i \in 1 .. Len(r) - 1 : Tail(r)[i] = r[i + 1]
    BY <2>1, LeavesFirst
  <2> QED
    BY <1>1, <2>1, <2>2
<1>6. ASSUME NEW i \in 1 .. n - 2 PROVE Tail(r)[i] = t[i]
  <2>1. i + 1 \in 1 .. n - 1 /\ i + 2 \in 1 .. n /\ (i + 1) + 1 = i + 2
    BY <1>1
  <2>2. Tail(r)[i] = r[i + 1] /\ r[i + 1] = s[i + 2]
    BY <1>4, <1>5, <2>1 DEF r
  <2>3. s[i + 2] = IF (i + 2) % 3 = 0 THEN k + ((i + 2) \div 3) ELSE Half
    BY <1>1, <2>1
  <2> QED
    BY <1>2, <2>2, <2>3
<1>7. Tail(r) = t
  BY <1>2, <1>5, <1>6, SameSeq
<1>8. /\ t # <<>> /\ Head(t) = t[1] /\ Tail(t) \in Seq(0 .. m) /\ Len(Tail(t)) = n - 3
      /\ \A i \in 1 .. n - 3 : Tail(t)[i] = t[i + 1]
  <2>1. t # <<>>
    BY <1>1, <1>2
  <2>2. /\ t[1] = Head(t) /\ Tail(t) \in Seq(0 .. m) /\ Len(Tail(t)) = Len(t) - 1
        /\ \A i \in 1 .. Len(t) - 1 : Tail(t)[i] = t[i + 1]
    BY <1>2, <2>1, LeavesFirst
  <2> QED
    BY <1>1, <1>2, <2>1, <2>2
<1>9. t[1] = k + 1
  <2>1. 1 \in 1 .. n - 2 /\ (1 + 2) % 3 = 0 /\ (1 + 2) \div 3 = 1
    BY <1>1
  <2> QED
    BY <1>2, <2>1
<1>10. ASSUME NEW i \in 1 .. n - 3 PROVE Tail(t)[i] = u[i]
  <2>1. i + 1 \in 1 .. n - 2 /\ (i + 1) + 2 = i + 3 /\ i \in Nat
    BY <1>1
  <2>2. ((i + 3) % 3 = 0 <=> i % 3 = 0) /\ (i + 3) \div 3 = (i \div 3) + 1 /\ i \div 3 \in Nat
    BY <2>1
  <2>3. t[i + 1] = IF (i + 3) % 3 = 0 THEN k + ((i + 3) \div 3) ELSE Half
    BY <1>2, <2>1
  <2> DEFINE q == i \div 3
  <2> HIDE DEF q
  <2>4. k + (q + 1) = (k + 1) + q
    BY <2>2 DEF q
  <2>5. Tail(t)[i] = t[i + 1]
    BY <1>8
  <2>6. u[i] = IF i % 3 = 0 THEN (k + 1) + q ELSE Half
    BY <1>3 DEF q
  <2> QED
    BY <2>2, <2>3, <2>4, <2>5, <2>6 DEF q
<1>11. Tail(t) = u
  BY <1>3, <1>8, <1>10, SameSeq
<1> QED
  BY <1>7, <1>8, <1>9, <1>11 DEF s, t, u, r

-----------------------------------------------------------------------------
(* What one client has in the queue.                                       *)

Seconds(q, c) == LET mine == Picked(q, {c} \X Nat) IN [i \in 1 .. Len(mine) |-> mine[i][2]]

LEMMA SecondsType ==
  ASSUME NEW C, NEW q \in Seq(C \X Nat), NEW c
  PROVE  Seconds(q, c) \in Seq(Nat) /\ Len(Seconds(q, c)) = Len(Picked(q, {c} \X Nat))
<1> DEFINE mine == Picked(q, {c} \X Nat)
           s == Seconds(q, c)
<1>1. mine \in Seq({c} \X Nat)
  BY PickedSeq
<1>2. s = [i \in 1 .. Len(mine) |-> mine[i][2]]
  BY DEF Seconds
<1> HIDE DEF mine, s
<1>3. Len(mine) \in Nat /\ \A i \in 1 .. Len(mine) : mine[i][2] \in Nat
  <2>1. \A i \in 1 .. Len(mine) : mine[i] \in {c} \X Nat
    BY <1>1, ElementOfSeq
  <2> QED
    BY <1>1, <2>1
<1> DEFINE n == Len(mine)
<1>4. s = [i \in 1 .. n |-> mine[i][2]] /\ n \in Nat /\ \A i \in 1 .. n : mine[i][2] \in Nat
  BY <1>2, <1>3
<1> HIDE DEF n
<1>5. s \in Seq(Nat) /\ Len(s) = n
  BY <1>4
<1> QED
  BY <1>5 DEF mine, s, n

\* What is added for another client changes nothing.
LEMMA SecondsOther ==
  ASSUME NEW C, NEW q \in Seq(C \X Nat), NEW e \in C \X Nat, NEW c, c # e[1]
  PROVE  Seconds(Append(q, e), c) = Seconds(q, c)
<1> DEFINE S == {c} \X Nat
           mine == Picked(q, S)
           q2 == Append(q, e)
           mine2 == Picked(q2, S)
           s == Seconds(q, c)
           s2 == Seconds(q2, c)
<1>1. e \in S <=> c = e[1]
  OBVIOUS
<1>2. q2 \in Seq(C \X Nat)
  OBVIOUS
<1>3. mine2 = IF e \in S THEN Append(mine, e) ELSE mine
  <2> HIDE DEF S
  <2> QED
    BY PickedAppend
<1>4. /\ s = [i \in 1 .. Len(mine) |-> mine[i][2]] /\ s \in Seq(Nat) /\ Len(s) = Len(mine)
      /\ s2 = [i \in 1 .. Len(mine2) |-> mine2[i][2]] /\ s2 \in Seq(Nat) /\ Len(s2) = Len(mine2)
  <2>1. s \in Seq(Nat) /\ Len(s) = Len(mine)
    BY SecondsType
  <2> HIDE DEF q2
  <2>2. s2 \in Seq(Nat) /\ Len(s2) = Len(mine2)
    BY <1>2, SecondsType
  <2> QED
    BY <2>1, <2>2 DEF Seconds
<1> HIDE DEF mine, mine2, s, s2, q2
<1> QED
  BY <1>1, <1>3, <1>4 DEF s, s2, q2

LEMMA SecondsAppend ==
  ASSUME NEW C, NEW q \in Seq(C \X Nat), NEW e \in C \X Nat, NEW c, c = e[1]
  PROVE  Seconds(Append(q, e), c) = Append(Seconds(q, c), e[2])
<1> DEFINE S == {c} \X Nat
           mine == Picked(q, S)
           q2 == Append(q, e)
           mine2 == Picked(q2, S)
           s == Seconds(q, c)
           s2 == Seconds(q2, c)
           x == e[2]
<1>1. e \in S <=> c = e[1]
  OBVIOUS
<1>2. q2 \in Seq(C \X Nat)
  OBVIOUS
<1>3. mine2 = IF e \in S THEN Append(mine, e) ELSE mine
  <2> HIDE DEF S
  <2> QED
    BY PickedAppend
<1>4. /\ s = [i \in 1 .. Len(mine) |-> mine[i][2]] /\ s \in Seq(Nat) /\ Len(s) = Len(mine)
      /\ s2 = [i \in 1 .. Len(mine2) |-> mine2[i][2]] /\ s2 \in Seq(Nat) /\ Len(s2) = Len(mine2)
  <2>1. s \in Seq(Nat) /\ Len(s) = Len(mine)
    BY SecondsType
  <2> HIDE DEF q2
  <2>2. s2 \in Seq(Nat) /\ Len(s2) = Len(mine2)
    BY <1>2, SecondsType
  <2> QED
    BY <2>1, <2>2 DEF Seconds
<1>5. mine \in Seq(S)
  BY PickedSeq
<1>6. x \in Nat /\ e[2] = x
  OBVIOUS
<1> HIDE DEF mine, mine2, s, s2, q2, x
<1>7. s2 = Append(s, x)
  <2>1. e \in S /\ mine2 = Append(mine, e)
    BY <1>1, <1>3
  <2>2. /\ Len(mine) \in Nat /\ Len(mine2) = Len(mine) + 1
        /\ \A i \in 1 .. Len(mine) : mine2[i] = mine[i]
        /\ mine2[Len(mine) + 1] = e
    <3> HIDE DEF S
    <3> QED
      BY <1>5, <2>1
  <2> DEFINE n == Len(mine)
             t == Append(s, x)
  <2>3. t \in Seq(Nat) /\ Len(t) = n + 1 /\ (\A i \in 1 .. n : t[i] = s[i]) /\ t[n + 1] = x
    BY <1>4, <1>6
  <2> HIDE DEF n, t
  <2>4. ASSUME NEW i \in 1 .. n + 1 PROVE s2[i] = t[i]
    <3>1. CASE i = n + 1
      BY <1>4, <1>6, <2>2, <2>3, <3>1 DEF n
    <3>2. CASE i \in 1 .. n
      BY <1>4, <2>2, <2>3, <3>2 DEF n
    <3> QED
      BY <2>2, <3>1, <3>2 DEF n
  <2>5. s2 = t
    <3>1. Len(s2) = n + 1
      BY <1>4, <2>2 DEF n
    <3> QED
      BY <1>4, <2>3, <2>4, <3>1, SameSeq
  <2> QED
    BY <2>5 DEF t
<1> QED
  BY <1>7 DEF s, s2, q2, x

LEMMA SecondsTail ==
  ASSUME NEW C, NEW q \in Seq(C \X Nat), q # <<>>, NEW c
  PROVE  /\ Head(q)[1] = c => /\ Seconds(q, c) # <<>> /\ Head(Seconds(q, c)) = Head(q)[2]
                              /\ Seconds(Tail(q), c) = Tail(Seconds(q, c))
         /\ Head(q)[1] # c => Seconds(Tail(q), c) = Seconds(q, c)
<1> DEFINE S == {c} \X Nat
           mine == Picked(q, S)
           q2 == Tail(q)
           mine2 == Picked(q2, S)
           s == Seconds(q, c)
           s2 == Seconds(q2, c)
<1>1. q2 \in Seq(C \X Nat) /\ Head(q) \in C \X Nat
  BY LeavesFirst
<1>2. Head(q) \in S <=> Head(q)[1] = c
  BY <1>1
<1>3. /\ Head(q) \in S => mine # <<>> /\ mine[1] = Head(q) /\ mine2 = Tail(mine)
      /\ Head(q) \notin S => mine = mine2
  <2> HIDE DEF S
  <2> QED
    BY PickedFirst
<1>4. /\ s = [i \in 1 .. Len(mine) |-> mine[i][2]] /\ s \in Seq(Nat) /\ Len(s) = Len(mine)
      /\ s2 = [i \in 1 .. Len(mine2) |-> mine2[i][2]] /\ s2 \in Seq(Nat) /\ Len(s2) = Len(mine2)
  <2>1. s \in Seq(Nat) /\ Len(s) = Len(mine)
    BY SecondsType
  <2> HIDE DEF q2
  <2>2. s2 \in Seq(Nat) /\ Len(s2) = Len(mine2)
    BY <1>1, SecondsType
  <2> QED
    BY <2>1, <2>2 DEF Seconds
<1>5. mine \in Seq(S)
  BY PickedSeq
<1> HIDE DEF mine, mine2, s, s2, q2
<1>6. CASE Head(q)[1] # c
  BY <1>2, <1>3, <1>4, <1>6 DEF s, s2, q2
<1>7. CASE Head(q)[1] = c
  <2> DEFINE n == Len(mine)
             t == Tail(s)
  <2>1. mine # <<>> /\ mine[1] = Head(q) /\ mine2 = Tail(mine)
    BY <1>2, <1>3, <1>7
  <2>2. /\ n \in Nat /\ n >= 1 /\ Len(mine2) = n - 1
        /\ \A i \in 1 .. n - 1 : mine2[i] = mine[i + 1]
    <3> HIDE DEF S
    <3> QED
      BY <1>5, <2>1, LeavesFirst
  <2> HIDE DEF n
  <2>3. Len(s) = n
    BY <1>4 DEF n
  <2>4. s # <<>>
    <3>1. Len(s) # 0
      BY <2>2, <2>3
    <3> QED
      BY <3>1, EmptySeq
  <2>5. /\ s[1] = Head(s) /\ t \in Seq(Nat) /\ Len(t) = n - 1
        /\ \A i \in 1 .. n - 1 : t[i] = s[i + 1]
    <3>1. s \in Seq(Nat)
      BY <1>4
    <3>2. /\ s[1] = Head(s) /\ t \in Seq(Nat) /\ Len(t) = Len(s) - 1
          /\ \A i \in 1 .. Len(s) - 1 : t[i] = s[i + 1]
      BY <2>4, <3>1, LeavesFirst
    <3> QED
      BY <2>3, <3>2
  <2> HIDE DEF t
  <2>6. Head(s) = Head(q)[2]
    <3>1. 1 \in 1 .. n
      BY <2>2
    <3>2. s[1] = mine[1][2]
      BY <1>4, <3>1 DEF n
    <3> QED
      BY <2>1, <2>5, <3>2
  <2>7. ASSUME NEW i \in 1 .. n - 1 PROVE s2[i] = t[i]
    <3>1. i + 1 \in 1 .. n
      BY <2>2
    <3>2. s[i + 1] = mine[i + 1][2]
      BY <1>4, <3>1 DEF n
    <3>3. s2[i] = mine2[i][2]
      BY <1>4, <2>2
    <3> QED
      BY <2>2, <2>5, <3>2, <3>3
  <2>8. s2 = t
    <3>1. Len(s2) = n - 1
      BY <1>4, <2>2
    <3> QED
      BY <1>4, <2>5, <2>7, <3>1, SameSeq
  <2> QED
    BY <1>7, <2>4, <2>6, <2>8 DEF s, s2, q2, t
<1> QED
  BY <1>6, <1>7


-----------------------------------------------------------------------------
(* The invariant.                                                          *)

Sockets == Clients \union {MAIN, SERVER}
Ios == [pc : {"select", "next", "send", "body", "exited"}, ready : Seq(Sockets),
        to : Seq(Clients), msg : Nat]

\* A client waits for accept, or is accepted, or was given up; the thread selects from the
\* clients it has, from the main thread and from the server.
Lists ==
  /\ clients \in Seq(Clients) /\ backlog \in Seq(Clients)
  /\ inputs = <<MAIN, SERVER>> \o clients
  /\ dropped \in SUBSET Clients /\ closed \in SUBSET Clients /\ shut \in BOOLEAN
  /\ Distinct(clients) /\ Distinct(backlog)
  /\ Range(clients) \intersect Range(backlog) = {}
  /\ Range(clients) \intersect dropped = {} /\ Range(backlog) \intersect dropped = {}

\* What the thread still has to visit of what select found.
Visits ==
  /\ io \in Ios
  /\ Distinct(io.ready) /\ Distinct(io.to)
  /\ Range(io.ready) \subseteq Range(inputs) /\ Range(io.to) \subseteq Range(clients)
  /\ io.pc \in {"next", "send", "body"} <=> io.ready # <<>>
  /\ SERVER \in Range(io.ready) => backlog # <<>>
  /\ io.pc = "body" => Head(io.ready) \in Clients
  /\ io.pc = "send" => Head(io.ready) = MAIN
  /\ io.pc # "send" => io.to = <<>>

\* The halves of a length that were taken from a client's next message.
Taken(c) == IF io.pc = "body" /\ Head(io.ready) = c THEN 2 ELSE 0

\* The first k messages of a client are with the peripheral or in the queue, the others
\* under way, unless the connection was given up.
Upward(c) ==
  \E k \in 0 .. sent[c] :
    /\ done[c] \o Seconds(queue, c) = Numbers(k)
    /\ IF c \in dropped THEN up[c] = <<>> /\ wire[c] = <<>>
       ELSE /\ up[c] \o wire[c] = Stream(k, sent[c], Taken(c))
            /\ Taken(c) = 2 => k < sent[c]

UpInv ==
  /\ sent \in [Clients -> Nat] /\ \A c \in Clients : sent[c] <= MaxUp[c]
  /\ wire \in [Clients -> Seq(Nat)] /\ up \in [Clients -> Seq(Nat)]
  /\ done \in [Clients -> Seq(Nat)] /\ queue \in Seq(Clients \X (Nat \ {0}))
  /\ \A c \in Clients : Upward(c)

\* The number of messages relayed to a client that was accepted.
Waits(c) == io.pc = "send" /\ c \in Range(io.to)
Relays(c) == made - Len(internal) - (IF Waits(c) THEN 1 ELSE 0)

Gets(c) ==
  io.pc # "exited" => got[c] = [i \in 1 .. Relays(c) - first[c] |-> first[c] + i]

\* The internal socket has the last of the messages made, the thread the one before them.
Channel ==
  /\ made \in 0 .. MaxDown /\ internal \in Seq(Nat)
  /\ Len(internal) <= Buffer /\ Len(internal) <= made
  /\ \A i \in 1 .. Len(internal) : internal[i] = made - Len(internal) + i
  /\ io.msg <= made
  /\ io.pc = "send" => io.msg = made - Len(internal) /\ io.msg >= 1

Buffers == down \in [Clients -> Seq(Nat)] /\ \A c \in Clients : Len(down[c]) <= Buffer

Clientele ==
  /\ got \in [Clients -> Seq(Nat)] /\ first \in [Clients -> Nat]
  /\ \A c \in Clients : c \notin Range(clients) \union dropped => got[c] = <<>>
  /\ \A c \in Range(clients) : first[c] <= Relays(c)
  /\ \A c \in Range(clients) \ closed : Gets(c)

DownInv == Channel /\ Buffers /\ Clientele

IInv == Lists /\ Visits /\ UpInv /\ DownInv

-----------------------------------------------------------------------------
(* The sockets of the thread.                                              *)

LEMMA PickedSame ==
  ASSUME NEW s, NEW S, NEW T, \A i \in 1 .. Len(s) : s[i] \in S <=> s[i] \in T
  PROVE  Picked(s, S) = Picked(s, T)
<1>1. Places(s, S) = Places(s, T)
  BY DEF Places
<1> QED
  BY <1>1 DEF Picked

LEMMA TwoFirst ==
  ASSUME NEW T, NEW a \in T, NEW b \in T, NEW s \in Seq(T)
  PROVE  /\ <<a, b>> \o s \in Seq(T) /\ <<a, b>> \o s # <<>>
         /\ Head(<<a, b>> \o s) = a /\ Tail(<<a, b>> \o s) # <<>>
         /\ Head(Tail(<<a, b>> \o s)) = b /\ Tail(Tail(<<a, b>> \o s)) = s
         /\ Range(<<a, b>> \o s) = {a, b} \union Range(s)
         /\ Distinct(s) /\ a \notin Range(s) /\ b \notin Range(s) /\ a # b => Distinct(<<a, b>> \o s)
<1> DEFINE z == <<a, b>>
           y == <<b>>
           w == <<>>
           v == z \o s
<1>1. /\ z \in Seq(T) /\ z # <<>> /\ Head(z) = a /\ Tail(z) = y
      /\ y \in Seq(T) /\ y # <<>> /\ Head(y) = b /\ Tail(y) = w /\ w \in Seq(T)
      /\ Len(z) = 2 /\ z[1] = a /\ z[2] = b
  OBVIOUS
<1>2. w \o s = s
  OBVIOUS
<1> HIDE DEF z, y, w
<1>3. z \o s \in Seq(T) /\ z \o s # <<>> /\ Head(z \o s) = Head(z) /\ Tail(z \o s) = Tail(z) \o s
  BY <1>1, TakesFirst
<1>4. y \o s \in Seq(T) /\ y \o s # <<>> /\ Head(y \o s) = Head(y) /\ Tail(y \o s) = Tail(y) \o s
  BY <1>1, TakesFirst
<1>5. /\ v \in Seq(T) /\ v # <<>> /\ Head(v) = a /\ Tail(v) = y \o s
      /\ Tail(v) # <<>> /\ Head(Tail(v)) = b /\ Tail(Tail(v)) = s /\ Tail(v) \in Seq(T)
  BY <1>1, <1>2, <1>3, <1>4
<1> HIDE DEF v
<1>6. Range(v) = {a} \union Range(Tail(v)) /\ Range(Tail(v)) = {b} \union Range(s)
  <2>1. v \in Seq(T) /\ v # <<>>
    BY <1>5
  <2>2. Range(v) = {Head(v)} \union Range(Tail(v))
    BY <2>1, LeavesFirst
  <2> DEFINE u == Tail(v)
  <2>3. u \in Seq(T) /\ u # <<>>
    BY <1>5
  <2> HIDE DEF u
  <2>4. Range(u) = {Head(u)} \union Range(Tail(u))
    BY <2>3, LeavesFirst
  <2> QED
    BY <1>5, <2>2, <2>4 DEF u
<1>7. ASSUME Distinct(s), a \notin Range(s), b \notin Range(s), a # b PROVE Distinct(v)
  <2> DEFINE m == Len(s)
  <2>1. m \in Nat /\ Len(v) = m + 2 /\ v[1] = a /\ v[2] = b /\ \A i \in 1 .. m : v[2 + i] = s[i]
    <3>1. Len(z \o s) = Len(z) + Len(s) /\ Len(s) \in Nat /\ (\A i \in 1 .. Len(z) : (z \o s)[i] = z[i])
          /\ (\A i \in 1 .. Len(s) : (z \o s)[Len(z) + i] = s[i])
      BY <1>1, Joined
    <3> QED
      BY <1>1, <3>1 DEF v
  <2>2. DOMAIN s = 1 .. m
    OBVIOUS
  <2> HIDE DEF m
  <2>3. \A i \in 1 .. m : s[i] # a /\ s[i] # b
    BY <1>7, <2>2 DEF Range
  <2>4. \A i, j \in 1 .. m : v[2 + i] = v[2 + j] => i = j
    BY <1>7, <2>1 DEF Distinct, m
  <2>5. \A i \in 1 .. m + 2 : i = 1 \/ i = 2 \/ \E j \in 1 .. m : i = 2 + j
    <3> SUFFICES ASSUME NEW i \in 1 .. m + 2, i # 1, i # 2 PROVE \E j \in 1 .. m : i = 2 + j
      OBVIOUS
    <3>1. i - 2 \in 1 .. m /\ i = 2 + (i - 2)
      BY <2>1
    <3> QED
      BY <3>1
  <2>6. ASSUME NEW i \in 1 .. m + 2, NEW j \in 1 .. m + 2, v[i] = v[j] PROVE i = j
    <3>1. i = 1 \/ i = 2 \/ \E k \in 1 .. m : i = 2 + k
      BY <2>5
    <3>2. j = 1 \/ j = 2 \/ \E k \in 1 .. m : j = 2 + k
      BY <2>5
    <3>3. \A k \in 1 .. m : v[2 + k] # a /\ v[2 + k] # b
      BY <2>1, <2>3
    <3>4. CASE i = 1 \/ i = 2
      BY <1>7, <2>1, <2>6, <3>2, <3>3, <3>4
    <3>5. CASE \E k \in 1 .. m : i = 2 + k
      <4>1. PICK k \in 1 .. m : i = 2 + k
        BY <3>5
      <4>2. j # 1 /\ j # 2
        BY <2>1, <2>6, <3>3, <4>1
      <4>3. PICK l \in 1 .. m : j = 2 + l
        BY <3>2, <4>2
      <4> QED
        BY <2>4, <2>6, <4>1, <4>3
    <3> QED
      BY <3>1, <3>4, <3>5
  <2> QED
    BY <2>1, <2>6 DEF Distinct
<1> QED
  BY <1>5, <1>6, <1>7 DEF v, z

LEMMA SplitTwo ==
  ASSUME NEW T, NEW r \in Seq(T), r # <<>>, Tail(r) # <<>>
  PROVE  r = <<Head(r), Head(Tail(r))>> \o Tail(Tail(r))
<1> DEFINE t == Tail(r)
           u == Tail(t)
           a == Head(r)
           b == Head(t)
           n == Len(r)
           v == <<a, b>> \o u
<1>1. /\ n \in Nat /\ n >= 1 /\ Len(t) = n - 1 /\ r[1] = a /\ a \in T /\ t \in Seq(T)
      /\ \A i \in 1 .. n - 1 : t[i] = r[i + 1]
  BY LeavesFirst
<1> HIDE DEF t, n, a
<1>2. /\ Len(u) = Len(t) - 1 /\ Len(t) >= 1 /\ t[1] = b /\ b \in T /\ u \in Seq(T)
      /\ \A i \in 1 .. Len(t) - 1 : u[i] = t[i + 1]
  <2>1. t \in Seq(T) /\ t # <<>>
    BY <1>1 DEF t
  <2> QED
    BY <2>1, LeavesFirst
<1> HIDE DEF u, b
<1>3. /\ v \in Seq(T) /\ Len(v) = 2 + Len(u) /\ v[1] = a /\ v[2] = b
      /\ \A i \in 1 .. Len(u) : v[2 + i] = u[i]
  <2> DEFINE z == <<a, b>>
  <2>1. z \in Seq(T) /\ Len(z) = 2 /\ z[1] = a /\ z[2] = b
    BY <1>1, <1>2
  <2> HIDE DEF z
  <2>2. z \o u \in Seq(T) /\ Len(z \o u) = Len(z) + Len(u) /\ (\A i \in 1 .. Len(z) : (z \o u)[i] = z[i])
        /\ (\A i \in 1 .. Len(u) : (z \o u)[Len(z) + i] = u[i])
    <3>1. z \in Seq(T) /\ u \in Seq(T)
      BY <1>2, <2>1
    <3> QED
      BY <3>1, Joined
  <2> QED
    BY <2>1, <2>2 DEF z
<1> HIDE DEF v
<1>4. Len(v) = n /\ Len(u) = n - 2 /\ n >= 2
  BY <1>1, <1>2, <1>3
<1>5. ASSUME NEW i \in 1 .. n PROVE r[i] = v[i]
  <2>1. CASE i = 1
    BY <1>1, <1>3, <2>1
  <2>2. CASE i = 2
    BY <1>1, <1>2, <1>3, <1>4, <2>2
  <2>3. CASE i > 2
    <3>1. i - 2 \in 1 .. n - 2 /\ 2 + (i - 2) = i /\ i - 1 \in 1 .. n - 1 /\ (i - 2) + 1 = i - 1 /\ (i - 1) + 1 = i
      BY <1>4, <2>3
    <3>2. v[i] = u[i - 2]
      BY <1>3, <1>4, <3>1
    <3>3. u[i - 2] = t[i - 1]
      BY <1>1, <1>2, <3>1
    <3>4. t[i - 1] = r[i]
      BY <1>1, <3>1
    <3> QED
      BY <3>2, <3>3, <3>4
  <2> QED
    BY <2>1, <2>2, <2>3
<1>6. r = v
  BY <1>3, <1>4, <1>5, SameSeq DEF n
<1> QED
  BY <1>6 DEF v, a, b, u, t

LEMMA InputsFacts ==
  ASSUME Lists
  PROVE  /\ inputs \in Seq(Sockets) /\ Distinct(inputs) /\ inputs # <<>> /\ Tail(inputs) # <<>>
         /\ Range(inputs) = {MAIN, SERVER} \union Range(clients) /\ Range(clients) \subseteq Clients
         /\ Head(inputs) = MAIN /\ Head(Tail(inputs)) = SERVER /\ Tail(Tail(inputs)) = clients
<1>1. /\ MAIN \in Sockets /\ SERVER \in Sockets /\ clients \in Seq(Sockets) /\ inputs = <<MAIN, SERVER>> \o clients
      /\ Distinct(clients) /\ MAIN # SERVER
  BY DEF Lists, Sockets, MAIN, SERVER
<1>2. Range(clients) \subseteq Clients
  BY DEF Lists, Range
<1>3. MAIN \notin Range(clients) /\ SERVER \notin Range(clients)
  BY <1>2, ExternalIOAssumption
<1> DEFINE v == <<MAIN, SERVER>> \o clients
<1>4. /\ v \in Seq(Sockets) /\ v # <<>> /\ Head(v) = MAIN /\ Tail(v) # <<>>
      /\ Head(Tail(v)) = SERVER /\ Tail(Tail(v)) = clients
      /\ Range(v) = {MAIN, SERVER} \union Range(clients)
  <2>1. MAIN \in Sockets /\ SERVER \in Sockets /\ clients \in Seq(Sockets)
    BY <1>1
  <2>2. v \in Seq(Sockets) /\ v # <<>> /\ Tail(v) # <<>>
    BY <2>1, TwoFirst
  <2>3. Head(v) = MAIN /\ Head(Tail(v)) = SERVER
    BY <2>1, TwoFirst
  <2>4. Tail(Tail(v)) = clients
    BY <2>1, TwoFirst
  <2>5. Range(v) = {MAIN, SERVER} \union Range(clients)
    BY <2>1, TwoFirst
  <2> QED
    BY <2>2, <2>3, <2>4, <2>5
<1>5. Distinct(v)
  <2>1. MAIN \in Sockets /\ SERVER \in Sockets /\ clients \in Seq(Sockets)
    BY <1>1
  <2>2. Distinct(clients) /\ MAIN \notin Range(clients) /\ SERVER \notin Range(clients) /\ MAIN # SERVER
    BY <1>1, <1>3
  <2> QED
    BY <2>1, <2>2, TwoFirst
<1>6. inputs = v
  BY <1>1
<1> HIDE DEF v
<1> QED
  BY <1>2, <1>4, <1>5, <1>6

\* Removing a client from the list of clients removes it from the inputs.
LEMMA DropInputs ==
  ASSUME Lists, NEW c \in Clients
  PROVE  Picked(inputs, Range(inputs) \ {c}) = <<MAIN, SERVER>> \o Picked(clients, Range(clients) \ {c})
<1> DEFINE S == Range(inputs) \ {c}
           t == Tail(inputs)
           r == Picked(inputs, S)
           q == Picked(t, S)
<1>1. /\ inputs \in Seq(Sockets) /\ inputs # <<>> /\ t # <<>>
      /\ Range(inputs) = {MAIN, SERVER} \union Range(clients)
      /\ Head(inputs) = MAIN /\ Head(t) = SERVER /\ Tail(t) = clients
  BY InputsFacts
<1>2. MAIN \in S /\ SERVER \in S
  BY <1>1, ExternalIOAssumption
<1>3. \A i \in 1 .. Len(clients) : clients[i] \in S <=> clients[i] \in Range(clients) \ {c}
  <2>1. \A i \in 1 .. Len(clients) : clients[i] \in Range(clients)
    BY DEF Lists, Range
  <2> QED
    BY <1>1, <2>1
<1>4. t \in Seq(Sockets)
  BY <1>1, LeavesFirst
<1> HIDE DEF S, t
<1>5. r # <<>> /\ r[1] = MAIN /\ q = Tail(r)
  BY <1>1, <1>2, PickedFirst DEF t
<1>6. q # <<>> /\ q[1] = SERVER /\ Picked(clients, S) = Tail(q)
  BY <1>1, <1>2, <1>4, PickedFirst
<1>7. r \in Seq(Sockets) /\ q \in Seq(Sockets)
  <2>1. r \in Seq(Sockets)
    BY <1>1, PickedSeq
  <2>2. q \in Seq(Sockets)
    BY <1>4, PickedSeq
  <2> QED
    BY <2>1, <2>2
<1> HIDE DEF r, q
<1>8. Head(r) = MAIN /\ Head(q) = SERVER
  <2>1. Head(r) = r[1]
    BY <1>5, <1>7, LeavesFirst
  <2>2. Head(q) = q[1]
    BY <1>6, <1>7, LeavesFirst
  <2> QED
    BY <1>5, <1>6, <2>1, <2>2
<1>9. r = <<Head(r), Head(Tail(r))>> \o Tail(Tail(r))
  BY <1>5, <1>6, <1>7, SplitTwo
<1>10. Picked(clients, S) = Picked(clients, Range(clients) \ {c})
  BY <1>3, PickedSame
<1> QED
  BY <1>5, <1>6, <1>8, <1>9, <1>10 DEF r, S

LEMMA NumbersType ==
  ASSUME NEW k \in Nat
  PROVE  /\ Numbers(k) \in Seq(Nat) /\ Len(Numbers(k)) = k
         /\ \A i \in 1 .. k : Numbers(k)[i] = i
         /\ Append(Numbers(k), k + 1) = Numbers(k + 1)
<1> DEFINE s == Numbers(k)
           t == Numbers(k + 1)
           a == Append(s, k + 1)
<1>1. s = [i \in 1 .. k |-> i] /\ t = [i \in 1 .. k + 1 |-> i]
  BY DEF Numbers
<1> HIDE DEF s, t
<1>2. s \in Seq(Nat) /\ Len(s) = k /\ \A i \in 1 .. k : s[i] = i
  BY <1>1
<1>3. t \in Seq(Nat) /\ Len(t) = k + 1 /\ \A i \in 1 .. k + 1 : t[i] = i
  BY <1>1
<1>4. a \in Seq(Nat) /\ Len(a) = k + 1 /\ (\A i \in 1 .. k : a[i] = s[i]) /\ a[k + 1] = k + 1
  BY <1>2
<1> HIDE DEF a
<1>5. ASSUME NEW i \in 1 .. k + 1 PROVE a[i] = t[i]
  <2>1. i \in 1 .. k \/ i = k + 1
    OBVIOUS
  <2> QED
    BY <1>2, <1>3, <1>4, <2>1
<1>6. a = t
  <2>1. Len(a) = Len(t) /\ \A i \in 1 .. Len(a) : a[i] = t[i]
    BY <1>3, <1>4, <1>5
  <2> QED
    BY <1>3, <1>4, <2>1, SameSeq
<1> QED
  BY <1>2, <1>6 DEF a, s, t

LEMMA NothingYet == <<>> \in Seq(Nat) /\ Len(<<>>) = 0 /\ Range(<<>>) = {} /\ Distinct(<<>>)
<1>1. Range(<<>>) = {}
  BY DEF Range
<1>2. Distinct(<<>>)
  BY DEF Distinct
<1> QED
  BY <1>1, <1>2

LEMMA NoLength ==
  ASSUME NEW T, NEW s \in Seq(T), Len(s) = 0
  PROVE  s = <<>>
BY EmptySeq

LEMMA InitInv == Init => IInv
<1> SUFFICES ASSUME Init PROVE IInv
  OBVIOUS
<1>1. Lists
  <2>1. clients = <<>> /\ backlog = <<>> /\ inputs = <<MAIN, SERVER>> /\ dropped = {} /\ closed = {} /\ shut = FALSE
    BY DEF Init
  <2>2. <<MAIN, SERVER>> = <<MAIN, SERVER>> \o <<>>
    OBVIOUS
  <2>3. clients \in Seq(Clients) /\ backlog \in Seq(Clients) /\ closed \in SUBSET Clients /\ shut \in BOOLEAN
    <3>1. <<>> \in Seq(Clients) /\ {} \in SUBSET Clients /\ FALSE \in BOOLEAN
      OBVIOUS
    <3> QED
      BY <2>1, <3>1, Zenon
  <2> QED
    BY <2>1, <2>2, <2>3, NothingYet DEF Lists
<1>2. Visits
  <2>1. io = [pc |-> "select", ready |-> <<>>, to |-> <<>>, msg |-> 0] /\ clients = <<>>
    BY DEF Init
  <2>2. io \in Ios
    BY <2>1 DEF Ios
  <2>3. io.pc = "select" /\ io.ready = <<>> /\ io.to = <<>>
    BY <2>1
  <2> QED
    BY <2>2, <2>3, NothingYet DEF Visits
<1>3. UpInv
  <2>1. /\ sent = [c \in Clients |-> 0] /\ wire = [c \in Clients |-> <<>>] /\ up = [c \in Clients |-> <<>>]
        /\ done = [c \in Clients |-> <<>>] /\ queue = <<>> /\ dropped = {} /\ io.pc = "select"
    BY DEF Init
  <2>2. \A c \in Clients : sent[c] <= MaxUp[c]
    BY <2>1, ExternalIOAssumption
  <2>3. ASSUME NEW c \in Clients PROVE Upward(c)
    <3>1. sent[c] = 0 /\ done[c] = <<>> /\ wire[c] = <<>> /\ up[c] = <<>> /\ Taken(c) = 0
      BY <2>1 DEF Taken
    <3>2. Stream(0, 0, 0) = <<>>
      <4>1. Stream(0, 0, 0) \in Seq(0 .. 0) /\ Len(Stream(0, 0, 0)) = 3 * (0 - 0)
        BY StreamWhole
      <4> QED
        BY <4>1, NoLength
    <3>3. Numbers(0) = <<>>
      BY NumbersType, NoLength
    <3>4. Seconds(<<>>, c) = <<>>
      <4>1. <<>> \in Seq(Clients \X Nat)
        OBVIOUS
      <4>2. Seconds(<<>>, c) \in Seq(Nat) /\ Len(Seconds(<<>>, c)) = Len(Picked(<<>>, {c} \X Nat))
        BY <4>1, SecondsType
      <4>3. Len(Seconds(<<>>, c)) = 0
        BY <4>2, PickedEmpty, NothingYet
      <4> QED
        BY <4>2, <4>3, NoLength
    <3>5. <<>> \o <<>> = <<>>
      OBVIOUS
    <3>6. /\ 0 \in 0 .. sent[c] /\ done[c] \o Seconds(queue, c) = Numbers(0)
          /\ up[c] \o wire[c] = Stream(0, sent[c], Taken(c))
      BY <2>1, <3>1, <3>2, <3>3, <3>4, <3>5
    <3> QED
      BY <2>1, <3>1, <3>6 DEF Upward
  <2>4. /\ wire \in [Clients -> Seq(Nat)] /\ up \in [Clients -> Seq(Nat)] /\ done \in [Clients -> Seq(Nat)]
        /\ queue \in Seq(Clients \X (Nat \ {0})) /\ sent \in [Clients -> Nat]
    BY <2>1
  <2> QED
    BY <2>2, <2>3, <2>4 DEF UpInv
<1>4. DownInv
  <2>1. /\ made = 0 /\ internal = <<>> /\ io.pc = "select" /\ io.msg = 0 /\ clients = <<>>
        /\ down = [c \in Clients |-> <<>>] /\ first = [c \in Clients |-> 0] /\ got = [c \in Clients |-> <<>>]
    BY DEF Init
  <2>2. Range(clients) = {} /\ Len(internal) = 0
    BY <2>1, NothingYet
  <2>3. /\ made \in 0 .. MaxDown /\ internal \in Seq(Nat) /\ Len(internal) <= Buffer /\ Len(internal) <= made
        /\ (\A i \in 1 .. Len(internal) : internal[i] = made - Len(internal) + i)
        /\ io.msg <= made /\ io.pc # "send"
    BY <2>1, <2>2, NothingYet, ExternalIOAssumption
  <2>4. /\ down \in [Clients -> Seq(Nat)] /\ got \in [Clients -> Seq(Nat)] /\ first \in [Clients -> Nat]
        /\ \A c \in Clients : down[c] = <<>> /\ got[c] = <<>>
    BY <2>1, NothingYet
  <2>5. \A c \in Clients : Len(down[c]) <= Buffer
    BY <2>4, NothingYet, ExternalIOAssumption
  <2> QED
    BY <2>2, <2>3, <2>4, <2>5 DEF DownInv, Channel, Buffers, Clientele
<1> QED
  BY <1>1, <1>2, <1>3, <1>4 DEF IInv

-----------------------------------------------------------------------------
(* The lists of sockets.                                                   *)

LEMMA ListsStay ==
  ASSUME Lists, UNCHANGED <<clients, backlog, inputs, dropped>>, closed' \in SUBSET Clients, shut' \in BOOLEAN
  PROVE  Lists'
BY DEF Lists, Distinct

LEMMA ListsConnect ==
  ASSUME Lists, NEW c \in Clients, Connect(c)
  PROVE  Lists'
<1>1. /\ c \notin Range(backlog) \union Range(clients) \union dropped
      /\ backlog' = Append(backlog, c) /\ backlog \in Seq(Clients) /\ Distinct(backlog)
      /\ clients' = clients /\ inputs' = inputs /\ dropped' = dropped /\ closed' = closed /\ shut' = shut
  BY DEF Connect, Connected, Lists, client
<1>2. Append(backlog, c) \in Seq(Clients) /\ Range(Append(backlog, c)) = Range(backlog) \union {c}
  BY <1>1, JoinsLast
<1>3. Distinct(Append(backlog, c))
  BY <1>1, JoinsLast
<1>4. Distinct(backlog') /\ Distinct(clients')
  BY <1>1, <1>3 DEF Lists
<1>5. Distinct(clients)' /\ Distinct(backlog)'
  BY <1>4 DEF Distinct
<1> QED
  BY <1>1, <1>2, <1>5 DEF Lists

LEMMA ListsAccept ==
  ASSUME Lists, Accept, backlog # <<>>
  PROVE  /\ Lists' /\ Head(backlog) \in Clients /\ Head(backlog) \notin Range(clients) \union dropped
         /\ Range(clients') = Range(clients) \union {Head(backlog)}
         /\ Range(inputs') = Range(inputs) \union {Head(backlog)}
<1> DEFINE c == Head(backlog)
<1>1. /\ backlog \in Seq(Clients) /\ clients \in Seq(Clients) /\ Distinct(backlog) /\ Distinct(clients)
      /\ clients' = Append(clients, c) /\ inputs' = Append(inputs, c) /\ backlog' = Tail(backlog)
      /\ dropped' = dropped /\ closed' = closed /\ shut' = shut
  BY DEF Accept, Lists, client
<1>2. /\ Tail(backlog) \in Seq(Clients) /\ c \in Clients /\ Range(backlog) = {c} \union Range(Tail(backlog))
  BY <1>1, LeavesFirst
<1>3. Distinct(Tail(backlog)) /\ c \notin Range(Tail(backlog))
  BY <1>1, LeavesFirst
<1>4. c \notin Range(clients)
  BY <1>2 DEF Lists
<1> HIDE DEF c
<1>5. Append(clients, c) \in Seq(Clients) /\ Range(Append(clients, c)) = Range(clients) \union {c}
  BY <1>1, <1>2, JoinsLast
<1>6. Distinct(Append(clients, c))
  BY <1>1, <1>2, <1>4, JoinsLast
<1>7. Append(<<MAIN, SERVER>> \o clients, c) = <<MAIN, SERVER>> \o Append(clients, c)
  <2> DEFINE z == <<MAIN, SERVER>>
  <2>1. z \in Seq(Sockets) /\ clients \in Seq(Sockets) /\ c \in Sockets
    BY <1>1, <1>2 DEF Sockets
  <2> HIDE DEF z
  <2>2. Append(z \o clients, c) = z \o Append(clients, c)
    BY <2>1
  <2> QED
    BY <2>2 DEF z
<1>8. inputs \in Seq(Sockets) /\ c \in Sockets
  BY <1>2, InputsFacts DEF Sockets
<1>9. Range(Append(inputs, c)) = Range(inputs) \union {c}
  BY <1>8, JoinsLast
<1>10. Distinct(clients') /\ Distinct(backlog')
  BY <1>1, <1>3, <1>6
<1>11. Distinct(clients)' /\ Distinct(backlog)'
  BY <1>10 DEF Distinct
<1>12. Range(backlog') \subseteq Range(backlog) /\ c \notin Range(backlog') /\ c \in Range(backlog)
  BY <1>1, <1>2, <1>3
<1>13. Lists'
  BY <1>1, <1>2, <1>5, <1>7, <1>11, <1>12 DEF Lists
<1> QED
  BY <1>1, <1>2, <1>4, <1>5, <1>9, <1>12, <1>13 DEF Lists, c

LEMMA ListsDrop ==
  ASSUME Lists, NEW c \in Clients, Drop(c), c \in Range(inputs)
  PROVE  /\ Lists'
         /\ c \in Range(clients) /\ Range(clients') = Range(clients) \ {c} /\ Range(inputs') = Range(inputs) \ {c}
<1> DEFINE r == Picked(clients, Range(clients) \ {c})
           q == Picked(inputs, Range(inputs) \ {c})
<1>1. /\ clients' = r /\ inputs' = q
      /\ dropped' = dropped \union {c} /\ closed' = closed /\ shut' = shut /\ backlog' = backlog
      /\ clients \in Seq(Clients) /\ Distinct(clients)
  BY DEF Drop, Lists
<1>2. q = <<MAIN, SERVER>> \o r
  BY DropInputs
<1>3. r \in Seq(Clients) /\ Range(r) = Range(clients) \intersect (Range(clients) \ {c})
  BY <1>1, PickedSeq
<1>4. Distinct(r)
  BY <1>1, PickedSeq
<1>5. inputs \in Seq(Sockets) /\ Range(inputs) = {MAIN, SERVER} \union Range(clients)
  BY InputsFacts
<1>6. Range(q) = Range(inputs) \intersect (Range(inputs) \ {c})
  BY <1>5, PickedSeq
<1> HIDE DEF r, q
<1>7. Distinct(clients') /\ Distinct(backlog')
  BY <1>1, <1>4 DEF Lists
<1>8. Distinct(clients)' /\ Distinct(backlog)'
  BY <1>7 DEF Distinct
<1>9. c \in Range(clients)
  BY <1>5, ExternalIOAssumption
<1>10. Lists'
  BY <1>1, <1>2, <1>3, <1>8, <1>9 DEF Lists
<1> QED
  BY <1>1, <1>3, <1>6, <1>9, <1>10

-----------------------------------------------------------------------------
(* What select found.                                                      *)

LEMMA VisitsStay ==
  ASSUME Visits, UNCHANGED <<io, clients, inputs>>, backlog # <<>> => backlog' # <<>>
  PROVE  Visits'
BY DEF Visits, Distinct

LEMMA VisitsType ==
  ASSUME Visits
  PROVE  /\ io \in Ios /\ io.ready \in Seq(Sockets) /\ io.to \in Seq(Clients) /\ io.msg \in Nat
         /\ Distinct(io.ready) /\ Distinct(io.to)
BY DEF Visits, Ios

LEMMA OnwardIs ==
  ASSUME io \in Ios, io.ready # <<>>
  PROVE  /\ Onward \in Ios /\ Onward.pc = (IF Len(io.ready) = 1 THEN "select" ELSE "next")
         /\ Onward.ready = Tail(io.ready) /\ Onward.to = <<>> /\ Onward.msg = 0
<1> DEFINE r == io.ready
           p == IF Len(r) = 1 THEN "select" ELSE "next"
           t == Tail(r)
           o == Onward
<1>1. o = [io EXCEPT !.ready = t, !.to = <<>>, !.msg = 0, !.pc = p]
  BY DEF Onward
<1>2. r \in Seq(Sockets) /\ r # <<>>
  BY DEF Ios
<1>3. p \in {"select", "next"}
  OBVIOUS
<1> HIDE DEF r
<1>4. t \in Seq(Sockets)
  BY <1>2, LeavesFirst
<1> HIDE DEF p, t, o
<1>5. <<>> \in Seq(Clients)
  OBVIOUS
<1> DEFINE e == <<>>
<1>6. e \in Seq(Clients) /\ o = [io EXCEPT !.ready = t, !.to = e, !.msg = 0, !.pc = p]
  BY <1>1, <1>5
<1> HIDE DEF e
<1>7. o.pc = p /\ o.ready = t /\ o.to = e /\ o.msg = 0
  BY <1>3, <1>4, <1>6 DEF Ios
<1>8. o \in Ios
  BY <1>3, <1>4, <1>6 DEF Ios
<1> QED
  BY <1>7, <1>8 DEF o, p, t, r, e

\* The thread goes on to the next socket.
LEMMA VisitsOnward ==
  ASSUME Visits, io.ready # <<>>, io' = Onward,
         Range(Tail(io.ready)) \subseteq Range(inputs'),
         SERVER \in Range(Tail(io.ready)) => backlog' # <<>>
  PROVE  Visits'
<1> DEFINE r == io.ready
           t == Tail(r)
           p == IF Len(r) = 1 THEN "select" ELSE "next"
<1>1. r \in Seq(Sockets) /\ Distinct(r) /\ r # <<>> /\ io \in Ios
  BY VisitsType
<1>2. io' \in Ios /\ io'.pc = p /\ io'.ready = t /\ io'.to = <<>>
  BY <1>1, OnwardIs
<1> HIDE DEF r
<1>3. /\ t \in Seq(Sockets) /\ Len(t) = Len(r) - 1 /\ Len(r) \in Nat
  BY <1>1, LeavesFirst
<1>4. Distinct(t)
  BY <1>1, LeavesFirst
<1>5. t = <<>> <=> Len(r) = 1
  <2>1. t = <<>> <=> Len(t) = 0
    BY <1>3, NoLength, NothingYet
  <2> QED
    BY <1>3, <2>1
<1> HIDE DEF t
<1>6. p \in {"select", "next"} /\ (p = "next" <=> t # <<>>)
  BY <1>5
<1> HIDE DEF p
<1>7. Distinct(io'.ready) /\ Distinct(io'.to) /\ Range(io'.to) = {}
  BY <1>2, <1>4, NothingYet
<1>8. Range(io'.ready) \subseteq Range(inputs') /\ (SERVER \in Range(io'.ready) => backlog' # <<>>)
  BY <1>2 DEF t, r
<1> QED
  BY <1>2, <1>6, <1>7, <1>8 DEF Visits, Distinct, Ios

\* The thread has ended.
LEMMA VisitsExit ==
  ASSUME Exit
  PROVE  Visits'
<1>1. io' = [pc |-> "exited", ready |-> <<>>, to |-> <<>>, msg |-> 0]
  BY DEF Exit
<1>2. io' \in Ios
  <2>1. <<>> \in Seq(Clients) /\ <<>> \in Seq(Sockets)
    OBVIOUS
  <2> QED
    BY <1>1, <2>1 DEF Ios
<1>3. io'.pc = "exited" /\ io'.ready = <<>> /\ io'.to = <<>>
  BY <1>1
<1>4. Distinct(io'.ready) /\ Distinct(io'.to) /\ Range(io'.to) = {} /\ Range(io'.ready) = {}
  BY <1>3, NothingYet
<1> QED
  BY <1>2, <1>3, <1>4 DEF Visits, Distinct, Ios

LEMMA VisitsSelect ==
  ASSUME Lists, Visits, Select
  PROVE  /\ Visits' /\ io.pc = "select" /\ io'.pc = "next" /\ io'.to = <<>> /\ io'.msg = io.msg
<1> DEFINE S == {s \in Range(inputs) : Readable(s)}
           r == Picked(inputs, S)
<1>1. /\ io.pc = "select" /\ io' = [io EXCEPT !.pc = "next", !.ready = r]
      /\ inputs' = inputs /\ clients' = clients /\ backlog' = backlog
  BY DEF Select
<1>2. PICK i \in 1 .. Len(inputs) : Readable(inputs[i])
  BY DEF Select
<1>3. inputs \in Seq(Sockets) /\ Distinct(inputs)
  BY InputsFacts
<1>4. inputs[i] \in S
  <2>1. DOMAIN inputs = 1 .. Len(inputs)
    BY <1>3
  <2> QED
    BY <1>2, <2>1 DEF Range
<1>5. SERVER \in S => backlog # <<>>
  <2>1. Readable(SERVER) => backlog # <<>>
    BY DEF Readable, MAIN, SERVER
  <2> QED
    BY <2>1
<1>6. S \subseteq Range(inputs)
  OBVIOUS
<1> HIDE DEF S
<1>7. r \in Seq(Sockets) /\ Range(r) = Range(inputs) \intersect S
  BY <1>3, PickedSeq
<1>8. Distinct(r)
  BY <1>3, PickedSeq
<1> HIDE DEF r
<1>9. r # <<>>
  BY <1>4, <1>6, <1>7, NothingYet
<1>10. io' \in Ios /\ io'.pc = "next" /\ io'.ready = r /\ io'.to = io.to /\ io'.msg = io.msg
  <2>1. io \in Ios
    BY VisitsType
  <2> QED
    BY <1>1, <1>7, <2>1 DEF Ios
<1>11. io.to = <<>>
  BY <1>1 DEF Visits
<1>12. Distinct(io'.ready) /\ Distinct(io'.to) /\ Range(io'.to) = {}
  BY <1>8, <1>10, <1>11, NothingYet
<1>13. Visits'
  BY <1>1, <1>5, <1>7, <1>9, <1>10, <1>11, <1>12 DEF Visits, Distinct
<1> QED
  BY <1>1, <1>10, <1>11, <1>13

LEMMA VisitsRelay ==
  ASSUME Lists, Visits, Relay, Head(internal) \in Nat
  PROVE  /\ Visits' /\ io.pc = "next" /\ Head(io.ready) = MAIN /\ io'.ready = io.ready
         /\ io'.pc = "send" /\ io'.to = clients /\ io'.msg = Head(internal)
<1>1. /\ io.pc = "next" /\ io.ready # <<>> /\ Head(io.ready) = MAIN
      /\ io' = [io EXCEPT !.pc = "send", !.to = clients, !.msg = Head(internal)]
      /\ inputs' = inputs /\ clients' = clients /\ backlog' = backlog
  BY DEF Relay, At
<1>2. io' \in Ios /\ io'.pc = "send" /\ io'.ready = io.ready /\ io'.to = clients /\ io'.msg = Head(internal)
  <2>1. io \in Ios /\ clients \in Seq(Clients)
    BY VisitsType DEF Lists
  <2> QED
    BY <1>1, <2>1 DEF Ios
<1>3. Distinct(io'.ready) /\ Distinct(io'.to)
  BY <1>2, VisitsType DEF Lists
<1>4. Visits'
  BY <1>1, <1>2, <1>3 DEF Visits, Distinct
<1> QED
  BY <1>1, <1>2, <1>4

\* One client of the round has been served.
LEMMA VisitsTail ==
  ASSUME Visits, io.pc = "send", io.to # <<>>, io' = [io EXCEPT !.to = Tail(@)],
         UNCHANGED <<inputs, clients, backlog>>
  PROVE  /\ Visits' /\ io'.pc = io.pc /\ io'.ready = io.ready /\ io'.msg = io.msg
         /\ Head(io.to) \in Range(clients) /\ Head(io.to) \in Clients
         /\ Range(io.to) = {Head(io.to)} \union Range(io'.to) /\ Head(io.to) \notin Range(io'.to)
<1> DEFINE t == io.to
<1>1. t \in Seq(Clients) /\ t # <<>> /\ Distinct(t) /\ io \in Ios
  BY VisitsType
<1>2. io'.pc = io.pc /\ io'.ready = io.ready /\ io'.to = Tail(t) /\ io'.msg = io.msg
  BY <1>1 DEF Ios
<1> HIDE DEF t
<1>3. Tail(t) \in Seq(Clients) /\ Range(t) = {Head(t)} \union Range(Tail(t)) /\ Head(t) \in Clients
  BY <1>1, LeavesFirst
<1>4. Distinct(Tail(t)) /\ Head(t) \notin Range(Tail(t))
  BY <1>1, LeavesFirst
<1>5. io' \in Ios
  BY <1>1, <1>3 DEF Ios, t
<1>6. Distinct(io'.ready) /\ Distinct(io'.to)
  BY <1>2, <1>4, VisitsType
<1>7. Range(io'.to) \subseteq Range(clients) /\ Head(t) \in Range(clients)
  BY <1>2, <1>3 DEF Visits, t
<1>8. Visits'
  BY <1>2, <1>5, <1>6, <1>7 DEF Visits, Distinct
<1> QED
  BY <1>2, <1>3, <1>4, <1>7, <1>8 DEF t

LEMMA VisitsRelayed ==
  ASSUME Visits, Relayed
  PROVE  Visits'
<1>1. /\ io.pc = "send" /\ io' = Onward /\ io.ready # <<>>
      /\ inputs' = inputs /\ backlog' = backlog
  BY DEF Relayed, Visits
<1>2. io.ready \in Seq(Sockets) /\ io.ready # <<>>
  BY <1>1, VisitsType
<1>3. Range(io.ready) = {Head(io.ready)} \union Range(Tail(io.ready))
  BY <1>2, LeavesFirst
<1>4. Range(Tail(io.ready)) \subseteq Range(inputs') /\ (SERVER \in Range(Tail(io.ready)) => backlog' # <<>>)
  BY <1>1, <1>3 DEF Visits
<1> QED
  BY <1>1, <1>4, VisitsOnward

LEMMA VisitsAccept ==
  ASSUME Lists, Visits, Accept
  PROVE  Visits' /\ backlog # <<>>
<1>1. /\ io.pc = "next" /\ io' = Onward /\ io.ready # <<>> /\ Head(io.ready) = SERVER
  BY DEF Accept, At
<1>2. io.ready \in Seq(Sockets) /\ io.ready # <<>> /\ Distinct(io.ready)
  BY <1>1, VisitsType
<1>3. Range(io.ready) = {Head(io.ready)} \union Range(Tail(io.ready))
  BY <1>2, LeavesFirst
<1>4. Head(io.ready) \notin Range(Tail(io.ready))
  BY <1>2, LeavesFirst
<1>5. backlog # <<>>
  BY <1>1, <1>3 DEF Visits
<1>6. Range(inputs') = Range(inputs) \union {Head(backlog)}
  BY <1>5, ListsAccept
<1>7. Range(Tail(io.ready)) \subseteq Range(inputs') /\ SERVER \notin Range(Tail(io.ready))
  BY <1>1, <1>3, <1>4, <1>6 DEF Visits
<1> QED
  BY <1>1, <1>5, <1>7, VisitsOnward

LEMMA VisitsRecvLength ==
  ASSUME Visits, NEW c \in Clients, RecvLength(c)
  PROVE  /\ Visits' /\ io.pc = "next" /\ io'.pc = "body" /\ io'.ready = io.ready /\ Head(io.ready) = c
         /\ io'.to = io.to /\ io'.msg = io.msg
<1>1. /\ io.pc = "next" /\ io' = [io EXCEPT !.pc = "body"] /\ io.ready # <<>> /\ Head(io.ready) = c
      /\ inputs' = inputs /\ clients' = clients /\ backlog' = backlog
  BY DEF RecvLength, At
<1>2. io' \in Ios /\ io'.pc = "body" /\ io'.ready = io.ready /\ io'.to = io.to /\ io'.msg = io.msg
  BY <1>1, VisitsType DEF Ios
<1>3. Visits'
  BY <1>1, <1>2 DEF Visits, Distinct
<1> QED
  BY <1>1, <1>2, <1>3

LEMMA VisitsRecvBody ==
  ASSUME Visits, NEW c \in Clients, RecvBody(c)
  PROVE  Visits'
<1>1. /\ io' = Onward /\ io.ready # <<>> /\ inputs' = inputs /\ backlog' = backlog
  BY DEF RecvBody, At
<1>2. io.ready \in Seq(Sockets) /\ io.ready # <<>>
  BY <1>1, VisitsType
<1>3. Range(io.ready) = {Head(io.ready)} \union Range(Tail(io.ready))
  BY <1>2, LeavesFirst
<1>4. Range(Tail(io.ready)) \subseteq Range(inputs') /\ (SERVER \in Range(Tail(io.ready)) => backlog' # <<>>)
  BY <1>1, <1>3 DEF Visits
<1> QED
  BY <1>1, <1>4, VisitsOnward

LEMMA VisitsDrop ==
  ASSUME Lists, Visits, NEW c \in Clients, Drop(c)
  PROVE  Visits' /\ c \in Range(inputs) /\ io.pc \in {"next", "body"} /\ Head(io.ready) = c
<1>1. /\ io' = Onward /\ io.ready # <<>> /\ Head(io.ready) = c /\ backlog' = backlog /\ io.pc \in {"next", "body"}
  BY DEF Drop, At
<1>2. io.ready \in Seq(Sockets) /\ io.ready # <<>> /\ Distinct(io.ready)
  BY <1>1, VisitsType
<1>3. Range(io.ready) = {Head(io.ready)} \union Range(Tail(io.ready))
  BY <1>2, LeavesFirst
<1>4. Head(io.ready) \notin Range(Tail(io.ready))
  BY <1>2, LeavesFirst
<1>5. c \in Range(inputs)
  BY <1>1, <1>3 DEF Visits
<1>6. Range(inputs') = Range(inputs) \ {c}
  BY <1>5, ListsDrop
<1>7. Range(Tail(io.ready)) \subseteq Range(inputs') /\ (SERVER \in Range(Tail(io.ready)) => backlog' # <<>>)
  BY <1>1, <1>3, <1>4, <1>6 DEF Visits
<1> QED
  BY <1>1, <1>5, <1>7, VisitsOnward

-----------------------------------------------------------------------------
(* From the clients to the peripheral.                                     *)

LEMMA ThreeInRow ==
  ASSUME NEW T, NEW r \in Seq(T), NEW s \in Seq(T), NEW t \in Seq(T)
  PROVE  (r \o s) \o t = r \o (s \o t)
OBVIOUS

LEMMA AppendsToLast ==
  ASSUME NEW T, NEW s \in Seq(T), NEW t \in Seq(T), NEW e \in T
  PROVE  s \o Append(t, e) = Append(s \o t, e)
OBVIOUS

LEMMA FromThird ==
  ASSUME NEW T, NEW s \in Seq(T), Len(s) >= 2
  PROVE  /\ SubSeq(s, 3, Len(s)) = Tail(Tail(s)) /\ s # <<>> /\ Tail(s) # <<>>
         /\ Tail(s) \in Seq(T) /\ Tail(Tail(s)) \in Seq(T)
<1> DEFINE t == Tail(s)
           u == Tail(t)
           n == Len(s)
           v == SubSeq(s, 3, n)
<1>1. s # <<>>
  OBVIOUS
<1>2. /\ n \in Nat /\ n >= 2 /\ t \in Seq(T) /\ Len(t) = n - 1
      /\ \A i \in 1 .. n - 1 : t[i] = s[i + 1]
  BY <1>1, LeavesFirst
<1>3. v \in Seq(T) /\ Len(v) = n - 2 /\ \A i \in 1 .. n - 2 : v[i] = s[i + 2]
  BY <1>2
<1> HIDE DEF t, v, n
<1>4. t # <<>>
  BY <1>2
<1>5. /\ u \in Seq(T) /\ Len(u) = Len(t) - 1 /\ \A i \in 1 .. Len(t) - 1 : u[i] = t[i + 1]
  <2>1. t \in Seq(T)
    BY <1>2
  <2> QED
    BY <1>4, <2>1, LeavesFirst
<1> HIDE DEF u
<1>6. ASSUME NEW i \in 1 .. n - 2 PROVE u[i] = v[i]
  <2>1. i + 1 \in 1 .. n - 1 /\ (i + 1) + 1 = i + 2
    BY <1>2
  <2>2. u[i] = t[i + 1] /\ t[i + 1] = s[i + 2]
    BY <1>2, <1>5, <2>1
  <2> QED
    BY <1>3, <2>2
<1>7. Len(u) = Len(v) /\ \A i \in 1 .. Len(u) : u[i] = v[i]
  BY <1>2, <1>3, <1>5, <1>6
<1>8. u = v
  BY <1>3, <1>5, <1>7, SameSeq
<1> QED
  BY <1>1, <1>2, <1>4, <1>5, <1>8 DEF u, t, v, n

LEMMA UpType ==
  ASSUME UpInv, NEW c \in Clients
  PROVE  /\ sent[c] \in Nat /\ wire[c] \in Seq(Nat) /\ up[c] \in Seq(Nat) /\ done[c] \in Seq(Nat)
         /\ queue \in Seq(Clients \X Nat) /\ Seconds(queue, c) \in Seq(Nat) /\ Upward(c)
<1>1. queue \in Seq(Clients \X Nat)
  <2>1. queue \in Seq(Clients \X (Nat \ {0})) /\ Clients \X (Nat \ {0}) \subseteq Clients \X Nat
    BY DEF UpInv
  <2> HIDE DEF UpInv
  <2> DEFINE A == Clients \X (Nat \ {0})
             B == Clients \X Nat
  <2>2. queue \in Seq(A) /\ A \subseteq B
    BY <2>1
  <2> HIDE DEF A, B
  <2>3. queue \in Seq(B)
    BY <2>2
  <2> QED
    BY <2>3 DEF B
<1>2. Seconds(queue, c) \in Seq(Nat)
  BY <1>1, SecondsType
<1> QED
  BY <1>1, <1>2 DEF UpInv

LEMMA UpwardStays ==
  ASSUME NEW c \in Clients, Upward(c), sent'[c] = sent[c], done'[c] = done[c],
         Seconds(queue', c) = Seconds(queue, c), c \in dropped' <=> c \in dropped,
         up'[c] = up[c], wire'[c] = wire[c], Taken(c)' = Taken(c)
  PROVE  Upward(c)'
BY DEF Upward

LEMMA UpStays ==
  ASSUME UpInv, UNCHANGED <<sent, wire, up, done, queue, dropped>>, \A c \in Clients : Taken(c)' = Taken(c)
  PROVE  UpInv'
<1>1. ASSUME NEW c \in Clients PROVE Upward(c)'
  <2>1. Upward(c)
    BY UpType
  <2> QED
    BY <2>1, UpwardStays
<1> QED
  BY <1>1 DEF UpInv

LEMMA TakenStays ==
  ASSUME UNCHANGED io \/ (io.pc # "body" /\ io'.pc # "body")
  PROVE  \A c \in Clients : Taken(c)' = Taken(c)
BY DEF Taken

LEMMA UpProcess ==
  ASSUME UpInv, ProcessIO
  PROVE  UpInv'
<1> DEFINE a == Head(queue)[1]
           x == Head(queue)[2]
<1>1. /\ queue # <<>> /\ queue' = Tail(queue) /\ done' = [done EXCEPT ![a] = Append(@, x)]
      /\ sent' = sent /\ wire' = wire /\ up' = up /\ dropped' = dropped /\ io' = io
  BY DEF ProcessIO, thread, client
<1>2. queue \in Seq(Clients \X (Nat \ {0}))
  BY DEF UpInv
<1>3. Head(queue) \in Clients \X (Nat \ {0}) /\ Tail(queue) \in Seq(Clients \X (Nat \ {0}))
  BY <1>1, <1>2, LeavesFirst
<1>4. a \in Clients /\ x \in Nat
  BY <1>3
<1> HIDE DEF a, x
<1>5. done' \in [Clients -> Seq(Nat)] /\ done'[a] = Append(done[a], x) /\ \A c \in Clients \ {a} : done'[c] = done[c]
  <2>1. done \in [Clients -> Seq(Nat)]
    BY DEF UpInv
  <2>2. Append(done[a], x) \in Seq(Nat)
    BY <1>4, <2>1
  <2> DEFINE y == Append(done[a], x)
  <2>3. done' = [done EXCEPT ![a] = y] /\ y \in Seq(Nat)
    BY <1>1, <2>2
  <2> HIDE DEF y
  <2>4. done' \in [Clients -> Seq(Nat)] /\ done'[a] = y /\ \A c \in Clients \ {a} : done'[c] = done[c]
    BY <1>4, <2>1, <2>3
  <2> QED
    BY <2>4 DEF y
<1>6. ASSUME NEW c \in Clients PROVE Upward(c)'
  <2>1. queue \in Seq(Clients \X Nat) /\ Upward(c) /\ Seconds(queue, c) \in Seq(Nat) /\ done[c] \in Seq(Nat)
    BY UpType
  <2>2. /\ a = c => /\ Seconds(queue, c) # <<>> /\ Head(Seconds(queue, c)) = x
                    /\ Seconds(queue', c) = Tail(Seconds(queue, c))
        /\ a # c => Seconds(queue', c) = Seconds(queue, c)
    BY <1>1, <2>1, SecondsTail DEF a, x
  <2>3. Taken(c)' = Taken(c)
    BY <1>1 DEF Taken
  <2>4. CASE a # c
    BY <1>1, <1>5, <2>1, <2>2, <2>3, <2>4, UpwardStays
  <2>5. CASE a = c
    <3>1. done'[c] \o Seconds(queue', c) = done[c] \o Seconds(queue, c)
      <4>1. Append(done[c], Head(Seconds(queue, c))) \o Tail(Seconds(queue, c)) = done[c] \o Seconds(queue, c)
        BY <2>1, <2>2, <2>5, MovesOver
      <4> QED
        BY <1>5, <2>2, <2>5, <4>1
    <3> QED
      BY <1>1, <2>1, <2>3, <3>1 DEF Upward
  <2> QED
    BY <2>4, <2>5
<1> QED
  BY <1>1, <1>3, <1>5, <1>6 DEF UpInv

LEMMA UpSend ==
  ASSUME UpInv, NEW c \in Clients, Send(c)
  PROVE  UpInv'
<1> DEFINE m == sent[c]
           f == Framed(m + 1)
           w == wire[c] \o f
<1>1. /\ c \notin dropped /\ m < MaxUp[c] /\ sent' = [sent EXCEPT ![c] = @ + 1]
      /\ wire' = [wire EXCEPT ![c] = @ \o Framed(sent'[c])]
      /\ done' = done /\ queue' = queue /\ up' = up /\ dropped' = dropped /\ io' = io
  BY DEF Send, thread
<1>2. /\ sent \in [Clients -> Nat] /\ wire \in [Clients -> Seq(Nat)] /\ m \in Nat
  BY DEF UpInv
<1>3. /\ sent' \in [Clients -> Nat] /\ sent'[c] = m + 1 /\ \A d \in Clients \ {c} : sent'[d] = sent[d]
  BY <1>1, <1>2
<1>4. f \in Seq(Nat) /\ wire[c] \in Seq(Nat)
  BY <1>2 DEF Framed, Half
<1> HIDE DEF f
<1>5. w \in Seq(Nat)
  BY <1>4
<1>6. wire' = [wire EXCEPT ![c] = w]
  BY <1>1, <1>3 DEF f
<1> HIDE DEF w
<1>7. wire' \in [Clients -> Seq(Nat)] /\ wire'[c] = w /\ \A d \in Clients \ {c} : wire'[d] = wire[d]
  BY <1>2, <1>5, <1>6
<1>8. ASSUME NEW d \in Clients PROVE Upward(d)'
  <2>1. Upward(d) /\ Taken(d)' = Taken(d)
    BY <1>1, UpType DEF Taken
  <2>2. CASE d # c
    BY <1>1, <1>3, <1>7, <2>1, <2>2, UpwardStays
  <2>3. CASE d = c
    <3>1. PICK k \in 0 .. m :
            /\ done[c] \o Seconds(queue, c) = Numbers(k)
            /\ up[c] \o wire[c] = Stream(k, m, Taken(c)) /\ (Taken(c) = 2 => k < m)
      BY <1>1, <2>1, <2>3 DEF Upward
    <3> DEFINE taken == Taken(c)
    <3>2. taken \in {0, 2}
      BY DEF Taken
    <3>3. up[c] \o w = (up[c] \o wire[c]) \o f
      <4>1. up[c] \in Seq(Nat)
        BY UpType
      <4> DEFINE a == up[c]
                 b == wire[c]
      <4>2. a \in Seq(Nat) /\ b \in Seq(Nat) /\ f \in Seq(Nat)
        BY <1>4, <4>1
      <4> HIDE DEF a, b
      <4>3. (a \o b) \o f = a \o (b \o f)
        BY <4>2, ThreeInRow
      <4> QED
        BY <4>3 DEF w, a, b
    <3>4. up[c] \o wire[c] = Stream(k, m, taken) /\ (taken = 2 => k < m)
      BY <3>1
    <3> HIDE DEF taken, m
    <3>5. Stream(k, m, taken) \o f = Stream(k, m + 1, taken)
      BY <1>2, <3>2, <3>4, StreamGrows DEF f
    <3>6. k \in 0 .. m + 1 /\ (taken = 2 => k < m + 1)
      BY <1>2, <3>4
    <3>7. up'[c] \o wire'[c] = Stream(k, sent'[c], taken)
      BY <1>1, <1>3, <1>7, <3>3, <3>4, <3>5
    <3>8. /\ k \in 0 .. sent'[c] /\ done'[c] \o Seconds(queue', c) = Numbers(k)
          /\ up'[c] \o wire'[c] = Stream(k, sent'[c], Taken(c)') /\ (Taken(c)' = 2 => k < sent'[c])
      BY <1>1, <1>3, <2>1, <2>3, <3>1, <3>6, <3>7 DEF taken
    <3> QED
      BY <1>1, <2>3, <3>8 DEF Upward
  <2> QED
    BY <2>2, <2>3
<1>9. \A d \in Clients : sent'[d] <= MaxUp[d]
  <2>1. m + 1 <= MaxUp[c]
    BY <1>1, <1>2, ExternalIOAssumption
  <2> QED
    BY <1>3, <2>1 DEF UpInv
<1> QED
  BY <1>1, <1>3, <1>7, <1>8, <1>9 DEF UpInv

LEMMA UpArrive ==
  ASSUME UpInv, NEW c \in Clients, Arrive(c)
  PROVE  UpInv'
<1> DEFINE u == Append(up[c], Head(wire[c]))
           w == Tail(wire[c])
<1>1. /\ wire[c] # <<>> /\ up' = [up EXCEPT ![c] = u] /\ wire' = [wire EXCEPT ![c] = w]
      /\ sent' = sent /\ done' = done /\ queue' = queue /\ dropped' = dropped /\ io' = io
  BY DEF Arrive, thread
<1>2. wire \in [Clients -> Seq(Nat)] /\ up \in [Clients -> Seq(Nat)] /\ wire[c] \in Seq(Nat) /\ up[c] \in Seq(Nat)
  BY DEF UpInv
<1>3. w \in Seq(Nat) /\ Head(wire[c]) \in Nat
  BY <1>1, <1>2, LeavesFirst
<1>4. u \in Seq(Nat)
  BY <1>2, <1>3
<1>5. u \o w = up[c] \o wire[c]
  BY <1>1, <1>2, MovesOver
<1> HIDE DEF u, w
<1>6. /\ wire' \in [Clients -> Seq(Nat)] /\ wire'[c] = w /\ \A d \in Clients \ {c} : wire'[d] = wire[d]
      /\ up' \in [Clients -> Seq(Nat)] /\ up'[c] = u /\ \A d \in Clients \ {c} : up'[d] = up[d]
  BY <1>1, <1>2, <1>3, <1>4
<1>7. ASSUME NEW d \in Clients PROVE Upward(d)'
  <2>1. Upward(d) /\ Taken(d)' = Taken(d)
    BY <1>1, UpType DEF Taken
  <2>2. CASE d # c
    BY <1>1, <1>6, <2>1, <2>2, UpwardStays
  <2>3. CASE d = c
    <3>1. d \notin dropped
      BY <1>1, <2>1, <2>3 DEF Upward
    <3>2. up'[d] \o wire'[d] = up[d] \o wire[d]
      BY <1>5, <1>6, <2>3
    <3> QED
      BY <1>1, <2>1, <3>1, <3>2 DEF Upward
  <2> QED
    BY <2>2, <2>3
<1> QED
  BY <1>1, <1>6, <1>7 DEF UpInv

LEMMA UpRecvLength ==
  ASSUME UpInv, Visits, NEW c \in Clients, RecvLength(c)
  PROVE  UpInv'
<1> DEFINE u == Tail(Tail(up[c]))
<1>1. /\ Len(up[c]) >= 2 /\ up' = [up EXCEPT ![c] = SubSeq(@, 3, Len(@))]
      /\ sent' = sent /\ wire' = wire /\ done' = done /\ queue' = queue /\ dropped' = dropped
  BY DEF RecvLength, client
<1>2. up \in [Clients -> Seq(Nat)] /\ up[c] \in Seq(Nat) /\ wire[c] \in Seq(Nat) /\ sent[c] \in Nat
  BY DEF UpInv
<1>3. /\ SubSeq(up[c], 3, Len(up[c])) = u /\ up[c] # <<>> /\ Tail(up[c]) # <<>>
      /\ Tail(up[c]) \in Seq(Nat) /\ u \in Seq(Nat)
  BY <1>1, <1>2, FromThird
<1>4. up' = [up EXCEPT ![c] = u]
  BY <1>1, <1>2, <1>3
<1>5. u \o wire[c] = Tail(Tail(up[c] \o wire[c]))
  <2>1. Tail(up[c] \o wire[c]) = Tail(up[c]) \o wire[c]
    <3> DEFINE f == up[c]
               g == wire[c]
    <3>1. f \in Seq(Nat) /\ g \in Seq(Nat) /\ f # <<>>
      BY <1>2, <1>3
    <3> HIDE DEF f, g
    <3>2. Tail(f \o g) = Tail(f) \o g
      BY <3>1, TakesFirst
    <3> QED
      BY <3>2 DEF f, g
  <2>2. Tail(Tail(up[c]) \o wire[c]) = u \o wire[c]
    <3> DEFINE t == Tail(up[c])
    <3>1. t # <<>> /\ t \in Seq(Nat)
      BY <1>3
    <3> HIDE DEF t
    <3>2. Tail(t \o wire[c]) = Tail(t) \o wire[c]
      BY <1>2, <3>1, TakesFirst
    <3> QED
      BY <3>2 DEF t
  <2> QED
    BY <2>1, <2>2
<1> HIDE DEF u
<1>6. up' \in [Clients -> Seq(Nat)] /\ up'[c] = u /\ \A d \in Clients \ {c} : up'[d] = up[d]
  BY <1>2, <1>3, <1>4
<1>7. /\ io.pc = "next" /\ io'.pc = "body" /\ io'.ready = io.ready /\ Head(io.ready) = c
  BY VisitsRecvLength
<1>8. ASSUME NEW d \in Clients PROVE Upward(d)'
  <2>1. Upward(d)
    BY UpType
  <2>2. Taken(d) = 0 /\ Taken(d)' = IF d = c THEN 2 ELSE 0
    BY <1>7 DEF Taken
  <2>3. CASE d # c
    BY <1>1, <1>6, <2>1, <2>2, <2>3, UpwardStays
  <2>4. CASE d = c
    <3>1. c \notin dropped
      BY <1>3, <2>1, <2>4 DEF Upward
    <3> DEFINE m == sent[c]
    <3>2. PICK k \in 0 .. m :
            /\ done[c] \o Seconds(queue, c) = Numbers(k) /\ up[c] \o wire[c] = Stream(k, m, 0)
      BY <2>1, <2>2, <2>4, <3>1 DEF Upward
    <3>3. m \in Nat
      BY <1>2
    <3>4. Len(up[c] \o wire[c]) >= 2
      <4>1. Len(up[c] \o wire[c]) = Len(up[c]) + Len(wire[c]) /\ Len(wire[c]) \in Nat /\ Len(up[c]) \in Nat
        BY <1>2, Joined
      <4> DEFINE a == Len(up[c] \o wire[c])
                 b == Len(up[c])
                 e == Len(wire[c])
      <4>2. a = b + e /\ b \in Nat /\ e \in Nat /\ b >= 2
        BY <1>1, <4>1
      <4> HIDE DEF a, b, e
      <4>3. a >= 2
        BY <4>2
      <4> QED
        BY <4>3 DEF a
    <3> HIDE DEF m
    <3>5. k < m
      <4>1. Len(Stream(k, m, 0)) = 3 * (m - k)
        BY <3>3, StreamWhole
      <4> QED
        BY <3>2, <3>3, <3>4, <4>1
    <3>6. Tail(Tail(Stream(k, m, 0))) = Stream(k, m, 2)
      BY <3>3, <3>5, StreamShrinks
    <3>7. up'[c] \o wire'[c] = Stream(k, m, 2)
      BY <1>1, <1>5, <1>6, <3>2, <3>6
    <3> QED
      BY <1>1, <2>2, <2>4, <3>1, <3>2, <3>5, <3>7 DEF Upward, m
  <2> QED
    BY <2>3, <2>4
<1> QED
  BY <1>1, <1>6, <1>8 DEF UpInv

LEMMA OnwardLeaves ==
  ASSUME Visits, io.ready # <<>>, io' = Onward
  PROVE  io'.pc \in {"select", "next"} /\ io'.to = <<>> /\ io'.msg = 0
BY VisitsType, OnwardIs

LEMMA UpRecvBody ==
  ASSUME UpInv, Visits, NEW c \in Clients, RecvBody(c)
  PROVE  UpInv'
<1> DEFINE x == Head(up[c])
           u == Tail(up[c])
           s == Seconds(queue, c)
           m == sent[c]
<1>1. /\ io.pc = "body" /\ Head(io.ready) = c /\ io.ready # <<>> /\ io' = Onward
      /\ up[c] # <<>> /\ up' = [up EXCEPT ![c] = u] /\ queue' = Append(queue, <<c, x>>)
      /\ sent' = sent /\ wire' = wire /\ done' = done /\ dropped' = dropped
  BY DEF RecvBody, At, client
<1>2. io'.pc \in {"select", "next"}
  BY <1>1, OnwardLeaves
<1>3. /\ up \in [Clients -> Seq(Nat)] /\ up[c] \in Seq(Nat) /\ wire[c] \in Seq(Nat) /\ m \in Nat
      /\ queue \in Seq(Clients \X (Nat \ {0}))
  BY DEF UpInv
<1>4. queue \in Seq(Clients \X Nat) /\ s \in Seq(Nat) /\ Upward(c) /\ done[c] \in Seq(Nat)
  BY UpType
<1>5. u \in Seq(Nat) /\ x \in Nat
  BY <1>1, <1>3, LeavesFirst
<1>6. Head(up[c] \o wire[c]) = x /\ Tail(up[c] \o wire[c]) = u \o wire[c]
  <2> DEFINE f == up[c]
             g == wire[c]
  <2>1. f \in Seq(Nat) /\ g \in Seq(Nat) /\ f # <<>>
    BY <1>1, <1>3
  <2> HIDE DEF f, g
  <2>2. Head(f \o g) = Head(f) /\ Tail(f \o g) = Tail(f) \o g
    BY <2>1, TakesFirst
  <2> QED
    BY <2>2 DEF f, g
<1>7. Taken(c) = 2 /\ c \notin dropped
  BY <1>1, <1>4 DEF Taken, Upward
<1>8. PICK k \in 0 .. m :
        done[c] \o s = Numbers(k) /\ up[c] \o wire[c] = Stream(k, m, 2) /\ k < m
  BY <1>4, <1>7 DEF Upward
<1> HIDE DEF x, u, s, m
<1>9. x = k + 1 /\ u \o wire[c] = Stream(k + 1, m, 0)
  <2>1. Head(Stream(k, m, 2)) = k + 1 /\ Tail(Stream(k, m, 2)) = Stream(k + 1, m, 0)
    BY <1>3, <1>8, StreamShrinks
  <2> QED
    BY <1>6, <1>8, <2>1
<1>10. up' \in [Clients -> Seq(Nat)] /\ up'[c] = u /\ \A d \in Clients \ {c} : up'[d] = up[d]
  BY <1>1, <1>3, <1>5
<1>11. queue' \in Seq(Clients \X (Nat \ {0}))
  <2>1. x \in Nat \ {0}
    BY <1>3, <1>8, <1>9
  <2> DEFINE e == <<c, x>>
             Q == Clients \X (Nat \ {0})
  <2>2. e \in Q /\ queue \in Seq(Q) /\ queue' = Append(queue, e)
    BY <1>1, <1>3, <2>1
  <2> HIDE DEF e, Q
  <2>3. queue' \in Seq(Q)
    BY <2>2
  <2> QED
    BY <2>3 DEF Q
<1>12. ASSUME NEW d \in Clients PROVE Upward(d)'
  <2>1. Upward(d) /\ Taken(d)' = 0
    BY <1>2, UpType DEF Taken
  <2>2. Seconds(queue', d) = IF d = c THEN Append(Seconds(queue, d), x) ELSE Seconds(queue, d)
    <3> DEFINE e == <<c, x>>
    <3>1. queue \in Seq(Clients \X Nat) /\ e \in Clients \X Nat /\ e[1] = c /\ e[2] = x /\ queue' = Append(queue, e)
      BY <1>1, <1>4, <1>5
    <3> HIDE DEF e
    <3>2. CASE d = c
      <4>1. Seconds(Append(queue, e), c) = Append(Seconds(queue, c), e[2])
        BY <3>1, SecondsAppend
      <4> QED
        BY <3>1, <3>2, <4>1
    <3>3. CASE d # c
      <4>1. Seconds(Append(queue, e), d) = Seconds(queue, d)
        BY <3>1, <3>3, SecondsOther
      <4> QED
        BY <3>1, <3>3, <4>1
    <3> QED
      BY <3>2, <3>3
  <2>3. CASE d # c
    <3>1. Taken(d) = 0
      BY <1>1, <2>3 DEF Taken
    <3> QED
      BY <1>1, <1>10, <2>1, <2>2, <2>3, <3>1, UpwardStays
  <2>4. CASE d = c
    <3>1. done[c] \o Append(s, x) = Append(done[c] \o s, x)
      <4> DEFINE a == done[c]
      <4>1. a \in Seq(Nat) /\ s \in Seq(Nat) /\ x \in Nat
        BY <1>4, <1>5
      <4> HIDE DEF a
      <4>2. a \o Append(s, x) = Append(a \o s, x)
        BY <4>1, AppendsToLast
      <4> QED
        BY <4>2 DEF a
    <3>2. Append(Numbers(k), k + 1) = Numbers(k + 1)
      <4>1. k \in Nat
        BY <1>3
      <4> QED
        BY <4>1, NumbersType
    <3>3. done'[c] \o Seconds(queue', c) = Numbers(k + 1)
      BY <1>1, <1>8, <1>9, <2>2, <2>4, <3>1, <3>2 DEF s
    <3>4. up'[c] \o wire'[c] = Stream(k + 1, m, 0) /\ k + 1 \in 0 .. m
      BY <1>1, <1>3, <1>8, <1>9, <1>10
    <3> DEFINE l == k + 1
    <3>5. /\ l \in 0 .. sent'[c] /\ done'[c] \o Seconds(queue', c) = Numbers(l)
          /\ up'[c] \o wire'[c] = Stream(l, sent'[c], 0) /\ c \notin dropped' /\ Taken(c)' = 0
      BY <1>1, <1>7, <2>1, <2>4, <3>3, <3>4 DEF m
    <3> HIDE DEF l
    <3> QED
      BY <2>4, <3>5 DEF Upward
  <2> QED
    BY <2>3, <2>4
<1> QED
  BY <1>1, <1>10, <1>11, <1>12 DEF UpInv

LEMMA UpDrop ==
  ASSUME UpInv, Visits, NEW c \in Clients, Drop(c)
  PROVE  UpInv'
<1>1. /\ Head(io.ready) = c /\ io.ready # <<>> /\ io' = Onward
      /\ up' = [up EXCEPT ![c] = <<>>] /\ wire' = [wire EXCEPT ![c] = <<>>]
      /\ sent' = sent /\ queue' = queue /\ done' = done /\ dropped' = dropped \union {c}
  BY DEF Drop, At
<1>2. io'.pc \in {"select", "next"}
  BY <1>1, OnwardLeaves
<1>3. up \in [Clients -> Seq(Nat)] /\ wire \in [Clients -> Seq(Nat)]
  BY DEF UpInv
<1>4. /\ wire' \in [Clients -> Seq(Nat)] /\ wire'[c] = <<>> /\ \A d \in Clients \ {c} : wire'[d] = wire[d]
      /\ up' \in [Clients -> Seq(Nat)] /\ up'[c] = <<>> /\ \A d \in Clients \ {c} : up'[d] = up[d]
  BY <1>1, <1>3
<1>5. ASSUME NEW d \in Clients PROVE Upward(d)'
  <2>1. Upward(d) /\ Taken(d)' = 0
    BY <1>2, UpType DEF Taken
  <2>2. CASE d # c
    <3>1. Taken(d) = 0
      BY <1>1, <2>2 DEF Taken
    <3> QED
      BY <1>1, <1>4, <2>1, <2>2, <3>1, UpwardStays
  <2>3. CASE d = c
    BY <1>1, <1>4, <2>1, <2>3 DEF Upward
  <2> QED
    BY <2>2, <2>3
<1> QED
  BY <1>1, <1>4, <1>5 DEF UpInv

-----------------------------------------------------------------------------
(* From the peripheral to the clients.                                     *)

LEMMA RelaysType ==
  ASSUME Channel, NEW c
  PROVE  /\ made \in Nat /\ Len(internal) \in Nat /\ made - Len(internal) \in Nat
         /\ Waits(c) \in BOOLEAN /\ Relays(c) = made - Len(internal) - (IF Waits(c) THEN 1 ELSE 0)
         /\ Relays(c) \in Nat
<1>1. /\ made \in Nat /\ Len(internal) \in Nat /\ Len(internal) <= made
      /\ io.pc = "send" => made - Len(internal) >= 1
  BY ExternalIOAssumption DEF Channel
<1>2. made - Len(internal) \in Nat
  BY <1>1
<1>3. Waits(c) \in BOOLEAN /\ (Waits(c) => io.pc = "send")
  BY DEF Waits
<1>4. Relays(c) = made - Len(internal) - (IF Waits(c) THEN 1 ELSE 0)
  BY DEF Relays
<1>5. Relays(c) \in Nat
  BY <1>1, <1>2, <1>3, <1>4
<1> QED
  BY <1>1, <1>2, <1>3, <1>4, <1>5

\* The thread does something else, or goes on with the same message.
LEMMA DownStays ==
  ASSUME DownInv, UNCHANGED <<made, internal, down, got, first, clients, dropped>>, closed \subseteq closed',
         \A c \in Clients : Waits(c)' = Waits(c),
         io'.pc = "send" => io.pc = "send" /\ io'.msg = io.msg,
         io'.msg <= made, io'.pc # "exited" => io.pc # "exited", Range(clients) \subseteq Clients
  PROVE  DownInv'
<1>1. Channel'
  BY DEF DownInv, Channel
<1>2. Buffers'
  BY DEF DownInv, Buffers
<1>3. \A c \in Clients : Relays(c)' = Relays(c)
  BY DEF Relays
<1>4. ASSUME NEW c \in Range(clients'), c \notin closed' PROVE Gets(c)'
  <2>1. c \in Range(clients) \ closed /\ c \in Clients /\ Relays(c)' = Relays(c)
    BY <1>3, <1>4
  <2>2. Gets(c)
    BY <2>1 DEF DownInv, Clientele
  <2> QED
    BY <2>1, <2>2 DEF Gets
<1>5. Clientele'
  BY <1>3, <1>4 DEF DownInv, Clientele
<1> QED
  BY <1>1, <1>2, <1>5 DEF DownInv

LEMMA WaitsStays ==
  ASSUME UNCHANGED io \/ (io.pc # "send" /\ io'.pc # "send")
  PROVE  \A c \in Clients : Waits(c)' = Waits(c)
BY DEF Waits

LEMMA DownTransmit ==
  ASSUME Visits, DownInv, Transmit, Range(clients) \subseteq Clients
  PROVE  DownInv'
<1> DEFINE n == Len(internal)
           m == made + 1
           s == Append(internal, m)
<1>1. /\ made < MaxDown /\ n < Buffer /\ made' = m /\ internal' = s
      /\ io' = io /\ down' = down /\ got' = got /\ first' = first /\ clients' = clients
      /\ dropped' = dropped /\ closed' = closed
  BY DEF Transmit, thread, client
<1>2. /\ made \in Nat /\ n \in Nat /\ n <= made /\ internal \in Seq(Nat)
      /\ \A i \in 1 .. n : internal[i] = made - n + i
  BY ExternalIOAssumption DEF DownInv, Channel
<1>3. /\ s \in Seq(Nat) /\ Len(s) = n + 1 /\ (\A i \in 1 .. n : s[i] = internal[i]) /\ s[n + 1] = m
  BY <1>2
<1>4. \A i \in 1 .. n + 1 : s[i] = m - (n + 1) + i
  <2> HIDE DEF s, n
  <2> SUFFICES ASSUME NEW i \in 1 .. n + 1 PROVE s[i] = m - (n + 1) + i
    OBVIOUS
  <2>1. CASE i = n + 1
    BY <1>2, <1>3, <2>1
  <2>2. CASE i \in 1 .. n
    BY <1>2, <1>3, <2>2
  <2> QED
    BY <1>2, <2>1, <2>2
<1>5. Len(internal') = n + 1 /\ made' - Len(internal') = made - n
  BY <1>1, <1>2, <1>3
<1> HIDE DEF s
<1>6. Channel'
  <2>1. /\ made' \in 0 .. MaxDown /\ internal' \in Seq(Nat) /\ Len(internal') <= Buffer /\ Len(internal') <= made'
    BY <1>1, <1>2, <1>3, <1>5, ExternalIOAssumption
  <2>2. \A i \in 1 .. Len(internal') : internal'[i] = made' - Len(internal') + i
    BY <1>1, <1>3, <1>4
  <2>3. /\ io.msg <= made'
        /\ io.pc = "send" => io.msg = made' - Len(internal') /\ io.msg >= 1
    <3>1. io.msg <= made /\ (io.pc = "send" => io.msg = made - n /\ io.msg >= 1)
      BY DEF DownInv, Channel
    <3>2. io.msg \in Nat
      BY VisitsType
    <3> QED
      BY <1>1, <1>2, <1>5, <3>1, <3>2
  <2> QED
    BY <1>1, <2>1, <2>2, <2>3 DEF Channel
<1>7. \A c : Waits(c)' = Waits(c) /\ Relays(c)' = Relays(c)
  BY <1>1, <1>5 DEF Waits, Relays
<1>8. ASSUME NEW c \in Range(clients'), c \notin closed' PROVE Gets(c)'
  <2>1. c \in Range(clients) \ closed /\ Relays(c)' = Relays(c)
    BY <1>1, <1>7, <1>8
  <2>2. Gets(c)
    BY <2>1 DEF DownInv, Clientele
  <2> QED
    BY <1>1, <2>1, <2>2 DEF Gets
<1>9. Clientele'
  BY <1>1, <1>7, <1>8 DEF DownInv, Clientele
<1>10. Buffers'
  BY <1>1 DEF DownInv, Buffers
<1> QED
  BY <1>6, <1>9, <1>10 DEF DownInv

LEMMA DownRead ==
  ASSUME DownInv, NEW c \in Clients, Read(c), Range(clients) \subseteq Clients
  PROVE  DownInv'
<1>1. /\ down[c] # <<>> /\ down' = [down EXCEPT ![c] = Tail(@)]
      /\ made' = made /\ internal' = internal /\ io' = io /\ got' = got /\ first' = first /\ clients' = clients
      /\ dropped' = dropped /\ closed' = closed
  BY DEF Read, thread, client
<1>2. down \in [Clients -> Seq(Nat)] /\ down[c] \in Seq(Nat) /\ Len(down[c]) <= Buffer
  BY DEF DownInv, Buffers
<1> DEFINE t == Tail(down[c])
           d == down[c]
<1>3. d \in Seq(Nat) /\ d # <<>>
  BY <1>1, <1>2
<1> HIDE DEF d
<1>4. Tail(d) \in Seq(Nat) /\ Len(Tail(d)) = Len(d) - 1 /\ Len(d) \in Nat
  BY <1>3, LeavesFirst
<1>5. t \in Seq(Nat) /\ Len(t) <= Buffer
  BY <1>2, <1>4, ExternalIOAssumption DEF d
<1> HIDE DEF t
<1>6. down' = [down EXCEPT ![c] = t]
  BY <1>1, <1>2 DEF t
<1>7. Buffers'
  <2>1. \A e \in Clients : down'[e] = IF e = c THEN t ELSE down[e]
    BY <1>2, <1>6
  <2> QED
    BY <1>2, <1>5, <1>6, <2>1 DEF DownInv, Buffers
<1>8. Channel'
  BY <1>1 DEF DownInv, Channel
<1>9. \A e : Relays(e)' = Relays(e) /\ (Gets(e) <=> Gets(e)')
  BY <1>1 DEF Waits, Relays, Gets
<1>10. Clientele'
  BY <1>1, <1>9 DEF DownInv, Clientele
<1> QED
  BY <1>7, <1>8, <1>10 DEF DownInv

LEMMA DownRelay ==
  ASSUME Lists, Visits, DownInv, Relay
  PROVE  DownInv' /\ Head(internal) \in Nat
<1> DEFINE n == Len(internal)
           t == Tail(internal)
           k == made - n + 1
<1>1. /\ internal # <<>> /\ internal' = t /\ io.pc = "next"
      /\ made' = made /\ down' = down /\ got' = got /\ first' = first /\ clients' = clients
      /\ dropped' = dropped /\ closed' = closed
  BY DEF Relay, At, client
<1>2. /\ made \in Nat /\ n <= made /\ internal \in Seq(Nat) /\ n <= Buffer /\ made \in 0 .. MaxDown
      /\ \A i \in 1 .. n : internal[i] = made - n + i
  BY ExternalIOAssumption DEF DownInv, Channel
<1>3. /\ n \in Nat /\ n >= 1 /\ Len(t) = n - 1 /\ internal[1] = Head(internal) /\ t \in Seq(Nat)
      /\ \A i \in 1 .. n - 1 : t[i] = internal[i + 1]
  BY <1>1, <1>2, LeavesFirst
<1> HIDE DEF t, n
<1>4. /\ Head(internal) = k /\ k \in Nat /\ k >= 1 /\ k <= made /\ k = made - (n - 1)
      /\ \A i \in 1 .. n - 1 : t[i] = made - (n - 1) + i
  BY <1>2, <1>3
<1>5. io'.pc = "send" /\ io'.to = clients /\ io'.msg = k
  BY <1>4, VisitsRelay
<1>6. Len(internal') = n - 1
  BY <1>1, <1>3
<1> HIDE DEF k
<1>7. Channel'
  <2>1. /\ made' \in 0 .. MaxDown /\ internal' \in Seq(Nat) /\ Len(internal') <= Buffer /\ Len(internal') <= made'
        /\ \A i \in 1 .. Len(internal') : internal'[i] = made' - Len(internal') + i
    BY <1>1, <1>2, <1>3, <1>4, <1>6, ExternalIOAssumption
  <2>2. io'.msg <= made' /\ io'.msg = made' - Len(internal') /\ io'.msg >= 1
    BY <1>1, <1>4, <1>5, <1>6
  <2> QED
    BY <2>1, <2>2 DEF Channel
<1>8. ASSUME NEW c \in Range(clients) PROVE Relays(c)' = Relays(c)
  <2>1. ~Waits(c) /\ Waits(c)'
    BY <1>1, <1>5 DEF Waits
  <2>2. Relays(c) = made - n /\ Relays(c)' = made' - Len(internal') - 1
    BY <2>1, <1>2, <1>3, <1>6, <1>1 DEF Relays, n
  <2> QED
    BY <1>1, <1>2, <1>3, <1>6, <2>2
<1>9. ASSUME NEW c \in Range(clients'), c \notin closed' PROVE Gets(c)'
  <2>1. c \in Range(clients) \ closed /\ Relays(c)' = Relays(c)
    BY <1>1, <1>8, <1>9
  <2>2. Gets(c) /\ io.pc # "exited"
    BY <1>1, <2>1 DEF DownInv, Clientele
  <2> QED
    BY <1>1, <2>1, <2>2 DEF Gets
<1>10. Clientele'
  BY <1>1, <1>8, <1>9 DEF DownInv, Clientele
<1>11. Buffers'
  BY <1>1 DEF DownInv, Buffers
<1> QED
  BY <1>4, <1>7, <1>10, <1>11 DEF DownInv

\* A client that has got f + 1 .. f + n gets the next message.
LEMMA GotGrows ==
  ASSUME NEW f \in Nat, NEW n \in Nat
  PROVE  /\ [i \in 1 .. n |-> f + i] \in Seq(Nat)
         /\ Append([i \in 1 .. n |-> f + i], f + n + 1) = [i \in 1 .. n + 1 |-> f + i]
<1> DEFINE s == [i \in 1 .. n |-> f + i]
           t == [i \in 1 .. n + 1 |-> f + i]
           x == f + n + 1
           a == Append(s, x)
<1>1. s \in Seq(Nat) /\ Len(s) = n /\ (\A i \in 1 .. n : s[i] = f + i) /\ x \in Nat /\ x = f + (n + 1)
  OBVIOUS
<1>2. t \in Seq(Nat) /\ Len(t) = n + 1 /\ \A i \in 1 .. n + 1 : t[i] = f + i
  OBVIOUS
<1> HIDE DEF s, t, x
<1>3. a \in Seq(Nat) /\ Len(a) = n + 1 /\ (\A i \in 1 .. n : a[i] = s[i]) /\ a[n + 1] = x
  BY <1>1
<1> HIDE DEF a
<1>4. ASSUME NEW i \in 1 .. n + 1 PROVE a[i] = t[i]
  <2>1. i \in 1 .. n \/ i = n + 1
    OBVIOUS
  <2> QED
    BY <1>1, <1>2, <1>3, <2>1
<1>5. a = t
  <2>1. Len(a) = Len(t) /\ \A i \in 1 .. Len(a) : a[i] = t[i]
    BY <1>2, <1>3, <1>4
  <2> QED
    BY <1>2, <1>3, <2>1, SameSeq
<1> QED
  BY <1>1, <1>5 DEF a, s, t, x

LEMMA DownSendOne ==
  ASSUME Lists, Visits, DownInv, SendOne
  PROVE  DownInv' /\ Visits'
<1> DEFINE m == made - Len(internal)
           tail == [io EXCEPT !.to = Tail(@)]
<1>0. PICK c : c = Head(io.to)
  OBVIOUS
<1>1. /\ io.pc = "send" /\ io.to # <<>> /\ inputs' = inputs /\ clients' = clients /\ backlog' = backlog
      /\ made' = made /\ internal' = internal /\ first' = first /\ dropped' = dropped /\ closed' = closed
  BY DEF SendOne, client
<1>2. \/ /\ c \notin closed /\ Len(down[c]) < Buffer /\ down' = [down EXCEPT ![c] = Append(@, io.msg)]
         /\ got' = [got EXCEPT ![c] = Append(@, io.msg)] /\ io' = tail
      \/ c \in closed /\ io' = tail /\ down' = down /\ got' = got
      \/ c \in closed /\ Exit /\ down' = down /\ got' = got
  BY <1>0 DEF SendOne
<1>3. Channel /\ Buffers /\ Clientele
  BY DEF DownInv
<1>4. /\ io.msg = m /\ m \in Nat /\ m >= 1 /\ m <= made
      /\ \A d : Relays(d) = m - (IF Waits(d) THEN 1 ELSE 0) /\ Relays(d) \in Nat
      /\ \A d : Relays(d)' = m - (IF Waits(d)' THEN 1 ELSE 0)
  <2>1. m \in Nat /\ made \in Nat /\ Len(internal) \in Nat /\ \A d : Relays(d) \in Nat
    BY <1>3, RelaysType
  <2>2. io.msg = m /\ m >= 1
    BY <1>1, <1>3 DEF Channel
  <2>3. m <= made
    BY <2>1
  <2>4. \A d : Relays(d) = m - (IF Waits(d) THEN 1 ELSE 0) /\ Relays(d)' = m - (IF Waits(d)' THEN 1 ELSE 0)
    BY <1>1 DEF Relays
  <2> QED
    BY <2>1, <2>2, <2>3, <2>4
<1> HIDE DEF m
<1>5. Range(clients) \subseteq Clients
  BY InputsFacts
<1>6. CASE Exit
  <2>1. Visits' /\ io'.pc = "exited" /\ io'.msg = 0
    BY <1>6, VisitsExit DEF Exit
  <2>2. \A d : ~Waits(d)'
    BY <2>1 DEF Waits
  <2>3. down' = down /\ got' = got
    <3>1. io' = tail => io'.pc = "send"
      <4>1. io \in Ios
        BY VisitsType
      <4> QED
        BY <1>1, <4>1 DEF Ios
    <3> QED
      BY <1>2, <2>1, <3>1
  <2>4. Channel'
    <3>1. 0 <= made
      BY <1>3, RelaysType
    <3> QED
      BY <1>1, <1>3, <2>1, <3>1 DEF Channel
  <2>5. Buffers'
    BY <1>3, <2>3 DEF Buffers
  <2>6. Clientele'
    <3>1. \A d \in Range(clients) : first[d] <= Relays(d)'
      <4> SUFFICES ASSUME NEW d \in Range(clients) PROVE first[d] <= Relays(d)'
        OBVIOUS
      <4>1. first[d] \in Nat /\ first[d] <= Relays(d)
        BY <1>3, <1>5 DEF Clientele
      <4> QED
        BY <1>4, <2>2, <4>1
    <3>2. \A d : Gets(d)'
      BY <2>1 DEF Gets
    <3> QED
      BY <1>1, <1>3, <2>3, <3>1, <3>2 DEF Clientele
  <2> QED
    BY <2>1, <2>4, <2>5, <2>6 DEF DownInv
<1>7. CASE io' = tail
  <2>1. /\ Visits' /\ io'.pc = "send" /\ io'.msg = io.msg
        /\ c \in Range(clients) /\ c \in Clients /\ Range(io.to) = {c} \union Range(io'.to) /\ c \notin Range(io'.to)
    BY <1>0, <1>1, <1>7, VisitsTail
  <2>2. Waits(c) /\ ~Waits(c)' /\ \A d : d # c => Waits(d)' = Waits(d)
    BY <1>1, <2>1 DEF Waits
  <2>3. Relays(c) = m - 1 /\ Relays(c)' = m /\ \A d : d # c => Relays(d)' = Relays(d)
    <3>1. Relays(c) = m - 1
      BY <1>4, <2>2
    <3>2. Relays(c)' = m - 0
      BY <1>4, <2>2
    <3>3. \A d : d # c => Relays(d)' = Relays(d)
      BY <1>4, <2>2
    <3> QED
      BY <1>4, <3>1, <3>2, <3>3
  <2>4. Channel'
    BY <1>1, <1>3, <2>1 DEF Channel
  <2>5. \A d \in Range(clients) : first[d] \in Nat /\ first[d] <= Relays(d)'
    <3> SUFFICES ASSUME NEW d \in Range(clients) PROVE first[d] \in Nat /\ first[d] <= Relays(d)'
      OBVIOUS
    <3>1. first[d] \in Nat /\ first[d] <= Relays(d)
      BY <1>3, <1>5 DEF Clientele
    <3>2. CASE d = c
      BY <1>4, <2>3, <3>1, <3>2
    <3>3. CASE d # c
      BY <2>3, <3>1, <3>3
    <3> QED
      BY <3>2, <3>3
  <2>6. got \in [Clients -> Seq(Nat)] /\ down \in [Clients -> Seq(Nat)] /\ got[c] \in Seq(Nat) /\ down[c] \in Seq(Nat)
    BY <1>3, <2>1 DEF Clientele, Buffers
  <2>7. \A d \in Range(clients) \ closed : d # c /\ got'[d] = got[d] => Gets(d)'
    <3> SUFFICES ASSUME NEW d \in Range(clients) \ closed, d # c, got'[d] = got[d] PROVE Gets(d)'
      OBVIOUS
    <3>1. Gets(d) /\ Relays(d)' = Relays(d)
      BY <1>3, <2>3 DEF Clientele
    <3> QED
      BY <1>1, <3>1 DEF Gets
  <2>8. CASE c \in closed /\ down' = down /\ got' = got
    <3>1. Clientele'
      BY <1>1, <1>3, <2>5, <2>7, <2>8 DEF Clientele
    <3>2. Buffers'
      BY <1>3, <2>8 DEF Buffers
    <3> QED
      BY <2>1, <2>4, <3>1, <3>2 DEF DownInv
  <2>9. CASE /\ c \notin closed /\ Len(down[c]) < Buffer /\ down' = [down EXCEPT ![c] = Append(@, io.msg)]
             /\ got' = [got EXCEPT ![c] = Append(@, io.msg)]
    <3> DEFINE g == Append(got[c], m)
               e == Append(down[c], m)
    <3>1. /\ g \in Seq(Nat) /\ e \in Seq(Nat) /\ Len(e) = Len(down[c]) + 1 /\ Len(down[c]) \in Nat
      BY <1>4, <2>6
    <3>2. down' = [down EXCEPT ![c] = e] /\ got' = [got EXCEPT ![c] = g]
      BY <1>4, <2>6, <2>9
    <3>3. Len(e) <= Buffer
      BY <2>9, <3>1, ExternalIOAssumption
    <3>4. got[c] = [i \in 1 .. m - 1 - first[c] |-> first[c] + i]
      <4>1. Gets(c)
        BY <1>3, <2>1, <2>9 DEF Clientele
      <4> QED
        BY <1>1, <2>3, <4>1 DEF Gets
    <3>5. g = [i \in 1 .. m - first[c] |-> first[c] + i]
      <4> DEFINE f == first[c]
                 n == m - 1 - f
      <4>1. f \in Nat /\ f <= m - 1
        <5>1. first[c] \in Nat /\ first[c] <= Relays(c)
          BY <1>3, <2>1 DEF Clientele
        <5> QED
          BY <2>3, <5>1
      <4>2. n \in Nat /\ n + 1 = m - f /\ f + n + 1 = m
        BY <1>4, <4>1
      <4>3. got[c] = [i \in 1 .. n |-> f + i]
        BY <3>4
      <4> HIDE DEF n, f
      <4>4. Append([i \in 1 .. n |-> f + i], f + n + 1) = [i \in 1 .. n + 1 |-> f + i]
        BY <4>1, <4>2, GotGrows
      <4>5. g = [i \in 1 .. m - f |-> f + i]
        BY <4>2, <4>3, <4>4
      <4> QED
        BY <4>5 DEF f
    <3> HIDE DEF g, e
    <3>6. /\ got' \in [Clients -> Seq(Nat)] /\ got'[c] = g /\ \A d \in Clients \ {c} : got'[d] = got[d]
          /\ down' \in [Clients -> Seq(Nat)] /\ down'[c] = e /\ \A d \in Clients \ {c} : down'[d] = down[d]
      BY <2>1, <2>6, <3>1, <3>2
    <3>7. Gets(c)'
      BY <1>1, <2>3, <3>5, <3>6 DEF Gets
    <3>8. \A d \in Range(clients) \ closed : Gets(d)'
      <4> SUFFICES ASSUME NEW d \in Range(clients) \ closed PROVE Gets(d)'
        OBVIOUS
      <4>1. CASE d = c
        BY <3>7, <4>1
      <4>2. CASE d # c
        BY <1>5, <2>7, <3>6, <4>2
      <4> QED
        BY <4>1, <4>2
    <3>9. \A d \in Clients : d \notin Range(clients) \union dropped => got'[d] = <<>>
      BY <1>3, <2>1, <3>6 DEF Clientele
    <3>10. Clientele'
      BY <1>1, <1>3, <2>5, <3>6, <3>8, <3>9 DEF Clientele
    <3>11. Buffers'
      <4>1. \A d \in Clients : Len(down'[d]) <= Buffer
        BY <1>3, <3>3, <3>6 DEF Buffers
      <4> QED
        BY <3>6, <4>1 DEF Buffers
    <3> QED
      BY <2>1, <2>4, <3>10, <3>11 DEF DownInv
  <2> QED
    <3>1. ~Exit
      BY <2>1 DEF Exit
    <3> QED
      BY <1>2, <2>8, <2>9, <3>1
<1> QED
  BY <1>2, <1>6, <1>7

LEMMA DownAccept ==
  ASSUME Lists, Visits, DownInv, Accept
  PROVE  DownInv'
<1>0. PICK c : c = Head(backlog)
  OBVIOUS
<1>1. /\ io' = Onward /\ io.pc = "next" /\ io.ready # <<>> /\ first' = [first EXCEPT ![c] = made - Len(internal)]
      /\ made' = made /\ internal' = internal /\ down' = down /\ got' = got /\ dropped' = dropped /\ closed' = closed
  BY <1>0 DEF Accept, At, client
<1>2. io'.pc \in {"select", "next"} /\ io'.msg = 0
  BY <1>1, OnwardLeaves
<1>3. /\ c \in Clients /\ c \notin Range(clients) \union dropped /\ Range(clients') = Range(clients) \union {c}
      /\ Range(clients) \subseteq Clients
  BY <1>0, VisitsAccept, ListsAccept, InputsFacts
<1>4. Channel /\ Buffers /\ Clientele
  BY DEF DownInv
<1> DEFINE m == made - Len(internal)
<1>5. /\ m \in Nat /\ made \in Nat
      /\ \A d : Relays(d)' = m /\ Relays(d) = m
  <2>1. \A d : ~Waits(d) /\ ~Waits(d)'
    BY <1>1, <1>2 DEF Waits
  <2>2. m \in Nat /\ made \in Nat
    BY <1>4, RelaysType
  <2>3. \A d : Relays(d)' = m - 0 /\ Relays(d) = m - 0
    BY <1>1, <2>1 DEF Relays
  <2> QED
    BY <2>2, <2>3
<1> HIDE DEF m
<1>6. /\ first' \in [Clients -> Nat] /\ first'[c] = m /\ \A d \in Clients \ {c} : first'[d] = first[d]
  <2>1. first \in [Clients -> Nat] /\ first' = [first EXCEPT ![c] = m]
    BY <1>1, <1>4 DEF Clientele, m
  <2> QED
    BY <1>3, <1>5, <2>1
<1>7. Channel'
  <2>1. 0 <= made
    BY <1>5
  <2> QED
    BY <1>1, <1>2, <1>4, <2>1 DEF Channel
<1>8. Buffers'
  BY <1>1, <1>4 DEF Buffers
<1>9. Gets(c)'
  <2>1. [i \in 1 .. 0 |-> m + i] \in Seq(Nat) /\ Len([i \in 1 .. 0 |-> m + i]) = 0
    OBVIOUS
  <2>2. [i \in 1 .. 0 |-> m + i] = <<>>
    BY <2>1, NoLength
  <2>3. got'[c] = <<>> /\ m - m = 0
    BY <1>1, <1>3, <1>4, <1>5 DEF Clientele
  <2>4. got'[c] = [i \in 1 .. m - m |-> m + i]
    BY <2>2, <2>3
  <2> QED
    BY <1>5, <1>6, <2>4 DEF Gets
<1>10. ASSUME NEW d \in Range(clients) PROVE first'[d] <= Relays(d)' /\ (d \notin closed => Gets(d)')
  <2>1. first[d] <= Relays(d) /\ first'[d] = first[d] /\ Relays(d)' = Relays(d)
    BY <1>3, <1>4, <1>5, <1>6 DEF Clientele
  <2>2. ASSUME d \notin closed PROVE Gets(d)'
    <3>1. Gets(d) /\ io.pc # "exited"
      BY <1>1, <1>4, <2>2 DEF Clientele
    <3> QED
      BY <1>1, <2>1, <3>1 DEF Gets
  <2> QED
    BY <2>1, <2>2
<1>11. first'[c] <= Relays(c)'
  BY <1>5, <1>6
<1>12. Clientele'
  <2>1. \A d \in Range(clients') : first'[d] <= Relays(d)'
    BY <1>3, <1>10, <1>11
  <2>2. \A d \in Range(clients') \ closed' : Gets(d)'
    BY <1>1, <1>3, <1>9, <1>10
  <2> QED
    BY <1>1, <1>3, <1>4, <1>6, <2>1, <2>2 DEF Clientele
<1> QED
  BY <1>7, <1>8, <1>12 DEF DownInv

LEMMA DownDrop ==
  ASSUME Lists, Visits, DownInv, NEW c \in Clients, Drop(c)
  PROVE  DownInv'
<1>1. /\ io' = Onward /\ io.pc \in {"next", "body"} /\ io.ready # <<>> /\ dropped' = dropped \union {c}
      /\ made' = made /\ internal' = internal /\ down' = down /\ got' = got /\ first' = first /\ closed' = closed
  BY DEF Drop, At
<1>2. io'.pc \in {"select", "next"} /\ io'.msg = 0
  BY <1>1, OnwardLeaves
<1>3. c \in Range(clients) /\ Range(clients') = Range(clients) \ {c}
  BY VisitsDrop, ListsDrop
<1>4. Channel /\ Buffers /\ Clientele
  BY DEF DownInv
<1>5. \A d : Relays(d)' = Relays(d)
  BY <1>1, <1>2 DEF Relays, Waits
<1>6. Channel'
  <2>1. 0 <= made
    BY <1>4, RelaysType
  <2> QED
    BY <1>1, <1>2, <1>4, <2>1 DEF Channel
<1>7. Buffers'
  BY <1>1, <1>4 DEF Buffers
<1>8. ASSUME NEW d \in Range(clients'), d \notin closed' PROVE Gets(d)'
  <2>1. Gets(d) /\ io.pc # "exited"
    BY <1>1, <1>3, <1>4, <1>8 DEF Clientele
  <2> QED
    BY <1>1, <1>5, <2>1 DEF Gets
<1>9. Clientele'
  BY <1>1, <1>3, <1>4, <1>5, <1>8 DEF Clientele
<1> QED
  BY <1>6, <1>7, <1>9 DEF DownInv

-----------------------------------------------------------------------------
(* Every step preserves the invariant.                                     *)

\* A step of the main thread or of a client, which leaves the IO thread as it is.
LEMMA OthersInv ==
  ASSUME IInv,
         \/ Transmit \/ ProcessIO \/ Shutdown
         \/ \E c \in Clients : Connect(c) \/ Send(c) \/ Close(c) \/ Read(c) \/ Arrive(c)
  PROVE  IInv'
<1>1. Lists /\ Visits /\ UpInv /\ DownInv /\ closed \in SUBSET Clients /\ shut \in BOOLEAN
  BY DEF IInv, Lists
<1>2. Range(clients) \subseteq Clients /\ io.msg <= made
  BY <1>1, InputsFacts DEF DownInv, Channel
<1>3. CASE Transmit
  <2>1. UNCHANGED <<thread, client, up, shut, queue, done>>
    BY <1>3 DEF Transmit
  <2>2. Lists'
    BY <1>1, <2>1, ListsStay DEF thread, client
  <2>3. Visits'
    BY <1>1, <2>1, VisitsStay DEF thread
  <2>4. UpInv'
    BY <1>1, <2>1, TakenStays, UpStays DEF thread, client
  <2> QED
    BY <1>1, <1>2, <1>3, <2>2, <2>3, <2>4, DownTransmit DEF IInv
<1>4. CASE ProcessIO
  <2>1. UNCHANGED <<thread, client, shut, made, internal, down, got, first>>
    BY <1>4 DEF ProcessIO
  <2>2. Lists'
    BY <1>1, <2>1, ListsStay DEF thread, client
  <2>3. Visits'
    BY <1>1, <2>1, VisitsStay DEF thread
  <2>4. DownInv'
    BY <1>1, <1>2, <2>1, WaitsStays, DownStays DEF thread, client
  <2> QED
    BY <1>1, <1>4, <2>2, <2>3, <2>4, UpProcess DEF IInv
<1>5. CASE Shutdown
  <2>1. UNCHANGED <<thread, client, up, queue, done, made, internal, down, got, first>> /\ shut' \in BOOLEAN
    BY <1>5 DEF Shutdown
  <2>2. Lists'
    BY <1>1, <2>1, ListsStay DEF thread, client
  <2>3. Visits'
    BY <1>1, <2>1, VisitsStay DEF thread
  <2>4. UpInv'
    BY <1>1, <2>1, TakenStays, UpStays DEF thread, client
  <2>5. DownInv'
    BY <1>1, <1>2, <2>1, WaitsStays, DownStays DEF thread, client
  <2> QED
    BY <2>2, <2>3, <2>4, <2>5 DEF IInv
<1>6. ASSUME NEW c \in Clients, Connect(c) PROVE IInv'
  <2>1. /\ UNCHANGED <<io, inputs, clients, dropped, client, up, queue, done, made, internal, down, got, first>>
        /\ backlog' = Append(backlog, c) /\ backlog \in Seq(Clients)
    BY <1>1, <1>6 DEF Connect, Lists
  <2>2. backlog' # <<>>
    <3>1. Append(backlog, c) # <<>>
      BY <2>1, JoinsLast
    <3> QED
      BY <2>1, <3>1
  <2>3. Visits'
    BY <1>1, <2>1, <2>2, VisitsStay
  <2>4. UpInv'
    BY <1>1, <2>1, TakenStays, UpStays DEF client
  <2>5. DownInv'
    BY <1>1, <1>2, <2>1, WaitsStays, DownStays DEF client
  <2> QED
    BY <1>1, <1>6, <2>3, <2>4, <2>5, ListsConnect DEF IInv
<1>7. ASSUME NEW c \in Clients, Send(c) PROVE IInv'
  <2>1. UNCHANGED <<thread, closed, shut, made, internal, down, got, first>>
    BY <1>7 DEF Send
  <2>2. Lists'
    BY <1>1, <2>1, ListsStay DEF thread
  <2>3. Visits'
    BY <1>1, <2>1, VisitsStay DEF thread
  <2>4. DownInv'
    BY <1>1, <1>2, <2>1, WaitsStays, DownStays DEF thread
  <2> QED
    BY <1>1, <1>7, <2>2, <2>3, <2>4, UpSend DEF IInv
<1>8. ASSUME NEW c \in Clients, Close(c) PROVE IInv'
  <2>1. /\ UNCHANGED <<thread, wire, sent, up, shut, queue, done, made, internal, down, got, first>>
        /\ closed' \in SUBSET Clients /\ closed \subseteq closed'
    BY <1>1, <1>8 DEF Close
  <2>2. Lists'
    BY <1>1, <2>1, ListsStay DEF thread
  <2>3. Visits'
    BY <1>1, <2>1, VisitsStay DEF thread
  <2>4. UpInv'
    BY <1>1, <2>1, TakenStays, UpStays DEF thread
  <2>5. DownInv'
    BY <1>1, <1>2, <2>1, WaitsStays, DownStays DEF thread
  <2> QED
    BY <2>2, <2>3, <2>4, <2>5 DEF IInv
<1>9. ASSUME NEW c \in Clients, Read(c) PROVE IInv'
  <2>1. UNCHANGED <<thread, client, up, shut, queue, done>>
    BY <1>9 DEF Read
  <2>2. Lists'
    BY <1>1, <2>1, ListsStay DEF thread, client
  <2>3. Visits'
    BY <1>1, <2>1, VisitsStay DEF thread
  <2>4. UpInv'
    BY <1>1, <2>1, TakenStays, UpStays DEF thread, client
  <2> QED
    BY <1>1, <1>2, <1>9, <2>2, <2>3, <2>4, DownRead DEF IInv
<1>10. ASSUME NEW c \in Clients, Arrive(c) PROVE IInv'
  <2>1. UNCHANGED <<thread, closed, shut, made, internal, down, got, first>>
    BY <1>10 DEF Arrive
  <2>2. Lists'
    BY <1>1, <2>1, ListsStay DEF thread
  <2>3. Visits'
    BY <1>1, <2>1, VisitsStay DEF thread
  <2>4. DownInv'
    BY <1>1, <1>2, <2>1, WaitsStays, DownStays DEF thread
  <2> QED
    BY <1>1, <1>10, <2>2, <2>3, <2>4, UpArrive DEF IInv
<1> QED
  BY <1>3, <1>4, <1>5, <1>6, <1>7, <1>8, <1>9, <1>10

\* A step of the IO thread.
LEMMA ThreadInv ==
  ASSUME IInv, IoStep
  PROVE  IInv'
<1>1. Lists /\ Visits /\ UpInv /\ DownInv /\ closed \in SUBSET Clients /\ shut \in BOOLEAN
  BY DEF IInv, Lists
<1>2. Range(clients) \subseteq Clients /\ io.msg <= made /\ 0 <= made
  <2>1. Channel
    BY <1>1 DEF DownInv
  <2>2. made \in Nat /\ io.msg <= made
    BY <2>1, RelaysType DEF Channel
  <2> QED
    BY <1>1, <2>2, InputsFacts
<1>3. CASE Select
  <2>1. UNCHANGED <<inputs, clients, backlog, dropped, client, up, shut, queue, done, made, internal, down, got, first>>
    BY <1>3 DEF Select
  <2>2. Visits' /\ io.pc = "select" /\ io'.pc = "next" /\ io'.msg = io.msg
    BY <1>1, <1>3, VisitsSelect
  <2>3. Lists'
    BY <1>1, <2>1, ListsStay DEF client
  <2>4. UpInv'
    BY <1>1, <2>1, <2>2, TakenStays, UpStays DEF client
  <2>5. DownInv'
    BY <1>1, <1>2, <2>1, <2>2, WaitsStays, DownStays DEF client
  <2> QED
    BY <2>2, <2>3, <2>4, <2>5 DEF IInv
<1>4. CASE Relay
  <2>1. UNCHANGED <<inputs, clients, backlog, dropped, client, up, shut, queue, done>>
    BY <1>4 DEF Relay
  <2>2. DownInv' /\ Head(internal) \in Nat
    BY <1>1, <1>4, DownRelay
  <2>3. Visits' /\ io.pc = "next" /\ io'.pc = "send"
    BY <1>1, <1>4, <2>2, VisitsRelay
  <2>4. Lists'
    BY <1>1, <2>1, ListsStay DEF client
  <2>5. UpInv'
    BY <1>1, <2>1, <2>3, TakenStays, UpStays DEF client
  <2> QED
    BY <2>2, <2>3, <2>4, <2>5 DEF IInv
<1>5. CASE LostMain
  <2>1. /\ UNCHANGED <<inputs, clients, backlog, dropped, client, up, shut, queue, done, made, internal, down, got, first>>
        /\ Exit /\ io.pc = "next" /\ io'.pc = "exited" /\ io'.msg = 0
    BY <1>5 DEF LostMain, Exit, At
  <2>2. Visits'
    BY <2>1, VisitsExit
  <2>3. Lists'
    BY <1>1, <2>1, ListsStay DEF client
  <2>4. UpInv'
    BY <1>1, <2>1, TakenStays, UpStays DEF client
  <2>5. DownInv'
    BY <1>1, <1>2, <2>1, WaitsStays, DownStays DEF client
  <2> QED
    BY <2>2, <2>3, <2>4, <2>5 DEF IInv
<1>6. CASE SendOne
  <2>1. /\ UNCHANGED <<inputs, clients, backlog, dropped, client, up, shut, queue, done>> /\ io.pc = "send"
    BY <1>6 DEF SendOne
  <2>2. io'.pc # "body"
    <3>1. io \in Ios
      BY <1>1, VisitsType
    <3>2. io' = [io EXCEPT !.to = Tail(@)] \/ Exit
      BY <1>6 DEF SendOne
    <3>3. io' = [io EXCEPT !.to = Tail(@)] => io'.pc = "send"
      BY <2>1, <3>1 DEF Ios
    <3>4. Exit => io'.pc = "exited"
      BY DEF Exit
    <3> QED
      BY <3>2, <3>3, <3>4
  <2>3. DownInv' /\ Visits'
    BY <1>1, <1>6, DownSendOne
  <2>4. Lists'
    BY <1>1, <2>1, ListsStay DEF client
  <2>5. UpInv'
    BY <1>1, <2>1, <2>2, TakenStays, UpStays DEF client
  <2> QED
    BY <2>3, <2>4, <2>5 DEF IInv
<1>7. CASE Relayed
  <2>1. /\ UNCHANGED <<inputs, clients, backlog, dropped, client, up, shut, queue, done, made, internal, down, got, first>>
        /\ io.pc = "send" /\ io.to = <<>> /\ io' = Onward /\ io.ready # <<>>
    BY <1>1, <1>7 DEF Relayed, Visits
  <2>2. io'.pc \in {"select", "next"} /\ io'.msg = 0
    BY <1>1, <2>1, OnwardLeaves
  <2>3. Visits'
    BY <1>1, <1>7, VisitsRelayed
  <2>4. Lists'
    BY <1>1, <2>1, ListsStay DEF client
  <2>5. UpInv'
    BY <1>1, <2>1, <2>2, TakenStays, UpStays DEF client
  <2>6. \A c \in Clients : Waits(c)' = Waits(c)
    BY <2>1, <2>2, NothingYet DEF Waits
  <2>7. DownInv'
    BY <1>1, <1>2, <2>1, <2>2, <2>6, DownStays DEF client
  <2> QED
    BY <2>3, <2>4, <2>5, <2>7 DEF IInv
<1>8. CASE Accept
  <2>1. /\ UNCHANGED <<dropped, client, up, queue, done>>
        /\ io.pc = "next" /\ io' = Onward /\ io.ready # <<>>
    BY <1>8 DEF Accept, At
  <2>2. io'.pc \in {"select", "next"}
    BY <1>1, <2>1, OnwardLeaves
  <2>3. Visits' /\ backlog # <<>>
    BY <1>1, <1>8, VisitsAccept
  <2>4. Lists'
    BY <1>1, <1>8, <2>3, ListsAccept
  <2>5. UpInv'
    BY <1>1, <2>1, <2>2, TakenStays, UpStays DEF client
  <2> QED
    BY <1>1, <1>8, <2>3, <2>4, <2>5, DownAccept DEF IInv
<1>9. ASSUME NEW c \in Clients, RecvLength(c) PROVE IInv'
  <2>1. UNCHANGED <<inputs, clients, backlog, dropped, client, shut, made, internal, down, got, first>>
    BY <1>9 DEF RecvLength
  <2>2. Visits' /\ io.pc = "next" /\ io'.pc = "body" /\ io'.msg = io.msg
    BY <1>1, <1>9, VisitsRecvLength
  <2>3. Lists'
    BY <1>1, <2>1, ListsStay DEF client
  <2>4. DownInv'
    BY <1>1, <1>2, <2>1, <2>2, WaitsStays, DownStays DEF client
  <2> QED
    BY <1>1, <1>9, <2>2, <2>3, <2>4, UpRecvLength DEF IInv
<1>10. ASSUME NEW c \in Clients, RecvBody(c) PROVE IInv'
  <2>1. /\ UNCHANGED <<inputs, clients, backlog, dropped, client, shut, made, internal, down, got, first>>
        /\ io.pc = "body" /\ io' = Onward /\ io.ready # <<>>
    BY <1>10 DEF RecvBody, At
  <2>2. io'.pc \in {"select", "next"} /\ io'.msg = 0
    BY <1>1, <2>1, OnwardLeaves
  <2>3. Visits'
    BY <1>1, <1>10, VisitsRecvBody
  <2>4. Lists'
    BY <1>1, <2>1, ListsStay DEF client
  <2>5. DownInv'
    BY <1>1, <1>2, <2>1, <2>2, WaitsStays, DownStays DEF client
  <2> QED
    BY <1>1, <1>10, <2>3, <2>4, <2>5, UpRecvBody DEF IInv
<1>11. ASSUME NEW c \in Clients, Drop(c) PROVE IInv'
  <2>1. Visits' /\ c \in Range(inputs)
    BY <1>1, <1>11, VisitsDrop
  <2>2. Lists'
    BY <1>1, <1>11, <2>1, ListsDrop
  <2>3. UpInv'
    BY <1>1, <1>11, UpDrop
  <2>4. DownInv'
    BY <1>1, <1>11, DownDrop
  <2> QED
    BY <2>1, <2>2, <2>3, <2>4 DEF IInv
<1> QED
  BY <1>3, <1>4, <1>5, <1>6, <1>7, <1>8, <1>9, <1>10, <1>11 DEF IoStep

LEMMA StutterInv ==
  ASSUME IInv, UNCHANGED vars
  PROVE  IInv'
<1>1. Lists /\ Visits /\ UpInv /\ DownInv /\ closed \in SUBSET Clients /\ shut \in BOOLEAN
  BY DEF IInv, Lists
<1>2. Range(clients) \subseteq Clients /\ io.msg <= made
  BY <1>1, InputsFacts DEF DownInv, Channel
<1>3. Lists'
  BY <1>1, ListsStay DEF vars, thread, client
<1>4. Visits'
  BY <1>1, VisitsStay DEF vars, thread
<1>5. UpInv'
  BY <1>1, TakenStays, UpStays DEF vars, thread, client
<1>6. DownInv'
  BY <1>1, <1>2, WaitsStays, DownStays DEF vars, thread, client
<1> QED
  BY <1>3, <1>4, <1>5, <1>6 DEF IInv

LEMMA StepInv == IInv /\ [Next]_vars => IInv'
BY OthersInv, ThreadInv, StutterInv DEF Next

-----------------------------------------------------------------------------
(* What the invariant says.                                                *)

LEMMA PartsType ==
  ASSUME NEW T, NEW U, NEW s \in Seq(T), NEW t \in Seq(T), s \o t \in Seq(U)
  PROVE  s \in Seq(U) /\ t \in Seq(U)
<1> DEFINE v == s \o t
           n == Len(s)
           m == Len(t)
<1>1. /\ n \in Nat /\ m \in Nat /\ Len(v) = n + m
      /\ \A i \in 1 .. n : v[i] = s[i]
      /\ \A i \in 1 .. m : v[n + i] = t[i]
  BY Joined
<1>2. s = [i \in 1 .. n |-> s[i]] /\ t = [i \in 1 .. m |-> t[i]]
  BY LenProperties
<1>3. v \in Seq(U)
  OBVIOUS
<1> HIDE DEF v
<1>4. \A i \in 1 .. n + m : v[i] \in U
  BY <1>1, <1>3, ElementOfSeq
<1> HIDE DEF n, m
<1>5. \A i \in 1 .. n : s[i] \in U
  BY <1>1, <1>4
<1>6. \A i \in 1 .. m : t[i] \in U
  <2> SUFFICES ASSUME NEW i \in 1 .. m PROVE t[i] \in U
    OBVIOUS
  <2>1. n + i \in 1 .. n + m
    BY <1>1
  <2> QED
    BY <1>1, <1>4, <2>1
<1>7. s \in Seq(U)
  BY <1>1, <1>2, <1>5
<1>8. t \in Seq(U)
  BY <1>1, <1>2, <1>6
<1> QED
  BY <1>7, <1>8

\* 1 .. k and then k + 1 .. m are 1 .. m.
LEMMA NumbersJoin ==
  ASSUME NEW m \in Nat, NEW k \in 0 .. m
  PROVE  Numbers(k) \o [j \in 1 .. m - k |-> k + j] = Numbers(m)
<1> DEFINE s == Numbers(k)
           n == m - k
           t == [j \in 1 .. n |-> k + j]
           u == Numbers(m)
           v == s \o t
<1>1. n \in Nat /\ k \in Nat /\ k + n = m
  OBVIOUS
<1>2. s \in Seq(Nat) /\ Len(s) = k /\ \A i \in 1 .. k : s[i] = i
  BY <1>1, NumbersType
<1>3. u \in Seq(Nat) /\ Len(u) = m /\ \A i \in 1 .. m : u[i] = i
  BY NumbersType
<1> HIDE DEF n, s, u
<1>4. t \in Seq(Nat) /\ Len(t) = n /\ \A j \in 1 .. n : t[j] = k + j
  BY <1>1
<1> HIDE DEF t
<1>5. /\ v \in Seq(Nat) /\ Len(v) = k + n /\ (\A i \in 1 .. k : v[i] = s[i]) /\ \A i \in 1 .. n : v[k + i] = t[i]
  <2>1. s \in Seq(Nat) /\ t \in Seq(Nat)
    BY <1>2, <1>4
  <2>2. /\ s \o t \in Seq(Nat) /\ Len(s \o t) = Len(s) + Len(t)
        /\ \A i \in 1 .. Len(s) : (s \o t)[i] = s[i]
        /\ \A i \in 1 .. Len(t) : (s \o t)[Len(s) + i] = t[i]
    BY <2>1, Joined
  <2> QED
    BY <1>2, <1>4, <2>2
<1> HIDE DEF v
<1>6. ASSUME NEW i \in 1 .. m PROVE v[i] = u[i]
  <2>1. CASE i \in 1 .. k
    BY <1>2, <1>3, <1>5, <2>1
  <2>2. CASE i \notin 1 .. k
    <3>1. i - k \in 1 .. n /\ k + (i - k) = i
      BY <1>1, <2>2
    <3> QED
      BY <1>3, <1>4, <1>5, <3>1
  <2> QED
    BY <2>1, <2>2
<1>7. v = u
  <2>1. Len(v) = Len(u) /\ \A i \in 1 .. Len(v) : v[i] = u[i]
    BY <1>1, <1>3, <1>5, <1>6
  <2> QED
    BY <1>3, <1>5, <2>1, SameSeq
<1> QED
  BY <1>7 DEF v, s, t, u, n

LEMMA NumbersPrefix ==
  ASSUME NEW m \in Nat, NEW k \in 0 .. m
  PROVE  IsPrefix(Numbers(k), Numbers(m))
<1> DEFINE s == Numbers(k)
           u == Numbers(m)
           a == SubSeq(s, 1, k)
           b == SubSeq(u, 1, k)
<1>1. k \in Nat /\ k <= m
  OBVIOUS
<1>2. s \in Seq(Nat) /\ Len(s) = k /\ \A i \in 1 .. k : s[i] = i
  BY <1>1, NumbersType
<1>3. u \in Seq(Nat) /\ Len(u) = m /\ \A i \in 1 .. m : u[i] = i
  BY NumbersType
<1> HIDE DEF s, u
<1>4. a \in Seq(Nat) /\ Len(a) = k /\ \A i \in 1 .. k : a[i] = i
  BY <1>1, <1>2
<1>5. b \in Seq(Nat) /\ Len(b) = k /\ \A i \in 1 .. k : b[i] = i
  BY <1>1, <1>3
<1> HIDE DEF a, b
<1>6. a = b
  <2>1. Len(a) = Len(b) /\ \A i \in 1 .. Len(a) : a[i] = b[i]
    BY <1>4, <1>5
  <2> QED
    BY <1>4, <1>5, <2>1, SameSeq
<1>7. IsPrefix(s, u)
  BY <1>1, <1>2, <1>3, <1>6 DEF IsPrefix, a, b
<1> QED
  BY <1>7 DEF s, u

LEMMA TypesHold == IInv => TypeOK
<1> SUFFICES ASSUME IInv PROVE TypeOK
  OBVIOUS
<1>1. Lists /\ Visits /\ UpInv /\ Channel /\ Buffers
  BY DEF IInv, DownInv
<1>2. /\ io.pc \in {"select", "next", "send", "body", "exited"}
      /\ io.pc \in {"next", "send", "body"} <=> io.ready # <<>>
      /\ Range(io.ready) \subseteq Range(inputs) /\ Range(io.to) \subseteq Range(clients)
  BY <1>1 DEF Visits, Ios
<1>3. io.msg \in 0 .. made /\ made \in 0 .. MaxDown /\ Len(internal) <= Buffer
  BY <1>1, VisitsType, RelaysType DEF Channel
<1>4. /\ inputs = <<MAIN, SERVER>> \o clients /\ shut \in BOOLEAN
      /\ Range(clients) \subseteq Clients /\ Range(backlog) \subseteq Clients
      /\ dropped \subseteq Clients /\ closed \subseteq Clients
      /\ Range(clients) \intersect (Range(backlog) \union dropped) = {}
  <2>1. clients \in Seq(Clients) /\ backlog \in Seq(Clients)
    BY <1>1 DEF Lists
  <2>2. Range(clients) \subseteq Clients /\ Range(backlog) \subseteq Clients
    BY <2>1 DEF Range
  <2> QED
    BY <1>1, <2>2 DEF Lists
<1>5. ASSUME NEW c \in Clients
      PROVE  /\ wire[c] \in Seq(0 .. sent[c]) /\ up[c] \in Seq(0 .. sent[c])
             /\ Len(down[c]) <= Buffer /\ sent[c] \in 0 .. MaxUp[c]
  <2> DEFINE m == sent[c]
             a == up[c]
             b == wire[c]
             taken == Taken(c)
  <2>1. m \in Nat /\ a \in Seq(Nat) /\ b \in Seq(Nat) /\ Upward(c) /\ m <= MaxUp[c] /\ MaxUp[c] \in Nat
    BY <1>1, UpType, ExternalIOAssumption DEF UpInv
  <2>2. taken \in {0, 2}
    BY DEF Taken
  <2>3. a \in Seq(0 .. m) /\ b \in Seq(0 .. m)
    <3>1. CASE c \in dropped
      <4>1. a = <<>> /\ b = <<>>
        BY <2>1, <3>1 DEF Upward
      <4>2. <<>> \in Seq(0 .. m)
        OBVIOUS
      <4> QED
        BY <4>1, <4>2
    <3>2. CASE c \notin dropped
      <4>1. PICK k \in 0 .. m : a \o b = Stream(k, m, taken) /\ (taken = 2 => k < m)
        BY <2>1, <3>2 DEF Upward
      <4> HIDE DEF a, b, taken, m
      <4>2. Stream(k, m, taken) \in Seq(0 .. m)
        BY <2>1, <2>2, <4>1, StreamType
      <4>3. a \in Seq(Nat) /\ b \in Seq(Nat) /\ a \o b \in Seq(0 .. m)
        BY <2>1, <4>1, <4>2
      <4> DEFINE U == 0 .. m
      <4>4. a \o b \in Seq(U)
        BY <4>3
      <4> HIDE DEF U
      <4>5. a \in Seq(U) /\ b \in Seq(U)
        BY <4>3, <4>4, PartsType
      <4> QED
        BY <4>5 DEF U
    <3> QED
      BY <3>1, <3>2
  <2>4. Len(down[c]) <= Buffer
    BY <1>1 DEF Buffers
  <2> QED
    BY <2>1, <2>3, <2>4
<1>6. queue \in Seq(Clients \X (Nat \ {0}))
  BY <1>1 DEF UpInv
<1> QED
  BY <1>2, <1>3, <1>4, <1>5, <1>6 DEF TypeOK

LEMMA InOrder == IInv => UpInOrder
<1> SUFFICES ASSUME IInv PROVE UpInOrder
  OBVIOUS
<1>1. UpInv
  BY DEF IInv
<1>2. ASSUME NEW c \in Clients
      PROVE  LET all == done[c] \o Queued(c) \o Bodies(up[c] \o wire[c]) IN
             IF c \in dropped THEN IsPrefix(all, Numbers(sent[c])) ELSE all = Numbers(sent[c])
  <2> DEFINE m == sent[c]
             b == Bodies(up[c] \o wire[c])
             all == done[c] \o Queued(c) \o b
             taken == Taken(c)
  <2>1. m \in Nat /\ Upward(c)
    BY <1>1, UpType
  <2>2. taken \in {0, 2}
    BY DEF Taken
  <2>3. PICK k \in 0 .. m :
          /\ done[c] \o Seconds(queue, c) = Numbers(k)
          /\ IF c \in dropped THEN up[c] = <<>> /\ wire[c] = <<>>
             ELSE up[c] \o wire[c] = Stream(k, m, taken) /\ (taken = 2 => k < m)
    BY <2>1 DEF Upward
  <2>4. Queued(c) = Seconds(queue, c)
    BY DEF Queued, Seconds
  <2>5. all = Numbers(k) \o b
    BY <2>3, <2>4
  <2> HIDE DEF m, all, taken
  <2>6. CASE c \in dropped
    <3>1. b = <<>>
      <4>1. <<>> \o <<>> = <<>>
        OBVIOUS
      <4>2. Bodies(<<>>) = <<>>
        BY PickedEmpty DEF Bodies
      <4> QED
        BY <2>3, <2>6, <4>1, <4>2
    <3> HIDE DEF b
    <3>2. k \in Nat /\ Numbers(k) \in Seq(Nat)
      <4>1. k \in Nat
        BY <2>1
      <4> QED
        BY <4>1, NumbersType
    <3>3. Numbers(k) \o <<>> = Numbers(k)
      BY <3>2
    <3>4. all = Numbers(k)
      BY <2>5, <3>1, <3>3
    <3>5. IsPrefix(Numbers(k), Numbers(m))
      BY <2>1, NumbersPrefix
    <3> QED
      BY <2>6, <3>4, <3>5 DEF all, b, m
  <2>7. CASE c \notin dropped
    <3>1. b = [j \in 1 .. m - k |-> k + j]
      <4>1. Bodies(Stream(k, m, taken)) = [j \in 1 .. m - k |-> k + j]
        BY <2>1, <2>2, <2>3, <2>7, BodiesOfStream
      <4> QED
        BY <2>3, <2>7, <4>1
    <3> HIDE DEF b
    <3>2. Numbers(k) \o [j \in 1 .. m - k |-> k + j] = Numbers(m)
      BY <2>1, NumbersJoin
    <3>3. all = Numbers(m)
      BY <2>5, <3>1, <3>2
    <3> QED
      BY <2>7, <3>3 DEF all, b, m
  <2> QED
    BY <2>6, <2>7
<1> QED
  BY <1>2, TypesHold DEF UpInOrder

LEMMA NoGap == IInv => DownWithoutGap
<1> SUFFICES ASSUME IInv PROVE DownWithoutGap
  OBVIOUS
<1>1. \A c \in Range(clients) \ closed : Gets(c)
  BY DEF IInv, DownInv, Clientele
<1> QED
  BY <1>1 DEF DownWithoutGap, Gets, Relays, Waits

-----------------------------------------------------------------------------
(* The theorems.                                                           *)

\* The invariant holds in every state of the external I/O (the threads, the sockets and
\* the clients of ExternalIOPeripheral).
THEOREM Invariance == Spec => []IInv
BY InitInv, StepInv, PTL DEF Spec

\* The peripheral gets the messages of every client in the order in which the client sent
\* them, each once, however their parts arrive and whenever clients come and go
\* (_recvData, receive, putIO and processIO).
THEOREM InOrderAlways == Spec => []UpInOrder
BY Invariance, InOrder, PTL

\* A client that stays gets what is transmitted without a gap, whatever other clients do
\* (transmit, _io_handler and _sendData).
THEOREM NoGapAlways == Spec => []DownWithoutGap
BY Invariance, NoGap, PTL

=============================================================================

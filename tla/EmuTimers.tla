------------------------------ MODULE EmuTimers ------------------------------
(***************************************************************************)
(* The system clock and its timers (cm2350/emutimers.py, classes EmuTimer  *)
(* and EmuTimeCore), driven by the emulation thread: stepi() calls tick()  *)
(* after every instruction, and a tick lets at most one timer expire.      *)
(*                                                                         *)
(* A duration is counted in system ticks, as start() converts it; it is 0  *)
(* for a timer whose clock is so much faster than the system's that the    *)
(* conversion rounds down.  Timers with the same target may be sorted      *)
(* either way, which only their history would tell apart.                  *)
(***************************************************************************)
EXTENDS Integers, Sequences, FiniteSets

CONSTANTS
  Timer,       \* the registered timers
  None,        \* target or _remaining when there is none
  Duration,    \* the durations timers are started with, in system ticks
  MaxTicks,    \* bound: the model's clock stops there
  MaxTarget    \* bound: no timer is resumed with a later target

ASSUME TimerAssumption ==
  /\ IsFiniteSet(Timer)
  /\ Duration \subseteq Nat
  /\ None \notin Int
ASSUME ClockBound == MaxTicks \in Nat /\ MaxTarget \in Nat

VARIABLES
  ticks,      \* EmuTimeCore._ticks
  order,      \* EmuTimeCore._timers
  target,     \* EmuTimer.target of each timer, None when it is not running
  remaining   \* EmuTimer._remaining of each timer, not None when it is paused

vars == <<ticks, order, target, remaining>>

N == Cardinality(Timer)

TypeOK ==
  /\ ticks \in Nat
  /\ order \in [1 .. N -> Timer]
  /\ target \in [Timer -> Int \union {None}]
  /\ remaining \in [Timer -> Int \union {None}]
  /\ \A t \in Timer : target[t] = None \/ remaining[t] = None

Running(t) == target[t] # None
Nobody == [t \in Timer |-> None]

-----------------------------------------------------------------------------
\* mutant: the timer that has longest to go is sorted first
LatestFirst(tgt, t, u) ==
  /\ tgt[t] # None
  /\ tgt[u] # None => tgt[t] > tgt[u]

\* EmuTimer.__lt__
Before(tgt, t, u) ==
  /\ tgt[t] # None
  /\ tgt[u] # None => tgt[t] < tgt[u]

\* timerUpdated: the outcomes of self._timers.sort()
Sortings(tgt) ==
  {s \in [1 .. N -> Timer] :
     /\ \A t \in Timer : \E i \in 1 .. N : s[i] = t
     /\ \A i, j \in 1 .. N : i < j => ~Before(tgt, s[j], s[i])}

Init ==
  /\ ticks = 0
  /\ target = Nobody /\ remaining = Nobody
  /\ order \in Sortings(target)

-----------------------------------------------------------------------------
(* EmuTimer.                                                               *)

Start(t, d) ==
  /\ target' = [target EXCEPT ![t] = ticks + d]
  /\ remaining' = [remaining EXCEPT ![t] = None]
  /\ order' \in Sortings(target')
  /\ UNCHANGED ticks

\* start() with 0 ticks or 0 Hz: "Cannot start ... timer" is raised before the
\* list is sorted.  Not a step of Next: see FaultySpec.
BadStart(t) ==
  /\ target' = [target EXCEPT ![t] = None]
  /\ remaining' = [remaining EXCEPT ![t] = None]
  /\ UNCHANGED <<ticks, order>>

\* mutant: the list is not sorted again
StopUnsorted(t) ==
  /\ Running(t)
  /\ target' = [target EXCEPT ![t] = None]
  /\ remaining' = [remaining EXCEPT ![t] = None]
  /\ UNCHANGED <<ticks, order>>

\* stop() of a timer that does not run, a paused one among them, does nothing
Stop(t) ==
  /\ Running(t)
  /\ target' = [target EXCEPT ![t] = None]
  /\ remaining' = [remaining EXCEPT ![t] = None]
  /\ order' \in Sortings(target')
  /\ UNCHANGED ticks

Pause(t) ==
  /\ Running(t)
  /\ remaining' = [remaining EXCEPT ![t] = target[t] - ticks]
  /\ target' = [target EXCEPT ![t] = None]
  /\ order' \in Sortings(target')
  /\ UNCHANGED ticks

\* resume() of a timer that was not paused fails before it changes anything
Resume(t) ==
  /\ remaining[t] # None
  /\ ticks + remaining[t] <= MaxTarget
  /\ target' = [target EXCEPT ![t] = ticks + remaining[t]]
  /\ remaining' = [remaining EXCEPT ![t] = None]
  /\ order' \in Sortings(target')
  /\ UNCHANGED ticks

-----------------------------------------------------------------------------
(* EmuTimeCore.                                                            *)

\* EmuTimer.callback at time now: the timer stops, and its owner's function may
\* start it again (the two watchdogs do, the other timers do not)
Callback(t, now) ==
  /\ \E next \in {None} \union {now + d : d \in Duration} :
       target' = [target EXCEPT ![t] = next]
  /\ order' \in Sortings(target')
  /\ UNCHANGED remaining

Expired(t, now) == Running(t) /\ now >= target[t]

\* tick: only the first timer of the list is looked at
Tick ==
  /\ ticks < MaxTicks
  /\ ticks' = ticks + 1
  /\ \/ N > 0 /\ Expired(order[1], ticks') /\ Callback(order[1], ticks')
     \/ ~(N > 0 /\ Expired(order[1], ticks')) /\ UNCHANGED <<order, target, remaining>>

\* the running timers of a set, in the order the sort gives them
Queue(R) ==
  {q \in [1 .. Cardinality(R) -> R] :
     /\ \A t \in R : \E i \in 1 .. Cardinality(R) : q[i] = t
     /\ \A i, j \in 1 .. Cardinality(R) : i < j => ~Before(target, q[j], q[i])}

\* systimeReset.  "for timer in self._timers: timer.stop()" walks the list that
\* stop() sorts: stopping the first running timer, at position p, sorts the other
\* running ones to the front, of which the loop then meets the ones at p+1, p+3...
SystimeReset ==
  LET running == {t \in Timer : Running(t)} IN
  /\ ticks' = 0
  /\ \/ /\ running = {}
        /\ UNCHANGED <<target, remaining>>
     \/ \E p \in 1 .. N :
          /\ Running(order[p])
          /\ \A i \in 1 .. p - 1 : ~Running(order[i])
          /\ \E q \in Queue(running \ {order[p]}) :
               LET met == {order[p]} \union {q[i] : i \in {j \in DOMAIN q : j > p /\ (j - p) % 2 = 1}}
               IN
               /\ target' = [t \in Timer |-> IF t \in met THEN None ELSE target[t]]
               /\ remaining' = [t \in Timer |-> IF t \in met THEN None ELSE remaining[t]]
  /\ order' \in Sortings(target')

Next ==
  \/ \E t \in Timer, d \in Duration : Start(t, d)
  \/ \E t \in Timer : Stop(t)
  \/ \E t \in Timer : Pause(t)
  \/ \E t \in Timer : Resume(t)
  \/ Tick
  \/ SystimeReset

Spec == Init /\ [][Next]_vars

\* the same with owners that also start a timer with nothing to count, as
\* PPC_e200z7._writeDec does when the firmware writes 0 to DEC
FaultySpec == Init /\ [][Next \/ \E t \in Timer : BadStart(t)]_vars

-----------------------------------------------------------------------------
(* Properties.                                                             *)

\* tick() and getNextEvent() look at the first timer of the list only, so the
\* list must always be in order: what is not running at its end, and before
\* that whatever expires first in front.
TimersSorted == order \in Sortings(target)

\* by how many ticks a timer is overdue; a paused one keeps its lateness
LateBy(t, k) ==
  \/ target[t] # None /\ ticks - target[t] >= k
  \/ target[t] = None /\ remaining[t] # None /\ 0 - remaining[t] >= k

\* One timer expires per tick, so timers that are due together wait for each
\* other, but never longer than there are timers: however they are started,
\* stopped, paused and restarted by their own callbacks, none is starved.
NeverStarved == \A t \in Timer : Running(t) => ~LateBy(t, N)

\* "Timers that aren't running get moved to the end of the list" (EmuTimer.__lt__)
IdleLast ==
  \A i, j \in 1 .. N : i < j /\ Running(order[j]) => Running(order[i])

\* "Clear the system ticks and stop all the timers" (systimeReset)
ResetStopsAll == [][ticks' = 0 /\ ticks # 0 => target' = Nobody]_vars

=============================================================================

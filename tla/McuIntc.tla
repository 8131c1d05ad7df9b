------------------------------- MODULE McuIntc -------------------------------
(***************************************************************************)
(* Interrupt delivery of the emulated core: the e200 core's controller     *)
(* (cm2350/e200_intc.py, class e200INTC) composed with the MPC5674F INTC   *)
(* peripheral (cm2350/peripherals/intc.py), as the emulation thread runs   *)
(* them.  Other threads are the subject of module DebugHalt.                *)
(*                                                                         *)
(* An exception object is a member of Exc: two objects of the same class   *)
(* with the same fields compare equal in the code (INTCException.__eq__)   *)
(* and are the same member here.  Small Prio values are urgent.            *)
(***************************************************************************)
EXTENDS Naturals, Sequences, FiniteSets, Functions

CONSTANTS
  Exc,       \* the exception objects that can be raised
  Kind,      \* the class of each one, a member of Kinds
  Prio,      \* INTC_LEVEL of each one
  Psr,       \* INTC_PSR priority of the source of each external exception
  None,      \* _cur_exc when no external exception is being handled
  PriSet,    \* the CPR[PRI] values the firmware writes
  MsrSet,    \* the MSR[EE, CE] values the firmware writes
  MaxLoad    \* bound: entries of all the lists and of the CPR LIFO together

INTC_LEVEL_NONE == 100
Kinds == {"reset", "debug", "critical", "external", "standard"}

ASSUME ExcAssumption ==
  /\ None \notin Exc
  /\ Kind \in [Exc -> Kinds]
  /\ Prio \in [Exc -> 0 .. INTC_LEVEL_NONE - 1]
  /\ Psr \in [Exc -> 0 .. 15]
  /\ PriSet \subseteq 0 .. 15
  /\ MsrSet \subseteq [ee : BOOLEAN, ce : BOOLEAN]
ASSUME BoundAssumption == MaxLoad \in Nat

VARIABLES
  pending,      \* e200INTC.pending, kept sorted by priority
  saved,        \* e200INTC.saved: masked when they were raised
  stack,        \* e200INTC.stack: being handled, the innermost last
  curlvl,       \* e200INTC.curlvl
  hasInterrupt, \* e200INTC.hasInterrupt, the only thing stepi() looks at
  msr,          \* the EE and CE bits of MSR
  hven,         \* INTC_MCR[HVEN], chosen by the firmware at boot
  cpr,          \* INTC_CPR[PRI]
  lifo,         \* INTC._saved_prio
  delayed,      \* INTC._delayed_excs
  curExc,       \* INTC._cur_exc
  owed          \* history: raised, and neither taken nor reset since

lists == <<pending, saved, delayed, hasInterrupt>>
regs == <<msr, hven>>
intc == <<cpr, lifo, curExc>>
vars == <<pending, saved, stack, curlvl, hasInterrupt, msr, hven,
          cpr, lifo, delayed, curExc, owed>>

External == {e \in Exc : Kind[e] = "external"}
Masks == [ee : BOOLEAN, ce : BOOLEAN]

TypeOK ==
  /\ pending \in Seq(Exc) /\ saved \in Seq(Exc) /\ stack \in Seq(Exc)
  /\ delayed \in Seq(External)
  /\ curlvl \in Nat /\ hasInterrupt \in BOOLEAN
  /\ msr \in Masks /\ hven \in BOOLEAN
  /\ cpr \in 0 .. 15 /\ lifo \in Seq(0 .. 15)
  /\ curExc \in External \union {None}
  /\ owed \subseteq Exc

-----------------------------------------------------------------------------
(* Lists.  Python's sort and filtering loops keep the order of what they   *)
(* keep, so each has one result: it is stated as the only enumeration of a *)
(* set of positions that follows an order, never computed by recursion.    *)

Enumerations(J, order) ==
  {f \in [1 .. Cardinality(J) -> J] :
     \A a, b \in 1 .. Cardinality(J) : a < b => <<f[a], f[b]>> \in order}

Ascending(J) == {p \in J \X J : p[1] < p[2]}

\* mutant: the list is left in arrival order
ByArrival(s) == Ascending(DOMAIN s)

ByPrio(s) ==
  {p \in (DOMAIN s) \X (DOMAIN s) :
     \/ Prio[s[p[1]]] < Prio[s[p[2]]]
     \/ Prio[s[p[1]]] = Prio[s[p[2]]] /\ p[1] < p[2]}

Arranged(s, J, order) ==
  {[k \in 1 .. Cardinality(J) |-> s[f[k]]] : f \in Enumerations(J, order)}

\* the elements of s at the positions J, in the order of s
Picks(s, J) == Arranged(s, J, Ascending(J))

\* s.sort(key=attrgetter('prio')): stable
Sorts(s) == Arranged(s, DOMAIN s, ByPrio(s))

-----------------------------------------------------------------------------
Init ==
  /\ pending = <<>> /\ saved = <<>> /\ stack = <<>> /\ delayed = <<>>
  /\ curlvl = INTC_LEVEL_NONE /\ hasInterrupt = FALSE
  /\ msr = [ee |-> FALSE, ce |-> FALSE]
  /\ hven \in BOOLEAN
  /\ cpr = 15 /\ lifo = <<>> /\ curExc = None
  /\ owed = {}

\* mutant: an exception as urgent as the level preempts it
ReadyAtLevel(lvl, queue) == queue # <<>> /\ lvl >= Prio[Head(queue)]

\* "self.pending and self.curlvl > self.pending[0].prio"
Ready(lvl, queue) == queue # <<>> /\ lvl > Prio[Head(queue)]

\* INTCException.shouldHandle: is the MSR flag of the class clear?
Masked(e) ==
  \/ Kind[e] = "external" /\ ~msr.ee
  \/ Kind[e] = "critical" /\ ~msr.ce

\* INTC.shouldHandle: the source's priority is below CPR, which also delays it
Below(e) == Kind[e] = "external" /\ Psr[e] < cpr

\* what MaxLoad bounds; no exception is kept from its handler by the bound
Load == Len(pending) + Len(saved) + Len(delayed) + Len(lifo)

ShouldHandle(e) == ~Masked(e) /\ ~Below(e)
Delays(e) == ~Masked(e) /\ Below(e)

\* mutant: an exception the MSR masks is ignored instead of saved
QueueUnmasked(e) ==
  /\ Load + 1 <= MaxLoad
  /\ IF e \in Range(pending) \/ ~ShouldHandle(e)
       THEN UNCHANGED lists
       ELSE /\ pending' \in Sorts(Append(pending, e))
            /\ hasInterrupt' = Ready(curlvl, pending')
            /\ UNCHANGED <<saved, delayed>>
  /\ owed' = owed \union {e}
  /\ UNCHANGED <<stack, curlvl, regs, intc>>

\* e200INTC.queueException, called by peripherals, timers and stepi()
QueueException(e) ==
  /\ Load + (IF Delays(e) THEN 2 ELSE 1) <= MaxLoad
  /\ \/ /\ e \in Range(pending)
        /\ UNCHANGED lists
     \/ /\ e \notin Range(pending)
        /\ ~ShouldHandle(e)
        /\ saved' = Append(saved, e)
        /\ delayed' = IF Delays(e) THEN Append(delayed, e) ELSE delayed
        /\ UNCHANGED <<pending, hasInterrupt>>
     \/ /\ e \notin Range(pending)
        /\ ShouldHandle(e)
        /\ pending' \in Sorts(Append(pending, e))
        /\ hasInterrupt' = Ready(curlvl, pending')
        /\ UNCHANGED <<saved, delayed>>
  /\ owed' = owed \union {e}
  /\ UNCHANGED <<stack, curlvl, regs, intc>>

\* A write of the MSR register: e200INTC.msrUpdated runs on the saved list
\* while the register still holds its old value, which is replaced after it.
MsrWrite(new) ==
  LET ready == {i \in DOMAIN saved : ShouldHandle(saved[i])}
      below == {i \in DOMAIN saved : Delays(saved[i])}
  IN
  /\ Load + Cardinality(below) <= MaxLoad
  /\ saved' \in Picks(saved, DOMAIN saved \ ready)
  /\ \E again \in Picks(saved, below) : delayed' = delayed \o again
  /\ \E old \in Picks(saved, ready) : pending' \in Sorts(pending \o old)
  /\ hasInterrupt' = IF ready = {} THEN hasInterrupt ELSE Ready(curlvl, pending')
  /\ msr' = new
  /\ UNCHANGED <<stack, curlvl, hven, intc, owed>>

-----------------------------------------------------------------------------
(* checkException: stepi() calls it before every instruction.              *)

\* mutant: the INTC keeps its current exception over a reset
ResetKeepsCurrent ==
  /\ Kind[Head(pending)] = "reset"
  /\ pending' = <<>> /\ saved' = <<>> /\ stack' = <<>> /\ delayed' = <<>>
  /\ curlvl' = INTC_LEVEL_NONE /\ hasInterrupt' = FALSE
  /\ msr' = [ee |-> FALSE, ce |-> FALSE]
  /\ lifo' = <<>>
  /\ owed' = {}
  /\ UNCHANGED <<hven, cpr, curExc>>

\* e200INTC.reset and INTC.reset, run by the core's reset(); neither the CPR
\* nor the MCR register of the peripheral is among what they reset
TakeReset ==
  /\ Kind[Head(pending)] = "reset"
  /\ pending' = <<>> /\ saved' = <<>> /\ stack' = <<>> /\ delayed' = <<>>
  /\ curlvl' = INTC_LEVEL_NONE /\ hasInterrupt' = FALSE
  /\ msr' = [ee |-> FALSE, ce |-> FALSE]
  /\ lifo' = <<>> /\ curExc' = None
  /\ owed' = {}
  /\ UNCHANGED <<hven, cpr>>

\* mutant: the flag is not updated before the exception is raised
DebugKeepsFlag ==
  /\ Kind[Head(pending)] = "debug"
  /\ pending' = Tail(pending)
  /\ owed' = owed \ {Head(pending)}
  /\ UNCHANGED <<saved, delayed, hasInterrupt, stack, curlvl, regs, intc>>

\* raised out of handleException to the debugger: no handler is entered
TakeDebug ==
  /\ Kind[Head(pending)] = "debug"
  /\ pending' = Tail(pending)
  /\ hasInterrupt' = Ready(curlvl, pending')
  /\ owed' = owed \ {Head(pending)}
  /\ UNCHANGED <<saved, delayed, stack, curlvl, regs, intc>>

\* setupContext: the masks of both the standard and the critical classes clear
\* MSR[EE] and MSR[CE]
SetupContext(e) == msr' = [ee |-> FALSE, ce |-> FALSE]

\* INTC._signalIACK
SignalIACK(e) ==
  /\ lifo' = Append(lifo, cpr)
  /\ cpr' = Psr[e]

\* INTC.getHandler, reached for external exceptions only
GetHandler(e) ==
  \/ /\ Kind[e] = "external"
     /\ curExc' = e
     /\ IF hven THEN SignalIACK(e) ELSE UNCHANGED <<cpr, lifo>>
  \/ /\ Kind[e] # "external"
     /\ UNCHANGED intc

EnterHandler ==
  LET e == Head(pending) IN
  /\ Kind[e] \notin {"reset", "debug"}
  /\ pending' = Tail(pending)
  /\ stack' = Append(stack, e)
  /\ curlvl' = Prio[e]
  /\ hasInterrupt' = Ready(Prio[e], pending')
  /\ SetupContext(e)
  /\ GetHandler(e)
  /\ owed' = owed \ {e}
  /\ UNCHANGED <<saved, delayed, hven>>

CheckException ==
  /\ hasInterrupt
  /\ TakeReset \/ TakeDebug \/ EnterHandler

-----------------------------------------------------------------------------
(* What the firmware's handlers do.                                        *)

\* INTC._checkDelayedExcs: every delayed exception the CPR now lets through
\* is queued again (queueException), the others stay delayed.
CheckDelayed(pri, ee, lvl, had) ==
  LET go    == {i \in DOMAIN delayed : Psr[delayed[i]] >= pri}
      fresh == {i \in go : delayed[i] \notin Range(pending)}
      first == {i \in fresh : \A j \in fresh : j < i => delayed[j] # delayed[i]}
  IN
  /\ delayed' \in Picks(delayed, DOMAIN delayed \ go)
  /\ \/ /\ ee
        /\ \E old \in Picks(delayed, first) : pending' \in Sorts(pending \o old)
        /\ hasInterrupt' = IF first = {} THEN had ELSE Ready(lvl, pending')
        /\ UNCHANGED saved
     \/ /\ ~ee
        /\ \E old \in Picks(delayed, fresh) : saved' = saved \o old
        /\ hasInterrupt' = had
        /\ UNCHANGED pending

CprWrite(pri) ==
  /\ cpr' = pri
  /\ CheckDelayed(pri, msr.ee, curlvl, hasInterrupt)
  /\ UNCHANGED <<stack, curlvl, regs, lifo, curExc, owed>>

\* a read of INTC_IACKR in software vector mode
IackRead ==
  /\ ~hven
  /\ curExc # None
  /\ Load < MaxLoad
  /\ SignalIACK(curExc)
  /\ UNCHANGED <<lists, stack, curlvl, regs, curExc, owed>>

\* INTC._signalEOIR: a write of INTC_EOIR
EoirWrite ==
  /\ IF lifo = <<>>
       THEN cpr' = 0 /\ UNCHANGED lifo
       ELSE cpr' = lifo[Len(lifo)] /\ lifo' = SubSeq(lifo, 1, Len(lifo) - 1)
  /\ CheckDelayed(cpr', msr.ee, curlvl, hasInterrupt)
  /\ UNCHANGED <<stack, curlvl, regs, curExc, owed>>

\* mutant: the queue is not looked at again when the level drops
RfiKeepsFlag(back) ==
  LET lvl == IF Len(stack) = 1 THEN INTC_LEVEL_NONE ELSE Prio[stack[Len(stack) - 1]]
  IN
  /\ stack # <<>>
  /\ stack' = SubSeq(stack, 1, Len(stack) - 1)
  /\ curlvl' = lvl
  /\ msr' = back
  /\ CheckDelayed(cpr, back.ee, lvl, hasInterrupt)
  /\ curExc' = None
  /\ UNCHANGED <<hven, cpr, lifo, owed>>

\* The return from the innermost handler.  The instruction itself is outside
\* src/: it loads MSR from a save register, which the handler may have written,
\* before or after it calls PPC_e200z7._rfi.
Rfi(back) ==
  LET lvl == IF Len(stack) = 1 THEN INTC_LEVEL_NONE ELSE Prio[stack[Len(stack) - 1]]
  IN
  /\ stack # <<>>
  /\ stack' = SubSeq(stack, 1, Len(stack) - 1)
  /\ curlvl' = lvl
  /\ msr' = back
  /\ \E ee \in {msr.ee, back.ee} : CheckDelayed(cpr, ee, lvl, Ready(lvl, pending))
  /\ curExc' = None
  /\ UNCHANGED <<hven, cpr, lifo, owed>>

-----------------------------------------------------------------------------
Next ==
  \/ \E e \in Exc : QueueException(e)
  \/ \E new \in MsrSet : MsrWrite(new)
  \/ CheckException
  \/ \E pri \in PriSet : CprWrite(pri)
  \/ IackRead
  \/ EoirWrite
  \/ \E back \in MsrSet : Rfi(back)

Spec == Init /\ [][Next]_vars

\* stepi() runs for ever, and the firmware's handlers return
FairSpec == Spec /\ WF_vars(CheckException) /\ WF_vars(\E back \in MsrSet : Rfi(back))

-----------------------------------------------------------------------------
(* Properties.                                                             *)

\* stepi() tests only the cached hasInterrupt flag, so the flag must say at all
\* times what the queue and the level say: a flag left FALSE is an interrupt
\* nobody looks at, one left TRUE makes handleException pop an empty list.
HasInterruptExact == hasInterrupt = Ready(curlvl, pending)

\* The pending list is sorted, so its head is what handleException should take.
Sorted(q) == \A i, j \in 1 .. Len(q) : i < j => Prio[q[i]] <= Prio[q[j]]
PendingSorted == Sorted(pending)

\* Handlers nest in strictly rising urgency and curlvl is the level of the
\* innermost one, however entries, returns, resets and queueing interleave.
Level(stk) == IF stk = <<>> THEN INTC_LEVEL_NONE ELSE Prio[stk[Len(stk)]]
Nested(stk) == \A i, j \in 1 .. Len(stk) : i < j => Prio[stk[j]] < Prio[stk[i]]
StackDiscipline == Nested(stack) /\ curlvl = Level(stack)

\* An exception that was raised stays in one of the two controllers' lists until
\* its handler is entered or the core resets, through every masking, delay,
\* re-queueing and duplicate check.
NothingLost == owed \subseteq Range(pending) \union Range(saved) \union Range(delayed)

\* The exception IACKR would acknowledge is being handled: the INTC's notion of
\* the current interrupt never survives the handler that it belongs to.
AcknowledgesActive == curExc # None => curExc \in Range(stack)

\* A handler is entered only above the current level, and for an exception that
\* no pending one precedes in urgency.
MostUrgentFirst ==
  [][Len(stack') > Len(stack) =>
       LET e == stack'[Len(stack')] IN
       /\ Prio[e] < curlvl
       /\ \A x \in Range(pending) : Prio[e] <= Prio[x]]_vars

\* Once the firmware does nothing but service interrupts and nothing new is
\* raised, the pending list is worked off to its last entry.
DrainsWhenQuiet ==
  <>[][CheckException \/ \E back \in MsrSet : Rfi(back)]_vars =>
    (pending # <<>>) ~> (pending = <<>>)

\* "MSR[CE, ME, DE, RI] are not cleared" (intc_exc.py, StandardPrioException):
\* a standard or external handler leaves critical interrupts open.
CriticalStaysOpen ==
  [][Len(stack') > Len(stack) /\ Kind[stack'[Len(stack')]] \in {"standard", "external"} =>
       msr'.ce = msr.ce]_vars

\* "Exceptions are handled when the appropriate MSR flag is set" (class comment
\* of e200INTC): no handler is entered for a class that MSR masks.
MaskedNotTaken ==
  [][Len(stack') > Len(stack) => ~Masked(stack'[Len(stack')])]_vars

=============================================================================

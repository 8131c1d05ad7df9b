--------------------------------- MODULE Swt ---------------------------------
(***************************************************************************)
(* The software watchdog of the MPC5674F (cm2350/peripherals/swt.py): its  *)
(* locks, its service keys, its window and its timeouts, together with the *)
(* countdown of the EmuTimer it owns and the boot code's choice of         *)
(* MCR[WEN] (peripherals/bam.py).  MCR[ITR] is the field the code calls    *)
(* tif.  The clock of the countdown and the counts are scaled down.        *)
(***************************************************************************)
EXTENDS Integers

CONSTANTS
  KeyRange,    \* 2^16 in the code: service keys are taken modulo this
  FixedKeys,   \* the two service keys without MCR[KEY]: 0xA602, 0xB480
  UnlockKeys,  \* the two keys that clear MCR[SLK]: 0xC520, 0xD928
  MinTimeout,  \* the least timeout, 0x100 in the code
  DefaultTo,   \* the value of TO after a reset
  McrSet,      \* the values the firmware writes to MCR
  ToSet,       \* ... to TO
  WnSet,       \* ... to WN
  SkSet        \* ... to SK

Keys == 0 .. KeyRange - 1
Mcr == [wen : BOOLEAN, ria : BOOLEAN, wnd : BOOLEAN, itr : BOOLEAN,
        hlk : BOOLEAN, slk : BOOLEAN, key : BOOLEAN]

ASSUME SwtAssumption ==
  /\ KeyRange \in Nat \ {0}
  /\ FixedKeys \in [1 .. 2 -> Nat] /\ UnlockKeys \in [1 .. 2 -> Nat]
  /\ MinTimeout \in Nat \ {0} /\ DefaultTo \in Nat
  /\ McrSet \subseteq Mcr /\ ToSet \subseteq Nat /\ WnSet \subseteq Nat /\ SkSet \subseteq Nat

VARIABLES
  mcr, to, wn, ir,   \* the registers; ir is IR[TIF]
  left,              \* ticks before the watchdog timer expires, 0: it is stopped
  lastKey,           \* SWT._key
  sks, skIdx,        \* SWT._sks, _sk_idx: the service keys and which one is next
  slkIdx,            \* SWT._slk_idx
  timeoutCount,      \* SWT._timeout_count
  resetQueued           \* a ResetException has been raised or queued

keyVars == <<lastKey, sks, skIdx>>
swtVars == <<mcr, to, wn, ir, left, keyVars, slkIdx, timeoutCount, resetQueued>>

SwtTypeOK ==
  /\ mcr \in Mcr /\ to \in Nat /\ wn \in Nat /\ ir \in BOOLEAN
  /\ left \in Nat /\ lastKey \in Nat
  /\ sks \in [1 .. 2 -> Nat] /\ skIdx \in 0 .. 1 /\ slkIdx \in 0 .. 1
  /\ timeoutCount \in 0 .. 1 /\ resetQueued \in BOOLEAN

-----------------------------------------------------------------------------
NextKey(k) == (17 * k + 3) % KeyRange

Timeout(v) == IF v < MinTimeout THEN MinTimeout ELSE v

\* mutant: the key sequence is not begun anew
RestartMidway(m, k) ==
  /\ sks' = IF m.key THEN <<NextKey(k), NextKey(NextKey(k))>> ELSE FixedKeys
  /\ lastKey' = IF m.key THEN k ELSE 0
  /\ left' = Timeout(to)
  /\ UNCHANGED skIdx

\* restartWatchdog and updateServiceKeys, with MCR = m and _key = k
Restart(m, k) ==
  /\ sks' = IF m.key THEN <<NextKey(k), NextKey(NextKey(k))>> ELSE FixedKeys
  /\ lastKey' = IF m.key THEN k ELSE 0
  /\ skIdx' = 0
  /\ left' = Timeout(to)

\* the registers' defaults, SWT.reset, and the WEN that BAM.reset chooses
ResetState(m, t, w, i, lft, key, ks, idx, unlock, count) ==
  /\ \E wen \in BOOLEAN :
       /\ m = [wen |-> wen, ria |-> TRUE, wnd |-> FALSE, itr |-> FALSE,
               hlk |-> FALSE, slk |-> FALSE, key |-> FALSE]
       /\ lft = IF wen THEN Timeout(DefaultTo) ELSE 0
  /\ t = DefaultTo /\ w = 0 /\ i = FALSE
  /\ key = 0 /\ ks = FixedKeys /\ idx = 0 /\ unlock = 0 /\ count = 0

SwtInit ==
  /\ ResetState(mcr, to, wn, ir, left, lastKey, sks, skIdx, slkIdx, timeoutCount)
  /\ resetQueued = FALSE

\* The core handles a reset before the next instruction.
SwtReset ==
  /\ resetQueued
  /\ ResetState(mcr', to', wn', ir', left', lastKey', sks', skIdx', slkIdx', timeoutCount')
  /\ resetQueued' = FALSE

-----------------------------------------------------------------------------
(* Accesses by the firmware.  A bad one resets the core or is a bus error.  *)

\* mutant: only the soft lock is looked at
SoftLocked == mcr.slk

Locked == mcr.hlk \/ mcr.slk

\* _setPeriphReg and _getPeriphReg: a reset if MCR[RIA] and MCR[WEN] are set
AccessError ==
  /\ resetQueued' = (mcr.ria /\ mcr.wen)
  /\ UNCHANGED <<mcr, to, wn, ir, left, keyVars, slkIdx, timeoutCount>>

BadAccess == ~resetQueued /\ AccessError

LockedWrite == ~resetQueued /\ Locked /\ AccessError

\* mutant: the timer is left as it is when WEN is set again
WriteMcrQuietly(new) ==
  /\ ~resetQueued /\ ~Locked
  /\ mcr' = new
  /\ \/ new.wen /\ UNCHANGED <<left, keyVars>>
     \/ ~new.wen /\ left' = 0 /\ UNCHANGED keyVars
  /\ UNCHANGED <<to, wn, ir, slkIdx, timeoutCount, resetQueued>>

WriteMcr(new) ==
  /\ ~resetQueued /\ ~Locked
  /\ mcr' = new
  /\ \/ new.wen /\ Restart(new, lastKey)
     \/ ~new.wen /\ left' = 0 /\ UNCHANGED keyVars
  /\ UNCHANGED <<to, wn, ir, slkIdx, timeoutCount, resetQueued>>

WriteTo(v) ==
  /\ ~resetQueued /\ ~Locked
  /\ to' = v
  /\ UNCHANGED <<mcr, wn, ir, left, keyVars, slkIdx, timeoutCount, resetQueued>>

WriteWn(v) ==
  /\ ~resetQueued /\ ~Locked
  /\ wn' = v
  /\ UNCHANGED <<mcr, to, ir, left, keyVars, slkIdx, timeoutCount, resetQueued>>

\* mutant: the key can be set while the watchdog runs
WriteSkRunning(k) ==
  /\ ~resetQueued /\ ~Locked
  /\ lastKey' = IF mcr.key THEN k ELSE lastKey
  /\ UNCHANGED <<mcr, to, wn, ir, left, sks, skIdx, slkIdx, timeoutCount, resetQueued>>

\* setServiceKey
WriteSk(k) ==
  /\ ~resetQueued /\ ~Locked
  /\ lastKey' = IF ~mcr.wen /\ mcr.key THEN k ELSE lastKey
  /\ UNCHANGED <<mcr, to, wn, ir, left, sks, skIdx, slkIdx, timeoutCount, resetQueued>>

ClearIr ==
  /\ ~resetQueued
  /\ ir' = FALSE
  /\ UNCHANGED <<mcr, to, wn, left, keyVars, slkIdx, timeoutCount, resetQueued>>

-----------------------------------------------------------------------------
(* processServiceKey: a write to SR.                                       *)

IsUnlock(k) == k = UnlockKeys[slkIdx + 1]

UnlockStep(k) ==
  /\ ~resetQueued /\ IsUnlock(k)
  /\ slkIdx' = 1 - slkIdx
  /\ mcr' = IF slkIdx = 1 THEN [mcr EXCEPT !.slk = FALSE] ELSE mcr
  /\ UNCHANGED <<to, wn, ir, left, keyVars, timeoutCount, resetQueued>>

TooEarly == mcr.wnd /\ wn <= left

ServiceTooEarly(k) ==
  /\ ~resetQueued /\ ~IsUnlock(k) /\ mcr.wen /\ TooEarly
  /\ AccessError

\* isValidServiceKey; any other value is ignored
Service(k) ==
  /\ ~resetQueued /\ ~IsUnlock(k) /\ mcr.wen /\ ~TooEarly
  /\ k = sks[skIdx + 1]
  /\ \/ skIdx = 0 /\ skIdx' = 1 /\ lastKey' = k /\ UNCHANGED <<left, sks>>
     \/ skIdx = 1 /\ Restart(mcr, k)
  /\ UNCHANGED <<mcr, to, wn, ir, slkIdx, timeoutCount, resetQueued>>

-----------------------------------------------------------------------------
\* mutant: the first timeout is not remembered
WarnAgain ==
  /\ mcr.itr /\ timeoutCount = 0
  /\ Restart(mcr, lastKey)
  /\ ir' = TRUE
  /\ UNCHANGED <<timeoutCount, resetQueued>>

\* handleTimeout: the first timeout with MCR[ITR] is an interrupt
Warn ==
  /\ mcr.itr /\ timeoutCount = 0
  /\ timeoutCount' = 1
  /\ Restart(mcr, lastKey)
  /\ ir' = TRUE
  /\ UNCHANGED resetQueued

\* ... any other queues a reset; the timer is not started again
Bite ==
  /\ ~(mcr.itr /\ timeoutCount = 0)
  /\ resetQueued' = TRUE
  /\ left' = 0
  /\ UNCHANGED <<ir, keyVars, timeoutCount>>

Tick ==
  /\ ~resetQueued /\ left > 0
  /\ \/ left > 1 /\ left' = left - 1 /\ UNCHANGED <<ir, keyVars, timeoutCount, resetQueued>>
     \/ left = 1 /\ Warn
     \/ left = 1 /\ Bite
  /\ UNCHANGED <<mcr, to, wn, slkIdx>>

Written == {FixedKeys[1], FixedKeys[2], UnlockKeys[1], UnlockKeys[2]} \union Keys

SwtNext ==
  \/ SwtReset \/ Tick \/ BadAccess \/ LockedWrite \/ ClearIr
  \/ \E new \in McrSet : WriteMcr(new)
  \/ \E v \in ToSet : WriteTo(v)
  \/ \E v \in WnSet : WriteWn(v)
  \/ \E k \in SkSet : WriteSk(k)
  \/ \E k \in Written : UnlockStep(k) \/ ServiceTooEarly(k) \/ Service(k)

SwtSpec == SwtInit /\ [][SwtNext]_swtVars

\* time passes, and stepi() handles a reset at once
SwtFairSpec == SwtSpec /\ WF_swtVars(Tick) /\ WF_swtVars(SwtReset)

-----------------------------------------------------------------------------
(* Properties.                                                             *)

\* However enabling, servicing, warning, resetting and the boot code's choice
\* follow each other, an enabled watchdog is counting, or a reset is due: the
\* timer and MCR[WEN], which different functions write, never disagree.
WatchdogNeverDies ==
  /\ mcr.wen => left > 0 \/ resetQueued
  /\ left > 0 => mcr.wen

\* Once MCR[HLK] is set nothing but a reset changes the configuration: not a
\* register write, and not the soft unlock sequence, which clears SLK only.
HardLockHolds ==
  [][mcr.hlk /\ ~resetQueued =>
       /\ [mcr' EXCEPT !.slk = FALSE] = [mcr EXCEPT !.slk = FALSE]
       /\ <<to', wn'>> = <<to, wn>>]_swtVars

\* With MCR[KEY] the key that is expected next always follows the last one that
\* was accepted (or set), also when a timeout or an MCR write comes between the
\* two keys of a service and the keys are generated anew.
NextKeyFollows == mcr.wen /\ mcr.key => sks[skIdx + 1] = NextKey(lastKey)

\* If the firmware does nothing more for it, an enabled watchdog resets the core
\* again and again: one warning does not become a series.
QuietDogBites == (<>[][Tick \/ SwtReset]_swtVars /\ <>[](mcr.wen)) => []<>resetQueued

=============================================================================

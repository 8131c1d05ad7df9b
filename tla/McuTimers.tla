------------------------------ MODULE McuTimers ------------------------------
(***************************************************************************)
(* The three timers of the core (cm2350/e200z7.py): the watchdog, the      *)
(* fixed-interval timer and the decrementer, as the firmware sees them     *)
(* through TCR, TSR, DEC and HID0[TBEN] (cm2350/ppc_time.py), with the     *)
(* decrementer's exceptions in the core's interrupt controller and the     *)
(* cleanup function that starts the decrementer again after one.  MSR does *)
(* not mask its class: it is never saved.  Periods are abstracted: a timer *)
(* that runs may expire at any time.  TSR[DIS] and TSR[FIS], which the     *)
(* code sets and never reads, are left out.                                *)
(***************************************************************************)
EXTENDS Integers

CONSTANT TcrSet   \* the values written to TCR

Timers == {"WDT", "FIT", "DEC"}
Tcr == [wie : BOOLEAN, fie : BOOLEAN, die : BOOLEAN, wrc : BOOLEAN]

ASSUME McuTimersAssumption == TcrSet \subseteq Tcr

VARIABLES
  running,   \* systimeRunning(): FALSE while a debugger halts the core
  tb,        \* the timebase is enabled
  tcr,       \* TCR; wrc: TCR[WRC] is not zero
  enw, wis,  \* TSR[ENW], TSR[WIS]
  on,        \* the timers that are started
  decs,      \* decrementer exceptions in e200INTC's stack and pending
  active,    \* it is on the stack
  rearm,     \* _startMCUDEC is its cleanup function
  resetDue,  \* a ResetException is queued
  strikes,   \* history: watchdog timeouts since ENW or WIS was last cleared, up to 2
  patched    \* history: TCR was last written while the time was halted

decVars == <<decs, active, rearm>>
wdtVars == <<enw, wis, strikes>>
vars == <<running, tb, tcr, wdtVars, on, decVars, resetDue, patched>>

TypeOK ==
  /\ running \in BOOLEAN /\ tb \in BOOLEAN /\ tcr \in Tcr
  /\ enw \in BOOLEAN /\ wis \in BOOLEAN /\ strikes \in 0 .. 2
  /\ on \subseteq Timers
  /\ decs \in 0 .. 1
  /\ active \in BOOLEAN /\ rearm \in BOOLEAN
  /\ resetDue \in BOOLEAN /\ patched \in BOOLEAN

-----------------------------------------------------------------------------
TcrOff == [wie |-> FALSE, fie |-> FALSE, die |-> FALSE, wrc |-> FALSE]

Init ==
  /\ running = TRUE /\ tb = FALSE /\ tcr = TcrOff
  /\ enw = FALSE /\ wis = FALSE /\ strikes = 0
  /\ on = {}
  /\ decs = 0 /\ active = FALSE /\ rearm = FALSE
  /\ resetDue = FALSE /\ patched = FALSE

\* the core's reset, with the one of its interrupt controller
Reset ==
  /\ resetDue /\ running
  /\ tb' = FALSE /\ tcr' = TcrOff
  /\ enw' = FALSE /\ wis' = FALSE /\ strikes' = 0
  /\ on' = {}
  /\ decs' = 0 /\ active' = FALSE /\ rearm' = FALSE
  /\ resetDue' = FALSE /\ patched' = FALSE
  /\ UNCHANGED running

\* DebugHalt says when; a halt pauses every timer, a resume goes on with them
Halt ==
  /\ ~resetDue
  /\ running' = ~running
  /\ UNCHANGED <<tb, tcr, wdtVars, on, decVars, resetDue, patched>>

-----------------------------------------------------------------------------
(* Register writes, by the firmware or, while halted, by the debugger.      *)

\* _startMCUDEC: an exception that is active or pending gets it as its cleanup
StartsDec == decs = 0

\* mutant: the watchdog is started only by a change of WIE
WriteTcrOnChange(new) ==
  /\ ~resetDue
  /\ tcr' = new
  /\ patched' = ~running
  /\ on' = (IF new.wie = tcr.wie THEN on \intersect {"WDT"}
            ELSE IF running /\ new.wie THEN {"WDT"} ELSE {})
           \union (IF running /\ new.fie THEN {"FIT"} ELSE {})
           \union (IF running /\ new.die
                   THEN IF StartsDec THEN {"DEC"} ELSE on \intersect {"DEC"} ELSE {})
  /\ rearm' = (rearm \/ (running /\ new.die /\ ~StartsDec))
  /\ UNCHANGED <<running, tb, wdtVars, decs, active, resetDue>>

\* _tcrWIEUpdate, _tcrDIEUpdate, _tcrFIEUpdate run on every write
WriteTcr(new) ==
  /\ ~resetDue
  /\ tcr' = new
  /\ patched' = ~running
  /\ on' = (IF running /\ new.wie THEN {"WDT"} ELSE {})
           \union (IF running /\ new.fie THEN {"FIT"} ELSE {})
           \union (IF running /\ new.die
                   THEN IF StartsDec THEN {"DEC"} ELSE on \intersect {"DEC"} ELSE {})
  /\ rearm' = (rearm \/ (running /\ new.die /\ ~StartsDec))
  /\ UNCHANGED <<running, tb, wdtVars, decs, active, resetDue>>

\* TSR: a bit that is written as one is cleared
ClearTsr(cenw, cwis) ==
  /\ ~resetDue
  /\ enw' = (enw /\ ~cenw) /\ wis' = (wis /\ ~cwis)
  /\ strikes' = IF (enw /\ cenw) \/ (wis /\ cwis) THEN 0 ELSE strikes
  /\ UNCHANGED <<running, tb, tcr, on, decVars, resetDue, patched>>

\* HID0[TBEN] = 1: DIE starts the watchdog, not the decrementer
EnableTimebase ==
  /\ ~resetDue
  /\ tb' = TRUE
  /\ on' = on \union (IF tcr.wie \/ tcr.die THEN {"WDT"} ELSE {})
              \union (IF tcr.fie THEN {"FIT"} ELSE {})
  /\ patched' = FALSE
  /\ UNCHANGED <<running, tcr, wdtVars, decVars, resetDue>>

\* HID0[TBEN] = 0
DisableTimebase ==
  /\ ~resetDue
  /\ tb' = FALSE /\ on' = {}
  /\ UNCHANGED <<running, tcr, wdtVars, decVars, resetDue, patched>>

\* _writeDec, with a value that is not zero
WriteDec ==
  /\ ~resetDue /\ tcr.die
  /\ on' = on \union {"DEC"}
  /\ UNCHANGED <<running, tb, tcr, wdtVars, decVars, resetDue, patched>>

-----------------------------------------------------------------------------
(* Timeouts.                                                               *)

Strike == strikes' = IF strikes < 2 THEN strikes + 1 ELSE 2

\* mutant: TSR[WIS] is not looked at
WatchdogHasty ==
  /\ Strike
  /\ \/ ~enw /\ enw' = TRUE /\ UNCHANGED <<wis, on, resetDue>>
     \/ enw /\ wis' = TRUE /\ on' = on \ {"WDT"} /\ resetDue' = tcr.wrc /\ UNCHANGED enw

\* mutant: the timer is not started again once WIS is set
WatchdogTired ==
  /\ Strike
  /\ \/ ~enw /\ enw' = TRUE /\ UNCHANGED <<wis, on, resetDue>>
     \/ enw /\ ~wis /\ wis' = TRUE /\ on' = on \ {"WDT"} /\ UNCHANGED <<enw, resetDue>>
     \/ enw /\ wis /\ on' = on \ {"WDT"} /\ resetDue' = tcr.wrc /\ UNCHANGED <<enw, wis>>

\* _mcuWDTHandler; the second timeout is an exception of another class, and the
\* last one leaves the timer stopped
Watchdog ==
  /\ Strike
  /\ \/ ~enw /\ enw' = TRUE /\ UNCHANGED <<wis, on, resetDue>>
     \/ enw /\ ~wis /\ wis' = TRUE /\ UNCHANGED <<enw, on, resetDue>>
     \/ enw /\ wis /\ on' = on \ {"WDT"} /\ resetDue' = tcr.wrc /\ UNCHANGED <<enw, wis>>

\* _mcuDECHandler: no second exception while one is active or pending
Decrementer == on' = on \ {"DEC"} /\ decs' = 1

Expire(t) ==
  /\ ~resetDue /\ running /\ t \in on
  /\ \/ t = "WDT" /\ Watchdog /\ UNCHANGED decs
     \/ t = "FIT" /\ on' = on \ {"FIT"} /\ UNCHANGED <<wdtVars, decs, resetDue>>
     \/ t = "DEC" /\ Decrementer /\ UNCHANGED <<wdtVars, resetDue>>
  /\ UNCHANGED <<running, tb, tcr, active, rearm, patched>>

-----------------------------------------------------------------------------
(* The decrementer's exceptions.                                           *)

EnterDec ==
  /\ ~resetDue /\ running /\ ~active /\ decs > 0
  /\ active' = TRUE
  /\ UNCHANGED <<running, tb, tcr, wdtVars, on, decs, rearm, resetDue, patched>>

\* mutant: the cleanup runs before the exception leaves the stack, and is
\* attached to the exception that is going away
RfiCleansFirst ==
  /\ ~resetDue /\ running /\ active
  /\ active' = FALSE /\ decs' = decs - 1
  /\ rearm' = FALSE
  /\ UNCHANGED <<running, tb, tcr, wdtVars, on, resetDue, patched>>

\* _rfi: pops the stack, then doCleanup
RfiDec ==
  /\ ~resetDue /\ running /\ active
  /\ active' = FALSE /\ decs' = decs - 1
  /\ \/ rearm /\ rearm' = FALSE /\ on' = on \union {"DEC"}
     \/ ~rearm /\ UNCHANGED <<rearm, on>>
  /\ UNCHANGED <<running, tb, tcr, wdtVars, resetDue, patched>>

-----------------------------------------------------------------------------
Core == Reset \/ EnterDec \/ RfiDec \/ (\E t \in Timers : Expire(t))

Next ==
  \/ Reset \/ EnterDec \/ RfiDec \/ (\E t \in Timers : Expire(t))
  \/ Halt \/ EnableTimebase \/ DisableTimebase \/ WriteDec
  \/ \E new \in TcrSet : WriteTcr(new)
  \/ \E cenw, cwis \in BOOLEAN : ClearTsr(cenw, cwis)

Spec == Init /\ [][Next]_vars

\* The clock ticks and the core executes while it is not halted, and the
\* firmware's handlers return.
FairSpec ==
  Spec /\ WF_vars(Reset) /\ WF_vars(Expire("WDT")) /\ WF_vars(EnterDec) /\ WF_vars(RfiDec)

-----------------------------------------------------------------------------
(* Properties.                                                             *)

\* However writes of TCR, TSR and HID0, timeouts and resets follow each other, a
\* watchdog that is to reset the core is running or has done it.  Only a write
\* of TCR while the debugger halts the core stops it (_tcrWIEUpdate asks
\* systimeRunning), until TCR or HID0 is written again.
WatchdogArmed == tb /\ tcr.wie /\ tcr.wrc /\ ~patched => "WDT" \in on \/ resetDue

\* Firmware that clears ENW or WIS has two more timeouts before the watchdog
\* resets the core, also when it clears only one of the bits.
TwoStrikes == resetDue => strikes = 2

\* If the firmware and the debugger leave the registers alone, a running
\* watchdog with WRC ends in a reset (after which TCR is clear).
DogBites ==
  (<>[][Core]_vars /\ <>[](running /\ ~patched)) => []<>~(tb /\ tcr.wie /\ tcr.wrc)

\* A start of the decrementer that was put off because one of its exceptions was
\* outstanding is never lost: unless the core resets, the timer runs when the
\* handler has returned.
DecResumes == <>[]running => (rearm ~> ("DEC" \in on /\ ~rearm) \/ resetDue)

\* Enabling the timebase starts the decrementer if TCR[DIE] is set.
TimebaseStartsDec == [][~tb /\ tb' /\ tcr.die /\ StartsDec => "DEC" \in on']_vars

=============================================================================

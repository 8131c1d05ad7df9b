-------------------------------- MODULE Clocks --------------------------------
(***************************************************************************)
(* The clock tree: the PLL (cm2350/peripherals/fmpll.py), the dividers of  *)
(* the SIU (cm2350/peripherals/siu.py, f_sys to f_periph), and the system  *)
(* frequency that the emulated time keeps a copy of (setSystemFreq).       *)
(*                                                                         *)
(* A frequency is a fraction <<n, d>> of the external clock; that f_sys    *)
(* rounds it down to a whole number of hertz is left out.  The other       *)
(* clocks are computed when they are asked for, and keep no state.         *)
(***************************************************************************)
EXTENDS Naturals

CONSTANTS
  Pllcfg,      \* pllcfg: what the board puts on the PLLCFG pins, 0 .. 7
  Emfds, Epredivs, Erfds   \* the multipliers and dividers the firmware writes

VARIABLES
  clkcfg, eprediv, emfd,   \* esyncr1
  clkcfgDis, erfd,         \* esyncr2: clkcfg_dis and erfd
  savedClkcfg,             \* _saved_clkcfg
  synsr,                   \* synsr: mode, pllref, pllsel and lock
  pll,                     \* pll
  sysdiv,                  \* sysdiv: ipclkdiv, bypass and sysclkdiv
  freq,                    \* _systemFreq of the emulated time
  stale                    \* history: what freq was computed from has changed since

esyncr == <<clkcfg, eprediv, emfd, clkcfgDis, erfd>>
vars == <<esyncr, savedClkcfg, synsr, pll, sysdiv, freq, stale>>

-----------------------------------------------------------------------------
Status(c) ==
  LET mode == c >= 4 IN
  [mode |-> mode, pllref |-> mode /\ (c \div 2) % 2 = 1, pllsel |-> mode /\ c % 2 = 1,
   lock |-> mode /\ c % 2 = 1]

\* extal * (EMFD + 16) / ((EPREDIV + 1) * (ERFD + 1)), or extal
FPll(c, ep, em, rf) ==
  IF Status(c).pllsel THEN <<em + 16, (ep + 1) * (rf + 1)>> ELSE <<1, 1>>

\* configClock
ConfigClock ==
  /\ synsr' = Status(clkcfg')
  /\ pll' = FPll(clkcfg', eprediv', emfd', erfd')

Sysdiv == [ipclkdiv : 0 .. 3, bypass : BOOLEAN, sysclkdiv : 0 .. 3]
RESERVED == 2     \* of ipclkdiv: its divider is None

FSys(p, s) == <<p[1], p[2] * (IF s.bypass THEN 1 ELSE <<2, 4, 8, 16>>[s.sysclkdiv + 1])>>
Divided(f, k) == <<f[1], f[2] * k>>
FCpu(p, s) == Divided(FSys(p, s), IF s.ipclkdiv = 3 THEN 2 ELSE 1)
FEtpu(p, s) == Divided(FSys(p, s), IF s.ipclkdiv = 1 THEN 1 ELSE 2)
FPeriph(p, s) == Divided(FSys(p, s), 2)

\* the engineering clock and the external clock, by the fields of ECCR
FEngclk(p, s, ecss, engdiv) ==
  IF ecss THEN <<1, 1>> ELSE Divided(FPeriph(p, s), IF engdiv = 0 THEN 1 ELSE engdiv * 2)
FClkout(p, s, ebdf) == Divided(FPeriph(p, s), ebdf + 1)

-----------------------------------------------------------------------------
ClkcfgAtReset ==
  LET mode == Pllcfg \div 2 IN
  IF mode = 0 THEN 0 ELSE IF mode = 1 THEN 6 ELSE IF mode = 2 THEN 7 ELSE 4
EpredivAtReset == IF Pllcfg % 2 = 0 THEN 1 ELSE 3
EmfdAtReset == 32
ErfdAtReset == 7
PllAtReset == FPll(ClkcfgAtReset, EpredivAtReset, EmfdAtReset, ErfdAtReset)
SysdivAtReset == [ipclkdiv |-> 0, bypass |-> TRUE, sysclkdiv |-> 0]

Init ==
  /\ clkcfg = ClkcfgAtReset /\ eprediv = EpredivAtReset /\ emfd = EmfdAtReset
  /\ clkcfgDis = FALSE /\ erfd = ErfdAtReset
  /\ savedClkcfg = ClkcfgAtReset /\ synsr = Status(ClkcfgAtReset) /\ pll = PllAtReset
  /\ sysdiv = SysdivAtReset /\ freq = FCpu(PllAtReset, SysdivAtReset)
  /\ stale = FALSE

\* the PLL is reset before the SIU, which computes the frequency from it
Reset ==
  /\ clkcfg' = ClkcfgAtReset /\ eprediv' = EpredivAtReset /\ emfd' = EmfdAtReset
  /\ clkcfgDis' = FALSE /\ erfd' = ErfdAtReset
  /\ savedClkcfg' = ClkcfgAtReset /\ synsr' = Status(ClkcfgAtReset) /\ pll' = PllAtReset
  /\ sysdiv' = SysdivAtReset /\ freq' = FCpu(PllAtReset, SysdivAtReset)
  /\ stale' = FALSE

\* esyncr1Update: a locked CLKCFG is restored
WriteEsyncr1(c, ep, em) ==
  /\ eprediv' = ep /\ emfd' = em
  /\ clkcfg' = IF clkcfgDis THEN savedClkcfg ELSE c
  /\ savedClkcfg' = clkcfg'
  /\ UNCHANGED <<clkcfgDis, erfd, sysdiv, freq>>
  /\ ConfigClock
  /\ stale' = (stale \/ pll' # pll)

\* esyncr2Update
WriteEsyncr2(dis, rf) ==
  /\ clkcfgDis' = dis /\ erfd' = rf
  /\ UNCHANGED <<clkcfg, eprediv, emfd, savedClkcfg, sysdiv, freq>>
  /\ ConfigClock
  /\ stale' = (stale \/ pll' # pll)

\* updateSystemFreq: the reserved divider raises a TypeError before the frequency is set
WriteSysdiv(s) ==
  /\ sysdiv' = s
  /\ IF s.ipclkdiv = RESERVED
     THEN freq' = freq /\ stale' = TRUE
     ELSE freq' = FCpu(pll, s) /\ stale' = FALSE
  /\ UNCHANGED <<esyncr, savedClkcfg, synsr, pll>>

Next ==
  \/ Reset
  \/ \E c \in 0 .. 7, ep \in Epredivs, em \in Emfds : WriteEsyncr1(c, ep, em)
  \/ \E dis \in BOOLEAN, rf \in Erfds : WriteEsyncr2(dis, rf)
  \/ \E s \in Sysdiv : WriteSysdiv(s)

Spec == Init /\ [][Next]_vars

-----------------------------------------------------------------------------
(* Properties.                                                             *)

\* The status, the lock flags and the PLL's output are those of the registers, even
\* after a write whose CLKCFG was taken back.
PllFollows ==
  /\ savedClkcfg = clkcfg
  /\ synsr = Status(clkcfg) /\ pll = FPll(clkcfg, eprediv, emfd, erfd)

\* The emulated time runs at the core's frequency, unless the PLL has changed, or the
\* reserved divider was written, since the last write of SYSDIV.
FreqFollows == ~stale => freq = FCpu(pll, sysdiv)

\* f is no faster than g.
NoFaster(f, g) == f[1] * g[2] <= g[1] * f[2]

\* What a step may do while CLKCFG is locked.
Locked == Reset \/ (clkcfgDis => clkcfg' = clkcfg)

\* Firmware that locks CLKCFG keeps the clock mode until a reset or until it unlocks it.
ModeLocked == [][Locked]_vars

=============================================================================

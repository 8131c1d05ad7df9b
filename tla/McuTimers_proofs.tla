--------------------------- MODULE McuTimers_proofs ---------------------------
(* Proofs about the timers that reset the core: McuTimers, for every set of   *)
(* values written to TCR, and Swt, for every key range, timeout and set of    *)
(* values written; and about Siu, whose reset status the firmware reads after *)
(* a watchdog's reset.                                                        *)
EXTENDS McuTimers, Swt, TLAPS

\* The exception that is on the stack, and the one a cleanup is attached to, is
\* among those that are counted (_rfi pops what handleException pushed).
Counted == (active => decs > 0) /\ (rearm => decs > 0)

\* With both bits set there has been a timeout since one was last cleared: the
\* one that set the second bit.
Warned == enw /\ wis => strikes >= 1

IInv == TypeOK /\ Counted /\ Warned /\ WatchdogArmed /\ TwoStrikes

-----------------------------------------------------------------------------
\* The states after the constructor, and after a reset, satisfy the invariant.
LEMMA InitInv == Init => IInv
<1> SUFFICES ASSUME Init
             PROVE  IInv
  OBVIOUS
<1>1. TcrOff \in Tcr
  BY DEF TcrOff, Tcr
<1>2. TypeOK
  <2>1. strikes \in 0 .. 2 /\ decs \in 0 .. 1
    BY DEF Init
  <2>2. tcr \in Tcr /\ on \subseteq Timers
    BY <1>1 DEF Init
  <2> QED
    BY <2>1, <2>2, Zenon DEF Init, TypeOK
<1>3. ~active /\ ~rearm /\ ~enw /\ ~tb /\ ~resetDue
  BY DEF Init
<1>4. Counted /\ Warned /\ WatchdogArmed /\ TwoStrikes
  BY <1>3 DEF Init, Counted, Warned, WatchdogArmed, TwoStrikes
<1> QED
  BY <1>2, <1>4 DEF IInv

LEMMA StepInv == IInv /\ [Next]_vars => IInv'
<1> SUFFICES ASSUME IInv, [Next]_vars
             PROVE  IInv'
  OBVIOUS
<1> USE McuTimersAssumption
        DEF McuTimersAssumption, IInv, TypeOK, Counted, Warned, WatchdogArmed,
            TwoStrikes, wdtVars, decVars
<1>1. CASE Reset
  <2>1. TcrOff \in Tcr
    BY DEF TcrOff, Tcr
  <2>2. TypeOK'
    <3>1. strikes' \in 0 .. 2 /\ decs' \in 0 .. 1
      BY <1>1 DEF Reset
    <3>2. tcr' \in Tcr /\ on' \subseteq Timers
      BY <1>1, <2>1 DEF Reset
    <3> QED
      BY <1>1, <3>1, <3>2, Zenon DEF Reset
  <2>3. ~active' /\ ~rearm' /\ ~enw' /\ ~tb' /\ ~resetDue'
    BY <1>1 DEF Reset
  <2> QED
    BY <1>1, <2>2, <2>3 DEF Reset
<1>2. CASE EnterDec
  BY <1>2 DEF EnterDec
<1>3. CASE RfiDec
  <2>1. decs = 1 /\ decs' = 0 /\ active' = FALSE
    BY <1>3 DEF RfiDec
  <2>2. on' \subseteq Timers /\ ("WDT" \in on => "WDT" \in on')
    BY <1>3 DEF RfiDec, Timers
  <2>3. rearm' = FALSE
    <3>1. CASE rearm
      BY <1>3, <2>1, <3>1 DEF RfiDec
    <3>2. CASE ~rearm
      <4>1. rearm' = rearm
        BY <1>3, <3>2 DEF RfiDec
      <4>2. rearm = FALSE
        BY <3>2, Zenon
      <4> QED
        BY <4>1, <4>2, Zenon
    <3> QED
      BY <3>1, <3>2
  <2>4. UNCHANGED <<running, tb, tcr, wdtVars, resetDue, patched>>
    BY <1>3 DEF RfiDec
  <2>5. TypeOK'
    <3>1. decs' \in 0 .. 1 /\ strikes' \in 0 .. 2
      BY <2>1, <2>4
    <3> QED
      BY <2>1, <2>2, <2>3, <2>4, <3>1, Zenon
  <2>6. ~active' /\ ~rearm'
    BY <2>1, <2>3
  <2>7. Counted' /\ Warned' /\ TwoStrikes'
    BY <2>4, <2>6
  <2>8. WatchdogArmed'
    BY <2>2, <2>4
  <2> QED
    BY <2>5, <2>7, <2>8
<1>4. ASSUME Expire("WDT")
      PROVE  IInv'
  <2>1. on' \subseteq Timers /\ strikes' \in 0 .. 2 /\ strikes' >= 1
        /\ (strikes >= 1 => strikes' = 2)
    BY <1>4 DEF Expire, Watchdog, Strike
  <2>2. CASE ~enw
    <3>1. /\ enw' = TRUE /\ wis' = wis /\ on' = on /\ resetDue' = resetDue
          /\ strikes' \in 0 .. 2 /\ strikes' >= 1
      BY <1>4, <2>1, <2>2 DEF Expire, Watchdog
    <3>2. ~resetDue'
      BY <1>4, <3>1 DEF Expire
    <3> QED
      BY <1>4, <3>1, <3>2 DEF Expire
  <2>3. CASE enw /\ ~wis
    <3>1. /\ enw' = enw /\ wis' = TRUE /\ on' = on /\ resetDue' = resetDue
          /\ strikes' \in 0 .. 2 /\ strikes' >= 1
      BY <1>4, <2>1, <2>3 DEF Expire, Watchdog
    <3>2. ~resetDue'
      BY <1>4, <3>1 DEF Expire
    <3> QED
      BY <1>4, <3>1, <3>2 DEF Expire
  <2>4. CASE enw /\ wis
    <3>1. strikes' = 2 /\ resetDue' = tcr.wrc
      BY <1>4, <2>1, <2>4 DEF Expire, Watchdog
    <3> QED
      BY <1>4, <2>1, <2>4, <3>1 DEF Expire, Watchdog, Tcr
  <2> QED
    BY <2>2, <2>3, <2>4
<1>5. ASSUME Expire("FIT")
      PROVE  IInv'
  BY <1>5 DEF Expire
<1>6. ASSUME Expire("DEC")
      PROVE  IInv'
  <2>1. /\ decs' = 1
        /\ on' = on \ {"DEC"}
    BY <1>6 DEF Expire, Decrementer
  <2> QED
    BY <1>6, <2>1 DEF Expire
<1>7. CASE Halt
  BY <1>7 DEF Halt
<1>8. CASE EnableTimebase
  BY <1>8 DEF EnableTimebase, Timers, Tcr
<1>9. CASE DisableTimebase
  BY <1>9 DEF DisableTimebase
<1>10. CASE WriteDec
  BY <1>10 DEF WriteDec, Timers
<1>11. ASSUME NEW new \in TcrSet, WriteTcr(new)
       PROVE  IInv'
  <2>1. new \in Tcr
    OBVIOUS
  <2>2. rearm' \in BOOLEAN /\ (rearm' => decs' > 0)
    BY <1>11 DEF WriteTcr, StartsDec
  <2>3. on' \subseteq Timers
    BY <1>11 DEF WriteTcr, Timers
  <2>4. WatchdogArmed'
    BY <1>11 DEF WriteTcr
  <2> QED
    BY <1>11, <2>1, <2>2, <2>3, <2>4 DEF WriteTcr
<1>12. ASSUME NEW cenw \in BOOLEAN, NEW cwis \in BOOLEAN, ClearTsr(cenw, cwis)
       PROVE  IInv'
  BY <1>12 DEF ClearTsr
<1>13. CASE UNCHANGED vars
  BY <1>13 DEF vars
<1> QED
  BY <1>1, <1>2, <1>3, <1>4, <1>5, <1>6, <1>7, <1>8, <1>9, <1>10, <1>11, <1>12, <1>13
  DEF Next, Timers

\* The conjunction of the invariants below is inductive.
THEOREM Invariance == Spec => []IInv
  BY InitInv, StepInv, PTL DEF Spec

\* Every variable keeps its type; the count of exceptions never drops below 0.
THEOREM TypeCorrect == Spec => []TypeOK
  BY Invariance, PTL DEF IInv

\* A watchdog that is to reset the core is running, whatever is written to TCR,
\* TSR, DEC and HID0 and whatever expires (_tcrWIEUpdate, _mcuWDTHandler).
THEOREM AlwaysArmed == Spec => []WatchdogArmed
  BY Invariance, PTL DEF IInv

\* No reset comes sooner than two timeouts after ENW or WIS was cleared.
THEOREM TwoChances == Spec => []TwoStrikes
  BY Invariance, PTL DEF IInv

-----------------------------------------------------------------------------
(* The system integration unit, for any set of pins, any layout of the words *)
(* and any defaults: the two paths that compute what a pin shows agree,      *)
(* whatever order the writes, the connections and the resets come in.  Its   *)
(* reset status tells the watchdog's reset from the others.                  *)
CONSTANTS Pins, WordOf, HalfOf, Legacy, PcrDefaults, Strapped
VARIABLES gpio, obe, ibe, pullUp, gpioMode, outMask, inMask, defaultValue, connected,
          connectedMask, connectedValue, gpdo, pgpdo, gpdi, gpdiFull, pgpdi, pinValue, rsr

S == INSTANCE Siu

PinInv ==
  /\ S!TypeOK /\ S!MasksFollow /\ S!PinsShow /\ S!ViewsAgree /\ S!InputsCurrent /\ S!OneSource

-----------------------------------------------------------------------------
\* What refreshPinValue leaves behind, given that the rest of the state has been
\* brought up to date for this pin and is as before for the others.
LEMMA PinRefreshed ==
  ASSUME S!PinsShow, S!ViewsAgree, S!InputsCurrent, S!TypeOK, NEW p \in Pins,
         S!RefreshPinValue(p), S!MasksFollow', gpdo' = pgpdo',
         \A q \in Pins : q # p =>
           /\ q \in (gpio \intersect obe)' <=> q \in gpio \intersect obe
           /\ q \in (gpio \intersect ibe)' <=> q \in gpio \intersect ibe
           /\ q \in gpdo' <=> q \in gpdo
           /\ connected'[q] = connected[q]
           /\ q \in pullUp' <=> q \in pullUp
  PROVE  /\ S!PinsShow' /\ S!ViewsAgree' /\ S!InputsCurrent'
         /\ pinValue' \subseteq Pins /\ pgpdi' \subseteq Pins
<1>1. /\ pinValue' = S!With(pinValue, p, S!Shown(p))
      /\ p \in inMask' => pgpdi' = S!With(pgpdi, p, S!Shown(p))
      /\ p \notin inMask' => pgpdi' = pgpdi
  BY DEF S!RefreshPinValue, S!inputs
<1>2. \A q \in Pins : q # p => (q \in pinValue' <=> q \in pinValue)
                            /\ (q \in pgpdi' <=> q \in pgpdi)
  BY <1>1 DEF S!With
<1>3. p \in pinValue' <=> S!Shown(p)
  BY <1>1 DEF S!With
<1>4. S!Shown(p) <=> IF p \in gpio' \intersect obe' THEN p \in gpdo'
                   ELSE IF connected'[p] # S!Unset THEN connected'[p] = 1
                   ELSE p \in pullUp'
  BY DEF S!Shown, S!MasksFollow
<1>5. S!PinsShow'
  <2>1. \A q \in Pins : q # p => S!PinShows(q)'
    BY <1>2 DEF S!PinsShow, S!PinShows
  <2>2. S!PinShows(p)'
    BY <1>3, <1>4 DEF S!PinShows
  <2> QED
    BY <2>1, <2>2 DEF S!PinsShow
<1>6. S!ViewsAgree'
  <2>1. CASE p \in inMask'
    <3>1. gpdiFull' = S!With(gpdiFull, p, S!Shown(p)) /\ pgpdi' = S!With(pgpdi, p, S!Shown(p))
          /\ gpdi' = IF p \in Legacy THEN S!With(gpdi, p, S!Shown(p)) ELSE gpdi
      BY <2>1 DEF S!RefreshPinValue
    <3> QED
      BY <3>1 DEF S!ViewsAgree, S!With
  <2>2. CASE p \notin inMask'
    BY <2>2 DEF S!RefreshPinValue, S!inputs, S!ViewsAgree
  <2> QED
    BY <2>1, <2>2
<1>7. S!InputsCurrent'
  <2>1. p \in inMask' => (p \in pgpdi' <=> p \in pinValue')
    BY <1>1, <1>3 DEF S!With
  <2>2. inMask' = gpio' \intersect ibe'
    BY DEF S!MasksFollow
  <2> QED
    BY <1>2, <2>1, <2>2 DEF S!InputsCurrent
<1>8. pinValue' \subseteq Pins /\ pgpdi' \subseteq Pins
  BY <1>1 DEF S!With, S!TypeOK
<1> QED
  BY <1>5, <1>6, <1>7, <1>8

\* What refreshBlockValue leaves behind, given that the rest of the state has been
\* brought up to date for the pins of the word and is as before for the others.
LEMMA BlockRefreshed ==
  ASSUME S!PinsShow, S!ViewsAgree, S!InputsCurrent, S!TypeOK, NEW w \in SUBSET Pins,
         S!RefreshBlockValue(w), S!MasksFollow', gpdo' = pgpdo',
         UNCHANGED <<S!pcr, S!masks, S!wires>>,
         \A q \in Pins \ w : q \in gpdo' <=> q \in gpdo
  PROVE  /\ S!PinsShow' /\ S!ViewsAgree' /\ S!InputsCurrent'
         /\ pinValue' \subseteq Pins /\ pgpdi' \subseteq Pins
<1> DEFINE wired == (defaultValue' \ connectedMask') \union (connectedValue' \intersect connectedMask')
           shown == (wired \ outMask') \union (pgpdo' \intersect outMask')
           in == ((pgpdi \ inMask') \union (shown \intersect inMask')) \intersect w
<1>1. /\ pinValue' = (pinValue \ w) \union (shown \intersect w)
      /\ pgpdi' = (pgpdi \ w) \union in
      /\ gpdiFull' = (gpdiFull \ w) \union in
      /\ gpdi' = (gpdi \ w) \union (in \intersect Legacy)
  BY DEF S!RefreshBlockValue
<1>2. \A q \in Pins : q \in shown <=>
        IF q \in gpio' \intersect obe' THEN q \in gpdo'
        ELSE IF connected'[q] # S!Unset THEN connected'[q] = 1
        ELSE q \in pullUp'
  BY DEF S!MasksFollow
<1>3. S!PinsShow'
  <2>1. \A q \in w : S!PinShows(q)'
    BY <1>1, <1>2 DEF S!PinShows
  <2>2. \A q \in Pins \ w : S!PinShows(q)'
    BY <1>1 DEF S!PinsShow, S!PinShows, S!pcr, S!wires
  <2> QED
    BY <2>1, <2>2 DEF S!PinsShow
<1>4. S!ViewsAgree'
  BY <1>1 DEF S!ViewsAgree
<1>5. S!InputsCurrent'
  <2>1. \A q \in w : q \in inMask' => (q \in pgpdi' <=> q \in pinValue')
    BY <1>1
  <2>2. \A q \in Pins \ w : (q \in pgpdi' <=> q \in pgpdi) /\ (q \in pinValue' <=> q \in pinValue)
    BY <1>1
  <2>3. inMask' = gpio' \intersect ibe' /\ gpio' = gpio /\ ibe' = ibe
    BY DEF S!MasksFollow, S!pcr
  <2> QED
    BY <2>1, <2>2, <2>3 DEF S!InputsCurrent
<1>6. pinValue' \subseteq Pins /\ pgpdi' \subseteq Pins
  <2>1. pinValue \subseteq Pins /\ pgpdi \subseteq Pins
    BY DEF S!TypeOK
  <2> QED
    BY <1>1, <2>1
<1> QED
  BY <1>3, <1>4, <1>5, <1>6

-----------------------------------------------------------------------------
LEMMA PinInit == S!Init => PinInv
<1> SUFFICES ASSUME S!Init PROVE PinInv
  OBVIOUS
<1>1. S!TypeOK
  <2>1. /\ S!GpioAtReset \subseteq Pins /\ S!ObeAtReset \subseteq Pins /\ S!IbeAtReset \subseteq Pins
        /\ S!PullUpAtReset \subseteq Pins /\ S!OutAtReset \subseteq Pins /\ S!InAtReset \subseteq Pins
    BY DEF S!GpioAtReset, S!ObeAtReset, S!IbeAtReset, S!PullUpAtReset, S!OutAtReset, S!InAtReset, S!AtReset
  <2>2. /\ \A c : S!Driven(c) \subseteq Pins /\ S!High(c) \subseteq Pins
        /\ \A c : S!ShownAtReset(c) \subseteq Pins /\ S!ReadAtReset(c) \subseteq Pins
    BY <2>1 DEF S!Driven, S!High, S!ShownAtReset, S!ReadAtReset
  <2>3. /\ gpio \subseteq Pins /\ obe \subseteq Pins /\ ibe \subseteq Pins /\ pullUp \subseteq Pins
        /\ gpioMode \subseteq Pins /\ outMask \subseteq Pins /\ inMask \subseteq Pins
        /\ defaultValue \subseteq Pins
    BY <2>1 DEF S!Init
  <2>4. /\ connectedMask \subseteq Pins /\ connectedValue \subseteq Pins
        /\ gpdo \subseteq Pins /\ pgpdo \subseteq Pins /\ pinValue \subseteq Pins
        /\ pgpdi \subseteq Pins /\ gpdiFull \subseteq Pins /\ gpdi \subseteq Pins
    BY <2>2 DEF S!Init
  <2>5. DOMAIN connected = Pins /\ rsr \subseteq S!Sources
    BY DEF S!Init, S!Sources
  <2> QED
    BY <2>3, <2>4, <2>5 DEF S!TypeOK
<1>2. S!MasksFollow
  BY DEF S!Init, S!MasksFollow, S!OutAtReset, S!InAtReset, S!Driven, S!High
<1>3. S!PinsShow
  <2>1. /\ pinValue = S!ShownAtReset(connected) /\ gpdo = {} /\ pullUp = S!PullUpAtReset
        /\ gpio \intersect obe = S!OutAtReset
    BY DEF S!Init, S!OutAtReset
  <2> QED
    BY <2>1 DEF S!PinsShow, S!PinShows, S!ShownAtReset, S!High, S!Driven, S!Unset
<1>4. S!ViewsAgree
  BY DEF S!Init, S!ViewsAgree
<1>5. S!InputsCurrent
  BY DEF S!Init, S!InputsCurrent, S!ReadAtReset, S!InAtReset
<1>6. S!OneSource
  BY DEF S!Init, S!OneSource
<1> QED
  BY <1>1, <1>2, <1>3, <1>4, <1>5, <1>6 DEF PinInv

LEMMA PinReset ==
  ASSUME PinInv, NEW source \in S!Sources, S!Reset(source)
  PROVE  PinInv'
<1>1. S!TypeOK'
  <2>1. DOMAIN connected = Pins
    BY DEF PinInv, S!TypeOK
  <2> QED
    BY <2>1 DEF S!Reset, S!TypeOK, S!GpioAtReset, S!ObeAtReset, S!IbeAtReset, S!PullUpAtReset, S!OutAtReset,
                S!InAtReset, S!AtReset, S!Driven, S!High, S!ShownAtReset, S!ReadAtReset
<1>2. S!MasksFollow'
  BY DEF S!Reset, S!MasksFollow, S!OutAtReset, S!InAtReset, S!Driven, S!High
<1>3. S!PinsShow'
  <2>1. /\ pinValue' = S!ShownAtReset(connected') /\ gpdo' = {} /\ pullUp' = S!PullUpAtReset
        /\ gpio' \intersect obe' = S!OutAtReset
    BY DEF S!Reset, S!OutAtReset
  <2> QED
    BY <2>1 DEF S!PinsShow, S!PinShows, S!ShownAtReset, S!High, S!Driven, S!Unset
<1>4. S!ViewsAgree'
  BY DEF S!Reset, S!ViewsAgree
<1>5. S!InputsCurrent'
  BY DEF S!Reset, S!InputsCurrent, S!ReadAtReset, S!InAtReset
<1>6. S!OneSource'
  BY DEF S!Reset, S!OneSource
<1> QED
  BY <1>1, <1>2, <1>3, <1>4, <1>5, <1>6 DEF PinInv

\* With changes a set at one pin only, and keeps it a set of pins.
LEMMA WithFacts ==
  ASSUME NEW T, NEW p, NEW bit \in BOOLEAN
  PROVE  /\ p \in S!With(T, p, bit) <=> bit
         /\ \A q : q # p => (q \in S!With(T, p, bit) <=> q \in T)
         /\ p \in Pins /\ T \subseteq Pins => S!With(T, p, bit) \subseteq Pins
  BY DEF S!With

\* The views keep the types of what they agree with.
LEMMA TypeFromViews ==
  ASSUME S!MasksFollow', S!ViewsAgree', pinValue' \subseteq Pins, pgpdi' \subseteq Pins,
         gpdo' \subseteq Pins, gpio' \subseteq Pins, obe' \subseteq Pins, ibe' \subseteq Pins,
         pullUp' \subseteq Pins, DOMAIN connected' = Pins, rsr' \subseteq S!Sources
  PROVE  S!TypeOK'
<1>1. /\ gpioMode' \subseteq Pins /\ outMask' \subseteq Pins /\ inMask' \subseteq Pins
      /\ defaultValue' \subseteq Pins /\ connectedMask' \subseteq Pins
      /\ connectedValue' \subseteq Pins
  BY DEF S!MasksFollow
<1>2. pgpdo' \subseteq Pins /\ gpdi' \subseteq Pins /\ gpdiFull' \subseteq Pins
  BY DEF S!ViewsAgree
<1> QED
  BY <1>1, <1>2 DEF S!TypeOK

LEMMA WritePcrHolds ==
  ASSUME PinInv, NEW p \in Pins, NEW pa0 \in BOOLEAN, NEW out \in BOOLEAN, NEW in \in BOOLEAN,
         NEW up \in BOOLEAN, S!WritePcr(p, pa0, out, in, up)
  PROVE  PinInv'
<1>1. /\ S!TypeOK /\ S!MasksFollow /\ S!PinsShow /\ S!ViewsAgree /\ S!InputsCurrent /\ S!OneSource
  BY DEF PinInv
<1>2. UNCHANGED <<S!wires, S!outputs, rsr>> /\ S!UpdateMasks(p) /\ S!RefreshPinValue(p)
  BY DEF S!WritePcr
<1>3. /\ gpio' \subseteq Pins /\ obe' \subseteq Pins /\ ibe' \subseteq Pins /\ pullUp' \subseteq Pins
  <2>1. gpio \subseteq Pins /\ obe \subseteq Pins /\ ibe \subseteq Pins /\ pullUp \subseteq Pins
    BY <1>1 DEF S!TypeOK
  <2> QED
    BY <2>1 DEF S!WritePcr, S!With
<1>4. \A q \in Pins : q # p =>
        /\ q \in gpio' <=> q \in gpio
        /\ q \in obe' <=> q \in obe
        /\ q \in ibe' <=> q \in ibe
        /\ q \in pullUp' <=> q \in pullUp
  <2>1. \A q \in Pins : q # p => (q \in gpio' <=> q \in gpio)
    BY DEF S!WritePcr, S!With
  <2>2. \A q \in Pins : q # p => (q \in obe' <=> q \in obe)
    BY DEF S!WritePcr, S!With
  <2>3. \A q \in Pins : q # p => (q \in ibe' <=> q \in ibe)
    BY DEF S!WritePcr, S!With
  <2>4. \A q \in Pins : q # p => (q \in pullUp' <=> q \in pullUp)
    BY DEF S!WritePcr, S!With
  <2> QED
    BY <2>1, <2>2, <2>3, <2>4
<1>5. S!MasksFollow'
  <2>1. gpioMode' = gpio'
    BY <1>1, <1>2 DEF S!MasksFollow, S!WritePcr, S!UpdateMasks, S!With
  <2>2. outMask' = gpio' \intersect obe'
    <3>1. outMask' = S!With(outMask, p, p \in gpio' /\ p \in obe')
      BY <1>2, <2>1 DEF S!UpdateMasks
    <3>2. outMask = gpio \intersect obe /\ outMask \subseteq Pins /\ gpio' \intersect obe' \subseteq Pins
      BY <1>1, <1>3 DEF S!MasksFollow, S!TypeOK
    <3>3. p \in outMask' <=> p \in gpio' \intersect obe'
      BY <3>1 DEF S!With
    <3>4. \A q \in Pins : q # p => (q \in outMask' <=> q \in gpio' \intersect obe')
      BY <1>4, <3>1, <3>2 DEF S!With
    <3>5. outMask' \subseteq Pins
      BY <3>1, <3>2 DEF S!With
    <3> QED
      BY <3>2, <3>3, <3>4, <3>5
  <2>3. inMask' = gpio' \intersect ibe'
    <3>1. inMask' = S!With(inMask, p, p \in gpio' /\ p \in ibe')
      BY <1>2, <2>1 DEF S!UpdateMasks
    <3>2. inMask = gpio \intersect ibe /\ inMask \subseteq Pins /\ gpio' \intersect ibe' \subseteq Pins
      BY <1>1, <1>3 DEF S!MasksFollow, S!TypeOK
    <3>3. p \in inMask' <=> p \in gpio' \intersect ibe'
      BY <3>1 DEF S!With
    <3>4. \A q \in Pins : q # p => (q \in inMask' <=> q \in gpio' \intersect ibe')
      BY <1>4, <3>1, <3>2 DEF S!With
    <3>5. inMask' \subseteq Pins
      BY <3>1, <3>2 DEF S!With
    <3> QED
      BY <3>2, <3>3, <3>4, <3>5
  <2>4. defaultValue' = pullUp'
    <3>1. defaultValue' = S!With(defaultValue, p, p \in pullUp')
      BY <1>2 DEF S!UpdateMasks
    <3> QED
      BY <1>1, <1>3, <1>4, <3>1 DEF S!MasksFollow, S!With, S!TypeOK
  <2>5. connected' = connected /\ connectedMask' = connectedMask /\ connectedValue' = connectedValue
    BY <1>2 DEF S!wires
  <2> QED
    BY <1>1, <2>1, <2>2, <2>3, <2>4, <2>5 DEF S!MasksFollow
<1>6. gpdo' = gpdo /\ pgpdo' = pgpdo /\ gpdo' = pgpdo' /\ connected' = connected
  BY <1>1, <1>2 DEF S!outputs, S!wires, S!ViewsAgree
<1>7. /\ S!PinsShow' /\ S!ViewsAgree' /\ S!InputsCurrent'
      /\ pinValue' \subseteq Pins /\ pgpdi' \subseteq Pins
  BY <1>1, <1>2, <1>4, <1>5, <1>6, PinRefreshed
<1>8. S!TypeOK'
  <2>1. gpdo' \subseteq Pins /\ DOMAIN connected' = Pins /\ rsr' \subseteq S!Sources
    BY <1>1, <1>2, <1>6 DEF S!TypeOK
  <2> QED
    BY <1>3, <1>5, <1>7, <2>1, TypeFromViews
<1>9. S!OneSource'
  BY <1>1, <1>2 DEF S!OneSource
<1> QED
  BY <1>5, <1>7, <1>8, <1>9 DEF PinInv

\* What the masks say is kept when neither they, nor PCR, nor the connections change.
LEMMA MasksKept ==
  ASSUME S!MasksFollow, UNCHANGED <<S!pcr, S!masks, S!wires>>
  PROVE  S!MasksFollow'
  BY DEF S!MasksFollow, S!pcr, S!masks, S!wires

LEMMA WriteGpdoHolds ==
  ASSUME PinInv, NEW p \in Pins, NEW bit \in BOOLEAN, S!WriteGpdo(p, bit)
  PROVE  PinInv'
<1>1. /\ S!TypeOK /\ S!MasksFollow /\ S!PinsShow /\ S!ViewsAgree /\ S!InputsCurrent /\ S!OneSource
  BY DEF PinInv
<1>2. UNCHANGED <<S!pcr, S!masks, S!wires, rsr>> /\ S!RefreshPinValue(p)
  BY DEF S!WriteGpdo
<1>3. gpdo' = pgpdo' /\ \A q \in Pins : q # p => (q \in gpdo' <=> q \in gpdo)
  BY <1>1 DEF S!WriteGpdo, S!With, S!ViewsAgree
<1>4. S!MasksFollow'
  BY <1>1, <1>2, MasksKept
<1>5. gpio' = gpio /\ obe' = obe /\ ibe' = ibe /\ pullUp' = pullUp /\ connected' = connected
  BY <1>2 DEF S!pcr, S!wires
<1>6. /\ S!PinsShow' /\ S!ViewsAgree' /\ S!InputsCurrent'
      /\ pinValue' \subseteq Pins /\ pgpdi' \subseteq Pins
  BY <1>1, <1>2, <1>3, <1>4, <1>5, PinRefreshed
<1>7. S!TypeOK'
  <2>1. gpdo' \subseteq Pins
    BY <1>1 DEF S!WriteGpdo, S!With, S!TypeOK
  <2>2. /\ gpio' \subseteq Pins /\ obe' \subseteq Pins /\ ibe' \subseteq Pins
        /\ pullUp' \subseteq Pins /\ DOMAIN connected' = Pins /\ rsr' \subseteq S!Sources
    BY <1>1, <1>2, <1>5 DEF S!TypeOK
  <2> QED
    BY <1>4, <1>6, <2>1, <2>2, TypeFromViews
<1>8. S!OneSource'
  BY <1>1, <1>2 DEF S!OneSource
<1> QED
  BY <1>4, <1>6, <1>7, <1>8 DEF PinInv

\* A write of a word, or of a half of it, through refreshBlockValue.
LEMMA BlockWriteHolds ==
  ASSUME PinInv, NEW w \in SUBSET Pins, S!RefreshBlockValue(w), gpdo' = pgpdo',
         UNCHANGED <<S!pcr, S!masks, S!wires, rsr>>, gpdo' \subseteq Pins,
         \A q \in Pins \ w : q \in gpdo' <=> q \in gpdo
  PROVE  PinInv'
<1>1. /\ S!TypeOK /\ S!MasksFollow /\ S!PinsShow /\ S!ViewsAgree /\ S!InputsCurrent /\ S!OneSource
  BY DEF PinInv
<1>2. S!MasksFollow'
  BY <1>1, MasksKept
<1>3. /\ S!PinsShow' /\ S!ViewsAgree' /\ S!InputsCurrent'
      /\ pinValue' \subseteq Pins /\ pgpdi' \subseteq Pins
  BY <1>1, <1>2, BlockRefreshed
<1>4. S!TypeOK'
  <2>1. /\ gpio' \subseteq Pins /\ obe' \subseteq Pins /\ ibe' \subseteq Pins
        /\ pullUp' \subseteq Pins /\ DOMAIN connected' = Pins /\ rsr' \subseteq S!Sources
    BY <1>1 DEF S!TypeOK, S!pcr, S!wires
  <2> QED
    BY <1>2, <1>3, <2>1, TypeFromViews
<1>5. S!OneSource'
  BY <1>1 DEF S!OneSource
<1> QED
  BY <1>2, <1>3, <1>4, <1>5 DEF PinInv

LEMMA SetGPIOHolds ==
  ASSUME PinInv, NEW p \in Pins, NEW level \in S!Levels \union {S!Unset}, S!SetGPIO(p, level)
  PROVE  PinInv'
<1>1. /\ S!TypeOK /\ S!MasksFollow /\ S!PinsShow /\ S!ViewsAgree /\ S!InputsCurrent /\ S!OneSource
  BY DEF PinInv
<1>2. UNCHANGED <<S!pcr, S!masks, S!outputs, rsr>> /\ S!RefreshPinValue(p)
  BY DEF S!SetGPIO
<1>3. /\ connected' = [connected EXCEPT ![p] = level] /\ DOMAIN connected = Pins
      /\ DOMAIN connected' = Pins /\ connected'[p] = level
      /\ \A q \in Pins : q # p => connected'[q] = connected[q]
  BY <1>1 DEF S!SetGPIO, S!TypeOK
<1>4. S!MasksFollow'
  <2>1. connectedMask' = {q \in Pins : connected'[q] # S!Unset}
    <3>1. connectedMask' = S!With(connectedMask, p, level # S!Unset)
      BY DEF S!SetGPIO
    <3> QED
      BY <1>1, <1>3, <3>1 DEF S!With, S!MasksFollow
  <2>2. connectedValue' = {q \in Pins : connected'[q] = 1}
    <3>1. connectedValue' = S!With(connectedValue, p, level = 1)
      BY DEF S!SetGPIO
    <3> QED
      BY <1>1, <1>3, <3>1 DEF S!With, S!MasksFollow
  <2> QED
    BY <1>1, <1>2, <2>1, <2>2 DEF S!MasksFollow, S!pcr, S!masks
<1>5. /\ gpio' = gpio /\ obe' = obe /\ ibe' = ibe /\ pullUp' = pullUp /\ gpdo' = gpdo
      /\ gpdo' = pgpdo'
  BY <1>1, <1>2 DEF S!pcr, S!outputs, S!ViewsAgree
<1>6. /\ S!PinsShow' /\ S!ViewsAgree' /\ S!InputsCurrent'
      /\ pinValue' \subseteq Pins /\ pgpdi' \subseteq Pins
  BY <1>1, <1>2, <1>3, <1>4, <1>5, PinRefreshed
<1>7. S!TypeOK'
  <2>1. /\ gpio' \subseteq Pins /\ obe' \subseteq Pins /\ ibe' \subseteq Pins
        /\ pullUp' \subseteq Pins /\ gpdo' \subseteq Pins /\ rsr' \subseteq S!Sources
    BY <1>1, <1>2, <1>5 DEF S!TypeOK
  <2> QED
    BY <1>3, <1>4, <1>6, <2>1, TypeFromViews
<1>8. S!OneSource'
  BY <1>1, <1>2 DEF S!OneSource
<1> QED
  BY <1>4, <1>6, <1>7, <1>8 DEF PinInv

LEMMA PinNext == PinInv /\ [S!Next]_(S!vars) => PinInv'
<1> SUFFICES ASSUME PinInv, [S!Next]_(S!vars) PROVE PinInv'
  OBVIOUS
<1>1. ASSUME NEW source \in S!Sources, S!Reset(source) PROVE PinInv'
  BY <1>1, PinReset
<1>2. CASE S!ClearSerf
  BY <1>2 DEF S!ClearSerf, PinInv, S!TypeOK, S!MasksFollow, S!PinsShow, S!PinShows, S!ViewsAgree, S!InputsCurrent,
              S!OneSource, S!pcr, S!masks, S!wires, S!outputs, S!inputs
<1>3. ASSUME NEW p \in Pins, NEW pa0 \in BOOLEAN, NEW out \in BOOLEAN, NEW in \in BOOLEAN,
             NEW up \in BOOLEAN, S!WritePcr(p, pa0, out, in, up)
      PROVE  PinInv'
  BY <1>3, WritePcrHolds
<1>4. ASSUME NEW p \in Pins, NEW bit \in BOOLEAN, S!WriteGpdo(p, bit) PROVE PinInv'
  BY <1>4, WriteGpdoHolds
<1>5. ASSUME NEW p \in Pins, NEW value \in SUBSET S!Word(p), S!WritePgpdo(S!Word(p), value)
      PROVE  PinInv'
  <2>1. S!Word(p) \in SUBSET Pins /\ pgpdo = gpdo /\ gpdo \subseteq Pins
    BY DEF S!Word, PinInv, S!ViewsAgree, S!TypeOK
  <2>2. S!RefreshBlockValue(S!Word(p)) /\ UNCHANGED <<S!pcr, S!masks, S!wires, rsr>>
    BY <1>5 DEF S!WritePgpdo
  <2>3. /\ gpdo' = pgpdo' /\ gpdo' \subseteq Pins
        /\ \A q \in Pins \ S!Word(p) : q \in gpdo' <=> q \in gpdo
    BY <1>5, <2>1 DEF S!WritePgpdo
  <2> QED
    BY <2>1, <2>2, <2>3, BlockWriteHolds
<1>6. ASSUME NEW p \in Pins, NEW mask \in SUBSET S!Half(p), NEW value \in SUBSET S!Half(p),
             S!WriteMpgpdo(S!Word(p), S!Half(p), mask, value)
      PROVE  PinInv'
  <2>1. /\ S!Word(p) \in SUBSET Pins /\ S!Half(p) \subseteq S!Word(p)
        /\ pgpdo = gpdo /\ gpdo \subseteq Pins
    BY DEF S!Word, S!Half, PinInv, S!ViewsAgree, S!TypeOK
  <2>2. S!RefreshBlockValue(S!Word(p)) /\ UNCHANGED <<S!pcr, S!masks, S!wires, rsr>>
    BY <1>6 DEF S!WriteMpgpdo
  <2>3. /\ gpdo' = pgpdo' /\ gpdo' \subseteq Pins
        /\ \A q \in Pins \ S!Word(p) : q \in gpdo' <=> q \in gpdo
    BY <1>6, <2>1 DEF S!WriteMpgpdo
  <2> QED
    BY <2>1, <2>2, <2>3, BlockWriteHolds
<1>7. ASSUME NEW p \in Pins, NEW level \in S!Levels \union {S!Unset}, S!SetGPIO(p, level) PROVE PinInv'
  BY <1>7, SetGPIOHolds
<1>8. CASE UNCHANGED S!vars
  BY <1>8 DEF S!vars, PinInv, S!TypeOK, S!MasksFollow, S!PinsShow, S!PinShows, S!ViewsAgree, S!InputsCurrent,
              S!OneSource, S!pcr, S!masks, S!wires, S!outputs, S!inputs
<1> QED
  BY <1>1, <1>2, <1>3, <1>4, <1>5, <1>6, <1>7, <1>8 DEF S!Next

\* The inductive invariant of the pins.
THEOREM PinInvariance == S!Spec => []PinInv
  BY PinInit, PinNext, PTL DEF S!Spec

\* The state keeps its types.
THEOREM PinTypes == S!Spec => []S!TypeOK
<1>1. PinInv => S!TypeOK
  BY DEF PinInv
<1> QED
  BY <1>1, PinInvariance, PTL

\* What the masks were packed from is what they say.
THEOREM MasksTrue == S!Spec => []S!MasksFollow
<1>1. PinInv => S!MasksFollow
  BY DEF PinInv
<1> QED
  BY <1>1, PinInvariance, PTL

\* A pin shows its output, or its connection, or its resistor, in this order.
THEOREM PinsTrue == S!Spec => []S!PinsShow
<1>1. PinInv => S!PinsShow
  BY DEF PinInv
<1> QED
  BY <1>1, PinInvariance, PTL

\* Access by pin and by word see the same, and an enabled input is current.
THEOREM ReadsTrue == S!Spec => [](S!ViewsAgree /\ S!InputsCurrent)
<1>1. PinInv => S!ViewsAgree /\ S!InputsCurrent
  BY DEF PinInv
<1> QED
  BY <1>1, PinInvariance, PTL

\* The reset status names at most one source.
THEOREM ResetNamed == S!Spec => []S!OneSource
<1>1. PinInv => S!OneSource
  BY DEF PinInv
<1> QED
  BY <1>1, PinInvariance, PTL

-----------------------------------------------------------------------------
LEMMA PinKeeps == ASSUME NEW p \in Pins, S!RefreshPinValue(p) PROVE S!Keeps
<1>1. p \in inMask' => pgpdi' = S!With(pgpdi, p, S!Shown(p))
  BY DEF S!RefreshPinValue
<1>2. p \notin inMask' => pgpdi' = pgpdi
  BY DEF S!RefreshPinValue, S!inputs
<1> QED
  BY <1>1, <1>2 DEF S!Keeps, S!With

LEMMA BlockKeeps == ASSUME NEW w \in SUBSET Pins, S!RefreshBlockValue(w) PROVE S!Keeps
<1> DEFINE wired == (defaultValue' \ connectedMask') \union (connectedValue' \intersect connectedMask')
           shown == (wired \ outMask') \union (pgpdo' \intersect outMask')
           in == ((pgpdi \ inMask') \union (shown \intersect inMask')) \intersect w
<1>1. pgpdi' = (pgpdi \ w) \union in
  BY DEF S!RefreshBlockValue
<1> QED
  BY <1>1 DEF S!Keeps

\* Only a reset changes what is read of a pin that is no enabled input.
THEOREM DisabledInputs == S!Spec => S!DisabledKeeps
<1>1. [S!Next]_(S!vars) => [S!Keeps]_(S!vars)
  <2> SUFFICES ASSUME S!Next PROVE S!Keeps
    OBVIOUS
  <2>1. ASSUME NEW source \in S!Sources, S!Reset(source) PROVE S!Keeps
    BY <2>1 DEF S!Keeps
  <2>2. CASE S!ClearSerf
    BY <2>2 DEF S!ClearSerf, S!inputs, S!Keeps
  <2>3. ASSUME NEW p \in Pins, S!RefreshPinValue(p) PROVE S!Keeps
    BY <2>3, PinKeeps
  <2>4. ASSUME NEW p \in Pins, S!RefreshBlockValue(S!Word(p)) PROVE S!Keeps
    <3>1. S!Word(p) \in SUBSET Pins
      BY DEF S!Word
    <3> QED
      BY <2>4, <3>1, BlockKeeps
  <2> QED
    BY <2>1, <2>2, <2>3, <2>4 DEF S!Next, S!WritePcr, S!WriteGpdo, S!WritePgpdo, S!WriteMpgpdo, S!SetGPIO
<1> QED
  BY <1>1, PTL DEF S!Spec, S!DisabledKeeps

-----------------------------------------------------------------------------
(* The software watchdog.                                                  *)

\* The keys in _sks are the two that follow _key; after the first one was
\* accepted, and became _key, the second one follows it.
KeysFollow ==
  mcr.wen /\ mcr.key =>
    /\ sks[skIdx + 1] = NextKey(lastKey)
    /\ skIdx = 0 => sks[2] = NextKey(NextKey(lastKey))

SwtIInv == SwtTypeOK /\ WatchdogNeverDies /\ KeysFollow

-----------------------------------------------------------------------------
LEMMA NextKeyNat == ASSUME NEW k \in Nat PROVE NextKey(k) \in Nat
<1>1. 17 * k + 3 \in Nat
  OBVIOUS
<1> QED
  BY <1>1, SwtAssumption DEF SwtAssumption, NextKey

LEMMA TimeoutPos == ASSUME NEW v \in Nat PROVE Timeout(v) \in Nat /\ Timeout(v) > 0
  BY SwtAssumption DEF SwtAssumption, Timeout

LEMMA PairType ==
  ASSUME NEW a \in Nat, NEW b \in Nat
  PROVE  /\ <<a, b>> \in [1 .. 2 -> Nat]
         /\ <<a, b>>[1] = a /\ <<a, b>>[2] = b
  OBVIOUS

\* What restartWatchdog and updateServiceKeys establish.
LEMMA RestartFacts ==
  ASSUME SwtTypeOK, NEW m \in Mcr, NEW k \in Nat, Restart(m, k)
  PROVE  /\ sks' \in [1 .. 2 -> Nat] /\ lastKey' \in Nat /\ skIdx' = 0
         /\ left' \in Nat /\ left' > 0
         /\ m.key => /\ sks'[1] = NextKey(lastKey')
                     /\ sks'[2] = NextKey(NextKey(lastKey'))
<1>1. NextKey(k) \in Nat /\ NextKey(NextKey(k)) \in Nat
  BY NextKeyNat
<1>2. left' \in Nat /\ left' > 0 /\ skIdx' = 0
  BY TimeoutPos DEF Restart, SwtTypeOK
<1>3. CASE m.key
  <2>1. sks' = <<NextKey(k), NextKey(NextKey(k))>> /\ lastKey' = k
    BY <1>3 DEF Restart
  <2> QED
    BY <1>1, <1>2, <2>1, PairType
<1>4. CASE ~m.key
  <2>1. sks' = FixedKeys /\ lastKey' = 0
    BY <1>4 DEF Restart
  <2> QED
    BY <1>2, <1>4, <2>1, SwtAssumption DEF SwtAssumption
<1> QED
  BY <1>3, <1>4

\* The state after a reset, in terms of any copies of the variables.
LEMMA ResetFacts ==
  ASSUME NEW m, NEW t, NEW w, NEW i, NEW lft, NEW key, NEW ks, NEW idx, NEW unlock, NEW count,
         ResetState(m, t, w, i, lft, key, ks, idx, unlock, count)
  PROVE  /\ m \in Mcr /\ t \in Nat /\ w \in Nat /\ i \in BOOLEAN
         /\ lft \in Nat /\ key \in Nat /\ ks \in [1 .. 2 -> Nat]
         /\ idx \in 0 .. 1 /\ unlock \in 0 .. 1 /\ count \in 0 .. 1
         /\ m.wen => lft > 0
         /\ lft > 0 => m.wen
         /\ ~m.key
<1>1. PICK wen \in BOOLEAN :
        /\ m = [wen |-> wen, ria |-> TRUE, wnd |-> FALSE, itr |-> FALSE,
                hlk |-> FALSE, slk |-> FALSE, key |-> FALSE]
        /\ lft = IF wen THEN Timeout(DefaultTo) ELSE 0
  BY DEF ResetState
<1>2. m \in Mcr /\ ~m.key /\ m.wen = wen
  BY <1>1 DEF Mcr
<1>3. Timeout(DefaultTo) \in Nat /\ Timeout(DefaultTo) > 0
  BY TimeoutPos, SwtAssumption DEF SwtAssumption
<1>4. lft \in Nat /\ (m.wen => lft > 0) /\ (lft > 0 => m.wen)
  BY <1>1, <1>2, <1>3
<1>5. t \in Nat /\ w \in Nat /\ key \in Nat /\ ks \in [1 .. 2 -> Nat]
      /\ idx \in 0 .. 1 /\ unlock \in 0 .. 1 /\ count \in 0 .. 1
  BY SwtAssumption DEF SwtAssumption, ResetState
<1>6. i \in BOOLEAN
  BY Zenon DEF ResetState
<1> QED
  BY <1>2, <1>4, <1>5, <1>6

LEMMA SwtInitInv == SwtInit => SwtIInv
<1> SUFFICES ASSUME SwtInit
             PROVE  SwtIInv
  OBVIOUS
<1>1. ResetState(mcr, to, wn, ir, left, lastKey, sks, skIdx, slkIdx, timeoutCount)
  BY DEF SwtInit
<1>2. resetQueued \in BOOLEAN
  BY Zenon DEF SwtInit
<1> QED
  BY <1>1, <1>2, ResetFacts DEF SwtIInv, SwtTypeOK, WatchdogNeverDies, KeysFollow

LEMMA ResetInv == ASSUME SwtIInv, SwtReset PROVE SwtIInv'
<1>1. ResetState(mcr', to', wn', ir', left', lastKey', sks', skIdx', slkIdx', timeoutCount')
  BY DEF SwtReset
<1>2. resetQueued' \in BOOLEAN
  BY Zenon DEF SwtReset
<1> QED
  BY <1>1, <1>2, ResetFacts DEF SwtIInv, SwtTypeOK, WatchdogNeverDies, KeysFollow

\* A new countdown with new keys keeps the invariant, whatever was in MCR.
LEMMA RestartInv ==
  ASSUME SwtTypeOK, SwtTypeOK', mcr'.wen, Restart(mcr', lastKey)
  PROVE  WatchdogNeverDies' /\ KeysFollow'
<1>1. mcr' \in Mcr /\ lastKey \in Nat
  BY DEF SwtTypeOK
<1>2. /\ skIdx' = 0 /\ left' > 0
      /\ mcr'.key => /\ sks'[1] = NextKey(lastKey')
                     /\ sks'[2] = NextKey(NextKey(lastKey'))
  BY <1>1, RestartFacts
<1> QED
  BY <1>2 DEF WatchdogNeverDies, KeysFollow

LEMMA WriteMcrInv ==
  ASSUME SwtIInv, NEW new \in McrSet, WriteMcr(new)
  PROVE  SwtIInv'
<1>1. new \in Mcr
  BY SwtAssumption DEF SwtAssumption
<1>2. CASE new.wen /\ Restart(new, lastKey)
  <2>1. sks' \in [1 .. 2 -> Nat] /\ lastKey' \in Nat /\ skIdx' = 0 /\ left' \in Nat
    BY <1>1, <1>2, RestartFacts DEF SwtIInv, SwtTypeOK
  <2>2. SwtTypeOK'
    BY <1>1, <2>1 DEF WriteMcr, SwtIInv, SwtTypeOK
  <2>3. mcr' = new
    BY DEF WriteMcr
  <2> QED
    BY <1>2, <2>2, <2>3, RestartInv DEF SwtIInv
<1>3. CASE ~new.wen /\ left' = 0 /\ UNCHANGED keyVars
  <2>1. mcr' = new /\ ~mcr'.wen /\ left' = 0
    BY <1>3 DEF WriteMcr
  <2>2. SwtTypeOK'
    BY <1>1, <1>3 DEF WriteMcr, keyVars, SwtIInv, SwtTypeOK
  <2> QED
    BY <2>1, <2>2 DEF SwtIInv, WatchdogNeverDies, KeysFollow
<1> QED
  BY <1>2, <1>3 DEF WriteMcr

\* The other register accesses leave the countdown and the enable bit alone.
LEMMA AccessInv ==
  ASSUME SwtIInv,
         \/ BadAccess \/ LockedWrite \/ ClearIr
         \/ \E v \in ToSet : WriteTo(v)
         \/ \E v \in WnSet : WriteWn(v)
         \/ \E k \in SkSet : WriteSk(k)
         \/ \E k \in Written : ServiceTooEarly(k)
  PROVE  SwtIInv'
<1> USE SwtAssumption
        DEF SwtAssumption, SwtIInv, SwtTypeOK, WatchdogNeverDies, KeysFollow, keyVars
<1>1. ASSUME ~resetQueued, AccessError PROVE SwtIInv'
  <2>1. resetQueued' \in BOOLEAN
    BY <1>1, Zenon DEF AccessError
  <2> QED
    BY <1>1, <2>1 DEF AccessError
<1>2. CASE ClearIr
  BY <1>2 DEF ClearIr
<1>3. ASSUME NEW v \in ToSet, WriteTo(v) PROVE SwtIInv'
  BY <1>3 DEF WriteTo
<1>4. ASSUME NEW v \in WnSet, WriteWn(v) PROVE SwtIInv'
  BY <1>4 DEF WriteWn
<1>5. ASSUME NEW k \in SkSet, WriteSk(k) PROVE SwtIInv'
  BY <1>5 DEF WriteSk
<1> QED
  BY <1>1, <1>2, <1>3, <1>4, <1>5 DEF BadAccess, LockedWrite, ServiceTooEarly

LEMMA UnlockInv ==
  ASSUME SwtIInv, NEW k \in Written, UnlockStep(k)
  PROVE  SwtIInv'
<1>1. mcr' \in Mcr /\ mcr'.wen = mcr.wen /\ mcr'.key = mcr.key
  BY DEF UnlockStep, SwtIInv, SwtTypeOK, Mcr
<1>2. slkIdx' \in 0 .. 1
  BY DEF UnlockStep, SwtIInv, SwtTypeOK
<1> QED
  BY <1>1, <1>2 DEF UnlockStep, SwtIInv, SwtTypeOK, WatchdogNeverDies, KeysFollow, keyVars

LEMMA ServiceInv ==
  ASSUME SwtIInv, NEW k \in Written, Service(k)
  PROVE  SwtIInv'
<1>1. k \in Nat
  BY SwtAssumption DEF SwtAssumption, Written, Keys
<1>2. mcr' = mcr /\ mcr.wen /\ k = sks[skIdx + 1]
  BY DEF Service
<1>3. CASE skIdx = 0 /\ skIdx' = 1 /\ lastKey' = k /\ UNCHANGED <<left, sks>>
  <2>1. SwtTypeOK' /\ WatchdogNeverDies'
    BY <1>1, <1>3 DEF Service, SwtIInv, SwtTypeOK, WatchdogNeverDies
  <2>2. mcr.key => sks'[skIdx' + 1] = NextKey(lastKey')
    BY <1>2, <1>3 DEF SwtIInv, KeysFollow
  <2> QED
    BY <1>2, <1>3, <2>1, <2>2 DEF SwtIInv, KeysFollow
<1>4. CASE skIdx = 1 /\ Restart(mcr, k)
  <2>1. mcr \in Mcr /\ SwtTypeOK
    BY DEF SwtIInv, SwtTypeOK
  <2>2. /\ sks' \in [1 .. 2 -> Nat] /\ lastKey' \in Nat /\ skIdx' = 0
        /\ left' \in Nat /\ left' > 0
        /\ mcr.key => /\ sks'[1] = NextKey(lastKey')
                      /\ sks'[2] = NextKey(NextKey(lastKey'))
    BY <1>1, <1>4, <2>1, RestartFacts
  <2>3. SwtTypeOK'
    BY <2>2 DEF Service, SwtIInv, SwtTypeOK
  <2> QED
    BY <1>2, <2>2, <2>3 DEF SwtIInv, WatchdogNeverDies, KeysFollow
<1> QED
  BY <1>3, <1>4 DEF Service

LEMMA TickInv == ASSUME SwtIInv, Tick PROVE SwtIInv'
<1>1. mcr' = mcr /\ to' = to /\ wn' = wn /\ slkIdx' = slkIdx /\ left > 0 /\ mcr.wen
  BY DEF Tick, SwtIInv, SwtTypeOK, WatchdogNeverDies
<1>2. CASE left > 1 /\ left' = left - 1 /\ UNCHANGED <<ir, keyVars, timeoutCount, resetQueued>>
  BY <1>1, <1>2 DEF keyVars, SwtIInv, SwtTypeOK, WatchdogNeverDies, KeysFollow
<1>3. CASE Warn
  <2>1. Restart(mcr, lastKey) /\ timeoutCount' = 1 /\ resetQueued' = resetQueued
    BY <1>3 DEF Warn
  <2>2. ir' \in BOOLEAN
    BY <1>3, Zenon DEF Warn
  <2>3. sks' \in [1 .. 2 -> Nat] /\ lastKey' \in Nat /\ skIdx' = 0 /\ left' \in Nat
    BY <2>1, RestartFacts DEF SwtIInv, SwtTypeOK
  <2>4. SwtTypeOK'
    BY <1>1, <2>1, <2>2, <2>3 DEF SwtIInv, SwtTypeOK
  <2> QED
    BY <1>1, <2>1, <2>4, RestartInv DEF SwtIInv
<1>4. CASE Bite
  <2>1. /\ resetQueued' /\ left' = 0 /\ ir' = ir /\ timeoutCount' = timeoutCount
        /\ lastKey' = lastKey /\ sks' = sks /\ skIdx' = skIdx
    BY <1>4 DEF Bite, keyVars
  <2>2. resetQueued' \in BOOLEAN
    BY <1>4, Zenon DEF Bite
  <2> QED
    BY <1>1, <2>1, <2>2 DEF SwtIInv, SwtTypeOK, WatchdogNeverDies, KeysFollow
<1> QED
  BY <1>2, <1>3, <1>4 DEF Tick

LEMMA SwtStepInv == SwtIInv /\ [SwtNext]_swtVars => SwtIInv'
<1> SUFFICES ASSUME SwtIInv, [SwtNext]_swtVars
             PROVE  SwtIInv'
  OBVIOUS
<1>1. CASE UNCHANGED swtVars
  BY <1>1 DEF swtVars, keyVars, SwtIInv, SwtTypeOK, WatchdogNeverDies, KeysFollow
<1>2. CASE SwtNext
  BY <1>2, ResetInv, TickInv, WriteMcrInv, AccessInv, UnlockInv, ServiceInv DEF SwtNext
<1> QED
  BY <1>1, <1>2

\* The conjunction of the invariants below is inductive.
THEOREM SwtInvariance == SwtSpec => []SwtIInv
  BY SwtInitInv, SwtStepInv, PTL DEF SwtSpec

\* Every variable keeps its type.
THEOREM SwtTypeCorrect == SwtSpec => []SwtTypeOK
  BY SwtInvariance, PTL DEF SwtIInv

\* An enabled watchdog is counting or a reset is due, and a disabled one is
\* stopped (updateWatchdog, restartWatchdog, handleTimeout, SWT.reset).
THEOREM EnabledCounts == SwtSpec => []WatchdogNeverDies
  BY SwtInvariance, PTL DEF SwtIInv

\* With MCR[KEY] the expected key follows the one accepted or set last
\* (updateServiceKeys, isValidServiceKey).
THEOREM ExpectedKey == SwtSpec => []NextKeyFollows
<1>1. KeysFollow => NextKeyFollows
  BY DEF KeysFollow, NextKeyFollows
<1> QED
  BY <1>1, SwtInvariance, PTL DEF SwtIInv

LEMMA HardLockStep ==
  ASSUME SwtIInv, [SwtNext]_swtVars, mcr.hlk, ~resetQueued
  PROVE  /\ [mcr' EXCEPT !.slk = FALSE] = [mcr EXCEPT !.slk = FALSE]
         /\ <<to', wn'>> = <<to, wn>>
<1>1. CASE UNCHANGED swtVars
  BY <1>1 DEF swtVars
<1>2. ASSUME NEW k \in Written, UnlockStep(k)
      PROVE  /\ [mcr' EXCEPT !.slk = FALSE] = [mcr EXCEPT !.slk = FALSE]
             /\ <<to', wn'>> = <<to, wn>>
  BY <1>2 DEF UnlockStep, SwtIInv, SwtTypeOK, Mcr
<1>3. CASE Tick
  BY <1>3 DEF Tick
<1>4. ASSUME NEW k \in Written, ServiceTooEarly(k) \/ Service(k)
      PROVE  /\ [mcr' EXCEPT !.slk = FALSE] = [mcr EXCEPT !.slk = FALSE]
             /\ <<to', wn'>> = <<to, wn>>
  BY <1>4 DEF ServiceTooEarly, Service, AccessError
<1>5. CASE BadAccess \/ LockedWrite \/ ClearIr \/ \E k \in SkSet : WriteSk(k)
  BY <1>5 DEF BadAccess, LockedWrite, AccessError, ClearIr, WriteSk
<1>6. ~SwtReset /\ ~(\E new \in McrSet : WriteMcr(new))
      /\ ~(\E v \in ToSet : WriteTo(v)) /\ ~(\E v \in WnSet : WriteWn(v))
  BY DEF SwtReset, WriteMcr, WriteTo, WriteWn, Locked
<1> QED
  BY <1>1, <1>2, <1>3, <1>4, <1>5, <1>6 DEF SwtNext

\* Once MCR[HLK] is set only a reset changes the configuration (locked,
\* _setPeriphReg, isValidUnlockKey).
THEOREM HardLock == SwtSpec => HardLockHolds
<1>1. SwtIInv /\ [SwtNext]_swtVars =>
        [mcr.hlk /\ ~resetQueued =>
           /\ [mcr' EXCEPT !.slk = FALSE] = [mcr EXCEPT !.slk = FALSE]
           /\ <<to', wn'>> = <<to, wn>>]_swtVars
  BY HardLockStep
<1> QED
  BY <1>1, SwtInvariance, PTL DEF SwtSpec, HardLockHolds

=============================================================================

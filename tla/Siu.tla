---------------------------------- MODULE Siu ----------------------------------
(***************************************************************************)
(* The pins of the system integration unit (cm2350/peripherals/siu.py) and *)
(* the reset status register.                                              *)
(*                                                                         *)
(* A register array with a bit per pin is the set of the pins whose bit is *)
(* one, packed 32 to a word or not.  What a pin shows outside, and what    *)
(* the firmware reads of it, is computed by two paths: refreshPinValue for *)
(* one pin, bit by bit, and refreshBlockValue for a word, with masks.  A   *)
(* write is of one whole register.                                         *)
(***************************************************************************)
EXTENDS Naturals

CONSTANTS
  Pins,         \* the NUM_GPDIO_PINS pins
  WordOf,       \* per pin the index of its PGPDO register: pin // 32
  HalfOf,       \* per pin the index of its MPGPDO register: pin // 16
  Legacy,       \* the pins that the shorter array gpdi has
  PcrDefaults,  \* _pcr_defaults: per pin a record of pa, obe, ibe, wpe, wps
  Strapped      \* the pins that the board connects, and what it puts on them

Unset == 9        \* None
Levels == {0, 1}

VARIABLES
  gpio, obe, ibe, pullUp,           \* pcr: the pins with pa = 0, obe, ibe, wpe and wps set
  gpioMode, outMask, inMask,        \* _gpioMode, _out_mask, _in_mask
  defaultValue,                     \* _default_value
  connected,                        \* _connected
  connectedMask, connectedValue,    \* _connected_mask, _connected_value
  gpdo, pgpdo,                      \* what the firmware puts out, by pin and by word
  gpdi, gpdiFull, pgpdi,            \* what it reads, by pin and by word
  pinValue,                         \* pin_value: what the pins show outside
  rsr                               \* rsr: the flags of the reset sources that are set

pcr == <<gpio, obe, ibe, pullUp>>
masks == <<gpioMode, outMask, inMask, defaultValue>>
wires == <<connected, connectedMask, connectedValue>>
outputs == <<gpdo, pgpdo>>
inputs == <<gpdi, gpdiFull, pgpdi>>
vars == <<pcr, masks, wires, outputs, inputs, pinValue, rsr>>

Word(p) == {q \in Pins : WordOf[q] = WordOf[p]}
Half(p) == {q \in Word(p) : HalfOf[q] = HalfOf[p]}

With(S, p, bit) == IF bit THEN S \union {p} ELSE S \ {p}

-----------------------------------------------------------------------------
(* Fields that a pin's PCR lacks are constant zeroes; a pin without PA is  *)
(* not in GPIO mode.                                                       *)
Has(f) == {p \in Pins : PcrDefaults[p][f] # Unset}
AtReset(f, v) == {p \in Pins : PcrDefaults[p][f] = v}

-----------------------------------------------------------------------------
(* refreshPinValue                                                         *)
Shown(p) ==
  IF p \in outMask' THEN p \in pgpdo'
  ELSE IF p \in connectedMask' THEN p \in connectedValue'
  ELSE p \in defaultValue'

RefreshPinValue(p) ==
  /\ pinValue' = With(pinValue, p, Shown(p))
  /\ IF p \in inMask'
     THEN /\ pgpdi' = With(pgpdi, p, Shown(p))
          /\ gpdi' = IF p \in Legacy THEN With(gpdi, p, Shown(p)) ELSE gpdi
          /\ gpdiFull' = With(gpdiFull, p, Shown(p))
     ELSE UNCHANGED inputs

(* refreshBlockValue                                                       *)
RefreshBlockValue(w) ==
  LET wired == (defaultValue' \ connectedMask') \union (connectedValue' \intersect connectedMask')
      shown == (wired \ outMask') \union (pgpdo' \intersect outMask')
      in == ((pgpdi \ inMask') \union (shown \intersect inMask')) \intersect w
  IN  /\ pinValue' = (pinValue \ w) \union (shown \intersect w)
      /\ pgpdi' = (pgpdi \ w) \union in
      /\ gpdiFull' = (gpdiFull \ w) \union in
      /\ gpdi' = (gpdi \ w) \union (in \intersect Legacy)

-----------------------------------------------------------------------------
(* Everything but the connections starts from the defaults.  The reset     *)
(* refreshes every pin and every word; an input that is not enabled reads  *)
(* as zero then.                                                           *)
GpioAtReset == AtReset("pa", 0)
ObeAtReset == AtReset("obe", 1)
IbeAtReset == AtReset("ibe", 1)
PullUpAtReset == AtReset("wpe", 1) \intersect AtReset("wps", 1)
OutAtReset == GpioAtReset \intersect ObeAtReset
InAtReset == GpioAtReset \intersect IbeAtReset

Driven(c) == {p \in Pins : c[p] # Unset}
High(c) == {p \in Pins : c[p] = 1}
ShownAtReset(c) == (High(c) \union (PullUpAtReset \ Driven(c))) \ OutAtReset
ReadAtReset(c) == ShownAtReset(c) \intersect InAtReset

\* __init__ and the first reset
Init ==
  /\ gpio = GpioAtReset /\ obe = ObeAtReset /\ ibe = IbeAtReset /\ pullUp = PullUpAtReset
  /\ gpioMode = GpioAtReset /\ outMask = OutAtReset /\ inMask = InAtReset
  /\ defaultValue = PullUpAtReset
  /\ connected = [p \in Pins |-> IF p \in DOMAIN Strapped THEN Strapped[p] ELSE Unset]
  /\ connectedMask = Driven(connected) /\ connectedValue = High(connected)
  /\ gpdo = {} /\ pgpdo = {}
  /\ pgpdi = ReadAtReset(connected) /\ gpdiFull = pgpdi /\ gpdi = pgpdi \intersect Legacy
  /\ pinValue = ShownAtReset(connected)
  /\ rsr = {"pors"}

Sources == {"pors", "ers", "ssrs", "lcrs", "llrs", "wdrs", "swtrs", "serf"}

\* reset, and setResetSource when a ResetException is the reason
Reset(source) ==
  /\ gpio' = GpioAtReset /\ obe' = ObeAtReset /\ ibe' = IbeAtReset /\ pullUp' = PullUpAtReset
  /\ gpioMode' = GpioAtReset /\ outMask' = OutAtReset /\ inMask' = InAtReset
  /\ defaultValue' = PullUpAtReset
  /\ connectedMask' = Driven(connected) /\ connectedValue' = High(connected)
  /\ gpdo' = {} /\ pgpdo' = {}
  /\ pgpdi' = ReadAtReset(connected) /\ gpdiFull' = pgpdi' /\ gpdi' = pgpdi' \intersect Legacy
  /\ pinValue' = ShownAtReset(connected)
  /\ rsr' = {source}
  /\ UNCHANGED connected

\* firmware writes a one to the flag that it may clear
ClearSerf ==
  /\ rsr' = rsr \ {"serf"}
  /\ UNCHANGED <<pcr, masks, wires, outputs, inputs, pinValue>>

-----------------------------------------------------------------------------
(* The firmware's writes: each stores the register and calls back.         *)

\* updateMasksFromPCR
UpdateMasks(p) ==
  /\ gpioMode' = IF p \in Has("pa") THEN With(gpioMode, p, p \in gpio') ELSE gpioMode
  /\ outMask' = With(outMask, p, p \in gpioMode' /\ p \in obe')
  /\ inMask' = With(inMask, p, p \in gpioMode' /\ p \in ibe')
  /\ defaultValue' = With(defaultValue, p, p \in pullUp')

\* pcrUpdate: fields that the pin lacks stay
WritePcr(p, pa0, out, in, up) ==
  /\ gpio' = IF p \in Has("pa") THEN With(gpio, p, pa0) ELSE gpio
  /\ obe' = IF p \in Has("obe") THEN With(obe, p, out) ELSE obe
  /\ ibe' = IF p \in Has("ibe") THEN With(ibe, p, in) ELSE ibe
  /\ pullUp' = IF p \in Has("wpe") \intersect Has("wps") THEN With(pullUp, p, up) ELSE pullUp
  /\ UNCHANGED <<wires, outputs, rsr>>
  /\ UpdateMasks(p)
  /\ RefreshPinValue(p)

\* gpdoUpdate
WriteGpdo(p, bit) ==
  /\ gpdo' = With(gpdo, p, bit)
  /\ pgpdo' = With(pgpdo, p, p \in gpdo')
  /\ UNCHANGED <<pcr, masks, wires, rsr>>
  /\ RefreshPinValue(p)

\* pgpdoUpdate
WritePgpdo(w, value) ==
  /\ pgpdo' = (pgpdo \ w) \union value
  /\ gpdo' = (gpdo \ w) \union (pgpdo' \intersect w)
  /\ UNCHANGED <<pcr, masks, wires, rsr>>
  /\ RefreshBlockValue(w)

\* mpgpdoUpdate
WriteMpgpdo(w, h, mask, value) ==
  /\ pgpdo' = (pgpdo \ mask) \union (value \intersect mask)
  /\ gpdo' = (gpdo \ h) \union (pgpdo' \intersect h)
  /\ UNCHANGED <<pcr, masks, wires, rsr>>
  /\ RefreshBlockValue(w)

\* setGPIO, by connectGPIO or disconnectGPIO
SetGPIO(p, level) ==
  /\ connected' = [connected EXCEPT ![p] = level]
  /\ connectedMask' = With(connectedMask, p, level # Unset)
  /\ connectedValue' = With(connectedValue, p, level = 1)
  /\ UNCHANGED <<pcr, masks, outputs, rsr>>
  /\ RefreshPinValue(p)

Next ==
  \/ \E source \in Sources : Reset(source)
  \/ ClearSerf
  \/ \E p \in Pins : \E pa0, out, in, up \in BOOLEAN : WritePcr(p, pa0, out, in, up)
  \/ \E p \in Pins, bit \in BOOLEAN : WriteGpdo(p, bit)
  \/ \E p \in Pins : \E value \in SUBSET Word(p) : WritePgpdo(Word(p), value)
  \/ \E p \in Pins : \E mask, value \in SUBSET Half(p) :
       WriteMpgpdo(Word(p), Half(p), mask, value)
  \/ \E p \in Pins : \E level \in Levels \union {Unset} : SetGPIO(p, level)

Spec == Init /\ [][Next]_vars

-----------------------------------------------------------------------------
(* Properties.                                                             *)

TypeOK ==
  /\ \A S \in {gpio, obe, ibe, pullUp, gpioMode, outMask, inMask, defaultValue, connectedMask,
               connectedValue, gpdo, pgpdo, gpdi, gpdiFull, pgpdi, pinValue} : S \subseteq Pins
  /\ DOMAIN connected = Pins
  /\ rsr \subseteq Sources

\* The masks that _gpioMode, PCR and the connections were packed into say what those
\* say, whatever was written, connected or reset.
MasksFollow ==
  /\ gpioMode = gpio
  /\ outMask = gpio \intersect obe /\ inMask = gpio \intersect ibe
  /\ defaultValue = pullUp
  /\ connectedMask = {p \in Pins : connected[p] # Unset}
  /\ connectedValue = {p \in Pins : connected[p] = 1}

\* A pin shows what the firmware puts out if it is an output, or else what is connected
\* to it, or else what its resistor pulls it to: however it last changed.
PinShows(p) ==
  p \in pinValue <=>
    IF p \in gpio \intersect obe THEN p \in gpdo
    ELSE IF connected[p] # Unset THEN connected[p] = 1
    ELSE p \in pullUp
PinsShow == \A p \in Pins : PinShows(p)

\* Firmware reads the same by pin and by word, of what it puts out and of the inputs.
ViewsAgree ==
  /\ gpdo = pgpdo /\ gpdiFull = pgpdi /\ gpdi = pgpdi \intersect Legacy

\* An enabled input reads as the pin shows, without a delay.
InputsCurrent == \A p \in Pins : p \in gpio \intersect ibe => (p \in pgpdi <=> p \in pinValue)

\* The reset status names at most one source.
OneSource == \A f, g \in rsr : f = g

\* What is read of a pin that is no enabled input stays, unless the step is a reset.
Keeps ==
  \/ \E source \in Sources : Reset(source)
  \/ \A p \in Pins : p \notin inMask' => (p \in pgpdi' <=> p \in pgpdi)

\* A write, or a change outside, never changes what is read of a pin that is no enabled
\* input: only a reset does.
DisabledKeeps == [][Keeps]_vars

=============================================================================

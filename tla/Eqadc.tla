-------------------------------- MODULE Eqadc --------------------------------
(***************************************************************************)
(* The eQADC (cm2350/peripherals/eqadc.py): command FIFOs, which queue     *)
(* while their channel is disabled, result FIFOs, the two converters, and  *)
(* analog inputs that arrive from outside.                                 *)
(*                                                                         *)
(* The FIFOs are byte arrays whose counters are kept in FISR; the arrays   *)
(* are created with as many bytes as the FIFO should have entries, so they *)
(* start too short.  The model keeps both.  One analog input stands for    *)
(* all, its voltage for the result of converting it.  An exception that    *)
(* nothing catches, or a loop that never ends, ends the emulator (alive).  *)
(* The transfer counts (CFTCR, CFSSR) are left out.                        *)
(***************************************************************************)
EXTENDS Naturals, Sequences, SequencesExt

CONSTANTS
  Channels,   \* the command and result FIFOs
  Values,     \* conversion results
  Commands,   \* what the firmware writes to CFPR: [ch, cmd]
  Configures, \* what it writes to CFCR: [ch, mode, sse, cfinv, cfeee0, stream]
  Clears,     \* what it clears in FISR: [ch, flags]
  EntrySize,  \* EQADC_CMD_SIZE, EQADC_RESULT_SIZE: the bytes of an entry
  Cfifo0Len,  \* EQADC_CFIFO0_LEN
  FifoLen,    \* EQADC_CFIFO_LEN, EQADC_RFIFO_LEN
  DmaEnables  \* what it writes to IDCR: [ch, cfff, dirs]

Events == {"eoqf", "cfff", "rfof", "rfdf"}
Continuous == {"continuous", "continuous_edge"}    \* EQADC_CONTINUOUS_SCAN_TRIGGER_MODES
Modes == {"disable", "single", "single_edge"} \union Continuous
Adcs == {0, 1}
Configs == {"CR", "ACR"}                  \* the configuration registers of a converter
Settings == {"inhibit", "enable", "filter"}  \* bit 15, and a decimation filter as destination
NULL == 8                                 \* a tag without a result FIFO
Command == [kind : {"convert", "write", "read", "pause"}, eoq : BOOLEAN, bn : Adcs,
            tag : Channels \union {NULL}, config : Configs, set : Settings]
NoCommand == [kind |-> "none"]
Entries == Command \union {NoCommand}

ASSUME EqadcAssumption ==
  /\ Channels \subseteq 0 .. 5 /\ 0 \in Values /\ 1 \in Values
  /\ Commands \subseteq [ch : Channels, cmd : Command]
  /\ Configures \subseteq [ch : Channels, mode : Modes \union {"reserved"}, sse : BOOLEAN,
                            cfinv : BOOLEAN, cfeee0 : BOOLEAN, stream : BOOLEAN]
  /\ Clears \subseteq [ch : Channels, flags : SUBSET Events]
  /\ EntrySize \in Nat \ {0, 1} /\ Cfifo0Len \in Nat /\ FifoLen \in Nat
  /\ EntrySize <= FifoLen /\ FifoLen <= Cfifo0Len
  /\ DmaEnables \subseteq [ch : Channels, cfff : BOOLEAN, dirs : BOOLEAN]

VARIABLES
  dev,    \* the device: see TypeOK
  volts,  \* the voltage of the analog input
  alive   \* the emulator runs

vars == <<dev, volts, alive>>

\* how many commands the counter of a command FIFO goes up to
Limit(ch) == IF ch = 0 THEN Cfifo0Len ELSE FifoLen

\* how many entries the byte array of a command FIFO has
Slots(ch) == Limit(ch) \div EntrySize

Device ==
  [mode : [Channels -> Modes],
   cfifo : [Channels -> Seq(Entries)],  \* newest first
   cfctr : [Channels -> Nat],           \* FISR[CFCTR]
   rfifo : [Channels -> Seq(Values)],   \* oldest first
   rfctr : [Channels -> Nat],           \* FISR[RFCTR]
   flags : [Channels -> SUBSET Events], \* FISR
   cfs : [Channels -> {"idle", "waiting", "triggered"}],  \* CFSR, FISR[SSS]
   idcr : [Channels -> [cfff : BOOLEAN, dirs : BOOLEAN]],
   cfeee0 : BOOLEAN,
   adc : [Adcs -> [Configs -> Settings]],
   due : [Channels -> Seq(Values)],     \* history: the results not yet read
   wait : [Channels -> Seq(Command)],   \* history: the commands not yet run
   partial : [Channels -> BOOLEAN],     \* history: read in continuous mode, not full
   missed : [Channels -> BOOLEAN],      \* history: RFDF cleared after the last result
   fired : [Channels -> BOOLEAN],       \* history: triggered since it has its mode
   ends : BOOLEAN]                      \* the emulator ends in the operation under way

TypeOK ==
  /\ dev \in Device /\ volts \in Values /\ alive \in BOOLEAN
  /\ \A ch \in Channels :
       /\ Len(dev.cfifo[ch]) = Slots(ch) /\ dev.cfctr[ch] <= Limit(ch)
       /\ Len(dev.rfifo[ch]) <= FifoLen /\ dev.rfctr[ch] <= FifoLen
       /\ Len(dev.due[ch]) = dev.rfctr[ch] /\ Len(dev.wait[ch]) <= Slots(ch)

-----------------------------------------------------------------------------
(* Events and results.                                                     *)

\* _eventRequestWithChannel: only CFFF has a DMA enable under the name it looks for
Signal(d, ch, e) ==
  IF e = "cfff" /\ d.idcr[ch].cfff /\ d.idcr[ch].dirs THEN d
  ELSE [d EXCEPT !.flags[ch] = @ \union {e}]

\* mutant: a result always goes behind the last entry
PushRFIFOLast(d, ch, v) ==
  IF d.rfctr[ch] < FifoLen
  THEN Signal([d EXCEPT !.rfifo[ch] = IF Len(@) = FifoLen THEN [@ EXCEPT ![FifoLen] = v] ELSE Append(@, v),
                        !.rfctr[ch] = @ + 1, !.due[ch] = Append(@, v), !.missed[ch] = FALSE], ch, "rfdf")
  ELSE Signal(d, ch, "rfof")

\* pushRFIFO: a slice assignment behind the end appends
PushRFIFO(d, ch, v) ==
  LET n == d.rfctr[ch] IN
  IF n < FifoLen
  THEN Signal([d EXCEPT !.rfifo[ch] = IF n < Len(@) THEN [@ EXCEPT ![n + 1] = v] ELSE Append(@, v),
                        !.rfctr[ch] = n + 1,
                        !.due[ch] = Append(@, v), !.missed[ch] = FALSE], ch, "rfdf")
  ELSE Signal(d, ch, "rfof")

\* The array after its first entry was taken: the others move down and the last is
\* kept.  In continuous mode the last two entries are made equal, which empties an
\* array of one entry.
Shifted(r, continuous) ==
  CASE r = <<>> -> r
    [] Len(r) = 1 -> IF continuous THEN <<>> ELSE r
    [] Len(r) > 1 -> Append(Tail(r), Last(r))

\* mutant: the flag is not set again for the results that are left
PopRFIFOOnce(d, ch) ==
  LET continuous == d.mode[ch] \in Continuous
      due == IF d.due[ch] = <<>> THEN <<>> ELSE Tail(d.due[ch])
  IN  [d EXCEPT !.rfifo[ch] = Shifted(@, continuous), !.rfctr[ch] = IF continuous THEN @ ELSE @ - 1,
                !.due[ch] = IF continuous THEN Append(due, Last(@)) ELSE due,
                !.partial[ch] = @ \/ (continuous /\ d.rfctr[ch] < FifoLen), !.missed[ch] = FALSE]

\* popRFIFO, when FISR[RFCTR] is not 0
PopRFIFO(d, ch) ==
  LET continuous == d.mode[ch] \in Continuous
      n == IF continuous THEN d.rfctr[ch] ELSE d.rfctr[ch] - 1
      new == [d EXCEPT !.rfifo[ch] = Shifted(@, continuous), !.rfctr[ch] = n,
                       !.due[ch] = IF continuous THEN Append(Tail(@), Last(@)) ELSE Tail(@),
                       !.partial[ch] = @ \/ (continuous /\ d.rfctr[ch] < FifoLen),
                       !.missed[ch] = FALSE]
  IN  IF n # 0 THEN Signal(new, ch, "rfdf") ELSE new

-----------------------------------------------------------------------------
(* Commands.  A state of the device carries "ends" when the emulator ends. *)

Ends(d) == [d EXCEPT !.ends = TRUE]

\* pushes the result until the FIFO is full
Fill(d, ch, v) ==
  LET after[k \in 0 .. FifoLen] == IF k = 0 THEN d ELSE PushRFIFO(after[k - 1], ch, v)
  IN  after[FifoLen - d.rfctr[ch]]

\* a result for the FIFO that the command names; at the end of a queue a continuous
\* scan fills the FIFO, and never ends when the results go to another one
Deliver(d, ch, cmd, v) ==
  LET new == PushRFIFO(d, cmd.tag, v) IN
  IF ~(d.mode[ch] \in Continuous /\ cmd.eoq /\ cmd.kind = "convert") THEN new
  ELSE IF cmd.tag = ch THEN Fill(new, ch, v)
  ELSE IF new.rfctr[ch] < FifoLen THEN Ends(new) ELSE new

\* processCommand, with parseCommand and ADC.convert
ProcessCommand(d, ch, cmd) ==
  LET setting == d.adc[cmd.bn][cmd.config]
      filtered == setting = "filter" /\ cmd.config = "ACR"   \* DECFILT is not there
      done ==
        CASE cmd.kind = "write" -> [d EXCEPT !.adc[cmd.bn][cmd.config] = cmd.set]
          [] cmd.kind = "read" /\ cmd.tag # NULL ->
               PushRFIFO(d, cmd.tag, IF setting = "inhibit" THEN 0 ELSE 1)
          [] cmd.kind = "convert" /\ cmd.tag # NULL /\ setting # "inhibit" ->
               IF filtered THEN Ends(d) ELSE Deliver(d, ch, cmd, volts)
          [] cmd.kind = "pause" -> Ends(d)
          [] OTHER -> d
  IN  IF cmd.eoq /\ ~done.ends THEN Signal(done, ch, "eoqf") ELSE done

MaxCommands(d, ch) == IF ch = 0 /\ d.cfeee0 THEN Cfifo0Len ELSE FifoLen

\* mutant: the newest command is put where the next one to run is
PushCFIFOFront(d, ch, cmd) ==
  IF d.cfctr[ch] < MaxCommands(d, ch)
  THEN [d EXCEPT !.cfifo[ch] = IF d.cfctr[ch] < Slots(ch) THEN [@ EXCEPT ![d.cfctr[ch] + 1] = cmd] ELSE @,
                 !.cfctr[ch] = @ + 1,
                 !.wait[ch] = IF d.cfctr[ch] < Slots(ch) THEN Append(@, cmd) ELSE <<>>]
  ELSE d

\* pushCFIFO: the entries move up by one, and the last of the array is lost
PushCFIFO(d, ch, cmd) ==
  LET n == d.cfctr[ch] + 1
      new == [d EXCEPT !.cfifo[ch] = <<cmd>> \o Front(@), !.cfctr[ch] = n,
                       !.wait[ch] = IF n <= Slots(ch) THEN Append(@, cmd) ELSE <<>>]
  IN  IF n > MaxCommands(d, ch) THEN d
      ELSE IF n # MaxCommands(d, ch) THEN Signal(new, ch, "cfff") ELSE new

\* popCFIFO, and processCommand of what it returns: an entry that the array does not
\* have cannot be parsed
RunNext(d, ch) ==
  LET n == d.cfctr[ch]
      popped == Signal([d EXCEPT !.cfctr[ch] = n - 1, !.wait[ch] = IF @ = <<>> THEN @ ELSE Tail(@)], ch, "cfff")
  IN  IF n > Slots(ch) THEN Ends(popped) ELSE ProcessCommand(popped, ch, d.cfifo[ch][n])

\* one round of the loop of updateMode; x.eoq: an end-of-queue command was run
RunOne(x, ch) ==
  IF x.eoq \/ x.dev.ends \/ x.dev.cfctr[ch] = 0 THEN x
  ELSE LET n == x.dev.cfctr[ch] IN
       [dev |-> RunNext(x.dev, ch), eoq |-> n <= Slots(ch) /\ x.dev.cfifo[ch][n].eoq]

\* the loop: until the FIFO is empty or an end-of-queue command was run
Drain(d, ch) ==
  LET after[k \in 0 .. Limit(ch)] ==
        IF k = 0 THEN [dev |-> d, eoq |-> FALSE] ELSE RunOne(after[k - 1], ch)
  IN  after[d.cfctr[ch]].dev

-----------------------------------------------------------------------------
(* The operations.                                                         *)

AfterReset ==
  [mode |-> [ch \in Channels |-> "disable"],
   cfifo |-> [ch \in Channels |-> [i \in 1 .. Slots(ch) |-> NoCommand]],
   cfctr |-> [ch \in Channels |-> 0],
   rfifo |-> [ch \in Channels |-> [i \in 1 .. FifoLen \div EntrySize |-> 0]],
   rfctr |-> [ch \in Channels |-> 0],
   flags |-> [ch \in Channels |-> {"cfff"}],
   cfs |-> [ch \in Channels |-> "idle"],
   idcr |-> [ch \in Channels |-> [cfff |-> FALSE, dirs |-> FALSE]],
   cfeee0 |-> FALSE,
   adc |-> [a \in Adcs |-> [c \in Configs |-> "inhibit"]],
   due |-> [ch \in Channels |-> <<>>], wait |-> [ch \in Channels |-> <<>>],
   partial |-> [ch \in Channels |-> FALSE], missed |-> [ch \in Channels |-> FALSE],
   fired |-> [ch \in Channels |-> FALSE], ends |-> FALSE]

Init == dev = AfterReset /\ volts = 0 /\ alive = TRUE

Reset == alive /\ dev' = AfterReset /\ volts' = 0 /\ UNCHANGED alive

\* the state d, or the end
Becomes(d) ==
  /\ alive' = ~d.ends
  /\ dev' = IF d.ends THEN AfterReset ELSE d

\* _setCFPR
WriteCFPR(ch, cmd) ==
  /\ alive
  /\ Becomes(IF dev.mode[ch] = "disable" THEN PushCFIFO(dev, ch, cmd) ELSE ProcessCommand(dev, ch, cmd))
  /\ UNCHANGED volts

\* _update_cfsr
Status(mode, triggered) ==
  IF mode \in Continuous THEN "waiting" ELSE IF triggered THEN "triggered" ELSE "idle"

\* mutant: a trigger that comes with a new mode counts for it
UpdateModeLate(d, ch, mode) ==
  IF d.mode[ch] = mode THEN d
  ELSE LET new == [d EXCEPT !.mode[ch] = mode, !.fired[ch] = FALSE] IN
       IF mode = "disable" THEN new ELSE Drain(new, ch)

\* updateMode
UpdateMode(d, ch, mode) ==
  IF d.mode[ch] = mode THEN d
  ELSE LET new == [d EXCEPT !.mode[ch] = mode, !.cfs[ch] = Status(mode, FALSE), !.fired[ch] = FALSE] IN
       IF mode = "disable" THEN new ELSE Drain(new, ch)

\* CFINV clears the counters of both FIFOs
Invalidated(d, ch) ==
  [d EXCEPT !.cfctr[ch] = 0, !.rfctr[ch] = 0, !.due[ch] = <<>>, !.wait[ch] = <<>>,
            !.partial[ch] = FALSE, !.missed[ch] = FALSE]

\* cfcrUpdate; the trigger (SSE) is noted for the mode before this write.  Streaming
\* (STRME0, AMODE0) is not emulated for channel 0 and not there for the others; a mode
\* that EQADC_MODE does not have raises an exception.
WriteCFCR(ch, mode, sse, cfinv, cfeee0, stream) ==
  /\ alive
  /\ LET extended == [dev EXCEPT !.cfeee0 = IF ch = 0 THEN cfeee0 ELSE @]
         triggered == IF sse
                      THEN [extended EXCEPT !.cfs[ch] = Status(dev.mode[ch], TRUE), !.fired[ch] = TRUE]
                      ELSE extended
         cleared == IF cfinv THEN Invalidated(triggered, ch) ELSE triggered
     IN  Becomes(IF (stream /\ ch = 0) \/ mode \notin Modes THEN Ends(cleared)
                 ELSE UpdateMode(cleared, ch, mode))
  /\ UNCHANGED volts

\* _getPeriphReg with popRFIFO.  It asks again until it has data: from an empty array
\* that is counted as filled, for ever in continuous mode, otherwise down to 0.
ReadRFPR(ch) ==
  /\ alive
  /\ Becomes(
       IF dev.rfctr[ch] = 0 THEN dev
       ELSE IF dev.rfifo[ch] # <<>> THEN PopRFIFO(dev, ch)
       ELSE IF dev.mode[ch] \in Continuous THEN Ends(dev)
       ELSE LET new == [dev EXCEPT !.rfctr[ch] = 0, !.due[ch] = <<>>] IN
            IF dev.rfctr[ch] > 1 THEN Signal(new, ch, "rfdf") ELSE new)
  /\ UNCHANGED volts

\* FISR: write 1 to clear
WriteFISR(ch, cleared) ==
  /\ alive
  /\ dev' = [dev EXCEPT !.flags[ch] = @ \ cleared, !.missed[ch] = @ \/ "rfdf" \in cleared]
  /\ UNCHANGED <<volts, alive>>

WriteIDCR(ch, new) ==
  /\ alive
  /\ dev' = [dev EXCEPT !.idcr[ch] = new]
  /\ UNCHANGED <<volts, alive>>

\* processReceivedData: a new voltage from outside
ProcessReceivedData(v) == alive /\ volts' = v /\ UNCHANGED <<dev, alive>>

-----------------------------------------------------------------------------
Next ==
  \/ Reset
  \/ \E w \in Commands : WriteCFPR(w.ch, w.cmd)
  \/ \E w \in Configures : WriteCFCR(w.ch, w.mode, w.sse, w.cfinv, w.cfeee0, w.stream)
  \/ \E ch \in Channels : ReadRFPR(ch)
  \/ \E w \in Clears : WriteFISR(w.ch, w.flags)
  \/ \E w \in DmaEnables : WriteIDCR(w.ch, [cfff |-> w.cfff, dirs |-> w.dirs])
  \/ \E v \in Values : ProcessReceivedData(v)

Spec == Init /\ [][Next]_vars

-----------------------------------------------------------------------------
(* Properties.                                                             *)

\* RFPR gives the results of a FIFO in the order of their conversions, also after the
\* array has grown and after an overflow; in continuous mode, where the last result
\* is repeated, as long as the FIFO is full when it is read.
ResultsInOrder ==
  \A ch \in Channels : ~dev.partial[ch] => SubSeq(dev.rfifo[ch], 1, dev.rfctr[ch]) = dev.due[ch]

\* The state has its types, and the commands that wait for their channel will run in
\* the order of their writes, as long as no more of them wait than the byte array has
\* room for.
CommandsWait ==
  /\ TypeOK
  /\ \A ch \in Channels : dev.cfctr[ch] <= Slots(ch) =>
       Reverse(SubSeq(dev.cfifo[ch], 1, dev.cfctr[ch])) = dev.wait[ch]

\* Nobody waits for results that are there: RFDF is set unless the firmware cleared
\* it after the last result came or was read.
ResultsAnnounced ==
  \A ch \in Channels : dev.rfctr[ch] > 0 /\ ~dev.missed[ch] => "rfdf" \in dev.flags[ch]

\* CFSR tells what its channel does whatever the order in which mode and trigger are
\* written: it waits in a continuous mode only, and it is triggered only by a trigger
\* that came after the mode it has; no status is left of an earlier mode.
StatusFollowsMode ==
  \A ch \in Channels :
    /\ dev.cfs[ch] = "waiting" <=> dev.mode[ch] \in Continuous
    /\ dev.cfs[ch] = "triggered" <=> dev.fired[ch] /\ dev.mode[ch] \notin Continuous

=============================================================================

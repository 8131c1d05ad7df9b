-------------------------------- MODULE Dspi --------------------------------
(***************************************************************************)
(* A DSPI controller (cm2350/peripherals/dspi.py) with the ASIC of the     *)
(* board and placeholder devices on its bus: FIFOs, flags, interrupt and   *)
(* DMA requests, and the queue in which replies wait for the core          *)
(* (putIO, processIO of cm2350/e200z7.py).                                 *)
(*                                                                         *)
(* A frame has the word it carries, the device its chip select reaches and *)
(* PUSHR[EOQ].  The core empties the reply queue before each instruction,  *)
(* so the firmware acts with it empty.  The transfer attributes, the frame *)
(* counter TCR[SPI_TCNT] and what a read of TXFR and RXFR shows are left   *)
(* out, as are the DSI and CSI modes, which the code refuses.              *)
(***************************************************************************)
EXTENDS Naturals, FiniteSets, Sequences, SequencesExt, Asic

CONSTANTS
  Frames,     \* the frames the firmware writes to PUSHR
  McrSet,     \* the values of MCR's fields it writes
  RserSet,    \* the values of RSER it writes: enabled events, and those as DMA
  SrSet,      \* the values of SR it writes: the flags to be cleared
  TxSize,     \* DSPI_FIFO_SIZE
  RxSize      \* DSPI_RX_FIFO_SIZE: one more, the shift register

Events == {"tcf", "eoqf", "tfff", "rfof", "rfdf"}
DmaEvents == {"tfff", "rfdf"}
Mcr == [mdis : BOOLEAN, halt : BOOLEAN, rooe : BOOLEAN, dis_txf : BOOLEAN, dis_rxf : BOOLEAN]
Rser == [ints : SUBSET Events, dirs : SUBSET DmaEvents]
Devices == {"asic", "placeholder", "none"}
PLACEHOLDER == 65 * 2^8 + 65    \* 0x4141

ASSUME DspiAssumption ==
  /\ Frames \subseteq [word : Words, dev : Devices, eoq : BOOLEAN]
  /\ McrSet \subseteq Mcr /\ RserSet \subseteq Rser
  /\ SrSet \subseteq SUBSET Events
  /\ TxSize \in Nat \ {0} /\ RxSize = TxSize + 1

VARIABLES
  mcr,      \* MCR
  rser,     \* RSER
  flags,    \* the event flags of SR that are set
  txrxs,    \* SR[TXRXS]
  tx,       \* the transmit FIFO, newest first as in _tx_fifo; SR[TXCTR] entries
  rx,       \* the receive FIFO, oldest first; _rx_fifo_size entries
  rxctr,    \* SR[RXCTR]
  io,       \* external_io: replies that wait for processReceivedData
  asic,     \* the ASIC
  sent,     \* history: the frames sent in the last step
  read,     \* history: the word that POPR returned in the last step
  told,     \* history: flags that raised their exception since they were set
  fillDma   \* history: the last TFFF event was a DMA request

regs == <<mcr, rser>>
signals == <<flags, told, fillDma>>
vars == <<regs, signals, txrxs, tx, rx, rxctr, io, asic, sent, read>>

TypeOK ==
  /\ mcr \in Mcr /\ rser \in Rser
  /\ flags \in SUBSET Events /\ told \in SUBSET Events
  /\ txrxs \in BOOLEAN /\ fillDma \in BOOLEAN
  /\ tx \in Seq(Frames) /\ Len(tx) <= TxSize
  /\ rx \in Seq(Words) /\ Len(rx) <= RxSize
  /\ rxctr \in 0 .. Len(rx)
  /\ io \in Seq(Words) /\ asic \in AsicStates
  /\ sent \in Seq(Frames) /\ read \in Seq(Words)

-----------------------------------------------------------------------------
(* Events: _eventRequest of cm2350/ppc_peripherals.py.                     *)

AsDma(e) == e \in rser.ints /\ e \in rser.dirs

\* The events es happen while the flags old are set.  One whose flag is clear
\* asks for a DMA transfer, or sets the flag and raises an exception if enabled.
Signal(old, es) ==
  LET fresh == es \ old IN
  /\ flags' = old \union {e \in fresh : ~AsDma(e)}
  /\ told' = (told \intersect old) \union {e \in fresh : e \in rser.ints /\ ~AsDma(e)}
  /\ fillDma' = IF "tfff" \in fresh THEN AsDma("tfff") ELSE fillDma

-----------------------------------------------------------------------------
(* The transmit side.                                                      *)

MaxTx(m) == IF m.dis_txf THEN 1 ELSE TxSize
TxFull(m) == Len(tx) >= MaxTx(m)
EndOfQueue(s) == s # <<>> /\ Last(s).eoq

\* one frame on the bus: the state of the ASIC, and the replies that are queued
Exchange(bus, f) ==
  CASE f.dev = "asic" -> [asic |-> Receive(bus.asic, f.word),
                          io |-> Append(bus.io, Reply(bus.asic, f.word))]
    [] f.dev = "placeholder" -> [bus EXCEPT !.io = Append(@, PLACEHOLDER)]
    [] f.dev = "none" -> bus

\* the bus after the first n frames of s, with the ASIC in the state a before them
BusAfter(a, s, n) ==
  LET bus[k \in 0 .. n] ==
        IF k = 0 THEN [asic |-> a, io |-> <<>>] ELSE Exchange(bus[k - 1], s[k])
  IN  bus[n]

Exchanged(a, s) == BusAfter(a, s, Len(s))

\* normalTx for the frames s
Transmit(s) ==
  /\ asic' = Exchanged(asic, s).asic
  /\ io' = Exchanged(asic, s).io
  /\ sent' = s

SentEvents(s) ==
  IF s = <<>> THEN {}
  ELSE {"tcf", "tfff"} \union (IF EndOfQueue(s) THEN {"eoqf"} ELSE {})

\* mutant: the FIFO is read from the newest entry
DrainedFromNewest == tx

\* updateMode: the frames popTx returns, up to the one that ends the queue
Drained ==
  LET oldest == Reverse(tx)
      ends == {i \in 1 .. Len(tx) : oldest[i].eoq}
      n == IF ends = {} THEN Len(tx) ELSE CHOOSE i \in ends : \A j \in ends : i <= j
  IN  SubSeq(oldest, 1, n)

-----------------------------------------------------------------------------
ResetMcr == [mdis |-> FALSE, halt |-> TRUE, rooe |-> FALSE, dis_txf |-> FALSE, dis_rxf |-> FALSE]
ResetRser == [ints |-> {}, dirs |-> {}]

Init ==
  /\ mcr = ResetMcr /\ rser = ResetRser
  /\ flags = {"tfff"} /\ told = {} /\ fillDma = FALSE
  /\ txrxs = FALSE
  /\ tx = <<>> /\ rx = <<>> /\ rxctr = 0
  /\ io = <<>> /\ asic = AsicInit
  /\ sent = <<>> /\ read = <<>>

\* The reset of the core.  The ASIC is no module of the emulator: it keeps its state.
Reset ==
  /\ io = <<>>
  /\ mcr' = ResetMcr /\ rser' = ResetRser
  /\ flags' = {"tfff"} /\ told' = {} /\ fillDma' = FALSE
  /\ txrxs' = FALSE
  /\ tx' = <<>> /\ rx' = <<>> /\ rxctr' = 0
  /\ sent' = <<>> /\ read' = <<>>
  /\ UNCHANGED <<io, asic>>

\* pushTx
PushWhileRunning(f) ==
  /\ txrxs
  /\ Transmit(<<f>>)
  /\ Signal(flags, SentEvents(<<f>>))
  /\ txrxs' = ~f.eoq
  /\ mcr' = [mcr EXCEPT !.halt = @ \/ f.eoq]
  /\ UNCHANGED tx

PushWhileStopped(f) ==
  /\ ~txrxs
  /\ \/ /\ ~TxFull(mcr)
        /\ tx' = <<f>> \o tx
        /\ Signal(flags, IF Len(tx) + 1 # MaxTx(mcr) THEN {"tfff"} ELSE {})
     \/ TxFull(mcr) /\ UNCHANGED <<tx, signals>>
  /\ sent' = <<>>
  /\ UNCHANGED <<mcr, txrxs, io, asic>>

WritePushr(f) ==
  /\ io = <<>>
  /\ PushWhileRunning(f) \/ PushWhileStopped(f)
  /\ read' = <<>>
  /\ UNCHANGED <<rser, rx, rxctr>>

\* mutant: clearing the FIFO does not say that it can be filled again
WriteMcrQuietly(m, clrTx, clrRx) ==
  /\ io = <<>> /\ read' = <<>>
  /\ rxctr' = IF clrRx THEN 0 ELSE rxctr
  /\ LET running == ~m.mdis /\ ~m.halt
         s == IF running /\ ~txrxs /\ ~clrTx THEN Drained ELSE <<>>
         left == IF clrTx THEN <<>> ELSE SubSeq(tx, 1, Len(tx) - Len(s))
     IN  /\ tx' = left
         /\ Transmit(s)
         /\ Signal(flags, SentEvents(s))
         /\ txrxs' = (running /\ ~EndOfQueue(s))
         /\ mcr' = [m EXCEPT !.halt = @ \/ EndOfQueue(s)]
  /\ UNCHANGED <<rser, rx>>

\* mcrUpdate, updateMode: CLR_TXF empties the FIFO, CLR_RXF only its counter; a
\* start sends what waits
WriteMcr(m, clrTx, clrRx) ==
  /\ io = <<>> /\ read' = <<>>
  /\ rxctr' = IF clrRx THEN 0 ELSE rxctr
  /\ LET running == ~m.mdis /\ ~m.halt
         s == IF running /\ ~txrxs /\ ~clrTx THEN Drained ELSE <<>>
         left == IF clrTx THEN <<>> ELSE SubSeq(tx, 1, Len(tx) - Len(s))
     IN  /\ tx' = left
         /\ Transmit(s)
         /\ Signal(flags, SentEvents(s) \union (IF clrTx THEN {"tfff"} ELSE {}))
         /\ txrxs' = (running /\ ~EndOfQueue(s))
         /\ mcr' = [m EXCEPT !.halt = @ \/ EndOfQueue(s)]
  /\ UNCHANGED <<rser, rx>>

\* srUpdate: TFFF is set again while the FIFO has room
WriteSr(cleared) ==
  /\ io = <<>> /\ read' = <<>> /\ sent' = <<>>
  /\ LET left == flags \ cleared IN
     Signal(left, IF "tfff" \notin left /\ ~TxFull(mcr) THEN {"tfff"} ELSE {})
  /\ UNCHANGED <<regs, txrxs, tx, rx, rxctr, io, asic>>

\* mutant: RSER is stored and nothing else
StoreRser(new) ==
  /\ io = <<>> /\ read' = <<>> /\ sent' = <<>>
  /\ rser' = new
  /\ told' = told \intersect new.ints
  /\ UNCHANGED <<mcr, flags, fillDma, txrxs, tx, rx, rxctr, io, asic>>

\* handleWriteRSER: an event that is newly enabled and whose flag is set happens
\* once more
WriteRser(new) ==
  /\ io = <<>> /\ read' = <<>> /\ sent' = <<>>
  /\ rser' = new
  /\ LET again == (flags \intersect new.ints) \ rser.ints
         dma == again \intersect new.dirs
     IN  /\ flags' = flags \ dma
         /\ told' = (told \intersect new.ints) \union (again \ dma)
         /\ fillDma' = (fillDma \/ "tfff" \in dma)
  /\ UNCHANGED <<mcr, txrxs, tx, rx, rxctr, io, asic>>

-----------------------------------------------------------------------------
(* The receive side.                                                       *)

MaxRx == IF mcr.dis_rxf THEN 2 ELSE RxSize

\* mutant: a reply is put in front of those that were not read yet
PushRxFirst(st, w) ==
  IF Len(st.rx) < MaxRx
  THEN [rx |-> <<w>> \o st.rx, ctr |-> Len(st.rx), es |-> st.es \union {"rfdf"}]
  ELSE [rx |-> st.rx, ctr |-> st.ctr, es |-> st.es \union {"rfof"}]

\* pushRx for one word: the new FIFO, counter and events
PushRx(st, w) ==
  IF Len(st.rx) < MaxRx
  THEN [rx |-> Append(st.rx, w),
        ctr |-> IF Len(st.rx) + 1 < MaxRx THEN Len(st.rx) + 1 ELSE st.ctr,
        es |-> st.es \union {"rfdf"}]
  ELSE [rx |-> IF mcr.rooe THEN [st.rx EXCEPT ![Len(st.rx)] = w] ELSE st.rx,
        ctr |-> st.ctr, es |-> st.es \union {"rfof"}]

\* processIO with processReceivedData, one reply: discarded while TXRXS is clear
ProcessIO ==
  /\ io # <<>>
  /\ io' = Tail(io)
  /\ \/ /\ txrxs
        /\ LET st == PushRx([rx |-> rx, ctr |-> rxctr, es |-> {}], Head(io)) IN
           /\ rx' = st.rx /\ rxctr' = st.ctr
           /\ Signal(flags, st.es)
     \/ ~txrxs /\ UNCHANGED <<rx, rxctr, signals>>
  /\ read' = <<>> /\ sent' = <<>>
  /\ UNCHANGED <<regs, txrxs, tx, asic>>

\* popRx
ReadPopr ==
  /\ io = <<>> /\ rx # <<>>
  /\ read' = <<Head(rx)>> /\ rx' = Tail(rx)
  /\ rxctr' = Len(rx) - 1
  /\ Signal(flags, IF Len(rx) > 1 THEN {"rfdf"} ELSE {})
  /\ sent' = <<>>
  /\ UNCHANGED <<regs, txrxs, tx, io, asic>>

-----------------------------------------------------------------------------
Next ==
  \/ Reset \/ ProcessIO \/ ReadPopr
  \/ \E f \in Frames : WritePushr(f)
  \/ \E m \in McrSet, clrTx, clrRx \in BOOLEAN : WriteMcr(m, clrTx, clrRx)
  \/ \E cleared \in SrSet : WriteSr(cleared)
  \/ \E new \in RserSet : WriteRser(new)

Spec == Init /\ [][Next]_vars

-----------------------------------------------------------------------------
(* Properties.                                                             *)

\* Frames reach the bus in the order of the writes to PUSHR, each once, whether
\* they are sent at once or wait in the FIFO for a start, and however often an
\* end-of-queue frame stops the transmission half-way.
TxOrder == INSTANCE BoundedFifo WITH Item <- Frames, q <- Reverse(tx), out <- sent
TxInOrder == TxOrder!FifoSpec

\* Words come out of POPR in the order in which the devices sent them.
RxOrder == INSTANCE BoundedFifo WITH Item <- Words, q <- rx, out <- read
RxInOrder == RxOrder!FifoSpec

\* A flag that is set and enabled has raised its exception since it was set,
\* also when the firmware enables it afterwards (handleWriteRSER).
EnabledAreTold == \A e \in flags \intersect rser.ints : e \in told

\* The state has its types, and a firmware that waits to fill the transmit FIFO is
\* not left waiting: with the FIFO empty TFFF is set, or its last event went out as
\* a DMA request.
FillIsKnown == TypeOK /\ (tx = <<>> => "tfff" \in flags \/ fillDma)

=============================================================================

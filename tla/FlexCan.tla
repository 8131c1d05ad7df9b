------------------------------- MODULE FlexCan -------------------------------
(***************************************************************************)
(* A FlexCAN controller (cm2350/peripherals/flexcan.py): its modes, the    *)
(* mailboxes and the filters made from them, the receive FIFO behind       *)
(* mailbox 0, transmission, self-reception and remote requests.            *)
(*                                                                         *)
(* A frame has its header and a payload.  A mask register is all ones or   *)
(* all zeros.  The FIFO's filter table has the format IDAM = 0.  Of the    *)
(* interrupt flags only the FIFO's "message available" is kept; IMASK, the *)
(* bus speed and the timestamps are left out.  Four handlers use a name    *)
(* that does not exist; the emulator then ends (alive).                    *)
(***************************************************************************)
EXTENDS Naturals, FiniteSets, Sequences, SequencesExt

CONSTANTS
  Mailboxes,   \* the mailboxes the firmware uses, some of 0 .. 63
  Frames,      \* the frames on the bus
  Written,     \* the frames the firmware writes to each mailbox
  McrSet,      \* the values of MCR's fields it writes
  CtrlSet,     \* the values of CTRL's LOM and LPB
  CodeSet,     \* the codes it writes to mailboxes
  MaskedOut,   \* the mailboxes whose RXIMR is zero
  GlobalMask,  \* RXGMASK, RX14MASK and RX15MASK are all ones (TRUE) or zero
  FifoTable,   \* std of the eight entries of the FIFO's filter table
  RxFIFO_MAX_LEN   \* FLEXCAN_RxFIFO_MAX_LEN

CODES == {"rx_inactive", "rx_full", "rx_overrun", "rx_empty",
          "tx_inactive", "tx_active", "tx_rtr_sending"}
TX_RTR == "tx_active"     \* FLEXCAN_CODE_TX_RTR and _TX_ACTIVE are both 0b1100
Sends == {"tx_active", "tx_rtr_sending"}
RX_CHECK_FILTER == {"rx_empty", "rx_full", "rx_overrun"}
CanModes == {"DISABLE", "FREEZE", "NORMAL", "LISTEN_ONLY", "LOOP_BACK"}
Stopped == {"DISABLE", "FREEZE"}
Mcr == [mdis : BOOLEAN, frz : BOOLEAN, halt : BOOLEAN, soft_rst : BOOLEAN,
        fen : BOOLEAN, mbfen : BOOLEAN, srx_dis : BOOLEAN]
Frame == [ide : BOOLEAN, rtr : BOOLEAN, std : 0 .. 1, ext : 0 .. 1, data : 0 .. 1]
NoFrame == [ide |-> FALSE, rtr |-> FALSE, std |-> 0, ext |-> 0, data |-> 0]
Placeholder == [std |-> 2]    \* the None at the head of _rx_fifo

ASSUME FlexCanAssumption ==
  /\ Mailboxes \subseteq {0} \union (8 .. 63) /\ 0 \in Mailboxes
  /\ Frames \subseteq Frame /\ Written \in [Mailboxes -> SUBSET Frame]
  /\ CtrlSet \subseteq [lom : BOOLEAN, lpb : BOOLEAN]
  /\ McrSet \subseteq Mcr /\ CodeSet \subseteq CODES /\ MaskedOut \subseteq 0 .. 63
  /\ GlobalMask \in BOOLEAN /\ FifoTable \in [0 .. 7 -> 0 .. 1] /\ RxFIFO_MAX_LEN \in Nat \ {0}

VARIABLES
  can,      \* the controller: see CanTypeOK
  taken,    \* history: the FIFO's message that the firmware gave back in the last step
  unseen    \* history: msgAvail was cleared while iflag1Update looks away

canVars == <<can, taken, unseen>>

FilterEntries == [mb : Mailboxes, mask : BOOLEAN, id : (0 .. 1) \X (0 .. 1)]

FlexCANs ==
  [mcr : Mcr, ctrl : [lom : BOOLEAN, lpb : BOOLEAN], mode : CanModes, not_rdy : BOOLEAN,
   mb : [Mailboxes -> [code : CODES, frame : Frame]],
   fifo : Seq(Frame \union {Placeholder}), fifoFilters : SUBSET Frame,
   \* by IDE, in the order of the dicts
   rx : [BOOLEAN -> Seq(FilterEntries)], rtr : [BOOLEAN -> Seq(FilterEntries)],
   msgAvail : BOOLEAN,    \* IFLAG1, the flag of mailbox 5
   alive : BOOLEAN]

CanTypeOK ==
  /\ can \in FlexCANs
  /\ can.not_rdy = (can.mode \in Stopped)
  /\ Len(can.fifo) <= RxFIFO_MAX_LEN
  /\ \A i \in 1 .. Len(can.fifo) : can.fifo[i] = Placeholder <=> i = 1
  /\ taken \in Seq(Frame) /\ unseen \in BOOLEAN

-----------------------------------------------------------------------------
(* Filters.                                                                *)

\* getMaskForMB: TRUE when the mask register is all ones
MaskOn(st, mb) == IF st.mcr.mbfen THEN mb \notin MaskedOut ELSE GlobalMask

Entry(st, mb) ==
  LET f == st.mb[mb].frame
      mask == MaskOn(st, mb)
  IN  [mb |-> mb, mask |-> mask, id |-> IF mask THEN <<f.std, f.ext>> ELSE <<0, 0>>]

Accepts(e, f) ==
  e.mask => /\ e.id[1] = f.std
            /\ f.ide => e.id[2] = f.ext

In(filters, mb) == \E i \in 1 .. Len(filters) : filters[i].mb = mb
Without(filters, mb) ==
  IF In(filters, mb) THEN RemoveAt(filters, CHOOSE i \in 1 .. Len(filters) : filters[i].mb = mb)
  ELSE filters
With(filters, e) ==
  IF In(filters, e.mb) THEN [i \in 1 .. Len(filters) |-> IF filters[i].mb = e.mb THEN e ELSE filters[i]]
  ELSE Append(filters, e)

\* mutant: no entry for standard frames is made
AddedExtended(filters, e) == [filters EXCEPT ![TRUE] = With(@, e)]

\* The entry for extended frames always, the one for standard frames only when the
\* standard part of the filter is zero (the code tests the bits that a standard
\* identifier has, not those that it does not have).
Added(filters, e) ==
  [ide \in BOOLEAN |-> IF ide \/ e.id[1] = 0 THEN With(filters[ide], e) ELSE filters[ide]]

\* pops a mailbox from both dicts, if it is in the one for standard frames
Popped(filters, mb) ==
  IF In(filters[FALSE], mb) THEN [ide \in BOOLEAN |-> Without(filters[ide], mb)] ELSE filters

filterAddRxMB(st, mb) ==
  [st EXCEPT !.rtr = Popped(@, mb), !.rx = Added(@, Entry(st, mb))]

filterAddRtrMB(st, mb) ==
  [st EXCEPT !.rx = Popped(@, mb), !.rtr = Added(@, Entry(st, mb))]

filterRemoveMB(st, mb) ==
  [st EXCEPT !.rx = [ide \in BOOLEAN |-> Without(@[ide], mb)],
             !.rtr = [ide \in BOOLEAN |-> Without(@[ide], mb)]]

NoFilters == [ide \in BOOLEAN |-> <<>>]
ResetFilters(st) == [st EXCEPT !.fifoFilters = {}, !.rx = NoFilters, !.rtr = NoFilters]

\* The shifts of the RTR and IDE bits are the masks of these bits: what a masked
\* entry asks for is always a standard data frame.  With a mask of zeros every format
\* passes, and the identifier, of which nothing is left, is compared with the entry's.
FifoAccepts(st, f) ==
  \E k \in 0 .. 7 : IF MaskOn(st, k) THEN ~f.rtr /\ ~f.ide /\ f.std = FifoTable[k]
                     ELSE FifoTable[k] = 0

\* The mailboxes whose code is looked at: zip stops eight early when FEN is set.
Scanned(st) == {mb \in Mailboxes : mb < IF st.mcr.fen THEN 56 ELSE 64}

filterAdd(st, mb) ==
  IF st.mb[mb].code \in RX_CHECK_FILTER THEN filterAddRxMB(st, mb)
  ELSE IF st.mb[mb].code = TX_RTR THEN filterAddRtrMB(st, mb) ELSE st

\* one mailbox after the other, in the order of their numbers
filterUpdate(st) ==
  LET cleared == [ResetFilters(st) EXCEPT
                    !.fifoFilters = {f \in Frame : st.mcr.fen /\ FifoAccepts(st, f)}]
      scanned == Scanned(st)
      added[n \in 0 .. 64] ==
        IF n = 0 THEN cleared
        ELSE IF n - 1 \in scanned THEN filterAdd(added[n - 1], n - 1) ELSE added[n - 1]
  IN  added[64]

-----------------------------------------------------------------------------
(* Reception and transmission.                                             *)

\* from_mb: the frame in a mailbox
from_mb(st, mb) ==
  LET f == st.mb[mb].frame IN IF f.ide THEN f ELSE [f EXCEPT !.ext = 0]

setMBCode(st, mb, code) == [st EXCEPT !.mb[mb].code = code]

\* normalRx
normalRx(st, mb, f) ==
  IF mb = 0 /\ st.mcr.fen
  THEN [st EXCEPT !.mb[0] = [code |-> "rx_inactive", frame |-> f], !.msgAvail = TRUE]
  ELSE [st EXCEPT !.mb[mb] = [code |-> "rx_full", frame |-> f]]

FifoTakes(st) == Len(st.fifo) < RxFIFO_MAX_LEN

\* mutant: a message for an empty FIFO goes to mailbox 0, and one for the queue to its head
RecvAtHead(st, f) ==
  IF st.fifo = <<>> THEN [normalRx(st, 0, f) EXCEPT !.fifo = <<Placeholder>>]
  ELSE [st EXCEPT !.fifo = <<Placeholder, f>> \o Tail(@)]

\* rxFifoRecv, when the FIFO takes the message
rxFifoRecv(st, f) ==
  IF st.fifo = <<>> THEN [normalRx(st, 0, f) EXCEPT !.fifo = <<Placeholder>>]
  ELSE [st EXCEPT !.fifo = Append(@, f)]

\* the first filter, of those for the mailboxes S, that accepts the frame
FirstMatch(filters, f, S) ==
  LET hits == {i \in 1 .. Len(filters) : Accepts(filters[i], f) /\ filters[i].mb \in S}
  IN  filters[CHOOSE i \in hits : \A j \in hits : i <= j].mb
LastMatch(filters, f) ==
  LET hits == {i \in 1 .. Len(filters) : Accepts(filters[i], f)}
  IN  filters[CHOOSE i \in hits : \A j \in hits : j <= i].mb
Matches(filters, f) == \E i \in 1 .. Len(filters) : Accepts(filters[i], f)

\* mutant: the last mailbox that matches is overwritten
OverrunOverwrites(st, f) ==
  LET rx == st.rx[f.ide] IN
  IF Matches(rx, f) /\ ~(st.mcr.fen /\ LastMatch(rx, f) = 0)
  THEN setMBCode(normalRx(st, LastMatch(rx, f), f), LastMatch(rx, f), "rx_overrun") ELSE st

\* processReceivedData: the frame is lost.  (The FIFO's overflow only sets a flag.)
Overrun(st, f) ==
  LET rx == st.rx[f.ide] IN
  IF Matches(rx, f) /\ ~(st.mcr.fen /\ LastMatch(rx, f) = 0)
  THEN setMBCode(st, LastMatch(rx, f), "rx_overrun") ELSE st

\* the mailbox's new code, and its filters
Sent(st, mb) ==
  CASE st.mb[mb].code = "tx_active" /\ st.mb[mb].frame.rtr ->
         filterAddRxMB(setMBCode(st, mb, "rx_empty"), mb)
    [] st.mb[mb].code = "tx_active" /\ ~st.mb[mb].frame.rtr ->
         filterRemoveMB(setMBCode(st, mb, "tx_inactive"), mb)
    [] st.mb[mb].code = "tx_rtr_sending" -> filterAddRtrMB(setMBCode(st, mb, TX_RTR), mb)

\* The controller after one message, and whether it then receives one of its own.
Received(st) == [st |-> st, msg |-> NoFrame, more |-> FALSE]

\* normalTx.  A mailbox with any other code raises "bad CODE"; when not ready the
\* handler logs a name it does not have.
normalTx(st, mb) ==
  IF st.not_rdy \/ st.mb[mb].code \notin Sends
  THEN Received([st EXCEPT !.alive = FALSE])
  ELSE [st |-> Sent(st, mb), msg |-> from_mb(st, mb),
        more |-> st.mode \in {"NORMAL", "LOOP_BACK"} /\ ~st.mcr.srx_dis]

receive(st, f) ==
  LET rx == st.rx[f.ide]
      empty == {mb \in Mailboxes : st.mb[mb].code = "rx_empty"}
      rxFifo == st.mcr.fen /\ f \in st.fifoFilters /\ FifoTakes(st)
  IN  CASE st.not_rdy -> Received(st)
        [] ~st.not_rdy /\ rxFifo -> Received(rxFifoRecv(st, f))
        [] ~st.not_rdy /\ ~rxFifo ->
             IF f.rtr /\ Matches(st.rtr[f.ide], f)
             THEN normalTx(st, FirstMatch(st.rtr[f.ide], f, Mailboxes))
             ELSE IF \E i \in 1 .. Len(rx) : Accepts(rx[i], f) /\ rx[i].mb \in empty
             THEN Received(normalRx(st, FirstMatch(rx, f, empty), f))
             ELSE Received(Overrun(st, f))

\* A transmission takes a mailbox's code one step further, from tx_rtr_sending to
\* tx_active to a code that does not send: so many can follow one another.
ChainLength == 2 * Cardinality(Mailboxes) + 1

\* self-reception: processReceivedData of what was sent, and so on
Settled(first) ==
  LET after[n \in 0 .. ChainLength] ==
        IF n = 0 THEN first
        ELSE LET d == after[n - 1] IN IF d.more THEN receive(d.st, d.msg) ELSE d
  IN  after[ChainLength].st

processReceivedData(st, f) == Settled(receive(st, f))

-----------------------------------------------------------------------------
(* Modes.                                                                  *)

\* softReset calls a method that the fields IMASK and IFLAG do not have
updateMode(st) ==
  LET mode == CASE st.mcr.mdis -> "DISABLE"
                [] ~st.mcr.mdis /\ st.mcr.halt /\ st.mcr.frz -> "FREEZE"
                [] ~st.mcr.mdis /\ ~(st.mcr.halt /\ st.mcr.frz) ->
                     IF st.ctrl.lom THEN "LISTEN_ONLY" ELSE IF st.ctrl.lpb THEN "LOOP_BACK" ELSE "NORMAL"
      new == [st EXCEPT !.mode = mode, !.not_rdy = (mode \in Stopped)]
  IN  IF st.mcr.soft_rst THEN [st EXCEPT !.alive = FALSE]
      ELSE IF mode \notin Stopped /\ st.mode \in Stopped THEN filterUpdate(new) ELSE new

ResetMcr == [mdis |-> FALSE, frz |-> TRUE, halt |-> TRUE, soft_rst |-> FALSE,
             fen |-> FALSE, mbfen |-> FALSE, srx_dis |-> FALSE]

\* IFLAG is not reset by the registers' reset
AfterCanReset(msgAvail) ==
  [mcr |-> ResetMcr, ctrl |-> [lom |-> FALSE, lpb |-> FALSE], mode |-> "DISABLE", not_rdy |-> TRUE,
   mb |-> [m \in Mailboxes |-> [code |-> "rx_inactive", frame |-> NoFrame]],
   fifo |-> <<>>, fifoFilters |-> {}, rx |-> NoFilters, rtr |-> NoFilters,
   msgAvail |-> msgAvail, alive |-> TRUE]

CanInit == can = AfterCanReset(FALSE) /\ taken = <<>> /\ unseen = FALSE

-----------------------------------------------------------------------------
(* The firmware's writes, and frames from the bus.                         *)

Step(st) == can.alive /\ can' = st /\ taken' = <<>> /\ UNCHANGED unseen

CanReset ==
  /\ can.alive /\ can' = AfterCanReset(can.msgAvail)
  /\ taken' = <<>> /\ unseen' = FALSE

\* processIO
Receive(f) == Step(processReceivedData(can, f))

\* The firmware changes FEN while the FIFO is empty, and leaves mailboxes 0 to 7 alone
\* while FEN is set (as the handlers assume: the FIFO's state is kept, its mailboxes
\* get no treatment of their own).
KeepsFifo(m) == can.fifo # <<>> => m.fen = can.mcr.fen
Writable(mb) == can.mcr.fen => mb >= 8

\* mcrUpdate: a start looks for mailboxes to transmit, by a name it does not have
WriteMcr(m) ==
  LET new == updateMode([can EXCEPT !.mcr = m]) IN
  /\ KeepsFifo(m)
  /\ Step([new EXCEPT !.alive = @ /\ ~ /\ new.mode \in {"NORMAL", "LOOP_BACK"}
                                        /\ can.mode \in Stopped
                                        /\ \E mb \in Mailboxes : new.mb[mb].code \in Sends])

\* ctrlUpdate
WriteCtrl(ctrl) == Step(updateMode([can EXCEPT !.ctrl = ctrl]))

\* the words of a mailbox that mbUpdate does not look at: identifier and data
WriteId(mb, f) ==
  /\ Writable(mb)
  /\ Step([can EXCEPT !.mb[mb].frame = [f EXCEPT !.ide = can.mb[mb].frame.ide, !.rtr = can.mb[mb].frame.rtr]])

\* mbUpdate: the first word of a mailbox, with CODE, IDE and RTR
WriteCode(mb, code, f) ==
  LET frame == [can.mb[mb].frame EXCEPT !.ide = f.ide, !.rtr = f.rtr]
      st == [can EXCEPT !.mb[mb] = [code |-> code, frame |-> frame]]
  IN  /\ Writable(mb)
      /\ Step(CASE code \in Sends -> Settled(normalTx(st, mb))
                [] code = "rx_empty" -> filterAddRxMB(st, mb)
                [] code \notin Sends \union {"rx_empty"} -> filterRemoveMB(st, mb))

\* mutant: the next message is not announced
PopQuietly(st) ==
  IF Len(st.fifo) = 1 THEN [st EXCEPT !.fifo = <<>>]
  ELSE [st EXCEPT !.mb[0].frame = st.fifo[2], !.fifo = RemoveAt(@, 2)]

\* iflag1Update, when the firmware is done with the message in mailbox 0
Pop(st) ==
  IF Len(st.fifo) = 1 THEN [st EXCEPT !.fifo = <<>>]
  ELSE normalRx([st EXCEPT !.fifo = RemoveAt(@, 2)], 0, st.fifo[2])

\* iflag1Update
WriteIflag(clear) ==
  LET st == [can EXCEPT !.msgAvail = @ /\ ~clear]
      pops == ~can.not_rdy /\ can.mcr.fen /\ can.fifo # <<>> /\ ~st.msgAvail
  IN  /\ can.alive
      /\ can' = IF pops THEN Pop(st) ELSE st
      /\ taken' = IF pops THEN <<can.mb[0].frame>> ELSE <<>>
      /\ unseen' = IF pops THEN FALSE
                   ELSE unseen \/ (clear /\ can.fifo # <<>>)

-----------------------------------------------------------------------------
CanNext ==
  \/ CanReset
  \/ \E f \in Frames : Receive(f)
  \/ \E m \in McrSet : WriteMcr(m)
  \/ \E ctrl \in CtrlSet : WriteCtrl(ctrl)
  \/ \E mb \in Mailboxes : \E f \in Written[mb] : WriteId(mb, f)
  \/ \E mb \in Mailboxes : \E f \in Written[mb], code \in CodeSet : WriteCode(mb, code, f)
  \/ \E clear \in BOOLEAN : WriteIflag(clear)

CanSpec == CanInit /\ [][CanNext]_canVars

-----------------------------------------------------------------------------
(* Properties.                                                             *)

\* The FIFO's messages: the one in mailbox 0, and those in the queue.
Messages == [i \in 1 .. Len(can.fifo) |-> IF i = 1 THEN can.mb[0].frame ELSE can.fifo[i]]

\* The firmware finds the messages of the FIFO in mailbox 0 in the order in which
\* they came, each once: those in the queue and the one in the mailbox together.
Fifo == INSTANCE BoundedFifo WITH Item <- Frame, q <- Messages, out <- taken
FifoInOrder == Fifo!FifoSpec

\* The state has its types, and a message in the FIFO is announced by its flag, so
\* that a firmware that waits for the flag gets every message.  The exception is a flag that the firmware
\* clears while the handler of IFLAG1 looks away (stopped, or FEN clear): nothing
\* announces the messages again.
FifoAnnounced == CanTypeOK /\ (can.fifo # <<>> => can.msgAvail \/ unseen)

\* A mailbox has an entry for extended frames, and one for standard frames as well
\* if the standard part of the entry's identifier is zero.
Listening(rx, mb) ==
  \E i \in 1 .. Len(rx[TRUE]) :
    rx[TRUE][i].mb = mb /\ (rx[TRUE][i].id[1] = 0 => In(rx[FALSE], mb))

\* The mailboxes that wait for a frame while the controller runs.
Waiting == {mb \in Mailboxes : can.mode \notin Stopped /\ can.mb[mb].code = "rx_empty"}

\* A mailbox that waits listens, however it came to wait: by the firmware, by a
\* start, or for the reply to a remote request it sent.  This is what the code gives,
\* not what it says: to listen takes no entry for standard frames when the standard
\* part of the identifier is not zero (see StandardHeard), and a start with FEN set
\* does not look at mailboxes 56 to 63 (see AllHeard).
ReceiversListen == \A mb \in Waiting : mb < 56 => Listening(can.rx, mb)

\* As the comments in filterAddRxMB put it: a mailbox whose identifier has no bits in
\* the extended part gets standard frames.  The code looks at the standard part
\* instead; the mailbox is deaf to them.  No run checks this; it does not hold.
StandardHeard ==
  \A mb \in Waiting : \A i \in 1 .. Len(can.rx[TRUE]) :
    can.rx[TRUE][i].mb = mb /\ can.rx[TRUE][i].id[2] = 0 => In(can.rx[FALSE], mb)

\* As filterUpdate's comment puts it: the filters start with mailbox 8 and leave none
\* out.  No run checks this; it does not hold for a mailbox of 56 to 63.
AllHeard == \A mb \in Waiting : In(can.rx[TRUE], mb)

\* As the comments put it: "If this is in the RTR list it shouldn't be in the Rx
\* list".  The mailbox is taken out only if it is in the dict for standard frames.
\* No run checks this; it does not hold.
ListsApart == \A mb \in Mailboxes : ~(In(can.rx[TRUE], mb) /\ In(can.rtr[TRUE], mb))

\* A frame that no mailbox was free for does not destroy one the firmware has yet
\* to read: only the firmware's own writes change a full mailbox's frame.
FullIsKept ==
  [][(\E f \in Frames : Receive(f)) =>
       \A mb \in Mailboxes :
         can.mb[mb].code \in {"rx_full", "rx_overrun"} /\ (can.mcr.fen => mb >= 8) =>
         can'.mb[mb].frame = can.mb[mb].frame]_canVars

=============================================================================

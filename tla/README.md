# A verification development for the CM2350 emulator

The program emulates an MPC5674F microcontroller (an e200z7 PowerPC core with its
peripherals) in the CM2350 engine controller. These TLA+ modules model its control
logic, TLC checks them on small instances, and TLAPS proves the main results for every
value of the constants. Paths below are relative to `src/cm2350/`.

## Inventory

| Part | State | Operations | Hard because |
|---|---|---|---|
| interrupt core: `e200_intc.py`, `peripherals/intc.py`, `intc_exc.py` | `pending`, `saved`, `stack`, `curlvl`, `hasInterrupt`; `_delayed_excs`, `_saved_prio`, `_cur_exc`, CPR | queue, MSR write, check and handle, return, acknowledge, end of interrupt | two controllers hold copies of one exception; a cached flag stands for the queue; other threads queue |
| clock: `emutimers.py` | `_ticks`, the sorted `_timers`, target and remaining time of each | start, stop, pause, resume, tick, reset | callbacks re-enter the list while it is used; one expiry per tick |
| debugger: `e200_gdb.py`, `e200z7.py` | `_run`, `_halt_reason`, `_bpdata`, `_bps_in_place` | attach, break, continue, detach, breakpoints, halt and resume | two threads, mostly without locks |
| core timers: `e200z7.py`, `ppc_time.py` | TCR, TSR, timebase, three timers, a cleanup function on an exception | register writes, three timeouts, deferred restart | callbacks on every write, restart tied to a handler's return |
| software watchdog: `peripherals/swt.py` | MCR, TO, WN, SK, IR, keys, counters | register writes, service, unlock, timeout, reset | two locks, two key sequences and a window share one register |
| step loop: `e200z7.py` | run flag, extra processing list, current instruction | `stepi`, `run`, `reset` | order of exception check, instruction, tick |
| external I/O: `ppc_peripherals.py` | server socket, clients, internal socket pair, the core's `external_io` queue | transmit, relay, accept, receive, drop, shutdown | two threads, partial reads, sockets with limits, clients that leave at any point |
| event requests: `ppc_peripherals.py` | status and enable fields, DMA selection | event, DMA request, interrupt | events lost while a status bit is set |
| eDMA: `peripherals/edma.py` | `_pending`, `_active`, TCDs, priority lists, error flags | request, arbitration, loops, links, errors, halt, cancel | a transfer is spread over many steps of the core |
| DSPI: `peripherals/dspi.py` | both FIFOs, counters and flags of SR | push, pop, start, stop, clear | counters apart from the data; end of queue stops half-way |
| ASIC: `__init__.py` | registers, the open sequential write, watchdog | SPI words | a write in two words |
| FlexCAN: `peripherals/flexcan.py` | mode, mailboxes, filters, receive FIFO, flags | receive, transmit, mode and code writes | filters are a cache of the mailboxes; a FIFO behind a mailbox |
| eQADC: `peripherals/eqadc.py` | command and result FIFOs, modes, converters | push, trigger, convert, pop, clear | byte arrays and counters that can disagree |
| flash: `peripherals/flash.py` | MCR bits, locks, selection, write buffers, backup file | lock, select, interlock, program, erase, save, restore | a protocol of register writes; saved block by block |
| SIU pins: `peripherals/siu.py` | PCR masks, outputs, connections, inputs | register writes by pin, word and half word, `connect` | two paths compute what a pin shows |
| clocks: `peripherals/siu.py`, `peripherals/fmpll.py` | PLL mode, dividers, the core's copy of the frequency | ESYNCR and SYSDIV writes | a copy that is refreshed by some of the writes only |
| MMU, memory map: `ppc_mmu.py`, `mmio.py` | TLB entries, next victim; maps | translate, write entry, invalidate | replacement, overlap |
| ECSM, EBI, bridge, crossbar, decimation filter | configuration, error flags | register writes | little behaviour |

Interaction. A peripheral raises an event, which sets a status bit and queues an
`ExternalException` or makes a DMA request; the core's `queueException` puts it in the
interrupt core. `stepi` first takes what has arrived from outside (`processIO`) and runs one
function of the extra processing list (eDMA transfers), then looks at `hasInterrupt`, executes an
instruction, and calls `tick`, which may call a timer's owner, who may queue again. The return from a
handler runs callbacks (the INTC's delayed list) and a cleanup function (the decrementer's
restart). The debugger halts the core by queueing an exception of its own and resumes it
through an event object, from another thread. A peripheral with an external bus has an IO thread, which
passes messages to the core through one shared queue.

What makes each part correct is listed with the properties below, and in `PROJECT.json`
under `hazards`, each at its line.

## Modules and how they correspond to the code

### The core

**McuIntc** (run by `MCMcuIntc`). One variable per attribute of the two controllers, under
its name; an exception is a model value with a class, a level and an INTC priority.
`QueueException` is `e200INTC.queueException` with the judgement of
`shouldHandle`, `MsrWrite` is `msrUpdated` (which judges with the old MSR), `CheckException`
the check and everything `handleException` does for each class, `Rfi` the whole return
chain: the INTC's delayed check, the pop, and the flag. `IackRead`, `EoirWrite` and
`CprWrite` are the firmware's register accesses. The sort and the filtering loops are
stated by what they return. `owed` is a history variable.

**EmuTimers** (`MCEmuTimers`). `order` is the sorted list; equal targets may be in either
order, since Python's sort keeps whatever order they had. `Tick` lets only the head expire.
`SystimeReset` follows the loop over a list that changes under it. `BadStart`, a
start that raises half-way, is in `FaultySpec` only.

**DebugHalt**. One step is what a thread does between two points where the other can run:
a locked section, one unlocked assignment, or one round of a loop over the breakpoints. `pc` is where each thread is. The actions of `stepi`
and of the halt have the thread as a parameter, since the server executes them too, to get past a breakpoint. The GDB protocol is the external base class's: the module takes
from it that it runs one command at a time, forgets the halt reason before it calls the
continue and detach functions, and that its single step runs the emulator's `stepi` in the
server thread. Nothing makes a client wait until the core has come to rest: it may send a command as soon as `_halt_reason` says that the target has stopped, which
`handleInterrupts` sets before the breakpoints are lifted. The history `haste` notes when a command came before the core was at rest, `overlap` that
both threads have been in `stepi` at a time, and the properties say what holds in each case: `BreakpointsRestored` that a core at rest has no breakpoint in place and that the next continue in
time restores all of them, whatever the client did too early before. DebugHalt and McuIntc share no variable on purpose: the first has every
interleaving and one exception per class, the second every list and one thread. `FlagTrusted` is what
is left of `HasInterruptExact` with two threads: the flag is never ahead of the list, and exact
from the entry into a handler on, until the two threads execute `stepi` at a time.

**McuTimers** (`MCMcuTimers`). `on` is the set of running timers, any of which may expire
at any moment: periods, and which of two timers is first, belong to EmuTimers.
`decs` is 1 while a decrementer exception is on the stack or pending (`isExceptionActive` keeps a second
one away; MSR does not mask the class), `active` says that it is on the stack, and `rearm` that it carries the
cleanup function. `running` is `systimeRunning()`, which the debugger
changes. DEC is written with values other than 0: 0 is EmuTimers' `BadStart`.

**Swt** (`MCSwt`). `left` is the countdown of the timer that SWT owns, `resetQueued` stands
for the reset exception, raised or queued. Reads have no effect except an error on a
bad access.

### Peripherals

**BoundedFifo** is an abstract specification: items leave in the order in which they entered, each once;
one is lost only by meeting a full FIFO (dropped, or replacing the newest) or by a clear. Three FIFOs
are shown to implement it, by `INSTANCE ... WITH` and the abstract specification as a property; all three refinements are also proved.

**Dspi** (`MCDspi`) with **Asic**. `tx` is `_tx_fifo`, newest first; `rx` and `rxctr` are the array and the
counter, which does not count the shift register. `WritePushr` is `pushTx`, sending at once or storing; `WriteMcr` is `mcrUpdate`
with `updateMode`, which sends what waits up to an end-of-queue frame; `WriteSr` and `WriteRser` are the handlers that set TFFF again and
repeat the events that are newly enabled. `Signal` is `_eventRequest` for a set of events. Asic is a module
of operators, `receive` as a function of the device's state (`Exchange` for one word, `BusAfter` for the words of a drained FIFO, a recursive function of their number),
and composed into `Transmit`. Replies wait in `io` until `ProcessIO`. History: `sent`, `read`, `told`, `fillDma`.

**Edma** (`MCEdma`). `pending` is `_pending`, `fixed` and `rr` the priority lists of both arbitration modes,
`queued` whether the processing function is in the core's list (it leaves the list by itself). `Process` is one call of it:
arbitration, one minor or major loop, and all it does at the end of each. `WriteMcr` includes halt, cancel and the rebuild of the lists;
a write to CPR takes effect there, not before. The sorts and the rotation of the priority lists are stated by what they return (`Sorted` places each element behind those
that precede it, `MoveToEnd`). `link` is the link of a pending configuration, taken from the TCD when
the channel is started; the rest of the TCD is read when it is used. `stale` is an `_active` that nothing clears (a link of a channel to itself); an error or the end of the count in that state, which end the
emulator, are left out.

**FlexCan** (`MCFlexCan`). One record for the controller: mode, mailboxes, the filters `rx` by format, the FIFO as a list whose head is a
placeholder for mailbox 0. `Receive` is the whole path of a frame: FIFO filters, mailbox filters, remote requests and their answers, overrun.
What the controller receives of its own (`Settled`) is a recursive function of the number of messages, which `ChainLength` bounds: a transmission takes a
mailbox's code one step further, so that each mailbox has at most two. Handlers that use a name that does not exist end the emulator (`alive`).
`ReceiversListen` says which filters a waiting mailbox has in the code; three definitions beside it say what the comments promise beyond that (below).

**Flash** (`MCFlash`). Cells of 16 bytes; `mem` is the flash, `file` the backup, `arr` both controllers. `Write` is the interlock write,
`WriteMcr` the bits PGM, ERS and EHV with the lock looked at when EHV is set. A save copies its cells one by one (`SaveCell`), and `Stop`
may come between any two. `Start` is a start of the emulator, which trusts a file of the right length and otherwise makes a new one.

**Eqadc** (`MCEqadc`). The byte arrays and the counters are separate, as in the code: the arrays are created shorter than the
counters allow and grow by slice assignment. The device is one record, since a handler calls one function on it after the other; the loops that fill a result FIFO and
drain a command queue are recursive functions of the number of rounds. `due` and `wait` are histories: what should come out of the arrays; `fired` is one: a trigger came since the channel has its mode.
`StatusFollowsMode` compares both states of CFSR with mode and triggers. The modes are in classes: disabled, single and continuous scan, with two of each of the last two, as a change within a class resets the status and drains the queue too. Streaming and reserved modes raise exceptions and end the emulator.
A loop that never ends and an exception that nothing catches end the emulator (`alive`).

**ExternalIO** (`MCExternalIO`). `io.pc` is where `_io_handler` is: in `select`, between two ready sockets, in a relay between two clients, or waiting for a body.
Connections are TCP with halves: the four bytes of a length may arrive one part at a time. The main thread is `Transmit`, `ProcessIO` and `Shutdown`.
`Picked` keeps the chosen elements of a list in their order; it counts places, because the library's `SelectSeq` is recursive.

**Siu** and **Clocks** are proved about and not run: their properties are of a few steps, and their interest is that they hold for
every number of pins, every layout of words and every divider. Siu has the two paths by which the code computes what pins show (bit by bit after a write
to one pin, with masks after a write to a word); Clocks has `freq`, the core's copy of the frequency, and `stale`, which says that a write left it behind.

## Runs

| Run | Shows |
|---|---|
| `mcu_intc` | the flag is exact, handlers nest, nothing raised is lost, IACKR names an active interrupt, the most urgent is taken, the queue drains |
| `emu_timers` | the list is sorted after every operation, and N timers delay each other by less than N ticks |
| `debug_halt` | the flag under two threads, breakpoints in and out of memory for any client, a halt request is served |
| `swt` | an enabled watchdog counts, the hard lock holds, keys follow, silence ends in a reset |
| `mcu_timers` | the core watchdog is armed, allows two timeouts, bites if ignored; a deferred decrementer start happens |
| `spi` | both FIFOs of a DSPI implement `BoundedFifo`; an event is told also to a firmware that enables it late; a FIFO that can be filled says so |
| `edma` | work is scheduled whatever halts and starts DMA; no request is forgotten; round robin lets a channel be passed a bounded number of times |
| `flexcan` | the receive FIFO implements `BoundedFifo` and is announced; an empty mailbox has the filters the code gives it; a full one keeps its frame |
| `flash` | locked blocks keep their contents; a value lands at its address; what was programmed survives a stop at any point |
| `eqadc` | commands and results keep their order; results are announced; the status is that of mode and triggers |
| `extio` | messages of a client arrive once, in order and in the end; a client sees no gap in what is relayed |
| `extio_client_gone` | violated: the IO thread ends although nobody shut it down, when a client closes during a relay |

Properties that need a premise have it in their statement, where the code does not do better: results of the eQADC in continuous mode
with a FIFO that is not full, more commands than the array has room for, a FlexCAN flag cleared while its handler looks away (stopped, or FEN clear), cells the debugger wrote, a command of a debugger's client that comes before the core is at rest.
The first conjunct of one property per module is its type invariant.

### Divergences met

The first is checked by a run. The others were met while modelling; the definition named with each states
what the comment says, and stands in its module for the day the code is changed. Adding it to the module's configuration (for EmuTimers'
`IdleLast` with `FaultySpec`) shows the trace.

* `OnlyShutdownEnds` (ExternalIO): the comment of `_io_handler` says that a client that has disconnected is removed from the list;
  `ppc_peripherals.py:1056` takes an `OSError` of a relay for a shutdown, so the thread ends and all clients are cut off.
* `MaskedNotTaken` (McuIntc): `e200_intc.py:23` "Exceptions are handled when the appropriate MSR flag is set".
  `msrUpdated` runs before MSR has its new value, so an exception is judged one write late, and can be taken while masked.
* `CriticalStaysOpen` (McuIntc): `intc_exc.py:152` "MSR[CE, ME, DE, RI] are not cleared". The mask at line 154 clears CE.
* `ResetStopsAll` (EmuTimers): `emutimers.py:284` "stop all the timers". The loop walks a list that each `stop()` sorts, and skips every
  second running timer.
* `IdleLast` (EmuTimers): `emutimers.py:243` "Timers that aren't running get moved to the end of the list". A `start()` with 0 ticks
  raises before the list is sorted; the stopped timer stays at the head and hides the others.
* `BreakpointsArmed` (DebugHalt): `e200_gdb.py:194` "At each emulator stop, we want to replace the original bytes. On resume, we put the Break instruction bytes back in."
  `handleInterrupts` reports the stop at line 133, and lifts the breakpoints after that: a client that continues in between finds `_bps_in_place` set, so nothing is put down, the
  halting thread then lifts everything, and the core runs without breakpoints until the next continue; a command during the loop of `_pullUpBreakpoints` can end the emulation thread.
* `AssertionHolds` (DebugHalt): `e200_gdb.py:163` "The breakpoints should not be installed because we are halted". For the same client the assertion of line 164 fails.
* `ServerNeverWaits` (DebugHalt): `e200_gdb.py:166` "Should have no problem doing stepi in the server thread". A second halt request that is pending, or a break
  instruction put back by a thread that came late, makes the server thread wait for a resume that only it can give.
* `DetachedRuns` (DebugHalt): `e200_gdb.py:284` "Since the client has detached let the core start executing". A leftover `DebugException` halts the core with nobody attached.
* `StandardHeard` (FlexCan): `peripherals/flexcan.py:1148` (and 1109) "If there are filter mask bits set in the lower 18 bits then this mask is ext 29-bit specific and a std 11-bit
  filter should not be created". Line 1150 (1111) tests the filter, not the mask, and with `FLEXCAN_STD_ID_MASK` the eleven bits of a standard identifier, not the lower 18: a mailbox
  whose standard part is not zero gets no entry and is deaf to the frames it waits for. A stale entry stays when the identifier changes.
* `AllHeard` (FlexCan): `peripherals/flexcan.py:1253` "Now add normal message filters starting with MB8". The loop (1263) pairs the offsets from mailbox 8 on with the numbers from 0 on and uses only the numbers,
  and so leaves out the last eight mailboxes.
* `ListsApart` (FlexCan): `peripherals/flexcan.py:1092` (and 1125) "If this is in the RTR list it shouldn't be in the Rx list". Only the dictionary for standard frames is asked, so a mailbox that is in the other one alone stays.
* `TimebaseStartsDec` (McuTimers): `ppc_time.py:73` says that the enabled timebase starts the decrementer; for TCR[DIE] line 83 starts the watchdog.

Behaviour that no document contradicts, and that the modules have as the code has it:

* DSPI: the reply to an end-of-queue frame is discarded, as TXRXS is clear when it arrives; CLR_RXF resets only the counters; TFUF is never raised. The ASIC keeps a half-finished sequential write across a reset of the core.
* eDMA: a write to CPR takes effect at the next write to MCR; ER survives a reset; a software transfer raises no end interrupt while ERQ is clear, and its end clears a latched hardware request.
* FlexCAN: a remote request mailbox answers once; filters are not rebuilt when FEN changes while running; a remote or extended entry of the receive FIFO's table accepts standard data frames where it is masked; IFLAG survives a reset.
* eQADC: CFINV clears the counters of the result FIFO too; a trigger written together with its mode is lost; interrupts of the channel variant ignore the enable flag.
* Flash: a reset clears neither MCR nor the write buffers; what the debugger writes is not saved.
* External I/O: a length that arrives in two parts ends the connection (`ppc_peripherals.py:693`); a client that does not read stops the IO thread for all; a reset of the core leaves the queue.
* Clocks: only a write to SYSDIV or a reset refreshes the core's frequency (`peripherals/siu.py:792`), so a change of the PLL leaves it behind; a reserved IPCLKDIV raises before it is set.

### Bounds

* McuIntc: six exceptions, one or two of each class, so that any two can preempt, mask or
  delay each other; `MaxLoad = 3` entries over all lists and the CPR LIFO, because the
  interactions are between a new exception, one in a list and one handler. The lists themselves
  grow without limit in the code (see the hazard at `peripherals/intc.py:297`).
* EmuTimers: three timers, the least with a timer behind another that is due; durations 0 and 2, so
  that timers tie, overtake and expire on restart; four ticks, enough for
  a timer to be late by more than the number of timers if it could.
* DebugHalt: two breakpoints, the least with which the loops over them can be met half-way; finite without a bound, and no restriction on when a client sends its commands. Two threads in `stepi` could queue
  an interrupt twice; the list stays a set there.
* Swt: keys modulo 4 for 2^16, with the real fixed and unlock keys; a countdown of two
  or three ticks for 2^32; six MCR values: plain, warning, keyed, windowed, soft and hard locked.
* McuTimers: five TCR values; finite without a bound.
* Dspi: FIFOs of 2 and 3 entries for 4 and 5, the least with a first, a last and one between; three frames, of which one opens a sequential write to
  the ASIC, one ends the queue and one goes to a placeholder device; three MCR values, one with both FIFOs disabled and overwriting.
* Edma: two channels in one group and one in another, the least with both levels of arbitration; transfers of one and two iterations, with links to
  itself and to another channel, and one that fails.
* FlexCan: the FIFO's mailbox and one other, three frames of all kinds, a FIFO of 3 for 6.
* Flash: a block of one array and one that both share, with two cells of each in turns; the values 0 (erased) and 1. The firmware acts on one block at a time (`OneBlock`).
* Eqadc: one channel; arrays of one and two entries, the ratio of the code's, so that they are too short, just right and grown.
* ExternalIO: one client that sends twice and one that listens; socket buffers of one message, so that every sender can be stopped; two messages downwards.

### Deadlock

It is checked for Swt, McuTimers, Dspi, Edma and Flash, which always have a step. It is not for McuIntc and
EmuTimers, whose bounds end a behaviour; for DebugHalt, where a halted core with
nobody attached really stops, and a thread that meets an exception nobody catches ends; for FlexCan and Eqadc, where an exception ends the emulator; and for ExternalIO, where all clients may be gone.

### Fairness

* McuIntc: `CheckException`, as `stepi` calls it before each instruction; `Rfi`, as firmware returns from
  its handlers. Both weak: nothing disables them for ever, and neither is assumed
  while the other could be forced. New exceptions and firmware writes are never assumed to stop,
  except in the premise of `DrainsWhenQuiet`, `QuietDogBites` and `DogBites`.
* DebugHalt: the two threads keep running (`Stepi("core")`; `Stepi("server")` or `Serve`). Nothing makes a client act.
* Swt and McuTimers: the clock ticks (`tick` after every instruction) and a reset is
  handled by the `stepi` that meets it. `DecResumes` also assumes that the debugger finally lets the core run.
* ExternalIO: the IO thread goes on, the core empties its queue before each instruction, the network delivers, and a client reads what it is sent. A client that
  does not read stops the IO thread, so `Delivered` needs the last. Nobody has to connect, send, transmit or close.

## Proofs

`M_proofs` extends `M`. The proofs use the assumptions that the modules state on their
constants and nothing else, and hold for any number of exceptions, timers, addresses, frames, pins and values.

* **McuIntc_proofs**. The invariant adds to the checked ones the types of the lists and
  that the current level is that of the innermost handler. One lemma per action; lemmas on the list operators say what a
  sort and a filter return. `NothingLost` needs `PendingSorted`, because what is
  removed is the head; `UrgencyRespected`, an action property, follows from sortedness and the exact flag.
* **EmuTimers_proofs**. `NeverStarved` is not inductive. The invariant counts: for each k, at
  most N - k timers are late by k ticks or more. A tick makes everything one tick later and
  serves the head, which is the latest as the list is sorted.
* **DebugHalt_proofs**, for any set of breakpoints and any client. The invariant follows the flag to where it was computed
  (`FlagInv`: between `Eval` and `Store` the value is a copy, which may lag but was true of the list; while the threads take turns, who executes `stepi` is alone with the list). `TurnInv` says whose turn it is:
  a server that steps the core has passed the assertion, and one whose command came in time finds the core at rest until it resumes it. `ArmInv` follows the breakpoints through the loop that puts them down after such a
  command, whatever came too early before; `CleanInv` says that without any hurried command memory is what `_bps_in_place` says. `FlagTrusted` and `BreakpointsRestored` follow.
* **Swt**, in McuTimers_proofs. `NextKeyFollows` is strengthened with the second key of the pair while the first
  is awaited. `HardLock` is proved from the actions' guards.
* **McuTimers_proofs**. `TwoStrikes` needs that with ENW and WIS both set there has been a timeout since
  one of them was cleared; `TypeOK` needs that an active exception is counted.
* **Dspi_proofs**. The refinement of the transmit side, `Spec => TxInOrder`: Init maps to the abstract Init, and each step to a step or a stutter. The invariant is that
  nothing waits while the controller runs, so that a frame written then cannot overtake; it is inductive because a start takes everything up to the first end-of-queue
  frame (`DrainedFacts`, from `LeastExists`) and an end of queue stops the controller. `TakeFromTheEnd` says that what leaves and what stays make up the queue. `EnabledAreTold` is inductive as it stands.
  The receive side needs the types of what the devices reply, through the recursion over the words sent: `RunExists` shows that a function satisfying the recursion exists
  (by the least number of rounds that had none), `BusAfterTypes` that its values are states of the bus. With them `FillIsKnown` is inductive and `Spec => RxInOrder` follows.
* **Edma_proofs**. The invariant has two halves. `Transfers`: every channel that is started is pending, failed or held by a halt (`Settled`), pending channels keep the function
  scheduled (`Awake`), and the channel that goes on without arbitration is pending (`ActiveWaits`). `Arbitration`: the lists are orders of the groups and of each group's channels
  (`PrioritiesAreOrders`, `RotatedIsOrders`), and for every channel the iterations that passed it plus its `Distance`, the number of turns that its place in the two lists lets
  others have, stay below the number of groups times the size of one. `ComesNearer` is the reason for `BoundedBypass`: who is served goes to the end, and every
  other channel's distance shrinks.
* **Eqadc_proofs**. The device after each function is `Kept`: the emulator has ended, or for every channel the counted entries of the result array are what is due (`Results`), those of the command array what
  waits, read backwards (`Waits`), and the status is that of the mode and of the triggers since (`Follows`). Each lemma takes one function from `Kept` to `Kept`, and the handlers are their
  composition. The loops are runs of recursive functions; `RunStays` carries `Kept` along a run.
* **FlexCan**, in Eqadc_proofs. `FifoAnnounced` is not inductive alone: the invariant (`Right`) adds that a FIFO with messages has FEN set and its first message in mailbox 0, which is
  then inactive and no other's, that only the first entry of the queue is the placeholder, and that every mailbox below 56 that waits for a frame has the entries `Listening` names. A frame and all that follows it are a `Chain` of
  messages, of which only one without a successor may enter the FIFO; `ChainSettles` carries along it that the flag stays, that the FIFO is extended by at most one message (the refinement's step), and
  that no unread mailbox is touched (`UnreadFramesKept`). A start makes the filters anew, mailbox after mailbox: `Started` says what is there after the first n.
* **ExternalIO_proofs**, for any clients, buffers and numbers of messages; it assumes that no client is called like the internal or the server socket. `PickedFacts` says that what `Picked` returns is an enumeration of the chosen places from left to right;
  what it does to the first and the last element follows. `Upward`: the first k messages of a client are with the peripheral or in the queue, and what it sent and the thread has not taken is the
  rest of its `Stream` (two halves and a body each, less the halves of a length that was taken); each action lengthens the stream, takes from its front (`StreamShrinks`) or moves a part along it (`MovesOver`).
  `Clientele`: a client has got the messages from `first` to `Relays`, the number that were taken from the internal socket, less the one that the thread is about to send it. Both need `Visits` and `Lists`: a
  socket that is still to be visited is selected from, each at most once, and an accepted client is in the list and the inputs until it is dropped from both.
* **Flash**, in McuIntc_proofs, whose lemmas on `Range` it uses; for any layout in which the rows of FLASH_BLOCK_MAP cover main flash without overlap and a shared block has as many cells of each array.
  `TargetFacts`: the conversion of an address to a place in an array's block and back closes; `BlocksDisjoint`: no two blocks, also of two arrays that take turns, share a cell. With these an operation of one array leaves the
  other's `Buffer` right, which holds for every cell of its block what the firmware wrote or what is in flash. `Backed`: a cell that differs from the file, and one behind its end, is still to be saved. `BackupRestores`
  needs both halves: a save never leaves a gap behind the end of the file, so that the length says that it is complete.
* **Siu**, in McuTimers_proofs. The invariant is the agreement of the two paths with the masks and with each other; `PinRefreshed` and `BlockRefreshed` are the two ways to re-establish it.
* **Clocks**, in EmuTimers_proofs. The PLL follows its registers; the copy of the frequency is right but in the two cases named; a locked CLKCFG stays; no clock is faster than the one it is made from.

The lemmas on recursive functions (`StepsExist`: a function that satisfies a recursion over 0 .. n exists; `RunExists`, `RunStays`, `UpTo`: what every step keeps holds all along) speak of functions over 0 .. n only and mention no sequence: the SMT encoding of sequences
assumes of `Len` what is true of functions over 1 .. n only, so the two are kept in separate obligations.

Only model-checked: the liveness properties and everything under fairness, which the prover does not treat. What a recursive definition computes for every input would need an induction whose predicate is a parameter; what is proved
here is that it stays within a set, for which the least counterexample suffices.

## Plan

In this order, each with its abstract promise, its run and, where marked, proofs:

1. MMU replacement and matching against a reference definition; the boot assist module's entries as its first input;
2. ECSM as a second user of event requests, with the base class's promise that an event is lost only while its status bit is set (proof);
3. a step loop module composing McuIntc, EmuTimers and a device, for instructions that raise
   exceptions inside handlers and for the order of `PPC_e200z7.reset`;
4. several peripherals on one `external_io` queue.

## Not modelled

Instruction execution and the GDB protocol (external libraries), register files without
side effects, the decimation filter and the stubs (eTPU2, eMIOS, eSCI, PIT), constant tables, construction, parsers and the
user interface: no behaviour over time of this program's own. The register structures of `ppc_vstructs.py` are bit-field parsing; what other
modules see of them, write-one-to-clear and a callback on every write, is modelled there. `ScaledEmuTimeCore` is not
in use. The ASIC's watchdog is left out because its expiry uses a name that the file does not import. Parts of the modelled components that are left out are
named in the header of each module and in `PROJECT.json`.

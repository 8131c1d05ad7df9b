-------------------------------- MODULE Asic --------------------------------
(***************************************************************************)
(* The ASIC of the board (cm2350/__init__.py, class ASIC), a device on a   *)
(* SPI bus: its register protocol, as operators on the device's state.     *)
(* Words are the 16-bit integers on the bus.  The watchdog's timer, which  *)
(* the two patterns start again, is left out: when it expires the handler  *)
(* uses a name that the file does not import, and the emulator ends.       *)
(***************************************************************************)
EXTENDS Naturals

Words == 0 .. 2^16 - 1

ASIC_FAULT_REG == 0
ASIC_WDOG_TIMEOUT_REG == 2
ASIC_WDOG_SERVICE_REG == 3
ASIC_WDOG_PAT1 == 85     \* 0x55
ASIC_WDOG_PAT2 == 170    \* 0xAA
NoAddr == 64             \* self.addr = None: a register address has 6 bits

Cmd(word) == word \div 2^14
RegAddr(word) == (word \div 2^8) % 2^6
Byte(word) == word % 2^8
READ == 0
WRITE_LOWER == 1
WRITE_UPPER == 2
WRITE_SEQ == 3

AsicStates == [regs : [0 .. 63 -> Words], addr : 0 .. 63 \union {NoAddr}]

AsicInit ==
  [regs |-> [r \in 0 .. 63 |-> IF r = ASIC_FAULT_REG THEN 12351 ELSE 0],
   addr |-> NoAddr]

\* write
Write(a, cmd, addr, value) ==
  LET old == a.regs[addr]
      new == CASE cmd = WRITE_LOWER -> ((old \div 2^8) * 2^8) + value
               [] cmd = WRITE_UPPER -> (value * 2^8) + (old % 2^8)
               [] cmd = WRITE_SEQ -> value
  IN  [a EXCEPT !.regs[addr] = new]

\* receive: the state after a word
Receive(a, word) ==
  CASE a.addr # NoAddr -> [Write(a, WRITE_SEQ, a.addr, word) EXCEPT !.addr = NoAddr]
    [] a.addr = NoAddr /\ Cmd(word) \in {WRITE_LOWER, WRITE_UPPER} ->
         Write(a, Cmd(word), RegAddr(word), Byte(word))
    [] a.addr = NoAddr /\ Cmd(word) = WRITE_SEQ -> [a EXCEPT !.addr = RegAddr(word)]
    [] OTHER -> a

\* receive: the word that is sent back
Reply(a, word) ==
  IF a.addr = NoAddr /\ Cmd(word) = READ THEN a.regs[RegAddr(word)] ELSE 2^16 - 1

=============================================================================

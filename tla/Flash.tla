-------------------------------- MODULE Flash --------------------------------
(***************************************************************************)
(* The flash controller (cm2350/peripherals/flash.py): two arrays that     *)
(* lock, erase and program blocks, the main flash whose high blocks they   *)
(* share in turns of 16 bytes, shadow flash, and the backup file from      *)
(* which a later run of the emulator restores all of it.                   *)
(*                                                                         *)
(* A cell is 16 bytes; its address is its place in the backup file: main   *)
(* flash, shadow flash B, shadow flash A (one cell each).  The emulator    *)
(* may be stopped at any point (phase), also between the cells of a save.  *)
(***************************************************************************)
EXTENDS Naturals, FiniteSets, Sequences, Functions

CONSTANTS
  Map,          \* FLASH_BLOCK_MAP: [start, end, array, block], array "AB" when shared
  MainSize,     \* the cells of main flash
  Vals,         \* what a cell can hold
  Erased,       \* a cell of 0xFF
  Image,        \* the firmware image: a value for each cell
  ShadowLocks,  \* for each value of a shadow cell the blocks it locks after a reset
  LockWrites,   \* the firmware's writes to lock registers: [array, reg, locks]
  Selections,   \* the values of LMSR and HSR it writes, as sets of blocks
  Operations,   \* the values of MCR it writes: [pgm, ers, ehv]
  Writes,       \* its writes to flash: [cell, val]
  DebugWrites   \* the debugger's writes to main flash: [cell, val]

Arrays == {"A", "B"}
Blocks == {"S0", "L0", "M0", "H0"}
LockRegs == {"lmlr", "slmlr", "hlr"}
PASSWORD == {"password"}
Size == MainSize + 2
Cells == 0 .. Size - 1
NoData == <<>>
NoWrite == [block |-> "none", data |-> NoData]

ASSUME FlashAssumption ==
  /\ MainSize \in Nat \ {0} /\ Erased \in Vals
  /\ Map \subseteq [start : Nat, end : Nat, array : Arrays \union {"AB"}, block : Blocks \ {"S0"}]
  /\ \A r \in Map : r.start < r.end /\ r.end <= MainSize /\ (r.array = "AB" => (r.end - r.start) % 2 = 0)
  /\ \A c \in 0 .. MainSize - 1 : \E r \in Map : r.start <= c /\ c < r.end
  /\ \A r, s \in Map :
       r # s => /\ r.end <= s.start \/ s.end <= r.start
                /\ r.block = s.block => r.array # s.array /\ "AB" \notin {r.array, s.array}
  /\ Image \in [Cells -> Vals]
  /\ ShadowLocks \in [Vals -> SUBSET Blocks]
  /\ LockWrites \subseteq [array : Arrays, reg : LockRegs, locks : (SUBSET Blocks) \union {PASSWORD}]
  /\ Selections \subseteq SUBSET Blocks
  /\ Operations \subseteq [pgm : BOOLEAN, ers : BOOLEAN, ehv : BOOLEAN]
  /\ Writes \subseteq [cell : Cells, val : Vals] /\ DebugWrites \subseteq [cell : Cells, val : Vals]

VARIABLES
  arr,      \* the arrays: see FlashTypeOK
  mem,      \* main flash and shadow flash (data, shadow)
  file,     \* the backup file's contents
  fileLen,  \* its length; 0 also when there is none
  saving,   \* the cells that the running handler has yet to write to the file
  phase,    \* whether the emulator runs: "on" or "off"
  wanted,   \* history: the writes of each array since the last operation
  unsaved   \* history: cells the debugger changed, which nothing saves

flashVars == <<arr, mem, file, fileLen, saving, phase, wanted, unsaved>>

FlashArrays ==
  [pgm : BOOLEAN, ers : BOOLEAN, peas : BOOLEAN,                      \* MCR
   key : SUBSET LockRegs,                                            \* LME, SLE, HBE
   lock : [LockRegs -> SUBSET Blocks],                               \* LMLR, SLMLR, HLR
   sel : SUBSET Blocks,                                              \* LMSR, HSR
   write : [block : Blocks \union {"none"}, data : Seq(Vals)]]       \* _write_data

FlashTypeOK ==
  /\ arr \in [Arrays -> FlashArrays]
  /\ \A a \in Arrays : arr[a].lock.hlr \subseteq {"H0"}
                      /\ arr[a].lock.lmlr \union arr[a].lock.slmlr \subseteq {"S0", "L0", "M0"}
  /\ wanted \in [Arrays -> SUBSET (Cells \X Vals)]
  /\ mem \in [Cells -> Vals] /\ file \in [Cells -> Vals]
  /\ fileLen \in 0 .. Size /\ saving \in Seq(Cells)
  /\ phase \in {"on", "off"} /\ unsaved \subseteq Cells

-----------------------------------------------------------------------------
(* The layout of flash.                                                    *)

Shadow(a) == MainSize + (IF a = "B" THEN 0 ELSE 1)
Row(a, b) == CHOOSE r \in Map : r.block = b /\ r.array \in {a, "AB"}
Has(a, b) == b = "S0" \/ \E r \in Map : r.block = b /\ r.array \in {a, "AB"}
Shared(a, b) == b # "S0" /\ Row(a, b).array = "AB"

\* _block_map: the cells of an array's block
BlockSize(a, b) ==
  IF b = "S0" THEN 1
  ELSE IF Shared(a, b) THEN (Row(a, b).end - Row(a, b).start) \div 2
  ELSE Row(a, b).end - Row(a, b).start

\* mutant: array B's turn is the first
CellSwapped(a, b, i) ==
  IF b = "S0" THEN Shadow(a)
  ELSE IF Shared(a, b) THEN Row(a, b).start + (2 * i) + (IF a = "B" THEN 0 ELSE 1)
  ELSE Row(a, b).start + i

\* where cell i of an array's block is in flash: the loops of program, erase and write
Cell(a, b, i) ==
  IF b = "S0" THEN Shadow(a)
  ELSE IF Shared(a, b) THEN Row(a, b).start + (2 * i) + (IF a = "B" THEN 1 ELSE 0)
  ELSE Row(a, b).start + i

BlockCells(a, b) == {Cell(a, b, i) : i \in 0 .. BlockSize(a, b) - 1}
Contents(a, b) == [i \in 1 .. BlockSize(a, b) |-> mem[Cell(a, b, i - 1)]]

\* the cells that save writes: the whole address range, both arrays' turns
Saved(a, b) ==
  IF b = "S0" THEN <<Shadow(a)>>
  ELSE [i \in 1 .. Row(a, b).end - Row(a, b).start |-> Row(a, b).start + i - 1]

\* ... of each of the changed blocks, in the order of FlashBlock
Saves(a, changed) ==
  LET part(b) == IF b \in changed THEN Saved(a, b) ELSE <<>>
  IN  part("S0") \o part("L0") \o part("M0") \o part("H0")

\* _getArrayBlockOffset, and the handlers of shadow flash
Target(c) ==
  IF c >= MainSize THEN [array |-> IF c = Shadow("A") THEN "A" ELSE "B", block |-> "S0", off |-> 0]
  ELSE LET r == CHOOSE s \in Map : c >= s.start /\ c < s.end
           new == c - r.start
       IN  IF r.array # "AB" THEN [array |-> r.array, block |-> r.block, off |-> new]
           ELSE [array |-> IF new % 2 = 1 THEN "B" ELSE "A", block |-> r.block, off |-> new \div 2]

-----------------------------------------------------------------------------
(* Locks and reset.                                                        *)

Covered(reg) == IF reg = "hlr" THEN {"H0"} ELSE {"S0", "L0", "M0"}

\* checkBlockWritable
Writable(a, b) ==
  IF b = "H0" THEN b \notin arr[a].lock.hlr
  ELSE b \notin arr[a].lock.lmlr \union arr[a].lock.slmlr

PowerUp == [pgm |-> FALSE, ers |-> FALSE, peas |-> FALSE, key |-> {}, sel |-> {},
            lock |-> [r \in LockRegs |-> Covered(r)], write |-> NoWrite]

\* mutant: each lock register takes the whole shadow word
ResetArrayUnmasked(st, m, a) ==
  [st EXCEPT !.key = {}, !.sel = {}, !.lock = [r \in LockRegs |-> ShadowLocks[m[Shadow(a)]]]]

\* FlashArray.reset: MCR and a write that waits for its operation are kept
ResetArray(st, m, a) ==
  [st EXCEPT !.key = {}, !.sel = {},
             !.lock = [r \in LockRegs |-> ShadowLocks[m[Shadow(a)]] \intersect Covered(r)]]

FlashInit ==
  /\ arr = [a \in Arrays |-> PowerUp] /\ wanted = [a \in Arrays |-> {}]
  /\ mem = Image /\ file = Image /\ fileLen = 0
  /\ saving = <<>> /\ phase = "off" /\ unsaved = {}

Idle == phase = "on" /\ saving = <<>>
Off == arr' = [a \in Arrays |-> PowerUp] /\ wanted' = [a \in Arrays |-> {}] /\ phase' = "off"

\* mutant: a backup is never restored
StartAfresh(reset_backup) ==
  /\ phase = "off" /\ phase' = "on"
  /\ fileLen' = IF reset_backup THEN 0 ELSE fileLen
  /\ mem' = Image /\ saving' = [i \in 1 .. Size |-> i - 1]
  /\ arr' = [a \in Arrays |-> ResetArray(PowerUp, mem', a)]
  /\ wanted' = [a \in Arrays |-> {}] /\ unsaved' = {}
  /\ UNCHANGED file

\* loadInitialFirmware with load_complete, then the core's reset: a complete backup
\* replaces the image, otherwise the image is saved.
Start(reset_backup) ==
  /\ phase = "off" /\ phase' = "on"
  /\ fileLen' = IF reset_backup THEN 0 ELSE fileLen
  /\ IF fileLen' = Size THEN mem' = file /\ saving' = <<>>
     ELSE mem' = Image /\ saving' = [i \in 1 .. Size |-> i - 1]
  /\ arr' = [a \in Arrays |-> ResetArray(PowerUp, mem', a)]
  /\ wanted' = [a \in Arrays |-> {}] /\ unsaved' = {}
  /\ UNCHANGED file

\* save, one cell
SaveCell ==
  /\ phase = "on" /\ saving # <<>>
  /\ file' = [file EXCEPT ![Head(saving)] = mem[Head(saving)]]
  /\ fileLen' = IF Head(saving) < fileLen THEN fileLen ELSE Head(saving) + 1
  /\ saving' = Tail(saving)
  /\ UNCHANGED <<arr, mem, phase, wanted, unsaved>>

\* the process of the emulator ends
Stop ==
  /\ phase = "on" /\ Off
  /\ UNCHANGED <<mem, file, fileLen, saving, unsaved>>

\* the reset of the core
Reset ==
  /\ Idle
  /\ arr' = [a \in Arrays |-> ResetArray(arr[a], mem, a)]
  /\ UNCHANGED <<mem, file, fileLen, saving, phase, wanted, unsaved>>

\* _lmlrWrite, _slmlrWrite, _hlrWrite
WriteLock(w) ==
  /\ Idle
  /\ \/ w.locks = PASSWORD /\ arr' = [arr EXCEPT ![w.array].key = @ \union {w.reg}]
     \/ /\ w.locks # PASSWORD /\ w.reg \in arr[w.array].key
        /\ arr' = [arr EXCEPT ![w.array].lock[w.reg] = w.locks \intersect Covered(w.reg)]
  /\ UNCHANGED <<mem, file, fileLen, saving, phase, wanted, unsaved>>

Select(a, blocks) ==
  /\ Idle
  /\ arr' = [arr EXCEPT ![a].sel = blocks]
  /\ UNCHANGED <<mem, file, fileLen, saving, phase, wanted, unsaved>>

-----------------------------------------------------------------------------
(* Programming and erasing.                                                *)

\* program of a block whose data is the None of an erase: len(None)
Fails(a, op) ==
  LET w == arr[a].write IN
  op.pgm /\ w # NoWrite /\ w.data = NoData /\ Writable(a, w.block)

\* mutant: the locks are looked at when the first write comes, not here
ProgramUnchecked(a, w) ==
  [c \in Cells |->
     IF \E i \in 1 .. Len(w.data) : c = Cell(a, w.block, i - 1)
     THEN w.data[CHOOSE i \in 1 .. Len(w.data) : c = Cell(a, w.block, i - 1)] ELSE mem[c]]

\* program: flash afterwards
Program(a, w) ==
  [c \in Cells |->
     IF Writable(a, w.block) /\ \E i \in 1 .. Len(w.data) : c = Cell(a, w.block, i - 1)
     THEN w.data[CHOOSE i \in 1 .. Len(w.data) : c = Cell(a, w.block, i - 1)] ELSE mem[c]]

\* getSelectedBlocks, and checkBlockWritable for each
Erasable(a) ==
  {b \in arr[a].sel \union (IF arr[a].peas THEN {"S0"} ELSE {}) : Has(a, b) /\ Writable(a, b)}

\* erase: flash afterwards
Erase(a) ==
  [c \in Cells |-> IF \E b \in Erasable(a) : c \in BlockCells(a, b) THEN Erased ELSE mem[c]]

\* _handleEHV: the changed blocks are saved; PEAS, PGM and ERS are cleared
HighVoltage(a, op) ==
  LET w == arr[a].write
      changed == IF op.pgm THEN {b \in {w.block} : Writable(a, b)} ELSE Erasable(a)
      happens == w # NoWrite /\ (op.pgm \/ op.ers)
      done == [arr[a] EXCEPT !.pgm = FALSE, !.ers = FALSE, !.peas = FALSE]
  IN  IF happens
      THEN /\ mem' = IF op.pgm THEN Program(a, w) ELSE Erase(a)
           /\ saving' = Saves(a, changed)
           /\ arr' = [arr EXCEPT ![a] = [done EXCEPT !.write = NoWrite]]
           /\ wanted' = [wanted EXCEPT ![a] = {}]
           /\ unsaved' = unsaved \ Range(saving')
           /\ UNCHANGED phase
      ELSE arr' = [arr EXCEPT ![a] = done] /\ UNCHANGED <<mem, saving, phase, wanted, unsaved>>

\* a write to MCR
WriteMcr(a, op) ==
  /\ Idle
  /\ \/ op.ehv /\ Fails(a, op) /\ Off /\ UNCHANGED <<mem, saving, unsaved>>
     \/ op.ehv /\ ~Fails(a, op) /\ HighVoltage(a, op)
     \/ /\ ~op.ehv /\ arr' = [arr EXCEPT ![a].pgm = op.pgm, ![a].ers = op.ers]
        /\ UNCHANGED <<mem, saving, phase, wanted, unsaved>>
  /\ UNCHANGED <<file, fileLen>>

\* The firmware programs one block at a time: the buffer belongs to the block of the
\* first write, and a write to another block would go into it.
OneBlock(t) == LET w == arr[t.array].write IN w = NoWrite \/ w.block = t.block

\* FlashArray.write: the first write copies the block, or only names it for an erase
Write(w) ==
  LET t == Target(w.cell)
      a == t.array
      st == arr[a]
      ignored == ~Writable(a, t.block) /\ ~st.ers
      first == st.write = NoWrite /\ (st.pgm \/ st.ers)
      buf == IF ~first THEN st.write
             ELSE [block |-> t.block, data |-> IF st.pgm THEN Contents(a, t.block) ELSE NoData]
      peas == IF first /\ ~st.pgm THEN t.block = "S0" ELSE st.peas
  IN  /\ Idle /\ OneBlock(t)
      /\ IF ~ignored /\ st.pgm /\ buf.data = NoData
         THEN Off     \* the data of an erase is None
         ELSE LET data == IF ~ignored /\ st.pgm THEN [buf.data EXCEPT ![t.off + 1] = w.val] ELSE buf.data
              IN  /\ arr' = IF ignored THEN arr
                            ELSE [arr EXCEPT ![a].write = [buf EXCEPT !.data = data], ![a].peas = peas]
                  /\ wanted' = IF ignored \/ ~st.pgm THEN wanted
                               ELSE [wanted EXCEPT ![a] = {x \in @ : x[1] # w.cell} \union {<<w.cell, w.val>>}]
                  /\ UNCHANGED phase
      /\ UNCHANGED <<mem, file, fileLen, saving, unsaved>>

\* _flash_write in supervisor mode: straight into main flash, and not saved
DebugWrite(w) ==
  /\ Idle /\ w.cell < MainSize
  /\ mem' = [mem EXCEPT ![w.cell] = w.val]
  /\ unsaved' = unsaved \union {w.cell}
  /\ UNCHANGED <<arr, file, fileLen, saving, phase, wanted>>

-----------------------------------------------------------------------------
FlashNext ==
  \/ \E reset_backup \in BOOLEAN : Start(reset_backup)
  \/ SaveCell \/ Stop \/ Reset
  \/ \E w \in LockWrites : WriteLock(w)
  \/ \E a \in Arrays, blocks \in Selections : Select(a, blocks)
  \/ \E a \in Arrays, op \in Operations : WriteMcr(a, op)
  \/ \E w \in Writes : Write(w)
  \/ \E w \in DebugWrites : DebugWrite(w)

FlashSpec == FlashInit /\ [][FlashNext]_flashVars

-----------------------------------------------------------------------------
(* Properties.                                                             *)

\* The state has its types, and whatever the firmware does, in whatever order, a block
\* that is locked at the moment keeps its contents: the lock counts when the operation
\* starts, not when the write was accepted.
LockedNeverChange ==
  /\ []FlashTypeOK
  /\ [][mem' # mem /\ phase = "on" =>
          \A a \in Arrays, b \in Blocks :
            Has(a, b) /\ ~Writable(a, b) =>
              \A c \in BlockCells(a, b) : mem'[c] = mem[c] \/ c \in unsaved']_flashVars

\* Programming puts each written value at the address it was written to, also in a
\* block the arrays share, and changes no other cell; only a cell the debugger writes
\* can fall back to what it was when the block was copied.
ProgramLands ==
  [][\A a \in Arrays, op \in Operations :
       op.ehv /\ op.pgm /\ arr[a].write # NoWrite /\ arr'[a].write = NoWrite
         /\ phase' = "on" /\ Writable(a, arr[a].write.block) /\ WriteMcr(a, op) =>
       \A c \in Cells :
         IF \E v \in Vals : <<c, v>> \in wanted[a] THEN <<c, mem'[c]>> \in wanted[a]
         ELSE mem'[c] = mem[c] \/ \E w \in DebugWrites : w.cell = c]_flashVars

\* What was programmed or erased is there after a restart, also when the emulator was
\* stopped in the middle of anything: only the cells that it was just saving, and what
\* the debugger wrote, may be older.
FlashIsKept ==
  [][phase = "off" /\ fileLen = Size /\ Start(FALSE) =>
       \A c \in Cells : mem'[c] = mem[c] \/ c \in Range(saving) \/ c \in unsaved]_flashVars

=============================================================================

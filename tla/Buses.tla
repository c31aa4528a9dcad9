------------------------------- MODULE Buses --------------------------------
(***************************************************************************)
(* What an address means: the page tables of the main CPU (x1/memory.cpp), *)
(* the I/O bus with the graphic VRAM and its simultaneous access           *)
(* (x1/iobus.cpp), and the two boards that a program reads through three   *)
(* bytes of address (x1/emm.cpp, x1/cz8rb.cpp).                            *)
(*                                                                         *)
(* A VRAM address is a quarter of 16 KB and a cell of it; a byte of a      *)
(* board's address has ByteBase values.  The waits are left out, and so is *)
(* the debugger, which writes the same cells.                              *)
(***************************************************************************)
EXTENDS Integers, Sequences, FiniteSets

CONSTANTS
  LowPages,    \* pages of 4 KB below 8000h: 8
  Banks,       \* values written to 0B00h
  Cells, Inks, \* addresses in a quarter of VRAM, and what is drawn there
  ByteBase,    \* 256
  BoardBytes,  \* bytes written to the boards
  SavedCells,  \* bytes of the EMM that a state keeps: sizeof a pointer
  MaxBusOps    \* bound: accesses, resets, states

BusesAssumption ==
  /\ LowPages \in Nat \ {0} /\ Banks \subseteq 0..255 /\ Inks # {} /\ 0 \in Inks
  /\ ByteBase \in Nat \ {0} /\ BoardBytes \subseteq 0..(ByteBase - 1)
  /\ SavedCells \in Nat /\ MaxBusOps \in Nat

VARIABLES
  mem,     \* MEMORY, and what it tells the PIO's port B
  bus,     \* IOBUS, and port C of the PIO
  boards,  \* EMM, CZ8RB, the file of the EMM, and the program's account of them
  told,    \* the program's account of what it selected and drew
  busLog   \* the saved state, and how much has happened

busVars == <<mem, bus, boards, told, busLog>>

(* ------------------------------ the memory ----------------------------- *)
Pages == 0..(2 * LowPages - 1)
External(bank) == (bank \div 16) % 2 = 0

\* SET_BANK for the lower half.
Lower(map, area, page) == [p \in Pages |-> IF p < LowPages THEN <<area, page + p>> ELSE map[p]]

\* update_map, for what is selected now.
Mapped(m, romsel, bank, portB) ==
  LET first == LowPages * (bank % 16) IN
  [romsel |-> romsel, bank |-> bank, portB |-> portB,
   reads  |-> IF External(bank) THEN Lower(m.reads, "extram", first) ELSE Lower(m.reads, IF romsel THEN "rom" ELSE "ram", 0),
   writes |-> IF External(bank) THEN Lower(m.writes, "extram", first) ELSE Lower(m.writes, "ram", 0)]

\* The PIO's port B shows which one is selected, in bit 4.
PortBOf(rom) == IF rom THEN 0 ELSE 16
SelectRom(m, rom) == IF m.romsel = rom THEN m ELSE Mapped(m, rom, m.bank, PortBOf(rom))
SelectBank(m, bank) ==
  IF m.bank % 32 = bank % 32 THEN [m EXCEPT !.bank = bank] ELSE Mapped(m, m.romsel, bank, m.portB)

MemoryReset ==
  LET plain == [p \in Pages |-> <<"ram", p>>] IN
  [romsel |-> TRUE, bank |-> 16, portB |-> PortBOf(TRUE), reads |-> Lower(plain, "rom", 0), writes |-> plain]

(* ---------------------------- the I/O bus ------------------------------ *)
Primaries == {1, 2, 3}          \* blue, red, green: the quarter a plane is read at
Plane(page, colour) == colour - 1 + (IF page THEN 3 ELSE 0)
Offsets(page) == [c \in Primaries |-> Plane(page, c)]

\* A falling bit 5 of port C, which the PIO tells when the port changes, and
\* when it is first written.
WriteSignal(b, high) == [b EXCEPT !.mode = @ \/ (b.signal /\ ~high), !.signal = high]
WritePortC(b, high) ==
  IF b.high # high \/ b.first THEN WriteSignal([b EXCEPT !.high = high, !.first = FALSE], high) ELSE b

\* The planes that a write to a quarter reaches.
Reached(b, quarter) ==
  IF ~b.mode THEN {quarter} \cap Primaries ELSE IF quarter = 0 THEN Primaries ELSE Primaries \ {quarter}
WriteVram(b, quarter, cell, ink) ==
  [b EXCEPT !.vram = [k \in (0..5) \X Cells |->
     IF k[2] = cell /\ \E c \in Reached(b, quarter) : k[1] = b.ofs[c] THEN ink ELSE @[k]]]

\* A reset leaves the VRAM, and the PIO's latch, as they are.
BusReset(b) == [b EXCEPT !.mode = FALSE, !.signal = FALSE, !.ofs = Offsets(FALSE), !.first = TRUE]

(* ------------------------------ the boards ----------------------------- *)
EmmSize == ByteBase ^ 3
Digit(addr, n) == (addr \div ByteBase ^ n) % ByteBase
\* The address with its n-th byte replaced.
WithByte(addr, n, byte) == addr + (byte - Digit(addr, n)) * ByteBase ^ n

EmmWrite(e, port, byte) ==
  IF port < 3 THEN [e EXCEPT !.addr = WithByte(@, port, byte)]
  ELSE [e EXCEPT !.cells[e.addr] = byte, !.modified = @ \/ e.cells[e.addr] # byte,
                 !.addr = (@ + 1) % EmmSize]
EmmRead(e, port) == IF port = 3 THEN [e EXCEPT !.addr = (@ + 1) % EmmSize] ELSE e

\* release and initialize: EMM.ROM is taken before EMM.BIN, which is written.
PowerOff(e) == IF e.modified THEN [e EXCEPT !.bin = e.cells] ELSE e
Empty == [a \in 0..(EmmSize - 1) |-> 0]
BoardsReset(e) == [e EXCEPT !.addr = 0, !.board = 0, !.bytes = <<0, 0, 0>>, !.boardBytes = <<0, 0, 0>>]
PowerOn(e) == [BoardsReset(e) EXCEPT !.cells = IF e.rom THEN Empty ELSE e.bin, !.modified = FALSE]

\* The ports of the ROM board are in the other order, and nothing moves on.
BoardWrite(addr, port, byte) == IF port = 3 THEN addr ELSE WithByte(addr, 2 - port, byte)

(* --------------------------- the account of it ------------------------- *)
\* mode: bit 5 of port C fell since anything was read.
AccountOf(picture) ==
  [rom |-> TRUE, bank |-> 16, page |-> FALSE, mode |-> FALSE, high |-> FALSE, picture |-> picture]
NewAccount == AccountOf([k \in BOOLEAN \X Primaries \X Cells |-> 0])

\* What a program writes to bit 5 of port C.
Told(t, high) == [t EXCEPT !.high = high, !.mode = @ \/ (t.high /\ ~high)]

\* All planes at once, or all but the one of the quarter.
Draw(t, quarter, cell, ink) ==
  [t EXCEPT !.picture = [k \in DOMAIN @ |->
     IF k[1] = t.page /\ k[3] = cell /\ (t.mode # (k[2] = quarter)) THEN ink ELSE @[k]]]
\* The bytes of an address, the low one first.
Number(bytes) == bytes[1] + ByteBase * (bytes[2] + ByteBase * bytes[3])
Next3(bytes) ==
  LET low == (bytes[1] + 1) % ByteBase
      mid == IF low = 0 THEN (bytes[2] + 1) % ByteBase ELSE bytes[2]
      high == IF low = 0 /\ mid = 0 THEN (bytes[3] + 1) % ByteBase ELSE bytes[3]
  IN <<low, mid, high>>

(* ------------------------------- actions ------------------------------- *)
BusesInit ==
  /\ mem = MemoryReset /\ told = NewAccount /\ busLog = [saved |-> <<>>, ops |-> 0]
  /\ bus = [mode |-> FALSE, signal |-> FALSE, ofs |-> Offsets(FALSE), high |-> FALSE, first |-> TRUE,
            vram |-> [k \in (0..5) \X Cells |-> 0]]
  /\ \E rom \in BOOLEAN :
       boards = [addr |-> 0, cells |-> Empty, modified |-> FALSE, bin |-> Empty, rom |-> rom, board |-> 0,
                 bytes |-> <<0, 0, 0>>, meant |-> Empty, loaded |-> FALSE, boardBytes |-> <<0, 0, 0>>]

Step == busLog.ops < MaxBusOps /\ busLog' = [busLog EXCEPT !.ops = @ + 1]

\* A write in the first quarter is for a port only while the mode is off.
ToPort == Step /\ ~bus.mode
OutBank ==
  /\ ToPort /\ UNCHANGED <<bus, boards>>
  /\ \E bank \in Banks : mem' = SelectBank(mem, bank) /\ told' = [told EXCEPT !.bank = bank]
OutRom ==
  /\ ToPort /\ UNCHANGED <<bus, boards>>
  /\ \E rom \in BOOLEAN : mem' = SelectRom(mem, rom) /\ told' = [told EXCEPT !.rom = rom]
OutPage ==
  /\ ToPort /\ UNCHANGED <<mem, boards>>
  /\ \E page \in BOOLEAN : bus' = [bus EXCEPT !.ofs = Offsets(page)] /\ told' = [told EXCEPT !.page = page]
OutPortC ==
  /\ ToPort /\ UNCHANGED <<mem, boards>>
  /\ \E high \in BOOLEAN :
       /\ bus' = WritePortC(bus, high)
       /\ told' = Told(told, high)

OutVram ==
  /\ Step /\ UNCHANGED <<mem, boards>>
  /\ \E quarter \in 0..3, cell \in Cells, ink \in Inks :
       /\ quarter = 0 => bus.mode
       /\ bus' = WriteVram(bus, quarter, cell, ink) /\ told' = Draw(told, quarter, cell, ink)

\* Whatever is read ends the mode; a port 1Exxh selects the RAM as well.
AnyRead == Step /\ bus' = [bus EXCEPT !.mode = FALSE]
InByte == AnyRead /\ told' = [told EXCEPT !.mode = FALSE] /\ UNCHANGED <<mem, boards>>
InRom ==
  /\ AnyRead /\ mem' = SelectRom(mem, FALSE)
  /\ told' = [told EXCEPT !.mode = FALSE, !.rom = FALSE] /\ UNCHANGED boards

OutEmm ==
  /\ ToPort /\ UNCHANGED <<mem, bus, told>>
  /\ \E port \in 0..3, byte \in BoardBytes :
       LET wrote == EmmWrite(boards, port, byte) IN
       boards' = IF port < 3 THEN [wrote EXCEPT !.bytes[port + 1] = byte]
                 ELSE [wrote EXCEPT !.meant[Number(boards.bytes)] = byte, !.bytes = Next3(@)]
InEmm ==
  /\ AnyRead /\ told' = [told EXCEPT !.mode = FALSE] /\ UNCHANGED mem
  /\ \E port \in 0..3 :
       boards' = [EmmRead(boards, port) EXCEPT !.bytes = IF port = 3 THEN Next3(@) ELSE @]
OutBoard ==
  /\ ToPort /\ UNCHANGED <<mem, bus, told>>
  /\ \E port \in 0..3, byte \in BoardBytes :
       boards' = [boards EXCEPT !.board = BoardWrite(@, port, byte),
                                !.boardBytes = IF port = 3 THEN @ ELSE [@ EXCEPT ![3 - port] = byte]]

\* VM::reset.
ResetBuses ==
  /\ Step /\ mem' = MemoryReset /\ bus' = BusReset(bus) /\ boards' = BoardsReset(boards)
  /\ told' = AccountOf(told.picture)

\* The computer is switched off, and on again with its VRAM and VM made anew.
PowerCycle ==
  /\ Step /\ mem' = MemoryReset
  /\ bus' = [BusReset(bus) EXCEPT !.vram = [k \in (0..5) \X Cells |-> 0], !.high = FALSE]
  /\ boards' = PowerOn(PowerOff(boards)) /\ told' = NewAccount

SaveBuses ==
  /\ busLog.ops < MaxBusOps /\ busLog.saved = <<>>
  /\ busLog' = [ops |-> busLog.ops + 1, saved |-> <<[mem |-> mem, bus |-> bus, boards |-> boards, told |-> told]>>]
  /\ UNCHANGED <<mem, bus, boards, told>>

\* process_state, with the page tables made anew.
LoadBuses ==
  /\ Step /\ busLog.saved # <<>>
  /\ LET s == busLog.saved[1] IN
       /\ mem' = Mapped(mem, s.mem.romsel, s.mem.bank, s.mem.portB)
       /\ bus' = s.bus
       /\ boards' = [s.boards EXCEPT !.bin = boards.bin, !.loaded = TRUE,
                       !.cells = [a \in DOMAIN @ |-> IF a < SavedCells THEN @[a] ELSE boards.cells[a]]]
       /\ told' = s.told

BusesNext ==
  \/ OutBank \/ OutRom \/ OutPage \/ OutPortC \/ OutVram \/ InByte \/ InRom
  \/ OutEmm \/ InEmm \/ OutBoard \/ ResetBuses \/ PowerCycle \/ SaveBuses \/ LoadBuses

BusesSpec == BusesInit /\ [][BusesNext]_busVars

(* ----------------------------- properties ------------------------------ *)
\* The computer and the account keep their types.
BusesTypeOK ==
  /\ mem \in [romsel : BOOLEAN, bank : 0..255, portB : {0, 16},
              reads : [Pages -> {"rom", "ram", "extram"} \X Nat], writes : [Pages -> {"ram", "extram"} \X Nat]]
  /\ bus \in [mode : BOOLEAN, signal : BOOLEAN, high : BOOLEAN, first : BOOLEAN,
              ofs : [Primaries -> 0..5], vram : [(0..5) \X Cells -> Inks]]
  /\ {boards.addr, boards.board} \subseteq 0..(EmmSize - 1) /\ {boards.modified, boards.rom, boards.loaded} \subseteq BOOLEAN
  /\ {boards.cells, boards.bin, boards.meant} \subseteq [0..(EmmSize - 1) -> 0..(ByteBase - 1)]
  /\ told \in [rom : BOOLEAN, bank : 0..255, page : BOOLEAN, mode : BOOLEAN, high : BOOLEAN,
               picture : [BOOLEAN \X Primaries \X Cells -> Inks]]
  /\ busLog.ops \in 0..MaxBusOps

\* The page tables are those of the bank and the ROM the program last selected,
\* whatever was reset or loaded since: the external RAM hides both, a write under
\* the ROM goes to the RAM, nothing goes to the ROM, and port B shows which it is.
PagesAreTrue ==
  LET outer == told.bank % 32 < 16
      Page(p, rom) == IF p >= LowPages THEN <<"ram", p>>
                      ELSE IF outer THEN <<"extram", LowPages * (told.bank % 32) + p>>
                      ELSE IF rom THEN <<"rom", p>> ELSE <<"ram", p>>
  IN /\ mem.reads = [p \in Pages |-> Page(p, told.rom)]
     /\ mem.writes = [p \in Pages |-> Page(p, FALSE)]
     /\ mem.portB = PortBOf(told.rom)

\* What a program reads of either page of VRAM is what it drew there, in all the
\* planes that the simultaneous mode wrote at once; and the mode is on when bit 5
\* of port C fell and nothing was read since.
PictureIsTrue ==
  /\ bus.mode = told.mode
  /\ \A c \in Primaries, cell \in Cells : bus.vram[<<bus.ofs[c], cell>>] = told.picture[<<told.page, c, cell>>]

\* A board is read at the address whose bytes were written, moved on by each byte
\* of the EMM; and the EMM keeps what was written, also while it is switched off,
\* as long as no EMM.ROM is taken in its place and no state was loaded.
BoardsAreTrue ==
  /\ boards.addr = Number(boards.bytes) /\ boards.board = Number(boards.boardBytes)
  /\ ~boards.rom /\ ~boards.loaded => boards.cells = boards.meant

BusesAreTrue == PagesAreTrue /\ PictureIsTrue /\ BoardsAreTrue
=============================================================================

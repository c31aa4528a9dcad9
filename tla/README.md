# A verification model of BubiX1turboZ

BubiX1turboZ is an emulator of the Sharp X1turboZ: a C++ core (`src/core`), a C bridge
around it (`src/bridge`), and an application in Nim (`src/nim`) with an SDL window, native
menus and an emulation thread. This directory holds TLA+ modules for the application's threads, its
sound ring, keys, disks and saved states, for the event manager that is the clock of every device,
and for the devices of the machine: its processors, the interrupts and the bus between them, floppy
and hard disks, the tape, the printers, the sound chips, the display's timing and colours, its
memory and video memory. TLC checks each module on small instances; TLAPS proves the main
properties of thirteen of them for every value of the constants.

Paths below are relative to the repository's root, with `nim` for `src/nim/bubix1turboz.nim`,
`core/` for `src/core/`, `vm/` for `src/core/vm/` and `bridge` for `src/bridge/bubix1_api.cpp`.

## 1. Inventory

### 1.1 The parts and how they meet

    host (SDL, menus)                     audio device's thread
        |  events                               |  pull_sound
        v                                       v
    application's thread  --- VM lock ---  emulation thread
      (nim: main)             bridge         (nim: emulationLoop)
        |  bx1_* calls                          |  bx1_run_frame
        v                                       v
    EMU (core/emu.cpp) ---- OSD (core/sdl): keys, sound ring, screen
        |
        v
    VM (vm/x1/x1.cpp): EVENT --drives--> Z80, sub CPUs
        devices --register/cancel--> EVENT --event_callback--> devices
        CTC - SIO - DMA - PSUB (daisy chain) --interrupts--> Z80
        80C48 --P1/P2, 8255--> clock chip, tape, keys, main CPU
        FDC - DISK, SASI - disks, PIO - printer, CRTC - DISPLAY, OPM, AY

| Component | State | Operations | What makes it hard | What makes it correct |
|---|---|---|---|---|
| Application threads (nim, bridge, core/sdl/osd.cpp) | five atomic flags, the VM lock and its count of users, the pass the emulation thread is in | parking, Full Speed, pacing, drawing, quitting | interleavings, relaxed flags, an unfair mutex, a park that times out | one thread in the core; a parked machine belongs to the one who parked it; the window's thread is not starved; quitting ends, in order |
| Sound ring (core/sdl/osd_sound.cpp) | a ring of frames, muted | update, pull, mute, stop | producer works between two critical sections; mutes and pulls interleave | a queue; nothing of a machine that is gone; never silenced for good |
| Event manager, queue (vm/event.cpp) | 64 slots in a sorted list and a stack | register, cancel, fire, reset | callbacks register and cancel while the list is walked; devices keep slot numbers | a line of events in exact time; a cancel hits one's own event |
| Event manager, frame (vm/event.cpp) | clocks left of the frame, for event clock and CPU; the raster line | drive, clocks inside instructions, power change, reset | instructions overrun frames; speeds differ; sub CPUs follow | frames of exact length, with all their lines |
| Floppy media and states (nim, core/emu.cpp) | what menu, EMU and drive say is inserted; deferred inserts; a saved state | mount, eject, rebuild, save, load | four views of one fact; half a second between two of them; files that vanish | menu and EMU agree; a load restores the drives; the guest sees a swap |
| State files (savestate.nim, bridge) | a slot's file and the one beside it, the machine's devices | write and move, read, apply, take back | a crash between steps; short reads; a device that refuses after others took theirs | old state or new one; a load is all or nothing |
| Keyboard, auto key, romaji (nim, romajikana.nim, core/emu.cpp, core/sdl/osd_input.cpp) | key table, auto key phase and buffer, romaji and whose kana lock it is, sub CPU's modifiers | keys, focus, paste, stop, romaji on and off, NMI, reset, load | user, auto key and romaji press the same keys, with frames between the calls | merged modifiers, a Shift nobody takes away, a lock that goes back to its owner |
| Interrupts (vm/z80.cpp, z80ctc, z80sio, z80dma, x1/psub) | requests, services, copies of the enable lines, request bits, IFFs | raise, withdraw, acknowledge, EI, DI, RETI, RETN, reset | redundant copies; two walks of one chain; nesting | copies agree; an acknowledge finds who asked; a return ends its own service |
| Z80 and its listing (vm/z80.cpp) | registers, flags, clocks | every opcode of seven tables, interrupts | flags looked up in tables; clocks driven inside an instruction; the same opcodes decoded twice | flags of the arithmetic; clocks that are not driven twice; a listing in step; interrupts that nobody notices |
| Sub CPU (vm/mcs48.cpp, x1/sub.cpp, i8255.cpp, upd1990a.cpp) | registers, timer, banks; four handshake flags and who was told of them; time and a shift register | opcodes, interrupts, posts and takes, acknowledges, strobes and clock pulses | an interrupt in the other bank; a byte, its flag and its request that go different ways; a second that passes between two bits | one byte each way; asked just while it waits; no second lost |
| Sub CPU as a protocol (vm/x1/psub.cpp) | command phase, answer, key interrupt, key buffer | commands, keys, timers | command, answer and key vector share one byte | an answer belongs to the last command; a key is given once |
| CTC counters (vm/z80ctc.cpp) | count, constant, prescaler, an event | register protocol, reads, triggers | reads that move counters and re-register events | no zero early, late, missed or met twice |
| DMA (vm/z80dma.cpp) | registers, counters, status, bus | write groups, commands, read-back, three modes, search | waits, stops and interrupts in the middle of a block | each byte once; counts that are true; a CPU that is not held for good |
| Floppy controller (vm/mb8877.cpp, x1/floppy.cpp) | command, status, five events, position under the head, motor | 11 commands, registers, drive select, motor | events of replaced commands, lost data, head moves under a transfer | one event per purpose; each byte once; busy ends |
| Floppy images (vm/disk.cpp) | a buffer of tracks, a table, a work area; eight formats | open, read, write, format, trim, close, convert | what a formatted track leaves behind; formats that cannot hold what was written; packed files | a disk keeps what was written, and only that |
| Hard disks (vm/scsi_*.cpp, x1/sasi.cpp, harddisk.cpp) | bus phase, who is selected, buffers | edges of the bus, commands, disks changed | two parties step on each other's edges, inside each other's calls | the bus becomes free; data where they belong |
| Tape (vm/datarec.cpp, emu.cpp, x1/psub.cpp, x1/sub.cpp) | position, mode, gap search, a recording in a buffer | buttons, remote, commands, changed tapes, states | four parties start and stop it; formats cut or pack runs | the sub CPU knows what it does; a recording reads back |
| Printers (vm/mz1p17.cpp, prnfile.cpp) | a queue of bytes, line, sheet, settings | strobe, pause, about 60 commands | commands of every length; lines and pages that end by margins and pauses | a command ends with its last byte; each mark once |
| Sound chips (vm/ym2151.cpp, ay_3_891x.cpp, fmgen) | registers, timers, envelopes, keys | writes, status, frames of sound | what is prepared ahead of need; time told in pieces | timers in time; sound as the registers say |
| Display's timing (vm/hd46505.cpp, x1/display.cpp) | registers latched at a frame, lines, blank | writes, frames, lines, waits | rates, lines and edges kept in three places | a frame as programmed; waits that end |
| Sound's time (vm/event.cpp) | samples made, samples owed, realtime or not | sample events, touches, create, reset | a frame of sound is made ahead by devices that cannot wait, and by the rest at the end | in its buffer once, in order, and near the emulated time |
| Colours (x1/display.cpp, x1/iobus.cpp) | palette registers and memory, tables made of them | writes, frames, states | tables are prepared at writes, copied at frames, made again at loads; IOBUS has its own copy of the modes | a frame shows what was written last |
| Memory, I/O bus, EMM, ROM board (x1/memory.cpp, iobus.cpp, emm.cpp, cz8rb.cpp) | page tables, VRAM pages and the simultaneous mode, address registers | outputs, reads, resets, power, states | tables are remade only where something changed; a mode that any read ends; addresses in bytes that move on | an address means what was selected last |
| io decoding, mouse, MIDI, romaji table, disk sets, archives, menus, settings, screen, debugger, tests, packaging | | | data and pixels rather than order | |

`PROJECT.json` lists every component with its sources, and for those that have no module the reason.

### 1.2 How it runs

The application's thread pumps host events, handles menus, saves and loads states (with the machine
*parked*), asks for a picture, and sleeps. The emulation thread runs frames, paced by how full the
sound ring is, or flat out in Full Speed. Both call the core only through the bridge, whose
`VmGuard` takes OSD's recursive mutex and counts who holds it or waits for it. The device's thread
pulls sound out of the ring and takes only the ring's own mutex. Everything below the bridge is
single-threaded but for that: devices run inside `EVENT::drive`, or inside a bridge call between
two frames.

So the composition is by *grain*. EmuThreads shows that bridge calls and frames exclude each other
and that a parked machine is alone; this is what lets SoundRing treat update and mute as exclusive,
and FloppyMedia and KeyInput treat every bridge call and every frame as one step. EventList shows
what registering and firing promise a device (EventQueue), and every device's module takes its events
as EventQueue has them; EventFrame shows how much time a frame gives that queue. The devices compose
where they meet: DaisyChain has four devices and the CPU, FloppyUnit the controller and its drive
interface, ScsiBus both targets, the initiator and the ports, TapeDeck the deck, the sub CPU and
EMU, SubLink the two programs with 8255 and SUB, Crtc the CRTC with the event manager, DISPLAY and the
CPU's wait, DmaTransfer the DMA and the CPU that it stops.

### 1.3 Hazards

`PROJECT.json` lists them at their lines with the properties that would catch them. Two have none:
the bodies of a batch of events that follow a quit, and what stopping a paste leaves behind; section 8
says what is known of both.

## 2. The modules

| Module | Models | Run | Proofs |
|---|---|---|---|
| EmuThreads | the two threads, the VM lock, parking, shutdown | threads_* | EmuProofs |
| FloppyMedia | menus, EMU, drives, saved states | floppy_* | DiskProofs |
| KeyInput | host keys to the sub CPU's modifiers and kana lock | key_* | KeyInputProofs |
| Mb8877, FloppyUnit | the floppy controller; its drive interface, which implements it | fdc, fdc_restart | Mb8877Proofs |
| AudioQueue, SoundRing | what the core promises the audio device; OSD's ring, which implements it | devices: ring | DevicesProofs |
| SoundMix | when the devices' sound is made | devices: mix | DevicesProofs |
| EventQueue, EventList | what the event manager promises devices; slots and links, which implement it | devices: list | EventProofs |
| EventFrame | EVENT::drive | devices: frame | EventProofs |
| StateFile | a save-state slot | devices: file | DevicesProofs |
| CtcCounter | the CTC's counters | devices: ctc | DevicesProofs |
| Bytes, Z80 | bytes and bits; the Z80's instructions, its listing, and the programs and operands it runs on | devices: z80 | |
| Mcs48 | the same of the sub CPU | devices: mcs48 | |
| SubLink | the 80C48's port to the main CPU | devices: sublink | DevicesProofs |
| ClockChip | the uPD1990A and who shifts its bits | devices: clock | |
| Crtc | the CRTC, its frames, DISPLAY's lines, the CPU's wait | devices: crtc | |
| Palette | the turbo Z's palettes, priorities and modes | devices: palette | BoardProofs |
| Buses | page tables, the I/O bus and VRAM, both boards | devices: buses | BoardProofs |
| TapeImages | tape files and the signals made of them | devices: tapes | |
| Ym2151 | the sound board's timers | devices: opm | BoardProofs |
| Psg | the AY-3-8910 | devices: psg | |
| FmOperator | an operator of the YM2151 | devices: fm | BoardProofs |
| DaisyChain | the Z80's interrupts and its chain of devices | machines: chain | DaisyChainProofs |
| SubCpu | the sub CPU as PSUB, and a program that uses it | machines: psub | KeyInputProofs |
| ScsiBus | two SASI targets, the initiator, its ports | machines: scsi | DiskProofs |
| TapeDeck | the data recorder, its tapes, both sub CPUs' word on it | machines: tape | EmuProofs |
| DmaTransfer | the DMA controller and the CPU | machines: dma | DaisyChainProofs |
| DiskImage | a floppy image in memory and in its file | machines: disk, disk_reformat | |
| DiskFormats, LzHuf | images of other formats; a packed one | machines: convert, packed | |
| DiskTrack | where a track's sectors are | machines: layout | |
| Printer | both printers | machines: print | |
| MCDevices, MCMachines, MCFloppyUnit | instances for TLC | | |

Every definition that stands for code has its lines in `PROJECT.json` under `map`. Mutants (an
operator of the same parameters with a plausible bug, defined right before the definition it
changes, and commented "Mutant:") show that each property can be broken by the code.

MCDevices and MCMachines hold components that do not touch one another. A behaviour is one
component's, named by `device` or `machine` in its first state, and the variables of the others stay as
they are; so a run's state space is the sum of its components' and not their product. Their
constants are given in the cfg or, where they are structured, at the INSTANCE.

### 2.1 EmuThreads

`appPc` and `emuPc` are where the two threads are, `stage` how far each has got in its bridge call:
counted in `vm_lock_users`, holding the mutex, perhaps nested. Every load, store, exchange or mutex
operation the other thread can see is a step. A frame is one held call whose only result is whether
the ring has reached the pacing target (`ringFull`). `withMachineParked` is RequestPark, one of
ParkAcked / ParkQuit / ParkTimesOut, BodyCall and EndPark; the emulation thread's side is CheckPark,
AckPark, LeaveWait, Unpark. Full Speed's hand-over is YieldToUi / NobodyWaits / Wake. Shutting down is
JoinThread, CloseAudio, Destroy.

Nim's atomics are used with relaxed order. `StoreBuffers` gives each thread's store of the handshake a
one-entry buffer that drains at any later time, a subset of what relaxed order permits and what
ordinary processors do. `SleepHandsOver` is the code's own assumption about `delay(1)`: it outlasts
the wake-up of a thread that waits for the mutex.

### 2.2 SoundRing and AudioQueue

The indices, wrap-around and the two critical sections of `update_sound`, with pulls between them. A
frame is its number since the last mute. `mute_sound` (after a load) and `stop_sound` (before a
rebuild) are one action. `Queued` is the refinement mapping: the frames from head on, `count` of them.

### 2.3 EventList and EventQueue

EventList has the arrays of `event_t`, both links, the free stack, `event_clocks` and the devices'
`register_id` variables (`ids`). A *timer* is one event of one device. Operations on the links are
functions on a record of the links (`Insert`, `Unlink`, `Free`), because one call composes several:
setting a timer cancels and registers, a loop is popped and inserted, a reset cancels slot by slot.
Callbacks run with `calling` set, between two turns of the loop of `update_event`, and may arm and
disarm anything. EventQueue keeps due times in 1/Fraction of a clock, so the refinement says that
periodic events do not drift, that events of one clock keep their order, and that nothing is lost.

### 2.4 EventFrame

One frame of `drive`: StartFrame (the raster's first events and what the last frame owes), BeginOp,
DriveInOp (`update_event_in_op`), EndOp, SpendDone (with sub CPUs, four clocks at a time), CpuIdles,
EndFrame. `Raster` is EVENT_VLINE's callback, which registers the next line. The event clock counts
from the frame's start; `remain` and `cpuRemain` may end negative and are carried into the next frame.

### 2.5 FloppyMedia and StateFile

A disk is an image file and a bank. `menu` is what a drive's menu names, `path` and `wait` are EMU's
`floppy_disk_status`, `drive` is the DISK behind the controller. `Inserted` and `Ejected` are
`open_floppy_disk` and `close_floppy_disk`, `MediaAfterFrame` is `update_media`. A save is two steps
(the machine is captured while parked; the menus are written down after), a load is MountSaved,
AwaitInserts frame by frame, ApplyState (good blob or bad), LoadEnds. Files vanish at any time.

StateFile is the file that such a save writes: a file is its sections and how many of its parts are
written, and the program may stop after any of them. A load reads, checks the marker, gives every
device its part and, when one refuses, takes back what the others had (`RolledBack`).

### 2.6 KeyInput

`down` is OSD's `key_status`; `MergedOn` / `MergedOff` are the merging of left and right modifiers.
`KeyDown` and `KeyUp` are EMU's, with their three ways: romaji, auto key, direct. The auto key is a
`phase` per frame, the phases at which it does nothing left out. `setRomajiToKana` is the chain of
`OnOps` or `OffOps`, one bridge call each; the release of every key when the focus goes is a set of
calls too (`releasing`). The kana lock records who locked it (history), `loaded` that the sub CPU is
that of a saved state: the host's table and the guest then differ by design.

### 2.7 DaisyChain

The chain in the order of `x1.cpp`: the CTCs of the sound boards, SIO, DMA, the main CTC, the sub CPU's
interface. `Propagate` is `update_intr` and `set_intr_iei` down the chain: a device is updated when it
is called or its enable line changes, and keeps its copies otherwise. The request bits (`line`) are
set on the way; the walk of `get_intr_ack` (`Heard`) is separate and looks at requests and services,
not at copies. `stack` is the program: the handlers that have not returned. EI's delay is `afterEi`.

### 2.8 Mb8877 and FloppyUnit

`timer` holds, for each of the controller's event slots, the command type it was registered under,
which is what `event_callback` compares; how long an event takes is left out, so any one in line may be
next. `ProcessCmd` and its commands, the registers, `select_drive`, `Eject`, `Insert` and `Protect` are
the operations; `moved` is a ghost, the bytes that passed the data register. FloppyUnit adds the port
0FFCh and the motor, whose start and stop share one event. `UnitIsController` is the refinement by which
what is proved of the controller alone holds in the machine. `Overlaps` lets a program start a command
over an unfinished one of the same type.

### 2.9 The processors

Z80 and Mcs48 are functions of a machine record: decoders that compute from an opcode what the source's
jump tables enumerate, with the clocks of an instruction and those it drives itself. Each runs
them in three trials: every opcode (with a copy `twin` of the machine before it, and the
disassembler beside it), the arithmetic on operands against integers, and a program in which interrupts
come anywhere while its `twin` runs without.

### 2.10 The sub CPU's surroundings

SubCpu is the high-level PSUB that the X1turboZ uses: `Drive` every 400 us, one byte in (`ibf`) and one
out (`obf`), a program that sends a command with its parameters, reads its answer, and answers key
interrupts. SubLink is the low-level way: an 8255 in mode 2 with its five handshake pins, the strobe and
acknowledge that SUB makes of the main CPU's accesses, the PIO that is told the flags, and the request
that P26 lowers. Both programs are external: they look before they use the port. ClockChip is the time
a bit at a time (ClkRises, StbRises), with `Second` at any moment between two pulses and the calendar of
common.cpp.

### 2.11 CtcCounter, SoundMix, DmaTransfer, Ym2151

CtcCounter keeps, beside each counter, what a real one would have (`ideal`). DmaTransfer writes the
registers of one transfer byte by byte, as a program does, and moves a byte after each instruction of
the CPU, unless the bus is held; `Loop` is the loop of do_dma, whose rounds are one for each byte of a block
and one for a stop. `log` is a ghost: the bytes moved since LOAD, and how many in this go. Ym2151 is told of time in pieces (`update_count`), and `real` counts
by itself. SoundMix counts samples: `MixTick` is the sample event, which makes one at a time while a device
asks for realtime and otherwise only counts it as owed; `TouchSound` makes what is owed before a device's
sound changes, and `CreateSound` what a frame still lacks.

### 2.12 DiskImage, DiskFormats, LzHuf, DiskTrack

DiskImage is the buffer with its table; `truth` is what was written and formatted, and the file is what
`close` writes. What lies between a track's sectors and the next track in the table are its unstable
sectors' masks. DiskFormats makes images of described disks in every format (what a disk's dumper does:
external) and converts them; LzHuf packs (external) and unpacks; DiskTrack lays a track's fields out and
says when each passes the head. These modules' recursive operators, and their states, of which most are
results of one computation, keep them with TLC.

### 2.13 ScsiBus, TapeDeck, Printer

Signals are calls, so an edge is a function of the whole bus that goes on in the callee (`Fall`,
`RaiseAck`, `SetRemote`). The program follows the lines. A tape is a sequence of levels, a recording the
entries that the code writes, read back as `load_*_image` does. TapeImages has the loaders of all makers'
files, as functions from bytes to waves, and a reader that measures pulses as those computers' programs do. A printer's byte goes into a queue until
a command is complete; what it draws is a mark, that is on the line, then on the sheet, then filed.

### 2.14 Psg, FmOperator, Crtc

Psg and FmOperator have the registers and what is computed from them when they are written (levels,
periods, tables, rates), apart from the samples. Crtc has what the registers mean to three parties: the
CRTC's own counts (`crt`), the event manager's frame (`frame`), and DISPLAY (`screen`).

### 2.15 Palette and Buses

Palette keeps the registers, what `update_zpalette` and `update_pal` prepared of them, whether the frame's
first line has copied it (`uncopied`), IOBUS's copies of the modes, and a saved state with its own tables.
A colour is a digit for each of `Guns`; a palette number is the set of its bits.

Buses has MEMORY (`mem`: the page tables, what made them, what the PIO was told), IOBUS (`bus`: the six
quarters of VRAM, their offsets, the simultaneous mode and the level of port C that switches it on), and EMM
and CZ8RB (`boards`). `told` is the program's account of what it selected and drew, and the account of the
boards is beside them. A write to the first quarter of the ports is one to a port only while the mode is
off, and any read ends it.

## 3. Properties

Each is stated at its definition with the behaviour it is about. A property that a cfg names may be the
conjunction of several components' parts, one per device of the run; the parts are named here, too.

* **Threads.** LockIsHonest: one thread in the core (OneThreadInCore), and the counter that Full Speed
  reads tells whether someone *else* waits. ParkTakesEffect: an acknowledged body is alone, and at most
  one frame begins after the request. DestroyIsLast. Liveness: QuitEndsInDestroy, UiGetsTheLock,
  PictureIsDrawn.
* **Sound ring.** RingBound (under three chunks of the eight there is room for, so the branch that drops
  the oldest frame is never taken, and nothing stale is queued), IsAQueue. The code clears the mute
  before the early return for fear of a latch; as a mute also empties the ring, the early return is
  not taken right after a mute, so the order matters less than its comment says.
* **Event manager.** SlotsAreWhole (no slot is lost, and a device's slot number is its own), IsAnEventQueue;
  FramesAreExact; SubsKeepUp: the sub CPUs run the clocks that the CPU drives inside its instructions;
  OutputIsTrue (RasterIsWhole): a frame begins and ends with its own lines.
* **Sound's time.** SoundKeepsTime: a frame's sound is in its buffer once, in order, and within it, and is
  not behind the emulated time by more than the code allows itself, whoever touched what.
* **Floppy media.** DrivesRestored, NothingLandsLater, SwapIsSeen, DiskArrives.
* **Save slot.** CrashKeepsAState; LoadIsAllOrNothing.
* **Keys.** ModifiersHold, LockIsRomajis (romaji has its lock, and gives back none but its own),
  LockIsGivenBack.
* **Interrupts.** AcksAreTrue: enable lines and request bits are what the devices' states give, and an
  acknowledge they lead to finds who asked, though it walks another way. VectorNamesCause,
  ServiceIsNested, HandlersDoNotPile.
* **Floppy controller.** BusyHasAnEvent, EveryByteOnce, HeadArrives, CommandsEnd.
* **Counters and clocks.** TicksOnTime: the CTC's zeros (however often it is read); OutputIsTrue (Opm!TimersKeepTime, Rtc!ClockIsTrue): the YM2151's overflows
  and its interrupt (however seldom it is told of the time), and the clock chip's seconds (the time that was given and the whole seconds since then through ends of months and leap years; the bits
  that are read are those at the strobe; a second that passes between two bits is neither lost nor read).
* **Processors.** ProcessorsAreRight: an instruction drives no more clocks than it takes, and the listing goes
  on where it ends (TimeAndListing, ListingFollows); flags of the arithmetic, decimal adjustment
  (ArithmeticIsRight, SumsAreRight); a program ends as it does without interrupts, and each of them is handled
  once (InterruptsUnseen, Unseen).
* **Sub CPU.** ExchangesAreWhole (of PSUB: an answer belongs to its command, parameters land, keys and
  BREAK are held); ProcessorsAreRight (Link!SubLinkIsSafe: one byte each way, everyone who was told of a flag
  was told the truth, what a program saw is so when it acts, the main CPU is asked just while a byte
  waits that it is to be asked for).
* **Sound chips.** OutputIsTrue (Ay!SoundIsTrue, Fm!ToneIsRight: what was computed at a write is what
  the registers say, the envelope is where a real one would be, also when silence was skipped, an
  operator's key, rate, level and pitch; both descriptions of an algorithm agree); EnvelopesGoTheirWay
  (Fm!GoesItsWay: an envelope gets louder only in its attack).
* **Display.** OutputIsTrue (Screen!ScreenFollows: a frame has the lines and characters that the registers
  said, each is drawn once and when its characters are over, the bits that programs poll follow the
  raster, and a CPU that waits for the blank goes on). PaletteIsTrue: once a frame has begun, what it shows are the
  colours and priorities written last, in whatever mode, and IOBUS's copies of the modes are the display's.
* **Memory and VRAM.** ProcessorsAreRight (Bus!BusesAreTrue): the page tables are those of the bank and ROM
  selected last, also after a reset or a load that did not go through a write (PagesAreTrue); either page of
  VRAM reads as it was drawn, with all the planes that were written at once (PictureIsTrue); a board is read
  at the address its bytes say, and the EMM keeps what was written, switched off or not (BoardsAreTrue).
* **Hard disks.** ExchangesAreWhole: a target that has the bus waits for its own event or for an ACK that
  it will see (Scsi!NeverStuck); (Scsi!CommandIsWhole) a command arrives byte by byte, and what a good
  one read, wrote or listed is what the image holds.
* **DMA.** TransfersAreWhole: every byte once, in its place, and counters that are true. The CPU
  is held only by a transfer that goes on (Zdma!HeldByTheDma).
* **Tape.** TransfersAreWhole (Tape!Followed, Tape!RecordingIsWhole): the deck's event runs as its tape does, the sub CPU knows it, a recording reads
  back as it was sampled. OutputIsTrue (Images!TapeReadsBack): the bytes of every kind of tape file are found again.
* **Floppy images.** DiskIsKept: a sector reads back as it was written, from the buffer and from the file,
  and no other changed; a converted image is the disk it was made of, with the bits that vary; a packed
  one unpacks; the sectors' fields are where the controller waits.
* **Printers.** ExchangesAreWhole: a command ends with its last byte, each mark comes out once, on the
  paper; a backspace goes back as far as the character went; busy ends.

## 4. Runs

`tlc -workers 2 -config X.cfg M` in this directory, `M` as in the table.

| Run | Module, cfg | Bounds | Shows |
|---|---|---|---|
| threads_safety | EmuThreads, EmuThreadsSafety | passes of two frames, three events in a batch | safety over every interleaving, with parks that time out |
| threads_live | EmuThreads, EmuThreadsLive | one event in a batch | the three liveness properties, with store buffers |
| threads_stale_ack | EmuThreads, EmuThreadsStale | two events in a batch | *violation* of AckedBodyAlone with store buffers |
| floppy_media | FloppyMedia | 2 drives, 2 disks, deferral of 2 frames, guard of 3 | the four properties; states saved when settled |
| floppy_early_save | FloppyMedia, FloppyMediaEarly | the same, saves at any time | *violation* of DrivesRestored |
| key_input | KeyInput | a right Shift, the kana key, a cursor key; Return as text; a buffer of one | the three properties |
| key_focus | KeyInput, KeyInputFocus | one letter as key and as text | *violation* of NoStuckKey |
| fdc | MCFloppyUnit, Fdc | one drive, three tracks, sectors of two bytes, two commands, one upset (register, motor, disk, reset, late access) | the four properties, for programs that do not start over an unfinished command of the same type |
| fdc_restart | MCFloppyUnit, FdcRestart | two tracks, no upset, programs that do | *violation* of EveryByteOnce |
| machines | MCMachines, Machines | ten components, below | their properties |
| disk_reformat | MCMachines, DiskReformat | the disk, `Careful` off | *violation* of DiskIsKept |
| devices | MCDevices, Devices | seventeen components, below | their properties |

### Why the bounds are enough

* **EmuThreads.** Control is finite but for the number of frames in a pass (1000 and 2000 in the code)
  and of events in a batch. A guard of 1 lets a pass have a frame that goes on to another and one that
  ends it. Three events in a batch are a quit, and a park before and after it; two parks in one batch
  are what a stale acknowledgement takes. The threads interact through single-bit flags, so longer
  passes only repeat their steps.
* **FloppyMedia.** Two disks are a swap, two drives a load that waits for one and not the other. The
  deferral is two frames, so that something may happen in between, and the guard is one more.
* **KeyInput.** The right Shift meets the left one the auto key presses; the kana key meets romaji's;
  a cursor key is what romaji lets through; Return is the character with a phase of its own.
* **Mb8877.** Two commands are one replaced by another, or two in turn; a good and a damaged sector on a
  track and damaged ids on the others are the ends a search has; two bytes are one that is followed by
  another and one that is the last. The proofs have every size.

In the run *devices*:

* **ring.** A ring of four chunks is smaller than the code's eight, more than the three the bound
  needs, and wraps within a few steps; pulls are smaller, equal to and larger than a chunk. Sixteen
  numbers are twice the ring, so two frames of one number are never in it together.
* **list.** Three slots for three timers where the timer without a `register_id` may hold several:
  slots run out. Head, middle and tail of the list exist. A one-shot due at once (delay 0), a loop of a
  period and a half clock, steps of 1 and 3 clocks that fire none, one or several events. The view
  `InUse` identifies states that differ in what free slots were last used for.
* **frame.** One line, among which clocks divide evenly, and three, among which neither 4 nor 7
  do; a longest instruction longer than either frame, so that a frame may be used up by what was owed; both
  speeds change mid-run. `MaxDrift` bounds the CPU clocks a power change may carry over.
* **file.** Three devices: one that took its part, one that refuses, one that has not read; a stop after
  every part of a file.
* **ctc.** Prescalers of two and three and counts up to three keep what matters: several prescaler
  periods in a count, a count that ends in the middle of one, a constant of zero. A channel that feeds
  another, and one that counts clocks of half the system's rate.
* **z80, mcs48.** Every opcode of each table with an operand of each kind; the operands are those at which a
  digit, a sign or a carry changes; programs of the instructions at which an interrupt is delicate (block
  instructions, HALT, EI and RETI; the other memory and register bank).
* **opm.** A prescaler of three that a line of seven does not divide, timers of four and two counts, the
  largest piece that can be told of (eight) above both.
* **psg, fm.** Every shape of an envelope; fractions of a few bits, of which each carry is met; the ends of
  the envelope's table and the parameters that change a phase that is under way.
* **sublink.** Two bytes that can be told apart; every port, bit and mode that the 80C48's program sets.
* **clock.** Two seconds before the ends of February in leap years of both kinds and not, of short and
  long months and of the year; a time set on an ordinary year's end; two sessions, so that a read follows a set.
* **crtc.** Two programs (interlaced and not, even lines and an adjustment), two registers changed later, among
  them the display's width, its end, an odd number of lines and the display off.

* **mix.** A frame of two samples and room for three more, two devices of which either may ask for
  realtime, eight sample events and five calls in between: two and a half frames, with sound owed across
  the end of one. The runs whose times are strict and those whose are not are both begun.
* **palette.** Two guns (so a colour is one of four), palette bytes that differ in one gun, three writes and
  any number of frames, resets and states between them: a table that is prepared, a mode that lets
  another one through, a load over it.
* **tapes.** Files of no, one, two and three bytes among which both ends of a byte's range are; two programs,
  a file that ends too early, a header among the data; every wave of six samples at three heights.
* **buses.** One low page and one high one, three banks (an external one, the main one, and one that differs
  from it in the bits that do not matter), one cell, addresses of three bytes of two values; four accesses,
  which are a signal of two edges, a write in the mode and a read. The proofs have every number of them.

In the run *machines*:

* **chain.** A CTC channel, the devices before and after it, the special last device,
  two SIO causes of different rank (the error needs no enabling, reception is not cleared by the
  acknowledge). Two nested handlers with an NMI's on top are enough to end a service out of order.
  The four properties are proved for every number of channels and every depth.
* **psub.** A command with parameters, the one that sets the vector, one that asks for the key; a key,
  the one that is BREAK, and CTRL.
* **scsi.** Every kind of command on a disk that is there and one that is not; blocks of two bytes and
  buffers of two blocks, so that a transfer takes several; a disk changed at any time, or the bus reset while a command's bytes
  are sent.
* **tape.** A tape with a gap, one that cannot be opened; every format; a run that is cut, a buffer that is full.
* **dma.** Blocks of three bytes and of the longest length (0), each direction and mode, a search that
  stops; three goes.
* **disk.** Two disks in one file, one of them protected; an unstable sector, a track without data, a flat
  file; three operations between opening and closing.
* **convert, packed, layout.** Disks of every shape that a format can tell; a code of two characters with a
  window of four and counts that are halved after six, so that every branch of the tree's rebuilding is taken;
  tracks that fit, are too long and are empty, in drives of either kind.
* **print.** Every command and every two of them in turn, on a new sheet or among tall kanji; some bring the
  head to the end of the line or of the sheet; a pause and a loaded state at any byte.

Constants that are FALSE in the runs (`DiskFills`, `Careless`, `Overlaps`, `Abrupt`, `Resets`, `Restores`,
`LateWrites`) and those that are TRUE (`Prompt`, `Careful`, `SavesSettled`) exclude behaviour of the world or of programs for
which the code promises nothing or which section 7 or 8 describes; turned round, each makes TLC show it. With
`ReadOnly` turned round, for files that refuse to be written, machines passes too: a temporary image that
was made is not opened again there.

Components without actions of their own (AudioQueue, EventQueue, Bytes, the proof modules) have no run
of their own.

## 5. Fairness, and why the code justifies it

* **EmuThreads.** WF of the application's thread, the audio device's and the draining of store buffers:
  the host schedules both threads, the device keeps calling, and a store becomes visible. SF of
  EmuStep: the mutex is unfair, but the application's thread sleeps in every iteration in which it
  does not draw, so the emulation thread is not beaten to the mutex, or to a flag it waits for, for
  ever. SF of FullGoesOn: a Full Speed pass is bounded by time and does drive frames. SF of
  AudioReturns(TRUE): pulls do drain the ring. SF of EndPark: a body is a finite list of calls.
  `SleepHandsOver` is an assumption of threads_live, not of the safety runs; the code states it where
  it sleeps. PictureIsDrawn allows that a pass stands aside before it drew, which the code does.
* **FloppyMedia.** WF of RunFrame, and of the steps that finish what a save or a load has begun.
* **KeyInput.** WF of the auto key's frames, of the calls a click has begun, and of the releases; SF of
  StatusPoll, which waits for the application's thread to be between two other things, as it is in
  every iteration of its loop.
* **FloppyUnit.** WF of the controller's events, of the motor's event, and of a status read: events are in
  the event manager's line, which is exact (IsAnEventQueue), and a program that waits for a command to end
  polls its status, without which type 1 commands do not end. The processor is not assumed to move a single byte.
* The other modules have safety only. "A wait ends" is stated there as a bound: a CPU that waits for the
  blank does so for less than two frames, a busy printer has its event.

## 6. What is proved

TLAPS checks every leaf; nothing is assumed but the named assumptions on the constants, which the runs
evaluate. Each safety theorem is an inductive invariant `IInv`, with `Init => IInv`,
`IInv /\ [Next]_vars => IInv'`, and the property from `IInv`.

| Theorem | States | By |
|---|---|---|
| EmuProofs!TypeCorrect | types, for all bounds | TypeOK with LockInv |
| !LockIsCounted | LockIsHonest | LockInv: the owner is who is inside, each counter the sum of the threads' shares |
| !ShutdownOrder | DestroyIsLast | QuitInv: past each wait of the shutdown, what was waited for is so |
| !ParkingWorks | ParkTakesEffect, *if no store is delayed* | ParkInv: once acknowledged, the emulation thread can only go round from its wait to its wait |
| !TapeIsFollowed | Followed (of TransfersAreWhole) | Fit, between two steps; within one, Half (the event fits the motion), Fresh (a new tape is not at its end) and Closed (none is in) say how far the calls have come |
| DevicesProofs!RingIsBounded | RingBound | a chunk is begun below two chunks, and only pulls come in between |
| !RingIsAQueue | SoundRing implements AudioQueue | step by step, from lemmas on the arithmetic of indices |
| !CrashesKeepAState | CrashKeepsAState, *if no write falls short* | SaveInv, SlotInv: what a save carries from step to step is one machine of one moment |
| !LoadsAreAllOrNothing | LoadIsAllOrNothing, the same | the rollback's stream is the machine's, so applying it whole undoes any part of another |
| !CountersTickOnTime | TicksOnTime | the counters: with an event in line the clocks since it was registered are below its period, and `count`, less what the event will take, is what a real counter has left |
| !SoundIsOnTime | SoundKeepsTime | what is in the buffer, what is owed and what has been mixed make up the sample events so far; each touch, each change to realtime and each load moves samples from one to the other |
| !OneByteIsUnderWay | SubLinkIsSafe (of ProcessorsAreRight) | LinkInv: once the 80C48 has begun, each flag of port C says what is under way, whoever is wired to the port knows it, and P26 is as the byte that waits wants it; an acknowledge's fall tells SUB, which asks anew |
| EventProofs!ExactFrames | FramesAreExact | ClockInv: clock and remain make up the frame, or the clock is at its end |
| !SubsFollowTheCpu | SubsKeepUp | SubsInv: inside an instruction the lag is what it has driven, and nothing else is owed |
| !LinesMakeAFrame | RasterIsWhole (of OutputIsTrue) | RasterInv: in a frame the event in line is where the next line begins, a clock that a formula gives, and it is not due; so at the frame's end there is none |
| !EventsComeInOrder | IsAnEventQueue | ListInv again; each step is the line's, with the sequence along the fire list as the line |
| !NoSlotIsLost | SlotsAreWhole | the fire list is the image of a sequence without repetitions that is sorted by due time and linked both ways, the free stack of another; `Insert`, `Unlink` and `Free` are insertion, removal and push on these |
| BoardProofs!ColoursAreTrue | PaletteIsTrue | the prepared tables are those of the registers, in the display and in every saved state, and what a frame has begun with is what they show |
| !AddressesAreTrue | PagesAreTrue, PictureIsTrue (of ProcessorsAreRight) | the page tables are a function of what was selected, also in a saved state; the offsets are those of the page; a quarter of VRAM belongs to one page and colour |
| !TimersAreTrue | TimersKeepTime (of OutputIsTrue) | OpmInv: `real` is the chip's count less what it has not been told, or the period where it is due this very clock; so told, the chip knows what `real` does (ToldIsTrue) |
| !EnvelopesAreTrue | types, ToneIsRight (of OutputIsTrue), GoesItsWay (of EnvelopesGoTheirWay) | FmInv: besides what the properties say, SL lies in the table and a release's rate is not 0, `pitch` is that of the note, a phase that lasts has the table's end as its own; each phase that ShiftPhase passes over leaves what the next one needs |
| DiskProofs!LoadsAreSettled | types, menus name what EMU has, NothingLandsLater | LandsInTime: a pending insert has an empty drive, a menu that names it, and guard left |
| !SwapsAreSeen | SwapIsSeen | DisksAgree: what is in a drive is what EMU has for it, also inside a saved state |
| !DisksAreRestored | DrivesRestored, *when saves wait for inserts* | Restored: with nothing pending a disk EMU has a path for is in, so also in the blob and the state saved |
| !BusIsNeverStuck | NeverStuck, and who drives BSY in CommandIsWhole (of ExchangesAreWhole), *if the bus is not reset amid data* | ScsiInv: whoever has the bus is at one of five stages (its phase to come, REQ to come, REQ up, the host's ACK, the next byte), each of which has its event or is waited for; who has not is idle |
| KeyInputProofs!KeysAreMerged | types, ModifiersHold | the keys that reach `key_change` are never generic ones; only the auto key's phases touch its Shift |
| !AnswersComeWhole | SubCpu's part of ExchangesAreWhole, *if parameters are prompt* | InTurn: for each place where the program can be, how many bytes of its command have been taken, where the next one goes, and that what is offered and what is to come of the answer are the rest of `due` |
| !RomajiIsLocked | LockIsRomajis | where each of the calls of setRomajiToKana leaves lock, romaji and the auto key |
| DaisyChainProofs!ChainIsCurrent | AcksAreTrue | each device's copies are right *locally*; that they are right along the chain follows by the least device at which they would not be |
| !VectorIsRight | VectorNamesCause | whenever its bit is set the vector is what would be made now |
| !ServicesNest | ServiceIsNested | Ordered: a handler was interrupted only by a source before its own |
| !TransfersAreTrue | types, BytesLand, CountIsTrue and HeldByTheDma (of TransfersAreWhole), *for programs that keep apart and come to an end, if no reset comes while the CPU is held* | DmaInv: the ports are at the next byte, or at the one that was stopped at; the count is that of the go, less that byte; what was moved is the source's and lies in its cells, and every cell that is none of the target's is as it was |
| !HandlersAreSingle | HandlersDoNotPile | Quiet: while a handler runs interrupts are off, or EI was the last instruction |
| Mb8877Proofs!BusyMovesOn | BusyHasAnEvent, *unless commands overlap* | FlagInv, XferInv, IdleInv: which events are in line in which command, under which type |
| !BytesMoveOnce | EveryByteOnce, the same | XferInv: also index and count of a transfer, at each of its events |
| !HeadIsThere | HeadArrives, the same | SeekInv: while SEEKEND is in line the head is at its target |
| !UnitTypeCorrect | types, overlapping commands included | |
| !UnitIsController | FloppyUnit implements Mb8877 | the motor's and the port's steps are the controller's signals |

The invariants are needed because the properties are not inductive. AckedBodyAlone, for example, holds
in states where the emulation thread has an acknowledgement standing while it is on its way to a
frame; ParkInv excludes these states. NoSpuriousAck relates the bits to a walk that never reads them;
only through each device's own copies can a step be shown to keep it. A busy controller with its event
in line could have a second one of the same type left over from the command before; EventInv says that
it has not, and `~Overlaps` is where a program keeps to what that takes. And the sub CPU's `datap` points at
a parameter's place, an answer or a key's row in turn: AnswersAreWhole holds in states where a key would be
put amid a command, and InTurn says that then the sub CPU has something else to offer or is not asked.

`ParkingWorks` has `StoreBuffers = FALSE` among its hypotheses and threads_stale_ack shows why; the
controller's theorems have `~Overlaps`, and fdc_restart shows why; DisksAreRestored has `SavesSettled`, and
floppy_early_save shows why; StateFile's have `~DiskFills`, AnswersComeWhole has `Prompt` and BusIsNeverStuck has
`~Abrupt` (section 8). All other constants are arbitrary.

TransfersAreTrue has three hypotheses besides, of which the run's transfers evaluate two (MachinesAssumption):
`Apart`, the target's cells are apart from each other and from the source's, without which "where they belong"
has no meaning, as a later byte may overwrite an earlier one; `EndsInTime`, no automatic restart, and a match that
stops or is in byte mode, as otherwise the code ends disabled without giving the bus back (section 8.2); and
`~Resets`, for the same reason. The loop of do_dma runs inside one step. RoundsOf is the function of its rounds,
LoopOK what each keeps, and the induction over them goes by the least round that would
not keep it.

The refinement of EventList needs no induction over data. The walk along the links is a function on the
naturals, and a sequence of slots (the witness of `FireOK`) says what it returns; each operation on the
links is then an operation on that sequence (`Drop`, `Put`), and `Recs` maps it to EventQueue's line:
LineIs says that InLine is the sequence's image, FireOnceMaps to ResetMaps that each step is one of the
line's. That a loop does not drift is one identity, `(e + (a + p) \div f) * f + ((a + p) % f) = e * f + a + p`
(WholeAndRest); that a clock's events keep their order is that `Put` goes behind all that are due no later.

RasterIsWhole does take an induction, over the turns of update_event: SetInduction states it with a set in
the place of a predicate, so that the provers can instantiate it. That the lines' clocks add up to the frame
is a fact about cardinalities (LinesBegin): line l begins after l equal shares and the odd clocks of the
lines before it, and all odd clocks together are fewer than the frame has over. The same form serves
the tape: a search is a function of the samples it has passed (SearchRuns says that there is one), and what
it tells the sub CPU at each is kept (SearchPlays).

Only model-checked: liveness (TLAPS has no rule for it here); BoardsAreTrue (the bytes of an address are divisions by
powers of a symbolic base, beyond the provers); the modules of the processors and devices, of which many
compute by recursion or by folds over bits and bytes; the properties that runs show violated.

## 7. What the runs found

1. **A park may take the last park's acknowledgement for its own** (threads_stale_ack). The flags of
   `withMachineParked` are relaxed. If a park is requested right after another ended, `parked` may still
   be seen set, while the emulation thread does not see the new request and goes into a frame.
   The comment promises the body to be "the only thread driving the machine". Under sequential
   consistency the model, and the theorem ParkingWorks, say that the handshake is sound: it waits only
   until the emulation thread reads the flag again.
2. **A state saved half a second after a swap loses the disk** (floppy_early_save). The blob has the
   drive empty, the metadata have the disk; loading mounts the disk and then overwrites the drive.
3. **A key held when a paste starts stays down** (key_focus), after the focus is lost, too, although the
   focus handler's comment says it prevents just that.
4. **A command restarted over its own type skips a byte** (fdc_restart). `event_callback` tells an old
   command's events by their type, so an unfinished read's DRQ event serves the read that follows it.
5. **Formatting a track again makes the track before it unstable** (disk_reformat). The formatted track's
   old sectors stay in the buffer, behind the track before it in the table, where its unstable sectors'
   masks are looked for; trimming copies them along and closing writes them. The same calls on the
   real class enlarge the file.

## 8. What the models leave out, and what was seen while modelling

### 8.1 Application

* EmuThreads: the events that touch no shared state; what a park's body does besides calling the core.
  A quit in the middle of a batch lets later bodies of the same batch run unacknowledged, beside a
  frame, as ParkQuit models; AckedBodyAlone promises nothing for them, and the comment on
  `withMachineParked` does. A park that times out is the same.
* SoundRing: samples are numbers; recording.
* EventList: 64-bit wrap of the clocks (thousands of years), save and load of the slots.
* EventFrame: events other than the raster's, the split of one device's clocks from the CPU's.
* FloppyMedia: what is on a disk, write protection, recent lists; a file that comes back.
* StateFile: compression and metadata are data. `dump_vm_state` ignores short writes (bridge 677-688), so a
  full disk at the wrong moment leaves a blob that loads in part (`DiskFills`); the marker is looked at only
  after all devices have read.
* KeyInput: the romaji table, timings within the auto key's phases, joystick, mouse, key capture, caps
  lock. The marker 0xf2 that surrounds kana in the auto key's text reaches no device, so text pasted
  while the user has locked kana comes out as kana. `VM::key_down` ignores repeats. Pasting over a
  paste in flight, or with a modifier held, forgets the Shift or types with the modifier; a loaded
  state's kana lock leaves romaji on over a lock of the state's own. Stopping the auto key leaves its
  buffer (core/emu.cpp:1334): the rest of a stopped paste is typed by the next romaji character or cursor
  key, where romajikana.nim:34-35 says that it "costs the rest of the paste".

### 8.2 Processors and interrupts

* DaisyChain: the vector is taken to depend on status; loaded states are left out; handlers end by RETI,
  RETN, by RET for the sub CPU's, or by the SIO's own command; the sub CPU as MCS-48 is in SubLink. A CTC
  drops a request that arrives while its handler runs ("???" in the source): modelled, and not judged.
* Z80: the bookkeeping of `Z80::run`, the debugger's accesses, saved states. Undefined ED opcodes execute
  as the unprefixed instruction; clocks not driven when WAIT is raised inside an instruction are both
  returned and kept in `wait_icount`; `Z80::reset` clears neither wait nor BUSREQ.
* Mcs48: T0's clock output, saved states. A branch whose opcode ends a page goes to the next one while the
  listing shows its own page, and a jump without a11; cycles of an interrupt taken in `burn_cycles` are not
  counted; RET instead of RETR from a handler leaves interrupts off.
* SubCpu: key codes, saved states. A command without an answer that is sent between a posted vector and
  its acknowledge discards the key and leaves the request up; with a parameter later than 400 us (`Prompt`
  FALSE) a key's vector may be posted in the midst of a command (vm/x1/psub.cpp:337).
* SubLink: P1's port selection is folded in. Bytes that the main CPU writes after a reset before the 80C48 has
  set its mode are lost, and the PIO shows "byte ready"; the buffer registers survive `I8255::reset`;
  `SUB::reset` sets all of port C, so the first output with PC0 low ejects the cassette; any write of P2
  with P26 low raises the request again.
* ClockChip: the timing pulse, which is not connected. A time set in the first second is lost, as the first event takes
  the host's; "after all bits are read, lsb of second data can be read" (vm/upd1990a.cpp:96) does not
  hold: each pulse shifts DIN into bit 39, so the next bit is the first of those shifted in.
* CtcCounter: a time constant written while the event of the old one is registered makes zeros come in a
  burst or late (`Careless`).
* DmaTransfer: clocks, timing bytes, the pulse. A reset of the machine while the DMA holds the bus leaves
  BUSREQ up, and the CPU never runs again (`Resets`; vm/z80.cpp:2087-2110). Auto restart only zeroes the count,
  disables in single mode, never gives the bus back in continuous mode; a match in continuous mode
  without stop ends disabled with the bus held; a match at the last byte, then CONTINUE, is one byte short;
  commands other than six clear the stop, so the byte that matched is taken again; after CONTINUE and before
  any byte the count reads -1; `enalbe_after_reti` is not initialised by the reset.

### 8.3 Disks and tape

* Mb8877: the side, deleted marks, timing, the DMA's own accesses. After a force interrupt DRQ stays in the
  status, so a read of the data register makes a multi-sector command busy again; unknown bytes (C8, E8) make one
  single; the reset does not lower DRQ; LOSTDATA is forgotten at the next sector of a read; a completed write
  never clears a data CRC error; protection that changes in mid write leaves events tagged 0;
  an eject leaves busy with type 0; a motor that stops at LOST leaves the transfer waiting; stopped and
  started within its spin-up, the motor's event is cancelled and the drive is never READY.
* DiskImage: what other machines' builds compile. A flat image that was formatted with other ids, order,
  deleted or CRC marks, but as many sectors of the size, is written back flat and loses them (`Careful` FALSE);
  an image whose file refuses to be written goes to a temporary .d88 that holds a flat image's raw bytes (`ReadOnly`);
  images with a short header are trimmed with a table of 164, of which the last are track data.
* DiskFormats: special disks; speeds. TeleDisk's temporary file is made in one directory and reopened in
  another; its tracks are counted by records; the packed reader gives no bit once the last byte is in its buffer, so
  up to 16 are never decoded (packers pad); an ImageDisk's 500 kbps MFM is taken for double density and its 300
  kbps MFM for 2HD; a mixed layout gets one N for both densities; a .dsk with a wrong table and an unformatted
  track has its tracks shifted.
* ScsiBus: sector geometry, the table of specified commands, images in chunks, saved states. RST in or after data leaves a target's
  ACK flag up and the bus stuck until another RST (`Abrupt`; vm/scsi_host.cpp:78-84); reads and writes of a
  unit without a disk are GOOD and have no data; WRITE AND VERIFY is GOOD and writes nothing; a write
  past the end extends the image; INQUIRY's product and revision are the vendor's (534-567).
* TapeDeck, TapeImages: shaping of WAV samples, FM-7 images, mixer and relay noise. Nothing in the application opens the
  deck (the bridge does). PLAY while it records says STOP without stopping; "if machine already
  sets remote on, start playing now" (vm/x1/x1.cpp:880) does nothing with PSUB; t77 cuts runs of more than 0x7fff samples;
  a changed medium ends a recording; a reset does not.

### 8.4 Printers, sound, display

* Printer: dots and fonts. `ESC \ n1 n2` reads its first byte twice (vm/mz1p17.cpp:3113); condensed characters
  are 22 dots wide and BS goes 21; a hiragana among kanji is half as wide as its place; DC4 and `ESC (` without an
  end mark, and ESC I with no digits, keep the printer deaf until its queue is full; ESC c1 forgets its events
  instead of cancelling them; a loaded state drops line and sheet.
* Ym2151, Psg, FmOperator: samples, vibrato, noise's waves, the OPN's parts, saved states. A state loaded in a
  fresh application has the right ear's envelope at row 0 until register 13 is written (`Restores`; fmgen/psg.cpp:438); the
  noise is an octave low until register 6 is written (73-74); the envelope stands still while all is silent; OPM's
  reset lets go only channel 0's keys, and leaves `keyon_`, so the first key on another channel that was down is
  not heard; a level written in CSM mode waits for the next parameter; `CalcFB` returns the output before
  the one that `CalcFBL` returns.
* Crtc: pixels, the estimate of the character under the beam, HSYNC, the SY6845E. R5 and R9 written in the blank wait for another timing
  register (`LateWrites`), as does R8's interlace bit; a reset sets blank and sync without telling, nor does it tell the event
  manager its default lines; an access to fonts or palette while R8 turns the display off makes the CPU wait
  for a blank that does not come (vm/x1/display.cpp:530, 591, 648): the model's program does not do that.

### 8.5 Memory and I/O

* Buses: waits, access by the debugger, io decoding (tables). EMM saves with its state as many bytes of its
  memory as a pointer has (`sizeof(data_buffer)`, vm/x1/emm.cpp:106), so a loaded state keeps what the
  board held before; EMM.ROM, where there is one, is loaded before the EMM.BIN that the board writes
  when it goes (emm.cpp:24-30), so what was written is not seen again.
* Palette: the analog palette's access waits, text and PCG.

### 8.6 Components without a module

The SIO's FIFOs and baud rates (what it receives is any, in DaisyChain), the MCS-48
keyboard, mouse and MIDI (values passed on), the OSD's screen and console, the debugger (nothing opens it),
the remaining calls of the bridge, disk sets, archives and recent files (functions on names), menus, settings,
captions and tests. `PROJECT.json` has a reason for each.

## 9. What would come next

1. **Proofs**: the clock of ClockChip, the screen of Crtc, Psg's envelope.
2. **SioData** (vm/z80sio.cpp): FIFOs, sync, the receive causes that DaisyChain takes as given.
3. Once the code is changed, the runs that show a violation become parts of the passing ones: key_focus of
   key_input, disk_reformat of machines, fdc_restart of fdc.

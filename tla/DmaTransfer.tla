----------------------------- MODULE DmaTransfer -----------------------------
(***************************************************************************)
(* The DMA controller (vm/z80dma.cpp), built to move bytes after each      *)
(* instruction (SINGLE_MODE_DMA), the CPU that it stops (BUSREQ, run in    *)
(* vm/z80.cpp), a device whose ready line falls with the byte it gives or  *)
(* takes, and a program: it writes the registers of one transfer, byte by  *)
(* byte, loads, enables, reads the counters back, continues after a stop,  *)
(* and answers interrupts.                                                 *)
(*                                                                         *)
(* A 16-bit register is one byte here, and the ready lines are one.        *)
(***************************************************************************)
EXTENDS Integers, Sequences, FiniteSets

CONSTANTS
  Programs,   \* the transfers that the program may want
  All,        \* 65536: what a length of 0 stands for is one more
  Cells,      \* of the memory, from 0
  MaxBytes,   \* bound: bytes that the device has or takes
  MaxGoes,    \* bound: how often the program enables or continues
  Resets      \* the machine is reset while the CPU is held

DmaTransferAssumption ==
  /\ {All, Cells, MaxBytes, MaxGoes} \subseteq Nat \ {0} /\ Resets \in BOOLEAN
  /\ \A p \in Programs : /\ p.len \in 0..(All - 1) /\ p.a \in 0..(Cells - 1) /\ p.b \in 0..(Cells - 1)
                         /\ p.how \in [mode : {"transfer", "search", "both"}, from : {"a", "b"}]

VARIABLES
  dma,     \* Z80DMA
  ram,     \* memory; a cell holds what was last put there
  dev,     \* the device: [line, next, got]
  holds,   \* Z80::busreq
  program, \* where the program is, and which one it is
  log      \* the bytes that were moved since LOAD, and those of this go

dmaVars == <<dma, ram, dev, holds, program, log>>
State == [dma |-> dma, ram |-> ram, dev |-> dev, holds |-> holds, log |-> log]

(* ----------------------------- the registers --------------------------- *)
Registers == {"how", "a", "len", "portA", "portB", "stopOnMatch", "match", "mode", "b",
              "intOn", "vector", "restart", "readMask"}
\* The base byte of a group, and the bytes that its bits announce.
Groups ==
  [wr0 |-> [base |-> "how", follow |-> <<"a", "len">>], wr1 |-> [base |-> "portA", follow |-> <<>>],
   wr2 |-> [base |-> "portB", follow |-> <<>>], wr3 |-> [base |-> "stopOnMatch", follow |-> <<"match">>],
   wr4 |-> [base |-> "mode", follow |-> <<"b", "intOn">>], wr5 |-> [base |-> "restart", follow |-> <<>>]]

Reg(s, r) == s.dma.regs[r]
BlockLen(s) == IF Reg(s, "len") = 0 THEN All + 1 ELSE Reg(s, "len") + 1
NowReady(s) == s.dma.force \/ s.dev.line
AIsSource(s) == Reg(s, "how").from = "a"
Searches(s) == Reg(s, "how").mode \in {"search", "both"}
Transfers(s) == Reg(s, "how").mode \in {"transfer", "both"}

RequestIntr(s, level) ==
  IF s.dma.inService \/ ~s.dma.intEnable THEN s
  ELSE [s EXCEPT !.dma.req = TRUE, !.dma.vector = level]
ReadyIntr(s) == IF NowReady(s) /\ "rdy" \in Reg(s, "intOn") THEN RequestIntr(s, {"rdy"}) ELSE s

\* READ_MASK chooses; the count that follows a mask is one less.
ReadBuffer(s, less) ==
  LET all == <<s.dma.status, s.dma.up - less, s.dma.addrA, s.dma.addrB>>
      mask == Reg(s, "readMask")
      Chosen(i) == IF i \in mask THEN <<all[i]>> ELSE <<>>
  IN [s EXCEPT !.dma.rr = Chosen(1) \o Chosen(2) \o Chosen(3) \o Chosen(4), !.dma.rrAt = 1]

\* A byte that announces others; WR3 disables the
\* controller and its interrupts (the program leaves their bits 0).
WriteBase(s, g, value) ==
  LET r == Groups[g]
      m == [s EXCEPT !.dma.regs[r.base] = value, !.dma.follow = r.follow]
  IN IF g = "wr3" THEN ReadyIntr([m EXCEPT !.dma.enabled = FALSE, !.dma.intEnable = FALSE])
     ELSE IF g = "wr5" THEN ReadyIntr(m) ELSE m
WriteFollow(s, value) ==
  LET r == Head(s.dma.follow)
      m == [s EXCEPT !.dma.regs[r] = value, !.dma.follow = Tail(@)]
  IN IF r = "intOn" THEN ReadyIntr([m EXCEPT !.dma.follow = <<"vector">>])
     ELSE IF r = "readMask" THEN ReadBuffer(m, 1) ELSE m

Keep == {"continue", "readStatus", "initiateRead", "enable", "disable", "readMask"}
Command(s, c) ==
  LET m == [s EXCEPT !.dma.enabled = FALSE, !.dma.stop = (@ /\ c \in Keep)]
      ended == [m EXCEPT !.dma.status = "none"]
  IN CASE c = "load" -> [ended EXCEPT !.dma.force = FALSE, !.dma.addrA = Reg(s, "a"),
                                      !.dma.addrB = Reg(s, "b"), !.dma.up = 0,
                                      !.log.bytes = <<>>]
       [] c = "enable" -> [m EXCEPT !.dma.enabled = TRUE]
       [] c = "continue" -> [ended EXCEPT !.dma.enabled = TRUE,
                               !.dma.up = IF m.dma.stop /\ @ # m.dma.blockLen THEN -1 ELSE 0]
       [] c = "forceReady" -> ReadyIntr([m EXCEPT !.dma.force = TRUE])
       [] c = "enableInterrupts" -> ReadyIntr([m EXCEPT !.dma.intEnable = TRUE])
       [] c = "disableInterrupts" -> [m EXCEPT !.dma.intEnable = FALSE]
       [] c = "resetInterrupts" -> [m EXCEPT !.dma.intEnable = FALSE, !.dma.req = FALSE, !.dma.force = FALSE]
       [] c = "enableAfterReti" -> [m EXCEPT !.dma.afterReti = TRUE]
       [] c = "reset" -> [ended EXCEPT !.dma.force = FALSE, !.dma.afterReti = FALSE, !.dma.req = FALSE,
                                       !.dma.inService = FALSE, !.dma.intEnable = FALSE, !.dma.up = 0,
                                       !.dma.regs["restart"] = FALSE]
       [] c = "reinitialize" -> [ended EXCEPT !.dma.req = FALSE]
       [] c = "readStatus" -> ReadBuffer([m EXCEPT !.dma.regs["readMask"] = {1}], 0)
       [] c = "initiateRead" -> ReadBuffer(m, 0)
       [] c = "readMask" -> [m EXCEPT !.dma.follow = <<"readMask">>]
       [] OTHER -> m

(* ------------------------------- transfers ----------------------------- *)
RequestBus(s) == [s EXCEPT !.dma.master = TRUE, !.holds = TRUE]
ReleaseBus(s) == IF s.dma.master THEN [s EXCEPT !.dma.master = FALSE, !.holds = FALSE] ELSE s

Move(by) == IF by = "up" THEN 1 ELSE IF by = "down" THEN -1 ELSE 0
Wrap(n) == n % Cells
IncPorts(s) ==
  LET a == Wrap(s.dma.addrA + Move(Reg(s, "portA").by))
      b == Wrap(s.dma.addrB + Move(Reg(s, "portB").by))
      A == AIsSource(s) \/ Transfers(s)
      B == ~AIsSource(s) \/ Transfers(s)
  IN [s EXCEPT !.dma.addrA = IF A THEN a ELSE @, !.dma.addrB = IF B THEN b ELSE @]

\* One byte from the source to the destination; a device lets its line fall.
OneByte(s) ==
  LET from == IF AIsSource(s) THEN Reg(s, "portA") ELSE Reg(s, "portB")
      to   == IF AIsSource(s) THEN Reg(s, "portB") ELSE Reg(s, "portA")
      src  == IF AIsSource(s) THEN s.dma.addrA ELSE s.dma.addrB
      dst  == IF AIsSource(s) THEN s.dma.addrB ELSE s.dma.addrA
      byte == IF from.kind = "mem" THEN s.ram[src] ELSE s.dev.next
      read == IF from.kind = "mem" THEN s ELSE [s EXCEPT !.dev.line = FALSE, !.dev.next = @ + 1]
      put  == IF ~Transfers(s) THEN read
              ELSE IF to.kind = "mem" THEN [read EXCEPT !.ram[dst] = byte]
              ELSE [read EXCEPT !.dev.line = FALSE, !.dev.got = Append(@, byte)]
  IN [put EXCEPT !.log.bytes = Append(@, byte), !.log.go = @ + 1]

\* Mutant: the ports move on from a byte that will be stepped over later.
CountedTwice(s, found) ==
  LET m == [s EXCEPT !.dma.up = @ + 1]
  IN IF found \/ (Reg(s, "len") = 0 /\ ~NowReady(s))
     THEN IncPorts([m EXCEPT !.dma.up = IF @ < BlockLen(s) THEN @ - 1 ELSE @, !.dma.stop = TRUE])
     ELSE IncPorts(m)
\* A byte was moved: it is counted, unless it ends the go before its block does.
Counted(s, found) ==
  LET m == [s EXCEPT !.dma.up = @ + 1]
  IN IF found \/ (Reg(s, "len") = 0 /\ ~NowReady(s))
     THEN [m EXCEPT !.dma.up = IF @ < BlockLen(s) THEN @ - 1 ELSE @, !.dma.stop = TRUE]
     ELSE IncPorts(m)
\* After a stop the byte that was stopped at is stepped over first.
StepOver(s) == IncPorts([s EXCEPT !.dma.stop = FALSE, !.dma.up = IF @ < BlockLen(s) THEN @ + 1 ELSE @])

\* The loop of do_dma, of which the state is [state, found, occured, over]: a byte
\* is moved, or one that was stopped at is stepped over.  It ends before the bound
\* of the rounds: one for each byte of a block and one for a stop.
Moved(s, b, found) ==
  [state |-> Counted(IF Reg(s, "mode") = "byte" THEN ReleaseBus(b) ELSE b, found),
   found |-> found, occured |-> TRUE, over |-> FALSE]
Searched(s, b) == Moved(s, b, Searches(s) /\ b.log.bytes[Len(b.log.bytes)] = Reg(s, "match"))
Round(l) == IF l.state.dma.stop THEN [l EXCEPT !.state = StepOver(@)]
            ELSE Searched(l.state, OneByte(RequestBus(l.state)))
GoesOn(l) == /\ ~l.over /\ l.state.dma.enabled /\ NowReady(l.state)
             /\ l.state.dma.up < BlockLen(l.state) /\ ~l.found
After(round) == [round EXCEPT !.over = Reg(round.state, "mode") = "byte" \/ round.state.dma.stop]
Loop(l) ==
  LET after[i \in 0..(All + 2)] == IF i = 0 THEN l
                                   ELSE LET r == after[i - 1]
                                        IN IF GoesOn(r) THEN After(Round(r)) ELSE r
  IN after[All + 2]

Concluded(l) ==
  LET s == l.state
      n == BlockLen(s)
      whole == s.dma.up = n
      level == (IF whole /\ "eob" \in Reg(s, "intOn") THEN {"eob"} ELSE {})
               \union (IF l.found /\ "match" \in Reg(s, "intOn") THEN {"match"} ELSE {})
      again == Reg(s, "restart") /\ whole /\ ~s.dma.force
      r == IF again THEN [s EXCEPT !.dma.up = 0] ELSE s
      m == [r EXCEPT !.dma.enabled = FALSE,
                     !.dma.status = IF l.found /\ whole /\ ~again THEN "both"
                                    ELSE IF l.found THEN "match"
                                    ELSE IF again THEN "none" ELSE "eob"]
      lv == IF again THEN level \ {"eob"} ELSE level
  IN IF ~(l.occured /\ (whole \/ l.found)) THEN [state |-> s, finished |-> FALSE]
     ELSE [state |-> IF lv = {} THEN m ELSE RequestIntr(m, lv),
           finished |-> (whole /\ ~again) \/ (l.found /\ Reg(s, "stopOnMatch"))]

Left(e) ==
  LET mode == Reg(e.state, "mode")
  IN IF e.finished \/ mode = "byte" \/ (mode = "burst" /\ ~NowReady(e.state))
     THEN ReleaseBus(e.state) ELSE e.state
DoDma(s) ==
  IF ~s.dma.enabled \/ (s.dma.afterReti /\ s.dma.inService) THEN s
  ELSE Left(Concluded(Loop([state |-> [s EXCEPT !.dma.blockLen = BlockLen(s)], found |-> FALSE,
                            occured |-> FALSE, over |-> FALSE])))

(* ------------------------------ the program ---------------------------- *)
\* What is written for a transfer p, in order.
Script(p) ==
  << <<"command", "reset">>, <<"command", "resetInterrupts">>, <<"wr0", p.how>>, <<"byte", p.a>>, <<"byte", p.len>>, <<"wr1", p.portA>>, <<"wr2", p.portB>>,
     <<"wr3", p.stopOnMatch>>, <<"byte", p.match>>, <<"wr4", p.mode>>, <<"byte", p.b>>,
     <<"byte", p.intOn>>, <<"byte", "vec">>, <<"wr5", p.restart>>, <<"command", "load">> >>
  \o (IF p.force THEN << <<"command", "forceReady">> >> ELSE <<>>)
  \o (IF p.intOn # {} THEN << <<"command", "enableInterrupts">>, <<"command", "enableAfterReti">> >> ELSE <<>>)
  \o << <<"command", "enable">> >>

\* What a cell holds at first (a device gives 0, 1, 2...).
First == 100
NewDma == [regs |-> [r \in Registers |-> IF r \in {"intOn", "readMask"} THEN {}
                                          ELSE IF r \in {"portA", "portB"} THEN [kind |-> "mem", by |-> "down"]
                                          ELSE IF r = "how" THEN [mode |-> "none", from |-> "b"]
                                          ELSE IF r = "mode" THEN "byte"
                                          ELSE IF r \in {"stopOnMatch", "restart"} THEN FALSE ELSE 0],
           follow |-> <<>>, rr |-> <<>>, rrAt |-> 1, status |-> "none", enabled |-> FALSE, force |-> FALSE,
           afterReti |-> FALSE, intEnable |-> FALSE, addrA |-> 0, addrB |-> 0, up |-> 0, blockLen |-> 0,
           stop |-> FALSE, master |-> FALSE, req |-> FALSE, inService |-> FALSE, vector |-> {}]
DmaInit == /\ dma = NewDma /\ ram = [c \in 0..(Cells - 1) |-> First + c] /\ holds = FALSE
           /\ dev = [line |-> FALSE, next |-> 0, got |-> <<>>] /\ log = [bytes |-> <<>>, go |-> 0]
           /\ \E p \in Programs : program = [is |-> p, at |-> 1, goes |-> 1, handler |-> FALSE, read |-> <<>>]

\* An instruction of the program, unless the CPU is held; do_dma follows it.
Becomes(m) == dma' = m.dma /\ ram' = m.ram /\ dev' = m.dev /\ holds' = m.holds /\ log' = m.log
DmaInstruction(s, p) == ~holds /\ program' = p /\ Becomes(DoDma(s))
Running == program.at > Len(Script(program.is))

Written(s, w) == IF w[1] = "command" THEN Command(s, w[2])
                 ELSE IF w[1] = "byte" THEN WriteFollow(s, w[2]) ELSE WriteBase(s, w[1], w[2])
\* The controller is disabled until the last byte: the registers up to LOAD are
\* one step.
Setup == 15
WriteSetup ==
  /\ program.at = 1
  /\ LET written[i \in 0..Setup] == IF i = 0 THEN State ELSE Written(written[i - 1], Script(program.is)[i])
     IN DmaInstruction(written[Setup], [program EXCEPT !.at = Setup + 1])
WriteScript ==
  /\ ~Running /\ program.at > 1
  /\ DmaInstruction(Written(State, Script(program.is)[program.at]), [program EXCEPT !.at = @ + 1])
OtherInstruction == Running /\ dma.enabled /\ DmaInstruction(State, program)

\* An acknowledge disables the controller in the middle of its block.
EnableAgain == /\ Running /\ ~dma.enabled /\ dma.status = "none" /\ ~program.handler
               /\ DmaInstruction(Command(State, "enable"), program)

Idle == Running /\ ~dma.enabled /\ dma.status # "none" /\ dma.follow = <<>>
\* READ_MASK and its byte, or the buffer as it was chosen; then all of it.
ChooseRead ==
  /\ Idle /\ dma.rr = <<>>
  /\ DmaInstruction(Command(State, "readMask"), program)
WriteMask == Running /\ dma.follow # <<>> /\ DmaInstruction(WriteFollow(State, {1, 2, 3, 4}), program)
AskAgain == Idle /\ dma.rr # <<>> /\ program.read = <<>>
            /\ DmaInstruction(Command(State, "initiateRead"), [program EXCEPT !.read = <<"asked">>])
ReadIo8 ==
  /\ Idle /\ dma.rr # <<>> /\ program.read # <<>> /\ Len(program.read) <= 4
  /\ DmaInstruction([State EXCEPT !.dma.rrAt = IF @ = Len(dma.rr) THEN 1 ELSE @ + 1],
                    [program EXCEPT !.read = Append(@, dma.rr[dma.rrAt])])
\* A block whose last byte was a stop's counts that byte again.
Continue ==
  /\ Idle /\ program.goes < MaxGoes /\ Len(program.read) \in {0, 5}
  /\ dma.status \in {"eob", "match"}
  /\ DmaInstruction([Command(State, "continue") EXCEPT !.log.go = IF dma.stop /\ dma.up = dma.blockLen THEN 1 ELSE 0],
                    [program EXCEPT !.goes = @ + 1, !.read = <<>>])

\* The interrupt, and the handler's end.
DmaAcknowledge ==
  /\ Running /\ dma.req /\ ~dma.inService /\ ~program.handler
  /\ DmaInstruction([State EXCEPT !.dma.req = FALSE, !.dma.inService = TRUE, !.dma.enabled = FALSE],
                    [program EXCEPT !.handler = TRUE])
DmaReti == /\ program.handler
           /\ DmaInstruction([State EXCEPT !.dma.inService = FALSE, !.dma.afterReti = FALSE],
                             [program EXCEPT !.handler = FALSE])

(* ---------------------------- the surroundings ------------------------- *)
\* The CPU is held: run moves on, byte after byte.
Held ==
  /\ holds /\ UNCHANGED program
  /\ DoDma(State) # State /\ Becomes(DoDma(State))
\* write_signal: the line comes up (no transfer before the next instruction).
DeviceReady ==
  /\ ~dev.line /\ dev.next + Len(dev.got) < MaxBytes
  /\ LET s == [State EXCEPT !.dev.line = TRUE]
     IN dma' = (IF NowReady(State) THEN s ELSE ReadyIntr(s)).dma
  /\ dev' = [dev EXCEPT !.line = TRUE] /\ UNCHANGED <<ram, holds, program, log>>
\* VM::reset: neither the controller's reset nor the CPU's takes BUSREQ back.
MachineReset ==
  /\ ~Resets => ~holds
  /\ dma' = [NewDma EXCEPT !.regs = dma.regs, !.afterReti = dma.afterReti,
                           !.addrA = dma.addrA, !.addrB = dma.addrB]
  /\ program' = [program EXCEPT !.at = 1, !.handler = FALSE, !.read = <<>>]
  /\ program.at > 1
  /\ log' = [bytes |-> <<>>, go |-> 0] /\ dev' = [dev EXCEPT !.line = FALSE]
  /\ UNCHANGED <<ram, holds>>

DmaNext == \/ WriteSetup \/ WriteScript \/ OtherInstruction \/ EnableAgain \/ ChooseRead \/ WriteMask \/ AskAgain \/ ReadIo8
           \/ Continue \/ DmaAcknowledge \/ DmaReti \/ Held \/ DeviceReady \/ MachineReset
DmaSpec == DmaInit /\ [][DmaNext]_dmaVars

(* ------------------------------ properties ----------------------------- *)
DmaTypeOK ==
  /\ dma.addrA \in 0..(Cells - 1) /\ dma.addrB \in 0..(Cells - 1) /\ dma.up \in -1..(All + 1)
  /\ dma.blockLen \in 0..(All + 1) /\ dma.follow \in Seq(Registers) /\ DOMAIN dma.regs = Registers
  /\ dma.status \in {"none", "eob", "match", "both"} /\ dma.rrAt \in 1..4
  /\ {dma.enabled, dma.force, dma.afterReti, dma.intEnable, dma.stop, dma.master, dma.req,
      dma.inService, holds, dev.line, program.handler} \subseteq BOOLEAN

Source(p) == IF p.how.from = "a" THEN [port |-> p.portA, at |-> p.a] ELSE [port |-> p.portB, at |-> p.b]
Target(p) == IF p.how.from = "a" THEN [port |-> p.portB, at |-> p.b] ELSE [port |-> p.portA, at |-> p.a]
\* The cell of the i-th byte at an end of the transfer.
CellOf(end, i) == Wrap(end.at + (i - 1) * Move(end.port.by))
Count == Len(log.bytes)

\* The bytes that were moved are the source's, in order, and are where they
\* belong, whatever was waited for, searched, stopped, read back and continued.
BytesLand ==
  LET p == program.is
      from == Source(p)
      to == Target(p)
  IN program.at > Setup =>
       /\ \A i \in 1..Count :
            log.bytes[i] = IF from.port.kind = "mem" THEN First + CellOf(from, i)
                           ELSE log.bytes[1] + i - 1
       /\ p.how.mode # "search" =>
            \A i \in 1..Count :
              IF to.port.kind = "mem" THEN ram[CellOf(to, i)] = log.bytes[i]
              ELSE dev.got[Len(dev.got) - Count + i] = log.bytes[i]

\* A go that ended at the end of its block moved all of it; the counters that
\* the program reads back are those of the bytes that were moved, less the one
\* that a search stopped at.
CountIsTrue ==
  LET p == program.is
      stopped == IF dma.stop /\ dma.status = "match" THEN 1 ELSE 0
      last == IF dma.stop THEN Count ELSE Count + 1
  IN /\ Running /\ dma.status = "eob" => log.go = (IF p.len = 0 THEN All + 1 ELSE p.len + 1)
     /\ Len(program.read) = 5 =>
          SubSeq(program.read, 2, 5) =
            <<dma.status, log.go - stopped,
              IF p.how.from = "a" \/ p.how.mode # "search"
              THEN CellOf([port |-> p.portA, at |-> p.a], last) ELSE p.a,
              IF p.how.from = "b" \/ p.how.mode # "search"
              THEN CellOf([port |-> p.portB, at |-> p.b], last) ELSE p.b>>

\* The CPU is held only by a controller that goes on with its block, or waits
\* for its device to.
HeldByTheDma == holds => dma.master /\ dma.enabled

(* ------------- what a program asks for to get just that --------------- *)
LenOf(p) == IF p.len = 0 THEN All + 1 ELSE p.len + 1
\* How far a program that says "go" g times may come.
Most(p, g) == g * LenOf(p)
\* Its cells are apart: the target's from each other, and from the source's.
ToRam(p) == p.how.mode # "search" /\ Target(p).port.kind = "mem"
Apart(p) ==
  ToRam(p) =>
    \A i \in 1..Most(p, MaxGoes), j \in 1..Most(p, MaxGoes) :
      /\ i # j => CellOf(Target(p), i) # CellOf(Target(p), j)
      /\ Source(p).port.kind = "mem" => CellOf(Source(p), i) # CellOf(Target(p), j)
\* A transfer whose end gives the bus back: no automatic restart, and a byte that is
\* found stops it, unless it moves byte by byte anyhow.
EndsInTime(p) == ~p.restart /\ (p.stopOnMatch \/ p.mode = "byte" \/ p.how.mode = "transfer")
================================================================================

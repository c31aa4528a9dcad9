--------------------------------- MODULE Mcs48 ---------------------------------
(***************************************************************************)
(* The MCS-48 (vm/mcs48.cpp), which the sub CPU and the keyboard are: its  *)
(* instructions, interrupts, timer and counter.  The handlers of the       *)
(* opcode table are one decoder here: an opcode is a row and a column of   *)
(* it.  It is run on every opcode, on operands of its arithmetic, and on   *)
(* a program with interrupts of the line and of the counter anywhere in    *)
(* it; and so is its disassembler (MCS48::debug_dasm).                     *)
(*                                                                         *)
(* A machine m is a record: pc, a, psw, a11 (0 or 2048), ram and rom (the  *)
(* bytes that matter), p1, p2, timer, pre (the prescaler), hist (T1 at the *)
(* last poll), f1, level and irq (int_state, irq_state), busy              *)
(* (irq_in_progress), overflow and flag (timer_overflow, timer_flag), tirq *)
(* and xirq, count (timecount_enabled: 0, 1 the timer, 2 the counter), t1, *)
(* in (what every port reads), out (what was written to them), cyc (the    *)
(* cycles of the instruction).                                             *)
(***************************************************************************)
EXTENDS Bytes, Sequences, TLC

CONSTANTS MaxInterrupts, Operands

VARIABLES
  trial,  \* "op", "alu" or "irq"
  given,  \* the first operand, or the opcode
  cpu,    \* a machine of Mcs48
  twin,   \* the same one, without interrupts
  taken   \* how many times each line turned, and how many interrupts that is

C == 7  AC == 6  F0 == 5  BS == 4   \* the bits of psw
AfterReset ==
  [pc |-> 0, a |-> 0, psw |-> 8, a11 |-> 0, ram |-> <<>>, rom |-> <<>>, p1 |-> 255, p2 |-> 255,
   timer |-> 0, pre |-> 0, hist |-> 0, f1 |-> 0, level |-> 1, irq |-> FALSE, busy |-> FALSE,
   overflow |-> FALSE, flag |-> FALSE, tirq |-> FALSE, xirq |-> FALSE, count |-> 0,
   t1 |-> 1, in |-> 255, out |-> <<>>, cyc |-> 1]

Flag(m, n) == BitOf(m.psw, n)
SetFlag(m, n, on) == [m EXCEPT !.psw = @ - Flag(m, n) * 2^n + (IF on THEN 2^n ELSE 0)]
SetA(m, v) == [m EXCEPT !.a = Low(v)]
Two(m) == [m EXCEPT !.cyc = 2]

Rom(m, p) == LET a == p % 4096 IN IF a \in DOMAIN m.rom THEN m.rom[a] ELSE 0
Ram(m, p) == LET a == Low(p) IN IF a \in DOMAIN m.ram THEN m.ram[a] ELSE 0
SetRam(m, p, v) == [m EXCEPT !.ram = (Low(p) :> Low(v)) @@ @]
Bank(m) == 24 * Flag(m, BS)
Reg(m, n) == Ram(m, Bank(m) + n)
Arg(m) == Rom(m, m.pc)
Past(m) == [m EXCEPT !.pc = Word(@ + 1)]
Out(m, port, v) == [m EXCEPT !.out = Append(@, <<port, v>>)]

(* ------------------------- the stack and jumps ------------------------- *)
Push(m) ==
  LET sp == m.psw % 8
  IN [SetRam(SetRam(m, 8 + 2 * sp, m.pc), 9 + 2 * sp, ((m.pc \div 256) % 16) + 16 * (m.psw \div 16))
       EXCEPT !.psw = 8 * (@ \div 8) + ((sp + 1) % 8)]
Top(m) == LET sp == (m.psw - 1) % 8 IN Ram(m, 8 + 2 * sp) + 256 * Ram(m, 9 + 2 * sp)
PullPc(m) == [m EXCEPT !.pc = Top(m) % 4096, !.psw = 16 * (@ \div 16) + 8 + ((@ - 1) % 8)]
PullPcPsw(m) == [m EXCEPT !.pc = Top(m) % 4096, !.psw = 16 * (Top(m) \div 4096) + 8 + ((@ - 1) % 8)]

\* Mutant: a handler's jumps go to the bank that was selected.
JumpFromHandler(m, p) == [m EXCEPT !.pc = p + m.a11]
Jump(m, p) == [m EXCEPT !.pc = p + (IF m.busy THEN 0 ELSE m.a11)]
Call(m, p) == Jump(Push(m), p)
\* A branch stays in the page that its second byte is in.
Branch(m, go) ==
  Two(IF go THEN [m EXCEPT !.pc = 256 * ((@ \div 256) % 16) + Arg(m)] ELSE Past(m))

(* ----------------------- interrupts and the timer ---------------------- *)
CheckIrqs(m) ==
  IF m.busy THEN m
  ELSE IF m.irq /\ m.xirq THEN [Push(m) EXCEPT !.pc = 3, !.irq = FALSE, !.busy = TRUE]
  ELSE IF m.overflow /\ m.tirq THEN [Push(m) EXCEPT !.pc = 7, !.overflow = FALSE, !.busy = TRUE]
  ELSE m
\* en_i, en_tcnti and retr take the cycles of an interrupt that they let in.
Checked(m) == LET n == CheckIrqs(m) IN IF n.busy /\ ~m.busy THEN [n EXCEPT !.cyc = @ + 2] ELSE n

\* An overflow is kept for later only if its interrupt is enabled.
Overflowed(m) ==
  IF m.tirq THEN CheckIrqs([m EXCEPT !.flag = TRUE, !.overflow = TRUE]) ELSE [m EXCEPT !.flag = TRUE]
BurnCycles(m, n) ==
  LET timed   == [m EXCEPT !.pre = (@ + n) % 32, !.timer = Low(@ + (m.pre + n) \div 32)]
      edge    == n > 0 /\ m.hist = 1 /\ m.t1 = 0
      counted == [m EXCEPT !.hist = IF n > 0 THEN m.t1 ELSE @, !.timer = IF edge THEN Low(@ + 1) ELSE @]
  IN IF m.count = 1 THEN IF m.timer # 0 /\ timed.timer = 0 THEN Overflowed(timed) ELSE timed
     ELSE IF m.count = 2 THEN IF edge /\ counted.timer = 0 THEN Overflowed(counted) ELSE counted
     ELSE m

\* SIG_CPU_IRQ: a request is the line's fall.
WriteSignal(m, level) == [m EXCEPT !.level = level, !.irq = @ \/ (m.level = 1 /\ level = 0)]

(* --------------------------- instructions ------------------------------ *)
Add(m, d, c) ==
  SetA(SetFlag(SetFlag(m, AC, (m.a % 16) + (d % 16) + c > 15), C, m.a + d + c > 255), m.a + d + c)
Decimals(m) ==
  LET low == IF m.a % 16 > 9 \/ Flag(m, AC) = 1 THEN Low(m.a + 6) ELSE m.a
      up  == (low \div 16) > 9 \/ Flag(m, C) = 1 \/ (low # m.a /\ low < 16)
  IN SetFlag(SetA(m, IF up THEN low + 96 ELSE low), C, up)
RotateLeft(m, in) == SetA(m, 2 * m.a + in)
RotateRight(m, in) == SetA(m, m.a \div 2 + 128 * in)

\* Rows 4, 5, 6, 7, 13 and 15: A and an operand.
AluOp(m, row, v) ==
  IF row = 4 THEN SetA(m, Or(m.a, v)) ELSE IF row = 5 THEN SetA(m, And(m.a, v))
  ELSE IF row = 6 THEN Add(m, v, 0) ELSE IF row = 7 THEN Add(m, v, Flag(m, C))
  ELSE IF row = 13 THEN SetA(m, Xor(m.a, v)) ELSE SetA(m, v)

\* An operand's place: @R0, @R1, or one of R0 to R7.
Place(m, column) == IF column < 2 THEN Reg(m, column) ELSE Bank(m) + column - 8
Exchange(m, p) == SetRam(SetA(m, Ram(m, p)), p, m.a)
ExchangeDigit(m, p) ==
  LET v == Ram(m, p)
  IN SetRam(SetA(m, 16 * (m.a \div 16) + (v % 16)), p, 16 * (v \div 16) + (m.a % 16))
OnPlace(m, row, p) ==
  IF row \in {4, 5, 6, 7, 13, 15} THEN AluOp(m, row, Ram(m, p))
  ELSE IF row = 1 THEN SetRam(m, p, Ram(m, p) + 1) ELSE IF row = 2 THEN Exchange(m, p)
  ELSE IF row = 10 THEN SetRam(m, p, m.a) ELSE IF row = 11 THEN Two(SetRam(Past(m), p, Arg(m)))
  ELSE IF row = 12 THEN SetRam(m, p, Ram(m, p) - 1)
  ELSE LET v == Low(Ram(m, p) - 1) IN Branch(SetRam(m, p, v), v # 0)

Indirect(m, row, column) ==
  LET p == Reg(m, column)
  IN IF row = 3 THEN ExchangeDigit(m, p)
     ELSE IF row = 8 THEN Two(SetA(m, m.in)) ELSE IF row = 9 THEN Two(Out(m, p, m.a))
     ELSE OnPlace(m, row, p)

\* The latches of the ports, and the bus; an 8243 on the low half of P2.
ToPort(m, port, v) ==
  LET n == Two(Out(m, port, v))
  IN IF port = "p1" THEN [n EXCEPT !.p1 = v] ELSE IF port = "p2" THEN [n EXCEPT !.p2 = v] ELSE n
PortName(column) == <<"bus", "p1", "p2">>[column - 7]
Latched(m, port) == IF port = "p1" THEN m.p1 ELSE IF port = "p2" THEN m.p2 ELSE m.in
Expander(m, operation, port) ==
  LET asked == ToPort(m, "p2", 16 * (m.p2 \div 16) + 4 * operation + port)
  IN IF operation = 0 THEN SetA(asked, Or(m.in, 15))
     ELSE ToPort(asked, "p2", 16 * (m.p2 \div 16) + (m.a % 16))
Ports(m, row, column) ==
  IF column >= 12 THEN Expander(m, IF row = 0 THEN 0 ELSE IF row = 3 THEN 1 ELSE IF row = 8 THEN 2 ELSE 3,
                                column - 12)
  ELSE LET port == PortName(column)
       IN IF row = 0 THEN Two(SetA(m, IF port = "bus" THEN m.in ELSE And(m.in, Latched(m, port))))
          ELSE IF row = 3 THEN ToPort(m, port, m.a)
          ELSE IF row = 8 THEN ToPort(Past(m), port, Or(Latched(m, port), Arg(m)))
          ELSE ToPort(Past(m), port, And(Latched(m, port), Arg(m)))

\* Column 3: an operand in the program, returns, and what is read from it.
Column3(m, row) ==
  IF row \in {0, 1, 2, 4, 5, 13} THEN
    Two(AluOp(Past(m), IF row = 0 THEN 6 ELSE IF row = 1 THEN 7 ELSE IF row = 2 THEN 15 ELSE row, Arg(m)))
  ELSE IF row = 8 THEN Two(PullPc(m))
  ELSE IF row = 9 THEN Checked(Two([PullPcPsw(m) EXCEPT !.busy = FALSE]))
  ELSE LET page == 256 * ((m.pc \div 256) % 16)
       IN IF row = 10 THEN Two(SetA(m, Rom(m, page + m.a)))
          ELSE IF row = 11 THEN Two([m EXCEPT !.pc = page + Rom(m, page + m.a)])
          ELSE Two(SetA(m, Rom(m, 768 + m.a)))

Column5(m, row) ==
  IF row = 0 THEN Checked([m EXCEPT !.xirq = TRUE]) ELSE IF row = 1 THEN [m EXCEPT !.xirq = FALSE]
  ELSE IF row = 2 THEN Checked([m EXCEPT !.tirq = TRUE])
  ELSE IF row = 3 THEN [m EXCEPT !.tirq = FALSE, !.overflow = FALSE]
  ELSE IF row = 4 THEN [m EXCEPT !.count = 2, !.hist = m.t1]
  ELSE IF row = 5 THEN [m EXCEPT !.count = 1, !.pre = 0] ELSE IF row = 6 THEN [m EXCEPT !.count = 0]
  ELSE IF row = 8 THEN SetFlag(m, F0, FALSE) ELSE IF row = 9 THEN SetFlag(m, F0, Flag(m, F0) = 0)
  ELSE IF row = 10 THEN [m EXCEPT !.f1 = 0] ELSE IF row = 11 THEN [m EXCEPT !.f1 = 1 - @]
  ELSE IF row \in {12, 13} THEN SetFlag(m, BS, row = 13)
  ELSE IF row = 14 THEN [m EXCEPT !.a11 = 0] ELSE IF row = 15 THEN [m EXCEPT !.a11 = 2048] ELSE m

Conditions == {1, 2, 3, 4, 5, 7, 8, 9, 11, 12, 14, 15}
Condition(m, row) ==
  CASE row = 1 -> m.flag [] row = 2 -> FALSE [] row = 3 -> TRUE [] row = 4 -> m.t1 = 0 [] row = 5 -> m.t1 = 1
    [] row = 7 -> m.f1 = 1 [] row = 8 -> m.level = 0 [] row = 9 -> m.a # 0 [] row = 11 -> Flag(m, F0) = 1
    [] row = 12 -> m.a = 0 [] row = 14 -> Flag(m, C) = 0 [] row = 15 -> Flag(m, C) = 1
Column6(m, row) ==
  IF row \notin Conditions THEN m
  ELSE LET n == Branch(m, Condition(m, row)) IN IF row = 1 THEN [n EXCEPT !.flag = FALSE] ELSE n

Column7(m, row) ==
  IF row \in {0, 1} THEN SetA(m, m.a + (IF row = 0 THEN -1 ELSE 1)) ELSE IF row = 2 THEN SetA(m, 0)
  ELSE IF row = 3 THEN SetA(m, 255 - m.a) ELSE IF row = 4 THEN SetA(m, 16 * (m.a % 16) + m.a \div 16)
  ELSE IF row = 5 THEN Decimals(m)
  ELSE IF row = 6 THEN SetFlag(RotateRight(m, Flag(m, C)), C, m.a % 2 = 1)
  ELSE IF row = 7 THEN RotateRight(m, m.a % 2)
  ELSE IF row \in {9, 10} THEN SetFlag(m, C, row = 10 /\ Flag(m, C) = 0)
  ELSE IF row = 12 THEN SetA(m, m.psw) ELSE IF row = 13 THEN [m EXCEPT !.psw = m.a]
  ELSE IF row = 14 THEN RotateLeft(m, m.a \div 128)
  ELSE IF row = 15 THEN SetFlag(RotateLeft(m, Flag(m, C)), C, m.a > 127) ELSE m

Illegal == {1, 6, 11, 34, 51, 56, 59, 99, 102, 115, 130, 135, 139, 155, 162, 166, 183, 192, 193, 194, 195,
            214, 224, 225, 226, 243}
\* opcode_table, on a machine that is past the opcode.
Instruction(m, op) ==
  LET row == op \div 16  column == op % 16
  IN IF op \in Illegal \/ op = 0 THEN m
     ELSE IF column = 4 THEN LET p == Arg(m) + 256 * (row \div 2)
                             IN Two(IF row % 2 = 0 THEN Jump(Past(m), p) ELSE Call(Past(m), p))
     ELSE IF column = 2 /\ row % 2 = 1 THEN Branch(m, Is(m.a, row \div 2))
     ELSE IF op = 2 THEN ToPort(m, "bus", m.a)
     ELSE IF op = 66 THEN SetA(m, m.timer) ELSE IF op = 98 THEN [m EXCEPT !.timer = m.a]
     ELSE IF column = 3 THEN Column3(m, row) ELSE IF column = 5 THEN Column5(m, row)
     ELSE IF column = 6 THEN Column6(m, row) ELSE IF column = 7 THEN Column7(m, row)
     ELSE IF column < 2 THEN Indirect(m, row, column)
     ELSE IF row \in {0, 3, 8, 9} THEN Ports(m, row, column)
     ELSE OnPlace(m, row, Place(m, column))

\* run: what waits is answered, and one instruction executed.
Begun(m) == LET n == CheckIrqs(m) IN BurnCycles(n, IF n.busy /\ ~m.busy THEN 2 ELSE 0)
RunOne(m) ==
  LET b == Begun(m)  n == Instruction([Past(b) EXCEPT !.cyc = 1], Rom(b, b.pc)) IN BurnCycles(n, n.cyc)

mcsVars == <<trial, given, cpu, twin, taken>>

(* ---------------------------- disassembling ---------------------------- *)
\* debug_dasm: the opcodes whose line shows the byte after them.
Shown == {16 * r + 4 : r \in 0..15} \union {16 * r + 2 : r \in {1, 3, 5, 7, 9, 11, 13, 15}}
         \union {3, 19, 35, 67, 83, 211} \union {16 * r + 6 : r \in Conditions}
         \union (136..138) \union (152..154) \union {176, 177} \union (184..191) \union (232..239)
LineLength(op) == IF op \in Shown THEN 2 ELSE 1
\* And the ones that go elsewhere, perhaps.
Leaves == {16 * r + 4 : r \in 0..15} \union {131, 147, 179}
Branches == {16 * r + 2 : r \in {1, 3, 5, 7, 9, 11, 13, 15}} \union {16 * r + 6 : r \in Conditions} \union (232..239)

(* ------------------------------- machines ------------------------------ *)
Placed(at, bytes) == [a \in at..(at + Len(bytes) - 1) |-> bytes[a - at + 1]]

\* EN I; EN TCNTI; A to the timer; STRT CNT; SEL MB1; JMP 800
Start == <<5, 37, 35, 255, 98, 69, 245, 4, 0>>
(* 800: writing and reading cells, a loop, a subroutine, the other bank,   *)
(* decimal digits, interrupts off and on.                                  *)
Program == <<184, 32, 186, 2, 160, 16, 104, 234, 4,   \* MOV R0,#20; R2,#2; L: MOV @R0,A; INC @R0; ADD A,R0; DJNZ R2,L
             20, 64, 3, 39, 87, 57,                   \* CALL 840; ADD A,#27; DA; OUTL P1,A
             213, 169, 41, 197,                       \* SEL RB1; MOV R1,A; XCH A,R1; SEL RB0
             21, 5, 149, 118, 24, 4, 24>>             \* DIS I; EN I; CPL F0; JF1 818; JMP 818
Subroutine == <<149, 247, 43, 131>>                   \* CPL F0; RLC A; XCH A,R3; RET
(* The handlers save A in R7 of bank 1, count in R6 or R5, spoil the carry *)
(* and call a subroutine, all in bank 0; the counter's sets it anew, so    *)
(* that one more fall of T1 makes it overflow.                             *)
Handlers == Placed(3, <<4, 96>>) @@ Placed(7, <<4, 112>>)
            @@ Placed(96, <<213, 47, 30, 151, 20, 128, 47, 147>>)
            @@ Placed(112, <<213, 47, 29, 35, 255, 98, 167, 20, 128, 47, 147>>)
            @@ Placed(128, <<39, 131>>)
Loaded(bytes) == [AfterReset EXCEPT !.rom = Placed(256, bytes), !.pc = 256]
WithProgram ==
  [AfterReset EXCEPT !.rom = Placed(2048, Program) @@ Placed(2112, Subroutine) @@ Placed(9, Start) @@ Handlers,
                     !.pc = 9]

None == [int |-> 0, t1 |-> 0, asked |-> 0, counted |-> 0]
Init ==
  /\ taken = None
  /\ \/ /\ trial = "op" /\ given \in Byte
        /\ \E a \in {0, 255}, psw \in {8, 248} : cpu = [Loaded(<<given, 40, 131>>) EXCEPT !.a = a, !.psw = psw]
     \/ /\ trial = "alu" /\ given \in Byte /\ cpu = AfterReset
     \/ /\ trial = "irq" /\ given = 0 /\ cpu = WithProgram
  /\ twin = cpu

Execute == /\ trial = "op" /\ cpu = twin
           /\ cpu' = RunOne(cpu) /\ UNCHANGED <<trial, given, twin, taken>>

\* The twin has the same program and no interrupts.
Proceed ==
  LET n == RunOne(cpu)
  IN /\ trial = "irq" /\ cpu' = [n EXCEPT !.flag = FALSE]
     /\ twin' = IF cpu.busy \/ Begun(cpu).busy THEN twin ELSE RunOne(twin)
     /\ taken' = [taken EXCEPT !.counted = IF n.flag THEN @ + 1 ELSE @]
     /\ UNCHANGED <<trial, given>>

LineTurns ==
  /\ trial = "irq" /\ taken.int < 2 * MaxInterrupts - 1 /\ cpu.xirq
  /\ cpu' = WriteSignal(cpu, 1 - cpu.level)
  /\ taken' = [taken EXCEPT !.int = @ + 1, !.asked = IF cpu.level = 1 /\ ~cpu.irq THEN @ + 1 ELSE @]
  /\ UNCHANGED <<trial, given, twin>>

T1Turns ==
  /\ trial = "irq" /\ taken.t1 < 2 * MaxInterrupts - 1 /\ cpu.count = 2 /\ cpu.hist = cpu.t1
  /\ cpu' = [cpu EXCEPT !.t1 = 1 - @] /\ taken' = [taken EXCEPT !.t1 = @ + 1]
  /\ UNCHANGED <<trial, given, twin>>

Next == Execute \/ Proceed \/ LineTurns \/ T1Turns

(* ----------------------------- properties ------------------------------ *)
\* The listing goes on where the instruction ends; a branch ends there or in its page.
ListingFollows ==
  trial = "op" /\ cpu # twin /\ given \notin Leaves =>
    \/ cpu.pc = twin.pc + LineLength(given)
    \/ given \in Branches /\ cpu.pc = 256 + 40

\* The carries are those of the sum, and DA makes a decimal sum of it.
SumsAreRight ==
  trial = "alu" => \A b \in Operands, c \in {0, 1} :
    LET m == SetFlag(SetA(AfterReset, given), C, c = 1)
        n == AluOp(m, 7, b)
        d == Decimals(n)
        dec == Decimal(given) + Decimal(b) + c
    IN /\ n.a = Low(given + b + c) /\ Flag(n, C) = (given + b + c) \div 256
       /\ Flag(n, AC) = ((given % 16) + (b % 16) + c) \div 16
       /\ IsDecimal(given) /\ IsDecimal(b) =>
            IsDecimal(d.a) /\ Decimal(d.a) = dec % 100 /\ Flag(d, C) = dec \div 100

\* A program does not notice the interrupts, wherever they come, and each of
\* them is handled once.
SeenByProgram(m) ==
  <<m.a, m.psw, m.pc, m.a11, m.f1, m.out, [p \in (0..7) \union {25, 32} |-> Ram(m, p)]>>
EachHandled ==
  /\ Ram(cpu, 30) + (IF cpu.irq THEN 1 ELSE 0) = taken.asked
  /\ Ram(cpu, 29) + (IF cpu.overflow THEN 1 ELSE 0) = taken.counted
Unseen ==
  trial = "irq" => /\ Ram(cpu, 30) <= taken.asked /\ Ram(cpu, 29) <= taken.counted
                   /\ ~cpu.busy => SeenByProgram(cpu) = SeenByProgram(twin) /\ EachHandled

TypeOK ==
  /\ cpu.a \in Byte /\ cpu.psw \in Byte /\ cpu.timer \in Byte /\ cpu.pc \in 0..4096 /\ cpu.a11 \in {0, 2048}
  /\ \A p \in DOMAIN cpu.ram : p \in Byte /\ cpu.ram[p] \in Byte

Spec == Init /\ [][Next]_mcsVars
================================================================================

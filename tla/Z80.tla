---------------------------------- MODULE Z80 ----------------------------------
(***************************************************************************)
(* The Z80's instructions (vm/z80.cpp): what an instruction does to        *)
(* registers, flags and memory, which clocks it takes, and how many of     *)
(* them it drives itself while it runs, at its accesses (CLOCK_IN_OP).     *)
(* The opcode tables OP, OP_CB, OP_DD, OP_FD, OP_XY and OP_ED are one      *)
(* decoder here: an opcode is 64x + 8y + z, and the DD and FD tables are   *)
(* the main one with IX or IY in the place of HL.  They are run on opcodes *)
(* of every table, on operands of the arithmetic, and on a program with    *)
(* interrupts anywhere in it; and the disassembler (dasm and its tables)   *)
(* decodes the same opcodes for the debugger's listing a second time.      *)
(*                                                                         *)
(* A machine m is a record: regs (bytes by name), f (the set of flags      *)
(* that are on), sp, pc, wz, im, iff1, iff2, the after_* marks, alt (the   *)
(* second register set), mem (the bytes of memory that matter), clk and    *)
(* inOp, the clocks taken (-icount) and driven (in_op_icount), and the     *)
(* bytes fetched.                                                          *)
(***************************************************************************)
EXTENDS Bytes, Sequences, TLC

CONSTANTS MaxInterrupts, Operands

VARIABLES
  trial,  \* "op", "alu" or "irq"
  given,  \* the first operand, or the opcodes
  cpu,    \* a machine of Z80
  twin,   \* the same one, without interrupts
  taken   \* interrupts: how many, and whether one is being handled

(* ------------------------- the tables of flags ------------------------- *)
If(p, flag) == IF p THEN {flag} ELSE {}
YX(v) == If(Is(v, 5), "Y") \union If(Is(v, 3), "X")
SZ(v) == If(v = 0, "Z") \union If(v >= 128, "S") \union YX(v)
SZP(v) == SZ(v) \union If(Cardinality(Bits(v)) % 2 = 0, "P")
SZbit(v) == If(v >= 128, "S") \union (IF v = 0 THEN {"Z", "P"} ELSE {})
SZHVinc(v) == SZ(v) \union If(v = 128, "P") \union If(v % 16 = 0, "H")
SZHVdec(v) == SZ(v) \union If(v = 127, "P") \union If(v % 16 = 15, "H") \union {"N"}

\* SZHVC_add and SZHVC_sub, from the old value of A and the new one.
SZHVCadd(old, new, carry) ==
  LET val == Low(new - old - carry)
  IN SZ(new)
     \union If(IF carry = 1 THEN new % 16 <= old % 16 ELSE new % 16 < old % 16, "H")
     \union If(IF carry = 1 THEN new <= old ELSE new < old, "C")
     \union If(Is(val, 7) = Is(old, 7) /\ Is(val, 7) # Is(new, 7), "P")

SZHVCsub(old, new, carry) ==
  LET val == Low(old - new - carry)
  IN SZ(new) \union {"N"}
     \union If(IF carry = 1 THEN new % 16 >= old % 16 ELSE new % 16 > old % 16, "H")
     \union If(IF carry = 1 THEN new >= old ELSE new > old, "C")
     \union If(Is(val, 7) # Is(old, 7) /\ Is(old, 7) # Is(new, 7), "P")

(* ------------------------------ the clocks ----------------------------- *)
X(op) == op \div 64
Y(op) == (op \div 8) % 8
Z(op) == op % 8

\* cc_op, cc_xy, cc_cb, cc_xycb, cc_ed, and cc_ex where it is not 0.
ClocksOp(op) ==
  LET x == X(op)  y == Y(op)  z == Z(op)  m == IF y = 6 THEN 1 ELSE 0
  IN IF x = 0 THEN
       IF z = 0 THEN <<4, 4, 8, 12, 7, 7, 7, 7>>[y + 1]
       ELSE IF z = 1 THEN <<10, 11>>[(y % 2) + 1]
       ELSE IF z = 2 THEN <<7, 7, 7, 7, 16, 16, 13, 13>>[y + 1]
       ELSE <<6, 4 + 7 * m, 4 + 7 * m, 7 + 3 * m, 4>>[z - 2]
     ELSE IF x \in {1, 2} THEN
       IF op # 118 /\ (z = 6 \/ (x = 1 /\ y = 6)) THEN 7 ELSE 4
     ELSE IF z = 1 THEN <<10, 10, 10, 4, 10, 4, 10, 6>>[y + 1]
     ELSE IF z = 3 THEN <<10, 0, 11, 11, 19, 4, 4, 4>>[y + 1]
     ELSE IF z = 5 THEN <<11, 17, 11, 0, 11, 0, 11, 0>>[y + 1]
     ELSE <<5, 0, 10, 0, 10, 0, 7, 11>>[z + 1]

ClocksXY(op) ==
  LET x == X(op)  y == Y(op)  z == Z(op)  n == Y(op) \in {4, 5}
  IN IF x = 0 THEN
       IF z = 1 THEN (IF y % 2 = 1 THEN 15 ELSE IF y = 4 THEN 14 ELSE 4)
       ELSE IF n /\ z \in 2..6 THEN <<20, 10, 9, 9, 11>>[z - 1]
       ELSE IF y = 6 /\ z \in 4..6 THEN <<23, 23, 19>>[z - 3] ELSE 4
     ELSE IF x \in {1, 2} THEN
       IF op # 118 /\ (z = 6 \/ (x = 1 /\ y = 6)) THEN 19
       ELSE IF z \in {4, 5} \/ (x = 1 /\ n) THEN 9 ELSE 4
     ELSE IF op = 203 THEN 0
     ELSE IF op \in {225, 227, 229, 233, 249}
          THEN [o \in {225, 227, 229, 233, 249} |->
                  IF o = 225 THEN 14 ELSE IF o = 227 THEN 23 ELSE IF o = 229 THEN 15
                  ELSE IF o = 233 THEN 8 ELSE 10][op]
          ELSE 4

ClocksCB(op)   == IF Z(op) # 6 THEN 8 ELSE IF X(op) = 1 THEN 12 ELSE 15
ClocksXYCB(op) == IF X(op) = 1 THEN 20 ELSE 23
ClocksED(op)   ==
  IF X(op) = 1 THEN
    IF Z(op) = 7 THEN <<9, 9, 9, 9, 18, 18, 8, 8>>[Y(op) + 1]
    ELSE <<12, 12, 15, 20, 8, 14, 8>>[Z(op) + 1]
  ELSE IF X(op) = 2 /\ Y(op) >= 4 /\ Z(op) <= 3 THEN 16 ELSE 8

(* ------------------------ registers and memory ------------------------- *)
Pairs == [BC |-> <<"B", "C">>, DE |-> <<"D", "E">>, HL |-> <<"H", "L">>,
          IX |-> <<"HX", "LX">>, IY |-> <<"HY", "LY">>]

Reg(m, n) == m.regs[n]
SetReg(m, n, v) == [m EXCEPT !.regs[n] = v]
Pair(m, p) == IF p = "SP" THEN m.sp ELSE Reg(m, Pairs[p][1]) * 256 + Reg(m, Pairs[p][2])
SetPair(m, p, v) ==
  IF p = "SP" THEN [m EXCEPT !.sp = Word(v)]
  ELSE [m EXCEPT !.regs[Pairs[p][1]] = Word(v) \div 256, !.regs[Pairs[p][2]] = Low(v)]
A(m) == Reg(m, "A")
Flags(m, s) == [m EXCEPT !.f = s]
Kept(m, s) == m.f \cap s
Carry(m) == IF "C" \in m.f THEN 1 ELSE 0
ByteF(s) == LET w(x, v) == IF x \in s THEN v ELSE 0
            IN w("C", 1) + w("N", 2) + w("P", 4) + w("X", 8) + w("H", 16)
               + w("Y", 32) + w("Z", 64) + w("S", 128)
FByte(v) == {x \in {"C", "N", "P", "X", "H", "Y", "Z", "S"} : And(v, ByteF({x})) # 0}

\* Clocks: of the tables, and driven at accesses and internal cycles.
Takes(m, n) == [m EXCEPT !.clk = @ + n]
InOp(m, n)  == [m EXCEPT !.inOp = @ + n]

\* Memory that holds nothing of interest reads as 0.
Mem(m, a) == IF a \in DOMAIN m.mem THEN m.mem[a] ELSE 0
Mem16(m, a) == Mem(m, a) + 256 * Mem(m, Word(a + 1))
Read(m)   == InOp(m, 3)
Read16(m) == InOp(m, 6)
Write(m, a, v) ==
  InOp([m EXCEPT !.mem = [b \in DOMAIN @ \union {a} |-> IF b = a THEN v ELSE @[b]]], 3)
Write16(m, a, v) == Write(Write(m, a, Low(v)), Word(a + 1), v \div 256)

\* The byte and the word at pc, and the machine that has fetched them.
Imm(m) == Mem(m, m.pc)
Imm16(m) == Mem16(m, m.pc)
Fetched(m, n) == InOp([m EXCEPT !.pc = Word(@ + n), !.bytes = @ + n], 3 * n)
FetchedOp(m) ==
  InOp([m EXCEPT !.pc = Word(@ + 1), !.bytes = @ + 1, !.regs["R"] = Low(@ + 1)], 4)

WZ(m, v) == [m EXCEPT !.wz = Word(v)]
Jump(m, a) == [m EXCEPT !.pc = Word(a), !.wz = Word(a)]
Push(m, v) == Write16(InOp([m EXCEPT !.sp = Word(@ - 2)], 1), Word(m.sp - 2), v)
Top(m) == Mem16(m, m.sp)
Popped(m) == Read16([m EXCEPT !.sp = Word(@ + 2)])
AF(m) == A(m) * 256 + ByteF(m.f)
SetAF(m, v) == Flags(SetReg(m, "A", v \div 256), FByte(Low(v)))

(* ------------------------- arithmetic and logic ------------------------ *)
Inc(m, v) == <<Low(v + 1), Kept(m, {"C"}) \union SZHVinc(Low(v + 1))>>
Dec(m, v) == <<Low(v - 1), Kept(m, {"C"}) \union SZHVdec(Low(v - 1))>>

\* ADD, ADC, SUB, SBC, AND, XOR, OR, CP: the operation y on A and a value.
Alu(m, y, v) ==
  LET a == A(m)  c == IF y \in {1, 3} THEN Carry(m) ELSE 0
      result(r, s) == Flags(SetReg(m, "A", r), s)
  IN IF y \in {0, 1} THEN result(Low(a + v + c), SZHVCadd(a, Low(a + v + c), c))
     ELSE IF y \in {2, 3} THEN result(Low(a - v - c), SZHVCsub(a, Low(a - v - c), c))
     ELSE IF y = 4 THEN result(And(a, v), SZP(And(a, v)) \union {"H"})
     ELSE IF y = 5 THEN result(Xor(a, v), SZP(Xor(a, v)))
     ELSE IF y = 6 THEN result(Or(a, v), SZP(Or(a, v)))
     ELSE Flags(m, (SZHVCsub(a, Low(a - v), 0) \ {"Y", "X"}) \union YX(v))

\* NEG is 0 - A.
Neg(m) == Alu(SetReg(m, "A", 0), 2, A(m))

\* Mutant: the high digit is judged after the low one has been corrected.
DaaLate(m) ==
  LET a == A(m)  sign == IF "N" \in m.f THEN -1 ELSE 1
      low  == IF "H" \in m.f \/ a % 16 > 9 THEN 6 ELSE 0
      high == IF "C" \in m.f \/ Low(a + sign * low) > 153 THEN 96 ELSE 0
      r    == Low(a + sign * (low + high))
  IN Flags(SetReg(m, "A", r), Kept(m, {"C", "N"}) \union If(a > 153, "C")
             \union If(Is(a, 4) # Is(r, 4), "H") \union SZP(r))

Daa(m) ==
  LET a == A(m)  sign == IF "N" \in m.f THEN -1 ELSE 1
      low  == IF "H" \in m.f \/ a % 16 > 9 THEN 6 ELSE 0
      high == IF "C" \in m.f \/ a > 153 THEN 96 ELSE 0
      r    == Low(a + sign * (low + high))
  IN Flags(SetReg(m, "A", r), Kept(m, {"C", "N"}) \union If(a > 153, "C")
             \union If(Is(a, 4) # Is(r, 4), "H") \union SZP(r))

Add16(m, d, v) ==
  LET dr == Pair(m, d)  r == dr + v
  IN WZ(SetPair(Flags(m, Kept(m, {"S", "Z", "P"})
       \union If((BitOf(dr, 12) + BitOf(r, 12) + BitOf(v, 12)) % 2 = 1, "H")
       \union If(r > 65535, "C") \union YX(Word(r) \div 256)), d, r), dr + 1)

\* ADC HL and SBC HL.
Adc16(m, v) ==
  LET hl == Pair(m, "HL")  r == hl + v + Carry(m)
  IN WZ(SetPair(Flags(m,
       If((BitOf(hl, 12) + BitOf(r, 12) + BitOf(v, 12)) % 2 = 1, "H")
       \union If(r > 65535, "C") \union (SZ(Word(r) \div 256) \ {"Z"})
       \union If(Word(r) = 0, "Z")
       \union If(Is(v, 15) = Is(hl, 15) /\ Is(v, 15) # Is(r, 15), "P")), "HL", r), hl + 1)
Sbc16(m, v) ==
  LET hl == Pair(m, "HL")  r == hl - v - Carry(m)  w == Word(r)
  IN WZ(SetPair(Flags(m, {"N"}
       \union If((BitOf(hl, 12) + BitOf(w, 12) + BitOf(v, 12)) % 2 = 1, "H")
       \union If(r < 0, "C") \union (SZ(w \div 256) \ {"Z"}) \union If(w = 0, "Z")
       \union If(Is(v, 15) # Is(hl, 15) /\ Is(hl, 15) # Is(w, 15), "P")), "HL", r), hl + 1)

\* RLC, RRC, RL, RR, SLA, SRA, SLL, SRL: the result, and the bit that goes out.
Turned(m, y, v) ==
  LET left == Low(v * 2)  right == v \div 2
  IN <<left + v \div 128, right + 128 * (v % 2), left + Carry(m), right + 128 * Carry(m),
       left, right + 128 * (v \div 128), left + 1, right>>[y + 1]
Out(y, v) == IF y % 2 = 0 THEN Is(v, 7) ELSE Is(v, 0)
Rot(m, y, v) == <<Turned(m, y, v), SZP(Turned(m, y, v)) \union If(Out(y, v), "C")>>

\* RLCA, RRCA, RLA, RRA, DAA, CPL, SCF, CCF.
OnA(m, y) ==
  LET r == Turned(m, y, A(m))  yx == YX(A(m))  kept == Kept(m, {"S", "Z", "P"})
  IN IF y <= 3 THEN Flags(SetReg(m, "A", r), kept \union YX(r) \union If(Out(y, A(m)), "C"))
     ELSE IF y = 4 THEN Daa(m)
     ELSE IF y = 5 THEN Flags(SetReg(m, "A", 255 - A(m)),
                              Kept(m, {"S", "Z", "P", "C"}) \union {"H", "N"}
                              \union YX(255 - A(m)))
     ELSE IF y = 6 THEN Flags(m, kept \union Kept(m, {"Y", "X"}) \union {"C"} \union yx)
     ELSE Flags(m, kept \union Kept(m, {"Y", "X"}) \union yx
                   \union (IF "C" \in m.f THEN {"H"} ELSE {"C"}))

\* BIT b: Y and X come from the register, or from a byte of WZ or of the address.
BitTest(m, b, v, from) ==
  Flags(m, Kept(m, {"C"}) \union {"H"} \union SZbit(And(v, 2^b))
           \union YX(from))
Res(b, v) == FromBits(Bits(v) \ {b})
Set(b, v) == FromBits(Bits(v) \union {b})
Shifted(m, op, v) ==
  IF X(op) = 0 THEN Rot(m, Y(op), v)
  ELSE <<IF X(op) = 2 THEN Res(Y(op), v) ELSE Set(Y(op), v), m.f>>

(* ------------------------------ operands ------------------------------- *)
\* Which opcodes of the main table the DD and FD tables have for themselves.
OfIndex(op) ==
  LET hl == 4..6
  IN \/ X(op) = 0 /\ (op = 33 \/ (Z(op) = 1 /\ Y(op) % 2 = 1)
                      \/ (Y(op) \in {4, 5} /\ Z(op) \in 2..6) \/ (Y(op) = 6 /\ Z(op) \in hl))
     \/ X(op) = 1 /\ op # 118 /\ (Y(op) \in hl \/ Z(op) \in hl)
     \/ X(op) = 2 /\ Z(op) \in hl
     \/ op \in {203, 225, 227, 229, 233, 249}

\* The register k of an instruction that has HL, IX or IY for HL.
Name(ix, k) == <<"B", "C", "D", "E", Pairs[ix][1], Pairs[ix][2], "(HL)", "A">>[k + 1]
PairOf(ix, p) == <<"BC", "DE", ix, "SP">>[p + 1]

\* EAX and EAY, and the five clocks after them: the machine, and the address.
At(m, ix) ==
  IF ix = "HL" THEN <<m, Pair(m, "HL")>>
  ELSE LET ea == Word(Pair(m, ix) + Signed(Imm(m)))
       IN <<WZ(InOp(Fetched(m, 1), 5), ea), ea>>

\* Operand k, register or memory: the machine that has read it, and its value.
Get(m, ix, k) ==
  IF k # 6 THEN <<m, Reg(m, Name(ix, k))>>
  ELSE LET at == At(m, ix) IN <<Read(at[1]), Mem(m, at[2])>>

\* Read, change and write operand k: f gives the value and the flags.
Change(m, ix, k, f(_, _)) ==
  IF k # 6 THEN LET r == f(m, Reg(m, Name(ix, k)))
                IN Flags(SetReg(m, Name(ix, k), r[1]), r[2])
  ELSE LET at == At(m, ix)  r == f(m, Mem(m, at[2]))
       IN Write(InOp(Read(Flags(at[1], r[2])), 1), at[2], r[1])

Cond(m, k) == (<<"Z", "C", "P", "S">>[k \div 2 + 1] \in m.f) = (k % 2 = 1)

Jr(m) == LET n == Fetched(m, 1) IN Jump(n, n.pc + Signed(Imm(m)))
JrCond(m, c) == IF c THEN Takes(Jr(m), 5) ELSE Fetched(m, 1)
JpCond(m, c) ==
  IF c THEN Jump(Fetched(m, 2), Imm16(m)) ELSE WZ(Fetched(m, 2), Imm16(m))
Call(m) == LET n == Fetched(m, 2) IN Jump(Push(n, n.pc), Imm16(m))
CallCond(m, c) == IF c THEN Takes(Call(m), 7) ELSE WZ(Fetched(m, 2), Imm16(m))
Ret(m) == Jump(Popped(m), Top(m))
ExSp(m, p) == LET n == InOp(Read16(m), 1)
              IN WZ(SetPair(InOp(Write16(n, m.sp, Pair(m, p)), 2), p, Top(m)), Top(m))
ExAF(m) == SetAF([m EXCEPT !.alt[1] = AF(m)], m.alt[1])
Exx(m) == LET n == [m EXCEPT !.alt = <<@[1], Pair(m, "BC"), Pair(m, "DE"), Pair(m, "HL")>>]
          IN SetPair(SetPair(SetPair(n, "BC", m.alt[2]), "DE", m.alt[3]), "HL", m.alt[4])
ExDeHl(m) == SetPair(SetPair(m, "DE", Pair(m, "HL")), "HL", Pair(m, "DE"))

\* The port that is read gives the byte of the machine's field in.
PortIn(m)         == InOp(m, 4)
PortOut(m, at, v) == InOp([m EXCEPT !.out = <<at, v>>], 4)
\* WZ after a write of A: its low byte counts on, its high byte is A.
WZofA(m, a) == WZ(m, Low(a + 1) + 256 * A(m))

(* ----------------------------- block steps ----------------------------- *)
\* LDI, LDD
Ld1(m, d) ==
  LET io == Mem(m, Pair(m, "HL"))  s == Low(A(m) + io)
      n  == Write(Read(m), Pair(m, "DE"), io)
      bc == Word(Pair(m, "BC") - 1)
      q  == SetPair(SetPair(SetPair(n, "HL", Pair(m, "HL") + d), "DE", Pair(m, "DE") + d),
                    "BC", bc)
  IN InOp(Flags(q, Kept(m, {"S", "Z", "C"}) \union If(Is(s, 1), "Y")
                   \union If(Is(s, 3), "X") \union If(bc # 0, "P")), 2)

\* CPI, CPD
Cp1(m, d) ==
  LET v == Mem(m, Pair(m, "HL"))  r == Low(A(m) - v)  bc == Word(Pair(m, "BC") - 1)
      h == (BitOf(A(m), 4) + BitOf(v, 4) + BitOf(r, 4)) % 2
      n == WZ(Read(m), m.wz + d)
  IN InOp(Flags(SetPair(SetPair(n, "HL", Pair(m, "HL") + d), "BC", bc),
       Kept(m, {"C"}) \union (SZ(r) \ {"Y", "X"}) \union If(h = 1, "H") \union {"N"}
       \union If(Is(Low(r - h), 1), "Y") \union If(Is(Low(r - h), 3), "X")
       \union If(bc # 0, "P")), 5)

InOutFlags(b, io, t) ==
  SZ(b) \union If(io >= 128, "N") \union (IF t > 255 THEN {"H", "C"} ELSE {})
        \union (SZP(Xor(t % 8, b)) \cap {"P"})

\* INI, IND
In1(m, d) ==
  LET b == Low(Reg(m, "B") - 1)  hl == Pair(m, "HL")
      n == Write(SetReg(WZ(PortIn(InOp(m, 1)), Pair(m, "BC") + d), "B", b), hl, m.in)
  IN Flags(SetPair(n, "HL", hl + d), InOutFlags(b, m.in, Low(Reg(m, "C") + d) + m.in))

\* OUTI, OUTD
Out1(m, d) ==
  LET b == Low(Reg(m, "B") - 1)  hl == Pair(m, "HL")  io == Mem(m, hl)
      n == SetReg(Read(InOp(m, 1)), "B", b)
      q == SetPair(PortOut(WZ(n, Pair(n, "BC") + d), Pair(n, "BC"), io), "HL", hl + d)
  IN Flags(q, InOutFlags(b, io, Reg(q, "L") + io))

\* Whether a repeating instruction that has led from m to n repeats.
Again(m, n, z) ==
  IF z = 0 THEN Pair(n, "BC") # 0 ELSE IF z = 1 THEN Pair(n, "BC") # 0 /\ "Z" \notin n.f
  ELSE Reg(n, "B") # 0

\* It is fetched anew, so that interrupts come between its steps.
Repeated(m, n, y, z) ==
  IF y < 6 \/ ~Again(m, n, z) THEN n
  ELSE LET q == Takes([n EXCEPT !.pc = Word(@ - 2)], 5)
       IN IF z <= 1 THEN WZ(q, q.pc + 1) ELSE q
Block(m, y, z) ==
  LET d == IF y % 2 = 0 THEN 1 ELSE -1
  IN Repeated(m, IF z = 0 THEN Ld1(m, d) ELSE IF z = 1 THEN Cp1(m, d)
                 ELSE IF z = 2 THEN In1(m, d) ELSE Out1(m, d), y, z)

(* ----------------------------- instructions ---------------------------- *)
\* x = 0: jumps relative, pairs, loads by address, INC, DEC, immediate loads.
Op0(m, ix, op) ==
  LET y == Y(op)  z == Z(op)  pr == PairOf(ix, y \div 2)  w == Imm16(m)
      bcde == Pair(m, pr)
  IN IF z = 0 THEN
       IF y = 0 THEN m ELSE IF y = 1 THEN ExAF(m)
       ELSE IF y = 2 THEN LET b == Low(Reg(m, "B") - 1) IN JrCond(SetReg(m, "B", b), b # 0)
       ELSE IF y = 3 THEN Jr(m) ELSE JrCond(m, Cond(m, y - 4))
     ELSE IF z = 1 THEN
       IF y % 2 = 0 THEN SetPair(Fetched(m, 2), pr, w) ELSE Add16(m, ix, Pair(m, pr))
     ELSE IF z = 2 THEN
       IF y \in {0, 2} THEN WZofA(Write(m, bcde, A(m)), bcde)
       ELSE IF y \in {1, 3} THEN WZ(SetReg(Read(m), "A", Mem(m, bcde)), bcde + 1)
       ELSE IF y = 4 THEN WZ(Write16(Fetched(m, 2), w, Pair(m, ix)), w + 1)
       ELSE IF y = 5 THEN WZ(SetPair(Read16(Fetched(m, 2)), ix, Mem16(m, w)), w + 1)
       ELSE IF y = 6 THEN WZofA(Write(Fetched(m, 2), w, A(m)), w)
       ELSE WZ(SetReg(Read(Fetched(m, 2)), "A", Mem(m, w)), w + 1)
     ELSE IF z = 3 THEN SetPair(m, pr, Pair(m, pr) + (IF y % 2 = 0 THEN 1 ELSE -1))
     ELSE IF z = 4 THEN Change(m, ix, y, Inc)
     ELSE IF z = 5 THEN Change(m, ix, y, Dec)
     ELSE IF z = 6 THEN
       IF y # 6 THEN SetReg(Fetched(m, 1), Name(ix, y), Imm(m))
       ELSE IF ix = "HL" THEN Write(Fetched(m, 1), Pair(m, ix), Imm(m))
       ELSE LET ea == Word(Pair(m, ix) + Signed(Imm(m)))  n == WZ(Fetched(m, 1), ea)
            IN Write(InOp(Fetched(n, 1), 2), ea, Imm(n))
     ELSE OnA(m, y)

\* x = 1: loads between registers, and HALT.
Op1(m, ix, op) ==
  LET y == Y(op)  z == Z(op)
  IN IF op = 118 THEN [m EXCEPT !.pc = Word(@ - 1), !.halt = TRUE]
     ELSE IF y = 6 THEN LET at == At(m, ix) IN Write(at[1], at[2], Reg(m, Name("HL", z)))
     ELSE LET r == Get(m, ix, z)
          IN SetReg(r[1], Name(IF z = 6 THEN "HL" ELSE ix, y), r[2])

\* x = 3: conditional, stack, ports, exchanges, restarts.
Op3(m, ix, op) ==
  LET y == Y(op)  z == Z(op)  port == Imm(m) + 256 * A(m)
      pp == IF y = 6 THEN "AF" ELSE PairOf(ix, y \div 2)
  IN IF z = 0 THEN IF Cond(m, y) THEN Takes(Ret(m), 6) ELSE m
     ELSE IF z = 1 THEN
       IF op = 241 THEN SetAF(Popped(m), Top(m))
       ELSE IF y % 2 = 0 THEN SetPair(Popped(m), pp, Top(m))
       ELSE IF y = 1 THEN Ret(m) ELSE IF y = 3 THEN Exx(m)
       ELSE IF y = 5 THEN [m EXCEPT !.pc = Pair(m, ix)] ELSE SetPair(m, "SP", Pair(m, ix))
     ELSE IF z = 2 THEN JpCond(m, Cond(m, y))
     ELSE IF z = 3 THEN
       IF y = 0 THEN Jump(Fetched(m, 2), Imm16(m))
       ELSE IF y = 2 THEN WZofA(PortOut(Fetched(m, 1), port, A(m)), Imm(m))
       ELSE IF y = 3 THEN WZ(SetReg(PortIn(Fetched(m, 1)), "A", m.in), port + 1)
       ELSE IF y = 4 THEN ExSp(m, ix) ELSE IF y = 5 THEN ExDeHl(m)
       ELSE IF y = 6 THEN [m EXCEPT !.iff1 = 0, !.iff2 = 0, !.di = TRUE]
       ELSE [m EXCEPT !.iff1 = 1, !.iff2 = 1, !.ei = TRUE]
     ELSE IF z = 4 THEN CallCond(m, Cond(m, y))
     ELSE IF z = 5 THEN IF y = 1 THEN Call(m)
                        ELSE Push(m, IF y = 6 THEN AF(m) ELSE Pair(m, pp))
     ELSE IF z = 6 THEN Alu(Fetched(m, 1), y, Imm(m))
     ELSE Jump(Push(m, m.pc), 8 * y)

Op012(m, ix, op) ==
  IF X(op) = 0 THEN Op0(m, ix, op) ELSE IF X(op) = 1 THEN Op1(m, ix, op)
  ELSE LET r == Get(m, ix, Z(op)) IN Alu(r[1], Y(op), r[2])

\* OP_CB: a register or (HL); BIT of memory takes Y and X from WZ.
OpCB(m0, op) ==
  LET m == Takes(m0, ClocksCB(op))  r == Get(m, "HL", Z(op))
      f(n, v) == Shifted(n, op, v)
  IN IF X(op) # 1 THEN Change(m, "HL", Z(op), f)
     ELSE IF Z(op) = 6 THEN BitTest(InOp(r[1], 1), Y(op), r[2], m.wz \div 256)
     ELSE BitTest(m, Y(op), r[2], r[2])

\* OP_XY: memory at the address, and the result in a register as well.
OpXY(m0, ea, op) ==
  LET m == InOp(Read(Takes(m0, ClocksXYCB(op))), 1)  v == Mem(m, ea)
      s == Shifted(m, op, v)
      n == Write(Flags(m, s[2]), ea, s[1])
  IN IF X(op) = 1 THEN BitTest(m, Y(op), v, ea \div 256)
     ELSE IF Z(op) = 6 THEN n ELSE SetReg(n, Name("HL", Z(op)), s[1])

\* LD I,A; LD R,A; LD A,I; LD A,R; RRD; RLD
OpED7(m, y) ==
  LET fromIR(v) == [Flags(SetReg(m, "A", v),
                          Kept(m, {"C"}) \union SZ(v) \union If(m.iff2 = 1, "P"))
                      EXCEPT !.ldair = TRUE]
      hl == Pair(m, "HL")  n == Mem(m, hl)  a == A(m)
      digits(w, b) == LET q == Write(InOp(WZ(Read(m), hl + 1), 4), hl, w)
                      IN Flags(SetReg(q, "A", b), Kept(m, {"C"}) \union SZP(b))
  IN IF y = 0 THEN SetReg(m, "I", a)
     ELSE IF y = 1 THEN [SetReg(m, "R", a) EXCEPT !.r2 = a - (a % 128)]
     ELSE IF y = 2 THEN fromIR(Reg(m, "I"))
     ELSE IF y = 3 THEN fromIR((Reg(m, "R") % 128) + m.r2)
     ELSE IF y = 4 THEN digits(n \div 16 + Low(16 * a), a - (a % 16) + (n % 16))
     ELSE digits(Low(16 * n) + (a % 16), a - (a % 16) + n \div 16)

\* The opcodes OP_ED has; it runs every other one as if it had no prefix.
OfED(op) == \/ X(op) = 1 /\ op \notin {119, 127}
            \/ X(op) = 2 /\ Y(op) >= 4 /\ Z(op) <= 3

OpED(m, op) ==
  LET y == Y(op)  z == Z(op)  pr == PairOf("HL", y \div 2)  w == Imm16(m)
      bc == Pair(m, "BC")  n == Fetched(m, 2)
      got == Flags(PortIn(m), Kept(m, {"C"}) \union SZP(m.in))
      put == PortOut(m, bc, IF y = 6 THEN 0 ELSE Reg(m, Name("HL", y)))
      iff == [Ret(m) EXCEPT !.iff1 = m.iff2]
  IN IF X(op) = 2 THEN Block(m, y, z)
     ELSE IF z = 0 THEN IF y = 6 THEN got ELSE IF y = 7 THEN WZ(SetReg(got, "A", m.in), bc + 1)
                        ELSE SetReg(got, Name("HL", y), m.in)
     ELSE IF z = 1 THEN IF y = 7 THEN WZ(put, bc + 1) ELSE put
     ELSE IF z = 2 THEN IF y % 2 = 0 THEN Sbc16(m, Pair(m, pr)) ELSE Adc16(m, Pair(m, pr))
     ELSE IF z = 3 THEN WZ(IF y % 2 = 0 THEN Write16(n, w, Pair(m, pr))
                           ELSE SetPair(Read16(n), pr, Mem16(m, w)), w + 1)
     ELSE IF z = 4 THEN Neg(m)
     ELSE IF z = 5 THEN iff
     ELSE IF z = 6 THEN [m EXCEPT !.im = <<0, 0, 1, 2>>[(y % 4) + 1]]
     ELSE OpED7(m, y)

RECURSIVE Op(_, _)

\* A prefix: the opcode after it is of another table, or of the main one.
OpIndex(m, ix, op) ==
  LET n == Takes(m, ClocksXY(op))
      ea == Word(Pair(n, ix) + Signed(Imm(n)))  q == Fetched(WZ(n, ea), 1)
  IN IF op = 203 THEN OpXY(InOp(Fetched(q, 1), 2), ea, Imm(q))
     ELSE IF OfIndex(op) THEN IF X(op) = 3 THEN Op3(n, ix, op) ELSE Op012(n, ix, op)
     ELSE Op(n, op)

Op(m0, op) ==
  LET m == Takes(m0, ClocksOp(op))  n == FetchedOp(m)  o == Imm(m)
      e == Takes(n, ClocksED(o))
  IN IF op = 203 THEN OpCB(n, o)
     ELSE IF op \in {221, 253} THEN OpIndex(n, IF op = 221 THEN "IX" ELSE "IY", o)
     ELSE IF op = 237 THEN IF OfED(o) THEN OpED(e, o) ELSE Op(e, o)
     ELSE IF X(op) = 3 THEN Op3(m, "HL", op) ELSE Op012(m, "HL", op)

(* ------------------------------- running ------------------------------- *)
\* Mutant: the CPU comes back to the HALT itself.
LeftHaltNot(m) == [m EXCEPT !.halt = FALSE]

\* LEAVE_HALT: the instruction after HALT is the one that is returned to.
LeftHalt(m) == IF m.halt THEN [m EXCEPT !.halt = FALSE, !.pc = Word(@ + 1)] ELSE m

\* check_interrupt when an interrupt is accepted: mode 0 takes RST only here.
Nmi(m) == LET n == LeftHalt(m)
          IN Takes([Jump(Push(n, n.pc), 102) EXCEPT !.iff1 = 0], 11)
Irq(m, vector) ==
  LET n == LeftHalt(m)  p == Push(n, n.pc)
      q == IF m.im = 0 THEN Takes(Jump(p, vector - (vector % 8) - 192), ClocksOp(vector) + 2)
           ELSE IF m.im = 1 THEN Takes(Jump(p, 56), 13)
           ELSE Takes(Jump(Read16(p), Mem16(p, vector + 256 * Reg(m, "I"))), 19)
  IN [q EXCEPT !.iff1 = 0, !.iff2 = 0]

\* Whether an interrupt is looked at before the instruction: not just after EI.
Open(m) == ~m.ei

\* run_one_opecode without it.
RunOne(m) ==
  LET n == [m EXCEPT !.prevEi = m.ei, !.ei = FALSE, !.di = FALSE, !.halt = FALSE,
                     !.ldair = FALSE]
  IN Op(FetchedOp(n), Imm(n))

\* Z80::reset
Names == {"A", "B", "C", "D", "E", "H", "L", "HX", "LX", "HY", "LY", "I", "R"}
AtReset ==
  [regs |-> [n \in Names |-> IF n \in {"HX", "LX", "HY", "LY"} THEN 255 ELSE 0],
   f |-> {"Z"}, sp |-> 0, pc |-> 0, wz |-> 0, r2 |-> 0, im |-> 0, iff1 |-> 0, iff2 |-> 0,
   halt |-> FALSE, ei |-> FALSE, prevEi |-> FALSE, di |-> FALSE, ldair |-> FALSE,
   alt |-> <<0, 0, 0, 0>>, mem |-> <<>>, in |-> 0, out |-> <<0, 0>>, clk |-> 0, inOp |-> 0,
   bytes |-> 0]

(* ---------------------------- disassembling ---------------------------- *)
\* The bytes after an opcode that its line shows: dasm, above 0xc0 and below.
ShownTop(op) == IF Z(op) \in {2, 4} \/ op \in {195, 205} THEN 2
                ELSE IF Z(op) = 6 \/ op \in {211, 219} THEN 1 ELSE 0
Shown(op) ==
  LET y == Y(op)  z == Z(op)
  IN IF X(op) = 3 THEN ShownTop(op)
     ELSE IF X(op) # 0 THEN 0
     ELSE IF (z = 1 /\ y % 2 = 0) \/ (z = 2 /\ y >= 4) THEN 2
     ELSE IF z = 6 \/ (z = 0 /\ y >= 2) THEN 1 ELSE 0

\* Mutant: LD (IX+d),n is shown as if it were LD (HL),n.
ShownIndexShort(op) ==
  IF op = 203 \/ op \in {33, 34, 42} THEN 2
  ELSE IF op \in {38, 46} \/ op \in {52, 53, 54}
          \/ (X(op) = 1 /\ (Y(op) = 6 \/ Z(op) = 6)) \/ (X(op) = 2 /\ Z(op) = 6)
       THEN 1 ELSE 0

\* dasm_ddcb and dasm_fdcb: the displacement, and the opcode after it.
ShownIndexCB == 2

\* dasm_dd and dasm_fd.
ShownIndex(op) ==
  IF op = 203 THEN ShownIndexCB
  ELSE IF op \in {33, 34, 42, 54} THEN 2
  ELSE IF op \in {38, 46} \/ op \in {52, 53}
          \/ (X(op) = 1 /\ (Y(op) = 6 \/ Z(op) = 6)) \/ (X(op) = 2 /\ Z(op) = 6)
       THEN 1 ELSE 0

\* dasm_ed
ShownED(op) == IF X(op) = 1 /\ Z(op) = 3 THEN 2 ELSE 0

\* dasm_cb
ShownCB == 1

\* A prefix of nothing is a line of its own, "DB".
Lone(op, next) == \/ op \in {221, 253} /\ ~OfIndex(next)
                  \/ op = 237 /\ ~OfED(next)
LineLength(op, next) ==
  IF Lone(op, next) THEN 1
  ELSE IF op \in {221, 253} THEN 2 + ShownIndex(next)
  ELSE IF op = 237 THEN 2 + ShownED(next)
  ELSE IF op = 203 THEN 1 + ShownCB
  ELSE 1 + Shown(op)

RECURSIVE Listed(_, _)
\* The length of the lines from address a up to the first that is not "DB".
Listed(m, a) ==
  LET n == LineLength(Mem(m, a), Mem(m, a + 1))
  IN IF Lone(Mem(m, a), Mem(m, a + 1)) THEN 1 + Listed(m, a + 1) ELSE n

(* ------------------------------- machines ------------------------------ *)
Prefixes == {<<>>, <<203>>, <<237>>, <<221>>, <<253>>, <<221, 203, 5>>, <<253, 203, 250>>,
             <<221, 237>>, <<237, 221>>}
At100(bytes) == [a \in 256..(255 + Len(bytes)) |-> bytes[a - 255]]
Loaded(bytes) == [AtReset EXCEPT !.pc = 256, !.sp = 512, !.mem = At100(bytes)]

\* One byte of BC left, or two; no flag, or every flag.
Fresh(bytes, s, b, c) ==
  [Loaded(bytes) EXCEPT !.f = s, !.regs["B"] = b, !.regs["C"] = c, !.iff1 = 1]

(* Counting, moving, comparing, writing and reading blocks, digits, a      *)
(* subroutine, an exchange with the stack, waiting for an interrupt.       *)
Program == <<251, 33, 0, 1, 17, 0, 3, 1, 3, 0, 237, 176,  \* EI; LDIR
             62, 0, 1, 4, 0, 237, 177,                    \* CPIR
             1, 7, 2, 237, 179, 6, 2, 237, 178,           \* OTIR; INIR
             198, 39, 39, 222, 25, 39,                    \* ADD; DAA; SBC; DAA
             205, 41, 1, 118, 60, 24, 254,                \* CALL; HALT; INC A; JR $
             227, 8, 217, 221, 229, 253, 225, 217, 8, 227, 201>>
(* The handlers: PUSH AF; XOR A; POP AF; EI; RET, which mode 2 finds where I  *)
(* and the vector say; and PUSH AF; POP AF; RETN for the one of NMI.          *)
Handlers == 254 :> 56 @@ 255 :> 0 @@ 56 :> 245 @@ 57 :> 175 @@ 58 :> 241 @@ 59 :> 251
            @@ 60 :> 201 @@ 61 :> 0
            @@ 102 :> 245 @@ 103 :> 241 @@ 104 :> 237 @@ 105 :> 69

Init ==
  /\ taken = [count |-> 0, inside |-> FALSE]
  /\ \/ /\ trial = "op"
        /\ \E p \in Prefixes, op \in Byte, v \in {<<{}, 1, 1>>, <<FByte(255), 0, 1>>} :
             cpu = Fresh(p \o <<op, 8, 2>>, v[1], v[2], v[3]) /\ given = op
     \/ /\ trial = "alu" /\ given \in Byte /\ cpu = AtReset
     \/ /\ trial = "irq" /\ given = 0
        /\ \E mode \in 0..2 : cpu = [Loaded(Program) EXCEPT !.im = mode, !.mem = @ @@ Handlers,
                                         !.in = 7]
  /\ twin = cpu

Execute == /\ trial = "op" /\ cpu = twin
           /\ cpu' = RunOne(cpu)
           /\ UNCHANGED <<trial, given, twin, taken>>

\* The program goes on, with and without interrupts; what is counted in the
\* machine (clocks, bytes, refreshes) is not looked at.
Uncounted(m) == [m EXCEPT !.clk = 0, !.inOp = 0, !.bytes = 0, !.regs["R"] = 0]
Proceed == /\ trial = "irq" /\ ~taken.inside
           /\ cpu' = Uncounted(RunOne(cpu))
           /\ twin' = Uncounted(RunOne(twin))
           /\ UNCHANGED <<trial, given, taken>>

Interrupted(accepted) ==
  /\ trial = "irq" /\ ~taken.inside /\ taken.count < MaxInterrupts /\ Open(cpu)
  /\ cpu' = accepted
  /\ twin' = IF twin.halt THEN [twin EXCEPT !.pc = Word(@ + 1), !.halt = FALSE] ELSE twin
  /\ taken' = [count |-> taken.count + 1, inside |-> TRUE]
  /\ UNCHANGED <<trial, given>>

Interrupt == /\ trial = "irq" /\ cpu.iff1 = 1
             /\ Interrupted(Irq(cpu, IF cpu.im = 2 THEN 254 ELSE 255))
NonMaskable == trial = "irq" /\ Interrupted(Nmi(cpu))

Handle == /\ trial = "irq" /\ taken.inside
          /\ cpu' = Uncounted(RunOne(cpu))
          /\ taken' = [taken EXCEPT !.inside = Mem16(cpu, cpu.pc) \notin {201, 237 + 256 * 69}]
          /\ UNCHANGED <<trial, given, twin>>

Next == Execute \/ Proceed \/ Interrupt \/ NonMaskable \/ Handle

(* ----------------------------- properties ------------------------------ *)
\* An instruction drives no more clocks than it takes, so that the rest the
\* event manager drives is not negative (the assertions of Z80::run and of
\* EVENT::drive); and the listing goes on where the instruction ends.
TimeAndListing ==
  trial = "op" => /\ cpu.inOp <= cpu.clk
                  /\ cpu # twin => cpu.bytes = Listed(twin, twin.pc)

\* The flags are those of the arithmetic, though they are looked up from the
\* old and the new value of A alone; and DAA makes decimal arithmetic of it.
Sum(a, b, c, n) ==
  /\ A(n) = Low(a + b + c)
  /\ ("C" \in n.f) = (a + b + c > 255)
  /\ ("H" \in n.f) = ((a % 16) + (b % 16) + c > 15)
  /\ ("P" \in n.f) = (Signed(a) + Signed(b) + c \notin -128..127)
  /\ ("S" \in n.f) = (A(n) > 127) /\ ("Z" \in n.f) = (A(n) = 0) /\ "N" \notin n.f
Difference(a, b, c, r, n) ==
  /\ r = Low(a - b - c)
  /\ ("C" \in n.f) = (a - b - c < 0)
  /\ ("H" \in n.f) = ((a % 16) - (b % 16) - c < 0)
  /\ ("P" \in n.f) = (Signed(a) - Signed(b) - c \notin -128..127)
  /\ ("S" \in n.f) = (r > 127) /\ ("Z" \in n.f) = (r = 0) /\ "N" \in n.f

DecimalRight(a, b, r, n) ==
  IsDecimal(a) /\ IsDecimal(b) =>
    LET d == Daa(n) IN /\ IsDecimal(A(d)) /\ Decimal(A(d)) = r % 100
                       /\ ("C" \in d.f) = (r \notin 0..99)

Wide(hl, v, c) ==
  LET m == [SetPair(AtReset, "HL", hl) EXCEPT !.f = If(c = 1, "C")]
      p == Adc16(m, v)  q == Sbc16(m, v)
      s(w) == IF w >= 32768 THEN w - 65536 ELSE w
  IN /\ Pair(p, "HL") = Word(hl + v + c) /\ Pair(q, "HL") = Word(hl - v - c)
     /\ ("C" \in p.f) = (hl + v + c > 65535) /\ ("C" \in q.f) = (hl - v - c < 0)
     /\ ("H" \in p.f) = ((hl % 4096) + (v % 4096) + c > 4095)
     /\ ("H" \in q.f) = ((hl % 4096) - (v % 4096) - c < 0)
     /\ ("P" \in p.f) = (s(hl) + s(v) + c \notin -32768..32767)
     /\ ("P" \in q.f) = (s(hl) - s(v) - c \notin -32768..32767)

ArithmeticIsRight ==
  trial = "alu" => \A b \in Operands, c \in {0, 1} :
    LET m == [SetReg(AtReset, "A", given) EXCEPT !.f = If(c = 1, "C")]
        n(y) == Alu(m, y, b)
    IN /\ c = 0 => Sum(given, b, 0, n(0)) /\ Difference(given, b, 0, A(n(2)), n(2))
                   /\ Difference(given, b, 0, Low(given - b), n(7)) /\ A(n(7)) = given
       /\ Sum(given, b, c, n(1)) /\ Difference(given, b, c, A(n(3)), n(3))
       /\ DecimalRight(given, b, Decimal(given) + Decimal(b) + c, n(1))
       /\ DecimalRight(given, b, Decimal(given) - Decimal(b) - c, n(3))
       /\ b \in {0, 127, 128, 255} =>
            \A v \in {0, 1, 4095, 4096, 32767, 32768, 65535} : Wide(256 * given + b, v, c)

\* A program does not notice interrupts, wherever they come: in the middle of
\* a block instruction, at HALT, after EI.
Stack == 448..511
SeenByProgram(m) ==
  <<[r \in Names \ {"R"} |-> Reg(m, r)], m.f, m.sp, m.pc, m.alt, m.out, m.im,
    [a \in DOMAIN m.mem \ (Stack \cap 0..(m.sp - 1)) |-> m.mem[a]]>>
InterruptsUnseen ==
  trial = "irq" /\ ~taken.inside => SeenByProgram(cpu) = SeenByProgram(twin)

TypeOK ==
  /\ \A r \in Names : Reg(cpu, r) \in Byte
  /\ {cpu.pc, cpu.sp, cpu.wz} \subseteq 0..65535 /\ cpu.f \subseteq FByte(255)
  /\ \A a \in DOMAIN cpu.mem : a \in 0..65535 /\ cpu.mem[a] \in Byte
================================================================================

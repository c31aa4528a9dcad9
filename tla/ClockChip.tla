----------------------------- MODULE ClockChip -----------------------------
(***************************************************************************)
(* The uPD1990A clock chip and the sub CPU's program that uses it, one     *)
(* wire at a time: a strobe loads the time into a shift register, or sets  *)
(* the time from it and holds the clock, and clock pulses shift the bits   *)
(* out and in, while the clock's own second changes the same output        *)
(* (upd1990a.cpp, cur_time_t in common.cpp, P1 in x1/sub.cpp).             *)
(*                                                                         *)
(* The 80C48's program is external: it strobes, and shifts 40 times, and   *)
(* takes less than a second from one bit to the next.  A second has Parts  *)
(* parts.  The timing pulse is not connected.                              *)
(***************************************************************************)
EXTENDS Integers, Sequences, SequencesExt

CONSTANTS
  HostTimes,    \* times the host may have when the chip first looks
  SetTimes,     \* times the program sets
  Parts,        \* of a second
  MaxSessions,  \* bound: how often the program reads or sets the time
  MaxParts      \* bound: how long a behaviour is between them

Fields == {"year", "month", "day", "dow", "hour", "minute", "second"}
ClockChipAssumption ==
  /\ \A t \in HostTimes \union SetTimes : DOMAIN t = Fields
  /\ Parts \in Nat \ {0} /\ MaxSessions \in Nat /\ MaxParts \in Nat

VARIABLES
  chip,         \* the chip
  wait,         \* parts until its one-second event
  prog,         \* what the program is doing
  ideal,        \* the time it was given, and the parts since then
  sessions

clockVars == <<chip, wait, prog, ideal, sessions>>

(* ------------------------------ the calendar --------------------------- *)
Leap(y) == y % 4 = 0 /\ (y % 100 # 0 \/ y % 400 = 0)
DaysIn(month, y) ==
  IF month = 2 THEN IF Leap(y) THEN 29 ELSE 28
  ELSE IF month \in {4, 6, 9, 11} THEN 30 ELSE 31

\* cur_time_t::increment, each unit carrying into the next.
NextDay(t) ==
  LET d == [t EXCEPT !.dow = IF @ + 1 >= 7 THEN 0 ELSE @ + 1] IN
  IF t.day + 1 <= DaysIn(t.month, t.year) THEN [d EXCEPT !.day = @ + 1]
  ELSE IF t.month + 1 <= 12 THEN [d EXCEPT !.day = 1, !.month = @ + 1]
  ELSE [d EXCEPT !.day = 1, !.month = 1, !.year = @ + 1]

Incremented(t) ==
  IF t.second + 1 < 60 THEN [t EXCEPT !.second = @ + 1]
  ELSE IF t.minute + 1 < 60 THEN [t EXCEPT !.second = 0, !.minute = @ + 1]
  ELSE LET hour == [t EXCEPT !.second = 0, !.minute = 0, !.hour = (@ + 1) % 24] IN
       IF t.hour + 1 < 24 THEN hour ELSE NextDay(hour)

\* update_year and update_day_of_week, which the pseudo sub CPU uses when a date
\* is set without them.
FullYear(y) == IF y < 70 THEN y + 2000 ELSE IF y < 100 THEN y + 1900 ELSE y
Shifts == <<0, 3, 2, 5, 0, 3, 5, 1, 4, 6, 2, 4>>
DayOfWeek(t) ==
  LET y == t.year - (IF t.month < 3 THEN 1 ELSE 0) IN
  (y + (y \div 4) - (y \div 100) + (y \div 400) + Shifts[t.month] + t.day) % 7

(* ------------------------------- the chip ------------------------------ *)
BitsOf(width, v) == [i \in 1..width |-> (v \div (2 ^ (i - 1))) % 2]
ValueOf(bits) == FoldRight(LAMBDA b, v : b + 2 * v, bits, 0)
Digits(v) == BitsOf(4, v % 10) \o BitsOf(4, (v % 100) \div 10)
FromDigits(bits) == ValueOf(SubSeq(bits, 1, 4)) + 10 * ValueOf(SubSeq(bits, 5, 8))

\* The time as the 40 bits of the register, the first one out first.
Packed(t) ==
  Digits(t.second) \o Digits(t.minute) \o Digits(t.hour) \o Digits(t.day)
  \o BitsOf(4, t.dow) \o BitsOf(4, t.month)

Unpacked(bits, t) ==
  LET Byte(n) == FromDigits(SubSeq(bits, 8 * n + 1, 8 * n + 8)) IN
  [t EXCEPT !.second = Byte(0), !.minute = Byte(1), !.hour = Byte(2), !.day = Byte(3),
            !.dow = ValueOf(SubSeq(bits, 33, 36)), !.month = ValueOf(SubSeq(bits, 37, 40))]

\* A rising edge of the clock input shifts in mode 1.
ClkRises(c) ==
  IF c.mode # 1 THEN c
  ELSE LET bits == Append(Tail(c.shift), c.din) IN
       [c EXCEPT !.shift = bits, !.dout = Head(bits), !.changed = TRUE]

\* A rising edge of the strobe takes the command; all but the setting and the
\* pulse commands let go of a held clock.
Shows(c, bits) == [c EXCEPT !.shift = bits, !.dout = Head(bits), !.changed = TRUE]
StbRises(c) ==
  LET took == [c EXCEPT !.mode = c.cmd, !.hold = (@ /\ c.cmd \notin {0, 1, 3})]
  IN CASE c.cmd = 2 -> [took EXCEPT !.time = Unpacked(c.shift, @), !.hold = TRUE]
       [] c.cmd = 3 -> Shows(took, Packed(c.time))
       [] OTHER -> took

\* A write of P1: the command, the strobe, the data and the clock, in that order.
Strobed(c, p1) == [IF ~c.stb /\ p1.stb THEN StbRises(c) ELSE c EXCEPT !.stb = p1.stb, !.din = p1.din]
Clocked(c, p1) == [IF ~c.clk /\ p1.clk THEN ClkRises(c) ELSE c EXCEPT !.clk = p1.clk]
WriteP1(c, p1) == Clocked(Strobed([c EXCEPT !.cmd = p1.cmd], p1), p1)

\* A pulse, and whether it lets go of the clock, which starts its second anew.
Pulse(c, p1) == WriteP1(WriteP1(c, p1), [p1 EXCEPT !.stb = FALSE, !.clk = FALSE])
Strobe(c, cmd) == Pulse(c, [cmd |-> cmd, stb |-> TRUE, din |-> c.din, clk |-> FALSE])
Shift(c, bit) == Pulse(c, [cmd |-> c.cmd, stb |-> FALSE, din |-> bit, clk |-> TRUE])
WaitAfter(c, d) == IF c.hold /\ ~d.hold THEN Parts ELSE wait

\* The one-second event: the first one takes the host's time again.
Second(c, host) ==
  IF ~c.ready THEN [c EXCEPT !.time = host, !.ready = TRUE]
  ELSE LET t == IF c.hold THEN c.time ELSE Incremented(c.time) IN
       [c EXCEPT !.time = t, !.changed = FALSE, !.dout = IF c.changed THEN @ ELSE t.second % 2]

(* ------------------------------- actions ------------------------------- *)
Free == [doing |-> "", bits |-> <<>>, told |-> "", seconds |-> 0]

Init ==
  /\ \E host \in HostTimes :
       /\ chip = [time |-> host, ready |-> FALSE, hold |-> FALSE, cmd |-> 0, mode |-> 0, din |-> 0,
                  stb |-> FALSE, clk |-> FALSE, shift |-> [i \in 1..40 |-> 0], dout |-> 0,
                  changed |-> FALSE]
       /\ ideal = [from |-> host, parts |-> 0]
  /\ wait = Parts /\ prog = Free /\ sessions = 0

\* A part of a second goes by.
Pass ==
  /\ ideal.parts < MaxParts
  /\ wait = 1 /\ prog.doing = "read" => prog.seconds = 0
  /\ IF wait > 1
     THEN wait' = wait - 1 /\ UNCHANGED <<chip, prog>>
     ELSE /\ wait' = Parts
          /\ chip' = Second(chip, ideal.from)
          /\ prog' = [prog EXCEPT !.seconds = IF @ < 2 THEN @ + 1 ELSE @]
  /\ ideal' = [ideal EXCEPT !.parts = IF chip.hold \/ ~chip.ready THEN 0 ELSE @ + 1]
  /\ UNCHANGED sessions

Do(became, program) ==
  /\ chip' = became /\ wait' = WaitAfter(chip, became)
  /\ prog' = [program EXCEPT !.seconds = 0]

\* The program begins to read: the time into the register, then shift.
BeginRead ==
  /\ chip.ready /\ prog.doing = "" /\ sessions < MaxSessions
  /\ Do(Strobe(Strobe(chip, 3), 1), [Free EXCEPT !.doing = "read", !.told = chip.time])
  /\ sessions' = sessions + 1 /\ UNCHANGED ideal

ReadBit ==
  /\ prog.doing = "read" /\ Len(prog.bits) < 40
  /\ Do(Shift(chip, 0), [prog EXCEPT !.bits = Append(@, chip.dout)])
  /\ UNCHANGED <<ideal, sessions>>

EndRead ==
  /\ prog.doing = "read" /\ Len(prog.bits) = 40
  /\ prog' = [Free EXCEPT !.seconds = prog.seconds]
  /\ UNCHANGED <<chip, wait, ideal, sessions>>

\* The program sets the time: shift it in, strobe, and let the clock go when
\* it has to run.
BeginSet(t) ==
  /\ chip.ready /\ prog.doing = "" /\ sessions < MaxSessions
  /\ Do(Strobe(chip, 1), [Free EXCEPT !.doing = "set", !.bits = Packed(t), !.told = t])
  /\ sessions' = sessions + 1 /\ UNCHANGED ideal

WriteBit ==
  /\ prog.doing = "set" /\ prog.bits # <<>>
  /\ Do(Shift(chip, Head(prog.bits)), [prog EXCEPT !.bits = Tail(@)])
  /\ UNCHANGED <<ideal, sessions>>

SetTime ==
  /\ prog.doing = "set" /\ prog.bits = <<>>
  /\ Do(Strobe(chip, 2), [prog EXCEPT !.doing = "held"])
  /\ ideal' = [from |-> [prog.told EXCEPT !.year = chip.time.year], parts |-> 0]
  /\ UNCHANGED sessions

LetGo(cmd) ==
  /\ prog.doing = "held"
  /\ Do(Strobe(chip, cmd), Free)
  /\ UNCHANGED <<ideal, sessions>>

Next ==
  \/ Pass \/ BeginRead \/ ReadBit \/ EndRead \/ WriteBit \/ SetTime
  \/ \E t \in SetTimes : BeginSet(t)
  \/ \E cmd \in {0, 1, 3} : LetGo(cmd)

(* ----------------------------- properties ------------------------------ *)
TypeOK ==
  /\ chip.cmd \in 0..3 /\ chip.mode \in 0..3 /\ Len(chip.shift) = 40
  /\ \A i \in 1..40 : chip.shift[i] \in {0, 1}
  /\ chip.dout \in {0, 1} /\ chip.din \in {0, 1}
  /\ DOMAIN chip.time = Fields
  /\ wait \in 1..Parts /\ sessions \in 0..MaxSessions
  /\ prog.doing \in {"", "read", "set", "held"} /\ ideal.parts \in 0..MaxParts

\* Days since the year 1600, counted without a loop over days.
DayNumber(t) ==
  LET y == t.year - 1601 IN
  365 * y + (y \div 4) - (y \div 100) + (y \div 400)
  + FoldLeft(LAMBDA n, m : n + DaysIn(m, t.year), t.day, [m \in 1..(t.month - 1) |-> m])
SecondOfDay(t) == (t.hour * 60 + t.minute) * 60 + t.second

\* The clock shows the time it was given and the whole seconds since then, the
\* first of them no shorter than the others; the day of the week goes with the
\* date, and is the one that the date's formula has if it was right to begin with.
TimeIsKept ==
  chip.ready =>
    LET from == ideal.from
        now  == chip.time
        past == SecondOfDay(from) + (ideal.parts \div Parts)
        days == past \div 86400
    IN /\ SecondOfDay(now) = past % 86400
       /\ DayNumber(now) = DayNumber(from) + days
       /\ now.dow = (from.dow + days) % 7
       /\ from.dow = DayOfWeek(from) => now.dow = DayOfWeek(now)

\* The bits that were read are those of the time at the strobe.
ReadsAreTrue ==
  prog.doing = "read" => prog.bits = SubSeq(Packed(prog.told), 1, Len(prog.bits))

\* Left alone for two seconds, the output shows whether the second is odd.
SecondsAreSeen == chip.ready /\ prog.seconds = 2 => chip.dout = chip.time.second % 2

ClockIsTrue == TimeIsKept /\ ReadsAreTrue /\ SecondsAreSeen
=============================================================================

------------------------------- MODULE Ym2151 -------------------------------
(***************************************************************************)
(* The timers of a sound board's YM2151 (core/vm/ym2151.cpp, fmgen's       *)
(* fmtimer.cpp and opm.cpp).  The chip counts only when it is told how     *)
(* many clocks have passed: at a write, a read of the status, the end of a *)
(* raster line, and the event that is due when the next timer runs out.    *)
(* The clocks are those of the CPU, 4 MHz, and are told in 32 bits of      *)
(* which 20 are a fraction.                                                *)
(***************************************************************************)
EXTENDS Integers, FiniteSets

CONSTANTS Prescaler,      \* chip clocks to a count of a timer, 64
          Line,           \* clocks of a raster line
          Counted,        \* clocks that 32 bits can tell of, 2^(32 - 20)
          Pieces,         \* clocks between two steps of the program
          FullA, FullB,   \* what CLKA, of two registers, and CLKB count to: 1024 and 256
          UnitB,          \* B counts in 16s
          ValuesA, ValuesB,
          Controls,       \* bits of register 14h: load and enable of A and B, reset of A and B
          MaxWrites       \* bound

Ym2151Assumption ==
  /\ {Prescaler, Line, Counted, FullA, FullB, UnitB} \subseteq Nat \ {0} /\ Pieces \subseteq Nat \ {0}
  /\ Line < Counted /\ MaxWrites \in Nat
  /\ ValuesA \subseteq 0..FullA - 1 /\ ValuesB \subseteq 0..FullB - 1
  /\ Controls \subseteq SUBSET {"loadA", "loadB", "irqA", "irqB", "resetA", "resetB"}

VARIABLES opm,     \* the chip
          board,   \* the device around it
          real,    \* timers that count by themselves
          writes   \* bound

vars == <<opm, board, real, writes>>

Flags == {"A", "B"}
Opm == [control : SUBSET {"loadA", "loadB", "irqA", "irqB", "resetA", "resetB"},   \* regtc
        period : [Flags -> Nat],                                                   \* timera, timerb
        count : [Flags -> Int],                                                    \* 0 when stopped
        status : SUBSET Flags, interrupt : BOOLEAN]
Board == [since : Nat,                  \* clock - clock_prev
          due : Nat \union {-1},        \* of timer_event_id
          irq : BOOLEAN,                \* irq_prev
          busy : BOOLEAN,               \* until it is read, however late
          line : 0..Line]               \* clocks to the next event_vline

TypeOK ==
  /\ opm \in Opm /\ board \in Board /\ writes \in 0..MaxWrites
  /\ real \in [left : [Flags -> Nat], status : SUBSET Flags]

(* -------------------------------- the chip ------------------------------ *)
Load(f) == IF f = "A" THEN "loadA" ELSE "loadB"
Enable(f) == IF f = "A" THEN "irqA" ELSE "irqB"
Clear(f) == IF f = "A" THEN "resetA" ELSE "resetB"

\* SetStatus and ResetStatus, of several flags
Raised(c, flags) ==
  IF flags \subseteq c.status THEN c
  ELSE [c EXCEPT !.status = @ \union flags, !.interrupt = TRUE]
Lowered(c, flags) ==
  IF flags \cap c.status = {} THEN c
  ELSE [c EXCEPT !.status = @ \ flags, !.interrupt = @ /\ c.status \ flags # {}]

\* Clocks to the next time a timer that is due runs out.
Again(left, period) == left + period * (((0 - left) \div period) + 1)

\* Timer::Count
Count(c, n) ==
  LET out == {f \in Flags : c.count[f] # 0 /\ c.count[f] <= n}
  IN Raised([c EXCEPT !.count = [f \in Flags |->
              IF f \in out THEN Again(c.count[f] - n, c.period[f] * Prescaler)
              ELSE IF c.count[f] = 0 THEN 0 ELSE c.count[f] - n]],
            {f \in out : Enable(f) \in c.control})

\* Timer::SetTimerControl: a timer is loaded, or stopped, when its bit changes.
Controlled(c, control) ==
  [Lowered(c, {f \in Flags : Clear(f) \in control}) EXCEPT
    !.control = control,
    !.count = [f \in Flags |->
      IF (Load(f) \in control) <=> (Load(f) \in c.control) THEN c.count[f]
      ELSE IF Load(f) \in control THEN c.period[f] * Prescaler ELSE 0]]

\* Timer::SetTimerA and SetTimerB
SetTimerA(c, v) == [c EXCEPT !.period["A"] = FullA - v]
SetTimerB(c, v) == [c EXCEPT !.period["B"] = UnitB * (FullB - v)]

\* Timer::GetNextEvent
NextEvent(c) ==
  LET running == {c.count[f] : f \in {g \in Flags : c.count[g] > 0}}
  IN IF running = {} THEN 0 ELSE CHOOSE n \in running : \A m \in running : n <= m

(* ------------------------------- the device ----------------------------- *)
\* Mutant: the clocks' fraction has a bit more, and the line is too long.
UpToDateInFewer == Count(opm, board.since % (Counted \div 2))

\* update_count
UpToDate == Count(opm, board.since % Counted)

\* What a step leaves of the device: update_count has been, and
\* update_interrupt is.
Notified(b, c) == [b EXCEPT !.since = 0, !.irq = c.interrupt]

\* Mutant: an event that is registered stays, whatever is loaded.
ScheduledOnce(b, c) == IF b.due # -1 THEN b ELSE [b EXCEPT !.due = IF NextEvent(c) > 0 THEN NextEvent(c) ELSE -1]

\* update_event
Scheduled(b, c) == [b EXCEPT !.due = IF NextEvent(c) > 0 THEN NextEvent(c) ELSE -1]

\* OPM::Reset
AtReset == [control |-> {}, period |-> [f \in Flags |-> IF f = "A" THEN FullA ELSE UnitB * FullB],
            count |-> [f \in Flags |-> 0], status |-> {}, interrupt |-> FALSE]

Init ==
  /\ opm = AtReset
  /\ board = [since |-> 0, due |-> -1, irq |-> FALSE, busy |-> FALSE, line |-> Line]
  /\ real = [left |-> [f \in Flags |-> 0], status |-> {}]
  /\ writes = 0

\* n clocks pass; nothing is due before.
RealLeft(f, n) == LET left == real.left[f] IN
  IF left = 0 THEN 0 ELSE IF left > n THEN left - n ELSE Again(left - n, opm.period[f] * Prescaler)
Pass(n) ==
  /\ n <= board.line /\ (board.due = -1 \/ n <= board.due)
  /\ board' = [board EXCEPT !.since = @ + n, !.line = @ - n, !.due = IF @ = -1 THEN -1 ELSE @ - n]
  /\ real' = [left |-> [f \in Flags |-> RealLeft(f, n)],
              status |-> real.status \union
                {f \in Flags : real.left[f] \in 1..n /\ Enable(f) \in opm.control}]
  /\ UNCHANGED <<opm, writes>>

\* The line ends: event_vline.
Vline ==
  /\ board.line = 0
  /\ opm' = UpToDate
  /\ board' = Notified([board EXCEPT !.line = Line], opm')
  /\ UNCHANGED <<real, writes>>

\* event_callback
Fire ==
  /\ board.due = 0
  /\ opm' = UpToDate
  /\ board' = Notified(Scheduled([board EXCEPT !.due = -1], opm'), opm')
  /\ UNCHANGED <<real, writes>>

\* read_io8 of the status: busy at most once after a write.
Read ==
  /\ opm' = UpToDate
  /\ board' = Notified([board EXCEPT !.busy = FALSE], opm')
  /\ opm' # opm \/ board' # board
  /\ UNCHANGED <<real, writes>>

\* write_via_debugger_data8
Written(c, b) ==
  /\ writes < MaxWrites /\ writes' = writes + 1
  /\ opm' = c /\ board' = Notified([b EXCEPT !.busy = TRUE], c)

WriteA == \E v \in ValuesA : Written(SetTimerA(UpToDate, v), board) /\ UNCHANGED real
WriteB == \E v \in ValuesB : Written(SetTimerB(UpToDate, v), board) /\ UNCHANGED real

\* Register 14h changes what runs, and the event with it.
WriteControl == \E control \in Controls :
  LET c == Controlled(UpToDate, control) IN
  /\ Written(c, Scheduled(board, c))
  /\ real' = [left |-> [f \in Flags |->
                 IF Load(f) \notin control THEN 0
                 ELSE IF Load(f) \in opm.control THEN real.left[f] ELSE opm.period[f] * Prescaler],
              status |-> real.status \ {f \in Flags : Clear(f) \in control}]

\* YM2151::reset, after EVENT::reset has cancelled the event. What has passed
\* is told to the chip later, when nothing runs.
Reset ==
  /\ opm' = AtReset
  /\ board' = [board EXCEPT !.due = -1, !.irq = FALSE, !.busy = FALSE]
  /\ real' = [left |-> [f \in Flags |-> 0], status |-> {}]
  /\ UNCHANGED writes

Next ==
  \/ \E n \in Pieces \union {board.due, board.line} : n > 0 /\ Pass(n)
  \/ Vline \/ Fire \/ Read \/ WriteA \/ WriteB \/ WriteControl \/ Reset

Spec == Init /\ [][Next]_vars

(* ----------------------------- properties ------------------------------ *)
\* A read of the status tells what timers would that count by themselves,
\* however seldom the chip is told of the time.
StatusIsTrue ==
  /\ UpToDate.status = real.status
  /\ \A f \in Flags : UpToDate.count[f] = real.left[f]

\* No timer runs out before the event that tells of it, and the request is
\* there as long as a flag is.
RequestInTime ==
  /\ \A f \in Flags : real.left[f] > 0 /\ board.due > 0 => board.due <= real.left[f]
  /\ board.due = -1 => \A f \in Flags : real.left[f] = 0
  /\ board.due # 0 => (board.irq <=> real.status # {})

TimersKeepTime == StatusIsTrue /\ RequestInTime
==============================================================================

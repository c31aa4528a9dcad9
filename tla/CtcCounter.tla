------------------------------ MODULE CtcCounter ------------------------------
(***************************************************************************)
(* The counters of the Z80 CTC (core/vm/z80ctc.cpp) as x1.cpp wires them:  *)
(* channel 0 triggers channel 3, channel 1 is fed half the system clock,   *)
(* channel 2 is as channel 1.  A running channel is one event, due when    *)
(* its count is used up; in between the count is brought up to date only   *)
(* when it is read.  Interrupts are in DaisyChain.                         *)
(*                                                                         *)
(* The event manager fires an event at the very clock it is due, so err is *)
(* 0, and half the system clock leaves no remainder.                       *)
(***************************************************************************)
EXTENDS Naturals

CONSTANTS Wirings,             \* the channels looked at together, of 0, 1 and 3
          SmallPre, LargePre,  \* the prescalers, 16 and 256
          Full,                \* what a time constant of 0 means, 256
          Careless,            \* a program may do what MayWrite forbids
          MaxWrites            \* bound on the register writes, of each wiring

CtcCounterAssumption ==
  /\ \A w \in Wirings : w \subseteq {0, 1, 3} /\ (0 \in w => 3 \in w)
  /\ SmallPre \in Nat \ {0} /\ LargePre \in Nat \ {0} /\ Full \in Nat \ {0}
  /\ Careless \in BOOLEAN /\ MaxWrites \in [Wirings -> Nat]

Fed == {1}                     \* freq, half of cpu_clocks
Pres == {SmallPre, LargePre}

VARIABLES counters,  \* counter[]
          ideal,     \* clocks, or triggers, to the next zero of a real counter
          writes     \* bound

ctcVars == <<counters, ideal, writes>>

Channels == DOMAIN counters

Counter == [count : 1..Full, constant : 1..Full, clocks : Nat,
            byTrigger : BOOLEAN, pre : Pres,              \* control
            freeze : BOOLEAN, freezed : BOOLEAN, start : BOOLEAN, latch : BOOLEAN,
            first : BOOLEAN,                              \* first_constant
            event : {"none", "clock", "sysclock"},        \* clock_id, sysclock_id
            input : Nat, due : Nat, passed : Nat]         \* period - passed, clock - prev

CtcTypeOK ==
  /\ Channels \in Wirings
  /\ counters \in [Channels -> Counter] /\ ideal \in [Channels -> Nat] /\ writes \in Nat

\* reset
AtReset == [count |-> Full, constant |-> Full, clocks |-> 0, byTrigger |-> FALSE,
            pre |-> LargePre, freeze |-> FALSE, freezed |-> FALSE, start |-> FALSE,
            latch |-> FALSE, first |-> TRUE, event |-> "none",
            input |-> 0, due |-> 0, passed |-> 0]

CtcInit ==
  /\ \E wired \in Wirings :
       counters = [ch \in wired |-> AtReset] /\ ideal = [ch \in wired |-> 0]
  /\ writes = 0

(* ------------------------------ counting ------------------------------- *)
NoEvent(c) == [c EXCEPT !.event = "none", !.input = 0, !.due = 0, !.passed = 0]

\* update_event: the other mode's event goes, and one is registered if the
\* channel runs by itself and has none.
Updated(ch, c) ==
  LET kind == IF c.byTrigger THEN "clock" ELSE "sysclock"
      kept == IF c.event \in {"none", kind} THEN c ELSE NoEvent(c)
      left == IF c.byTrigger THEN c.count ELSE c.count * c.pre - c.clocks
      runs == ~c.freeze /\ (IF c.byTrigger THEN ch \in Fed ELSE c.start)
  IN IF ~runs THEN NoEvent(c)
     ELSE IF kept.event = kind THEN kept
     ELSE [kept EXCEPT !.event = kind, !.input = left, !.passed = 0,
                       !.due = IF c.byTrigger THEN 2 * left ELSE left]

\* The loop of input_clock and input_sysclock: zeros met, and the new count.
Zeros(c, n) == IF n < c.count THEN 0 ELSE ((n - c.count) \div c.constant) + 1
CountedBy(c, n) == [c EXCEPT !.count = @ + Zeros(c, n) * c.constant - n, !.freezed = FALSE]

\* Mutant: what is left of a prescaled clock is lost when the count is read.
PrescaledAnew(c, n) ==
  [CountedBy(c, (c.clocks + n) \div c.pre) EXCEPT !.clocks = 0]

\* input_sysclock: n system clocks.
Prescaled(c, n) ==
  [CountedBy(c, (c.clocks + n) \div c.pre) EXCEPT !.clocks = (c.clocks + n) % c.pre]

\* A trigger starts a timer, or is counted.
Triggered(c, n) ==
  IF ~c.byTrigger THEN [c EXCEPT !.start = TRUE]
  ELSE IF c.freeze THEN c ELSE CountedBy(c, n)

\* Zeros of channel 0 are triggers of channel 3.
WithTriggers(cs, n) ==
  IF n = 0 THEN cs ELSE [cs EXCEPT ![3] = Updated(3, Triggered(@, n))]

(* ---------------------------- a real counter --------------------------- *)
\* A count of prescaled clocks, of half clocks, or of triggers.
Takes(ch, c, count) ==
  count * (IF ~c.byTrigger THEN c.pre ELSE IF ch \in Fed THEN 2 ELSE 1)

\* A trigger counts, or starts a timer that waits for it.
AfterTrigger(ch, c, left) ==
  IF c.byTrigger
  THEN IF c.freeze THEN left ELSE IF left = 1 THEN Takes(ch, c, c.constant) ELSE left - 1
  ELSE IF c.start \/ c.freeze THEN left ELSE Takes(ch, c, c.count)

(* ------------------------------- the steps ----------------------------- *)
Runs(ch) == counters[ch].event # "none"

\* A system clock passes, and no event waits.
Tick ==
  /\ \E ch \in Channels : Runs(ch)
  /\ \A ch \in Channels : Runs(ch) => counters[ch].due > 0
  /\ counters' = [ch \in Channels |->
       IF Runs(ch) THEN [counters[ch] EXCEPT !.due = @ - 1, !.passed = @ + 1] ELSE counters[ch]]
  /\ ideal' = [ch \in Channels |->
       IF Runs(ch) /\ ideal[ch] > 0 THEN ideal[ch] - 1 ELSE ideal[ch]]
  /\ UNCHANGED writes

\* event_callback: the whole input is counted, and the next event registered.
Fire(ch) ==
  LET c == counters[ch]
      n == IF c.event = "clock" THEN c.input ELSE (c.clocks + c.input) \div c.pre
      counted == IF c.event = "clock" THEN CountedBy(c, n) ELSE Prescaled(c, c.input)
      pulses == IF ch = 0 THEN Zeros(c, n) ELSE 0
  IN /\ Runs(ch) /\ c.due = 0
     /\ counters' = WithTriggers([counters EXCEPT ![ch] = Updated(ch, NoEvent(counted))], pulses)
     /\ ideal' = [i \in Channels |->
          IF i = ch THEN Takes(ch, c, c.constant)
          ELSE IF ch = 0 /\ i = 3 THEN AfterTrigger(3, counters[3], ideal[3]) ELSE ideal[i]]
     /\ UNCHANGED writes

\* Mutant: the event is registered for its whole period again.
ReadAnew(ch) ==
  LET c == counters[ch] IN
  /\ Runs(ch) /\ c.event = "sysclock" /\ c.passed > 0
  /\ counters' = [counters EXCEPT ![ch] =
       [Prescaled(c, c.passed) EXCEPT !.input = @ - c.passed, !.passed = 0, !.due = c.input]]
  /\ UNCHANGED <<ideal, writes>>

\* read_io8: what has passed is counted, of a fed channel in whole half
\* clocks, and the event is registered for the rest.
Read(ch) ==
  LET c == counters[ch]
      n == IF c.event = "clock" THEN c.passed \div 2 ELSE c.passed
  IN /\ Runs(ch) /\ n > 0 /\ n < c.input
     /\ counters' = [counters EXCEPT ![ch] =
          [(IF c.event = "clock" THEN CountedBy(c, n) ELSE Prescaled(c, n))
            EXCEPT !.input = @ - n, !.passed = 0]]
     /\ UNCHANGED <<ideal, writes>>

Words == [loads : BOOLEAN, resets : BOOLEAN, byTrigger : BOOLEAN, pre : Pres, waits : BOOLEAN]

\* A program resets a channel to change its mode or its prescaler, to make it
\* wait for a trigger, or to give it the first constant, and does not write
\* a second one before the channel has counted.
MayWrite(c, w) ==
  \/ Careless \/ w.resets
  \/ ~c.first /\ ~c.freezed /\ ~w.waits /\ w.byTrigger = c.byTrigger /\ w.pre = c.pre

WriteControl(ch, w) ==
  LET c == counters[ch] IN
  /\ writes < MaxWrites[Channels] /\ writes' = writes + 1
  /\ ~c.latch /\ MayWrite(c, w)
  /\ counters' = [counters EXCEPT ![ch] = Updated(ch,
       [c EXCEPT !.pre = w.pre, !.byTrigger = w.byTrigger, !.latch = w.loads,
                 !.freeze = w.resets, !.freezed = @ \/ w.resets,
                 !.start = ch \in Fed \/ ~w.waits])]
  /\ UNCHANGED ideal

WriteConstant(ch, k) ==
  LET c == [counters[ch] EXCEPT !.constant = k, !.latch = FALSE]
      loaded == [c EXCEPT !.count = k, !.clocks = 0, !.freeze = FALSE, !.first = FALSE]
  IN /\ c # counters[ch] /\ counters[ch].latch
     /\ IF c.freezed \/ c.first
        THEN /\ counters' = [counters EXCEPT ![ch] = Updated(ch, loaded)]
             /\ ideal' = [ideal EXCEPT ![ch] = Takes(ch, c, k)]
        ELSE counters' = [counters EXCEPT ![ch] = c] /\ UNCHANGED ideal
     /\ UNCHANGED writes

CtcReset ==
  /\ counters' = [ch \in Channels |-> AtReset]
  /\ UNCHANGED <<ideal, writes>>

CtcNext ==
  \/ Tick \/ CtcReset
  \/ \E ch \in Channels :
       \/ Fire(ch) \/ Read(ch)
       \/ \E w \in Words : WriteControl(ch, w)
       \/ \E k \in 1..Full : WriteConstant(ch, k)

CtcSpec == CtcInit /\ [][CtcNext]_ctcVars

(* ----------------------------- properties ------------------------------ *)
\* However often a counter is read, and whatever constants it is given, its
\* event is due when a real one would be at zero, and finds exactly the count
\* to use up: no zero is early, late, missed or met twice.  Channel 3 counts
\* channel 0's zeros one by one.
TicksOnTime ==
  \A ch \in Channels : LET c == counters[ch] IN
    /\ Runs(ch) => c.due = ideal[ch]
    /\ c.event = "sysclock" => c.count * c.pre - c.clocks = c.due + c.passed
    /\ c.event = "clock" => c.count = c.input
    /\ ch \notin Fed /\ c.byTrigger /\ ~c.freeze => c.count = ideal[ch]
==============================================================================

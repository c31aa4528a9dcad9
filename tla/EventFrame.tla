------------------------------ MODULE EventFrame ------------------------------
(***************************************************************************)
(* EVENT::drive (vm/event.cpp): how one frame of event time is spent on    *)
(* CPU instructions of any length, with events driven inside instructions  *)
(* (update_event_in_op), the CPU running speed times as fast as the       *)
(* event clock, sub CPUs that follow the main one, and the raster lines    *)
(* of the frame, each of which registers the next.  The only event here is *)
(* EVENT_VLINE; module EventList has the queue.                            *)
(***************************************************************************)
EXTENDS Integers, FiniteSets

CONSTANTS
  FrameClocks, FrameLines,  \* what a frame can be set to have
  Speeds,    \* the values 1 << cpu_power can have
  Pieces,    \* clocks an instruction may report at once
  MaxOp,     \* clocks of the longest instruction
  MaxDrift,  \* bound of cpu_clocks_remain when the power is changed
  SubCpus    \* whether sub and keyboard CPUs are emulated: the choices

ASSUME EventFrameAssumption ==
  /\ FrameClocks \subseteq Nat /\ FrameLines \subseteq Nat \ {0}
  /\ \A c \in FrameClocks, l \in FrameLines : c >= l
  /\ Speeds \subseteq {1, 2, 4, 8, 16} /\ Pieces \subseteq Nat \ {0}
  /\ MaxOp \in Nat \ {0} /\ MaxDrift \in Nat /\ SubCpus \subseteq BOOLEAN

None == -1

VARIABLES
  phase,      \* "idle" between frames, "loop" and "op" inside drive
  timing,     \* clocks and lines of the current frame
  speed,      \* 1 << power, from cpu_power
  subs,       \* there are sub CPUs
  remain,     \* event_clocks_remain
  cpuRemain,  \* cpu_clocks_remain
  accum,      \* cpu_clocks_accum
  done,       \* cpu_clocks_done: clocks the sub CPUs have still to follow
  inOp,       \* cpu_clocks_in_op
  clock,      \* event_clocks, counted from the start of the frame
  line,       \* cur_vline
  due,        \* when EVENT_VLINE fires, None when it is not registered
  ahead       \* clocks the main CPU is ahead of the sub CPUs (history)

frameVars == <<phase, timing, speed, subs, remain, cpuRemain, accum, done, inOp, clock,
          line, due, ahead>>

Timings == FrameClocks \X FrameLines
Clocks == timing[1]
Lines  == timing[2]

\* clocks_per_vline: the remainder is spread over the lines.
PerLine(t, i) ==
  LET rest == t[1] - t[2] * (t[1] \div t[2])
  IN t[1] \div t[2] + Cardinality({k \in 0..(rest - 1) : (t[2] * k) \div rest = i})

FrameTypeOK ==
  /\ phase \in {"idle", "loop", "op"} /\ timing \in Timings /\ speed \in Speeds
  /\ subs \in SubCpus /\ remain \in Int /\ cpuRemain \in Int
  /\ accum \in 0..(speed - 1)
  /\ done \in 0..MaxOp /\ inOp \in 0..MaxOp
  /\ clock \in 0..Clocks /\ line \in 0..(Lines - 1)
  /\ due \in {None} \union 1..Clocks
  /\ ahead \in Int

FrameInit ==
  /\ phase = "idle" /\ timing \in Timings /\ speed \in Speeds
  /\ subs \in SubCpus
  /\ remain = 0 /\ cpuRemain = 0 /\ accum = 0 /\ done = 0 /\ inOp = 0
  /\ clock = Clocks /\ line = Lines - 1 /\ due = None
  /\ ahead = 0

-----------------------------------------------------------------------------
\* Mutant: the last line registers an end as well.
LineEndAlways(t, l, at) == at + PerLine(t, l)

\* start_vline: every line but the last registers its end.
LineEnd(t, l, at) == IF l + 1 < t[2] THEN at + PerLine(t, l) ELSE None

(* update_event up to clock c: lines end, each when its event is due, and  *)
(* the next one starts there.                                              *)
Raster(t, l, d, c) ==
  LET at[n \in 0..t[2]] ==
        IF n = 0 THEN [line |-> l, due |-> d]
        ELSE LET p == at[n - 1]
             IN IF p.due # None /\ p.due <= c
                THEN [line |-> p.line + 1, due |-> LineEnd(t, p.line + 1, p.due)]
                ELSE p
  IN at[t[2]]

UpdateEvent(c) ==
  /\ clock' = clock + c
  /\ line' = Raster(timing, line, due, clock + c).line
  /\ due' = Raster(timing, line, due, clock + c).due

NoUpdate == UNCHANGED <<clock, line, due>>

Lesser(a, b) == IF a < b THEN a ELSE b

(* A new frame, perhaps with new settings: line 0 starts, and the clocks   *)
(* the last instruction ran over the frame's end are driven first.         *)
StartFrame(t) ==
  LET late == IF remain < 0 THEN Lesser(-remain, t[1]) ELSE 0
      r    == Raster(t, 0, LineEnd(t, 0, 0), late)
  IN /\ phase = "idle" /\ phase' = "loop"
     /\ timing' = t
     /\ clock' = late /\ line' = r.line /\ due' = r.due
     /\ remain' = remain + t[1]
     /\ cpuRemain' = cpuRemain + t[1] * speed
     /\ UNCHANGED <<speed, subs, accum, done, inOp, ahead>>

\* Mutant: the event clock runs on past the end of the frame.
SpendWhole(n) ==
  /\ cpuRemain' = cpuRemain - n
  /\ accum' = (accum + n) % speed
  /\ LET ev == (accum + n) \div speed
     IN /\ remain' = remain - ev
        /\ IF ev > 0 /\ remain > 0 THEN UpdateEvent(ev) ELSE NoUpdate

\* n CPU clocks pass; what they overrun the frame by stays owed in remain.
Spend(n) ==
  /\ cpuRemain' = cpuRemain - n
  /\ accum' = (accum + n) % speed
  /\ LET ev == (accum + n) \div speed
     IN /\ remain' = remain - ev
        /\ IF ev > 0 /\ remain > 0 THEN UpdateEvent(Lesser(ev, remain))
                                  ELSE NoUpdate

\* while(event_clocks_remain > 0): an instruction begins.
BeginOp ==
  /\ phase = "loop" /\ remain > 0 /\ cpuRemain > 0 /\ done = 0
  /\ phase' = "op" /\ inOp' = 0
  /\ UNCHANGED <<timing, speed, subs, remain, cpuRemain, accum, done, clock, line,
                 due, ahead>>

\* update_event_in_op, from a memory or port access of the instruction.
DriveInOp(n) ==
  /\ phase = "op" /\ inOp + n <= MaxOp
  /\ inOp' = inOp + n /\ ahead' = ahead + n
  /\ Spend(n)
  /\ UNCHANGED <<phase, timing, speed, subs, done>>

\* Mutant: the sub CPUs do not run the clocks driven inside the instruction.
SubsFollowInOp == 0

\* The sub CPUs run what the main CPU has driven itself.
SubsFollow == inOp

\* The instruction is over; n of its clocks were not driven inside it.
EndOp(n) ==
  /\ phase = "op" /\ inOp + n \in 1..MaxOp
  /\ phase' = "loop"
  /\ IF subs
     THEN /\ done' = n /\ ahead' = ahead + n - SubsFollow
          /\ UNCHANGED <<cpuRemain, accum, remain>> /\ NoUpdate
     ELSE /\ Spend(n) /\ ahead' = 0 /\ UNCHANGED done
  /\ UNCHANGED <<timing, speed, subs, inOp>>

\* With sub CPUs the rest of an instruction is spent four clocks at a time.
SpendDone ==
  /\ phase = "loop" /\ remain > 0 /\ cpuRemain > 0 /\ done > 0
  /\ Spend(Lesser(done, 4))
  /\ done' = done - Lesser(done, 4) /\ ahead' = ahead - Lesser(done, 4)
  /\ UNCHANGED <<phase, timing, speed, subs, inOp>>

\* The CPU's share is used up: the rest of the frame passes without it.
CpuIdles ==
  /\ phase = "loop" /\ remain > 0 /\ cpuRemain <= 0
  /\ UpdateEvent(remain) /\ remain' = 0
  /\ UNCHANGED <<phase, timing, speed, subs, cpuRemain, accum, done, inOp, ahead>>

EndFrame ==
  /\ phase = "loop" /\ remain <= 0
  /\ phase' = "idle"
  /\ UNCHANGED <<timing, speed, subs, remain, cpuRemain, accum, done, inOp, clock,
                 line, due, ahead>>

\* EVENT::reset, between frames.
Reset ==
  /\ phase = "idle"
  /\ remain' = 0 /\ cpuRemain' = 0 /\ accum' = 0 /\ done' = 0
  /\ due' = None /\ ahead' = 0
  /\ UNCHANGED <<phase, timing, speed, subs, inOp, clock, line>>

\* Mutant: the clocks accumulated at the old speed are kept.
SetPowerKeeps(s) ==
  /\ phase = "idle" /\ s # speed /\ cpuRemain < MaxDrift
  /\ speed' = s
  /\ UNCHANGED <<phase, timing, subs, remain, cpuRemain, accum, done, inOp, clock,
                 line, due, ahead>>

\* update_config.
SetPower(s) ==
  /\ phase = "idle" /\ s # speed /\ cpuRemain < MaxDrift
  /\ speed' = s /\ accum' = 0
  /\ UNCHANGED <<phase, timing, subs, remain, cpuRemain, done, inOp, clock, line,
                 due, ahead>>

Drive == \/ \E t \in Timings : StartFrame(t)
         \/ BeginOp \/ SpendDone \/ CpuIdles \/ EndFrame
         \/ \E n \in Pieces : DriveInOp(n)
         \/ \E n \in Pieces \union {0} : EndOp(n)

FrameNext == Drive \/ Reset \/ \E s \in Speeds : SetPower(s)

FrameSpec == FrameInit /\ [][FrameNext]_frameVars

-----------------------------------------------------------------------------
\* Every frame advances the event clock by exactly clocks_per_frame, however
\* long instructions are, whatever the speed, and over changes of either.
FramesAreExact == phase = "idle" => clock = Clocks

\* Every line of a frame starts in it, and the last one's end is not left in
\* the queue to disturb the next frame.
RasterIsWhole == phase = "idle" => line = Lines - 1 /\ due = None

\* Between instructions the sub CPUs are behind by what is still owed to them.
SubsKeepUp == phase # "op" => ahead = done
=============================================================================

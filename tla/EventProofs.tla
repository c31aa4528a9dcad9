----------------------------- MODULE EventProofs -----------------------------
(***************************************************************************)
(* Proofs about the event manager, in two parts that share no state.       *)
(*                                                                         *)
(* The frame (EventFrame): a frame is exactly clocks_per_frame long and    *)
(* the sub CPUs follow the main one, for every frame length, instruction   *)
(* length and CPU speed, and the frame's raster lines all begin and end    *)
(* within it.                                                              *)
(*                                                                         *)
(* The queue (EventList): for every number of slots and every set of       *)
(* timers no slot is lost or handed out twice, the fire list is sorted by  *)
(* the clocks, and a slot number a device holds is its own.  The links are *)
(* followed by a witness, the sequence of slots along them (Chain), so     *)
(* that the walks the model is written with need no recursion to reason    *)
(* about; what a walk returns is shown once, by induction over the naturals*)
(* in the form of SetInduction.                                            *)
(*                                                                         *)
(* The refinement: what is seen along that sequence is EventQueue's line   *)
(* (LineIs), and each step of the slots is one of the line's (StepMaps).   *)
(***************************************************************************)
EXTENDS EventFrame, EventList, NaturalsInduction, WellFoundedInduction,
        FiniteSetTheorems, SequenceTheorems, TLAPS

(***************************************************************************)
(* Induction over the naturals, with a set in the place of a predicate.    *)
(***************************************************************************)
Below == {p \in Nat \X Nat : p[1] < p[2]}
LEMMA BelowIs == OpToRel(<, Nat) = Below
  BY DEF OpToRel, Below
LEMMA Least ==
  ASSUME NEW T, T \subseteq Nat, T # {}
  PROVE  \E x \in T : \A y \in T : x <= y
<1>1. IsWellFoundedOn(Below, Nat)
  BY NatLessThanWellFounded, BelowIs
<1>2. PICK x \in T : \A y \in T : ~(<<y, x>> \in Below)
  BY <1>1, WFMin
<1>3. ASSUME NEW y \in T PROVE x <= y
  <2>1. x \in Nat /\ y \in Nat /\ <<y, x>> \in Nat \X Nat /\ ~(<<y, x>> \in Below)
    BY <1>2
  <2>2. ~(y < x)
    BY <2>1 DEF Below
  <2> QED BY <2>1, <2>2
<1> QED BY <1>3
LEMMA SetInduction ==
  ASSUME NEW S, 0 \in S, \A n \in Nat : n \in S => n + 1 \in S
  PROVE  Nat \subseteq S
<1>1. SUFFICES ASSUME Nat \ S # {} PROVE FALSE
  OBVIOUS
<1>2. PICK x \in Nat \ S : \A y \in Nat \ S : x <= y
  BY <1>1, Least
<1>3. x # 0 /\ x - 1 \in Nat /\ ~(x <= x - 1)
  BY <1>2
<1>4. x - 1 \in S
  BY <1>2, <1>3
<1> QED BY <1>2, <1>3, <1>4

(***************************************************************************)
(* The frame.                                                              *)
(***************************************************************************)
\* The settings and counters have their types.
Settings ==
  /\ phase \in {"idle", "loop", "op"}
  /\ timing \in Timings /\ speed \in Speeds
  /\ remain \in Int /\ cpuRemain \in Int
  /\ accum \in Nat /\ done \in Nat /\ inOp \in Nat

\* The event clock and what is left of the frame always make up the frame.
\* Between frames nothing is left, though clocks may be owed to the next one.
ClockInv ==
  /\ clock \in Int
  /\ phase = "idle" => clock = Clocks /\ remain <= 0
  /\ remain > 0 => clock + remain = Clocks
  /\ remain <= 0 => clock = Clocks

IInv == Settings /\ ClockInv

\* A frame is a number of clocks and of lines.
LEMMA FrameLength ==
  ASSUME NEW t \in Timings PROVE t[1] \in Nat /\ t[2] \in Nat
<1>1. PICK c \in FrameClocks, l \in FrameLines : t = <<c, l>>
  BY DEF Timings
<1>2. t[1] = c /\ t[2] = l /\ c \in Nat /\ l \in Nat
  BY <1>1, EventFrameAssumption
<1>3. QED
  BY <1>2

\* Dividing by the speed gives a natural number.
LEMMA Shifted ==
  ASSUME NEW a \in Nat, NEW s \in Speeds
  PROVE  a \div s \in Nat /\ a % s \in Nat /\ s \in Nat
<1>1. s \in {1, 2, 4, 8, 16}
  BY EventFrameAssumption
<1>2. CASE s = 1
  BY <1>2
<1>3. CASE s = 2
  BY <1>3
<1>4. CASE s = 4
  BY <1>4
<1>5. CASE s = 8
  BY <1>5
<1>6. CASE s = 16
  BY <1>6
<1>7. QED
  BY <1>1, <1>2, <1>3, <1>4, <1>5, <1>6

\* What Spend does to the clock: it takes from remain what it adds.
LEMMA SpendKeeps ==
  ASSUME IInv, phase # "idle", NEW n \in Nat, Spend(n), UNCHANGED timing
  PROVE  /\ cpuRemain' \in Int /\ accum' \in Nat /\ remain' \in Int
         /\ clock' \in Int
         /\ remain' > 0 => clock' + remain' = Clocks
         /\ remain' <= 0 => clock' = Clocks
<1> DEFINE ev == (accum + n) \div speed
<1>1. accum + n \in Nat /\ speed \in Speeds
  BY DEF IInv, Settings
<1>2. ev \in Nat /\ (accum + n) % speed \in Nat
  BY <1>1, Shifted
<1>3. /\ cpuRemain' = cpuRemain - n /\ accum' = (accum + n) % speed
      /\ remain' = remain - ev
      /\ IF ev > 0 /\ remain > 0 THEN clock' = clock + Lesser(ev, remain)
                                 ELSE clock' = clock
  BY DEF Spend, UpdateEvent, NoUpdate
<1>4. Clocks \in Int
  BY FrameLength DEF IInv, Settings, Clocks
<1> HIDE DEF ev
<1>5. QED
  BY <1>2, <1>3, <1>4 DEF IInv, Settings, ClockInv, Lesser

LEMMA InitInv == FrameInit => IInv
<1> SUFFICES ASSUME FrameInit PROVE IInv
  OBVIOUS
<1>1. Clocks \in Int
  BY FrameLength DEF FrameInit, Clocks
<1>2. QED
  BY <1>1 DEF FrameInit, IInv, Settings, ClockInv

LEMMA NextInv == IInv /\ [FrameNext]_frameVars => IInv'
<1> SUFFICES ASSUME IInv, [FrameNext]_frameVars PROVE IInv'
  OBVIOUS
<1> USE DEF IInv
<1>1. ASSUME NEW t \in Timings, StartFrame(t) PROVE IInv'
  <2>1. t[1] \in Nat /\ Clocks' = t[1]
    BY <1>1, FrameLength DEF StartFrame, Clocks
  <2>2. clock' = IF remain < 0 THEN Lesser(-remain, t[1]) ELSE 0
    BY <1>1 DEF StartFrame
  <2>3. /\ remain' = remain + t[1] /\ phase = "idle" /\ phase' = "loop"
        /\ timing' = t /\ cpuRemain' = cpuRemain + t[1] * speed
        /\ UNCHANGED <<speed, accum, done, inOp>>
    BY <1>1 DEF StartFrame
  <2>4. speed \in Nat
    BY Shifted DEF Settings
  <2>5. Settings'
    BY <2>1, <2>3, <2>4 DEF Settings
  <2>6. ClockInv'
    BY <2>1, <2>2, <2>3 DEF Settings, ClockInv, Lesser
  <2>7. QED
    BY <2>5, <2>6
<1>2. CASE BeginOp
  BY <1>2 DEF BeginOp, Settings, ClockInv, Clocks
<1>3. CASE SpendDone
  <2> DEFINE n == Lesser(done, 4)
  <2>1. n \in Nat /\ done - n \in Nat
    BY DEF Settings, Lesser
  <2>2. Spend(n) /\ UNCHANGED timing /\ phase # "idle"
    BY <1>3 DEF SpendDone
  <2>3. done' = done - n /\ UNCHANGED <<phase, timing, speed, inOp>> /\ phase = "loop"
    BY <1>3 DEF SpendDone
  <2> HIDE DEF n
  <2>4. /\ cpuRemain' \in Int /\ accum' \in Nat /\ remain' \in Int
        /\ clock' \in Int
        /\ remain' > 0 => clock' + remain' = Clocks
        /\ remain' <= 0 => clock' = Clocks
    BY <2>1, <2>2, SpendKeeps
  <2>5. QED
    BY <2>1, <2>3, <2>4 DEF Settings, ClockInv, Clocks
<1>4. CASE CpuIdles
  BY <1>4 DEF CpuIdles, UpdateEvent, Settings, ClockInv, Clocks
<1>5. CASE EndFrame
  BY <1>5 DEF EndFrame, Settings, ClockInv, Clocks
<1>6. ASSUME NEW n \in Pieces, DriveInOp(n) PROVE IInv'
  <2>1. n \in Nat /\ Spend(n) /\ UNCHANGED timing /\ phase # "idle"
    BY <1>6, EventFrameAssumption DEF DriveInOp
  <2>2. /\ cpuRemain' \in Int /\ accum' \in Nat /\ remain' \in Int
        /\ clock' \in Int
        /\ remain' > 0 => clock' + remain' = Clocks
        /\ remain' <= 0 => clock' = Clocks
    BY <2>1, SpendKeeps
  <2>3. inOp' = inOp + n /\ UNCHANGED <<phase, timing, speed, done>> /\ phase = "op"
    BY <1>6 DEF DriveInOp
  <2>4. QED
    BY <2>1, <2>2, <2>3 DEF Settings, ClockInv, Clocks
<1>7. ASSUME NEW n \in Pieces \union {0}, EndOp(n) PROVE IInv'
  <2>1. n \in Nat
    BY EventFrameAssumption
  <2>2. phase = "op" /\ phase' = "loop" /\ UNCHANGED <<timing, speed, inOp>>
    BY <1>7 DEF EndOp
  <2>3. CASE subs
    <3>1. done' = n /\ UNCHANGED <<cpuRemain, accum, remain, clock>>
      BY <1>7, <2>3 DEF EndOp, NoUpdate
    <3>2. QED
      BY <2>1, <2>2, <3>1 DEF Settings, ClockInv, Clocks
  <2>4. CASE ~subs
    <3>1. Spend(n) /\ UNCHANGED done
      BY <1>7, <2>4 DEF EndOp
    <3>2. /\ cpuRemain' \in Int /\ accum' \in Nat /\ remain' \in Int
          /\ clock' \in Int
          /\ remain' > 0 => clock' + remain' = Clocks
          /\ remain' <= 0 => clock' = Clocks
      BY <2>1, <2>2, <3>1, SpendKeeps
    <3>3. QED
      BY <2>2, <3>1, <3>2 DEF Settings, ClockInv, Clocks
  <2>5. QED
    BY <2>3, <2>4
<1>8. CASE Reset
  BY <1>8 DEF Reset, Settings, ClockInv, Clocks
<1>9. ASSUME NEW s \in Speeds, SetPower(s) PROVE IInv'
  BY <1>9 DEF SetPower, Settings, ClockInv, Clocks
<1>10. CASE UNCHANGED frameVars
  BY <1>10 DEF frameVars, Settings, ClockInv, Clocks
<1>11. QED
  BY <1>1, <1>2, <1>3, <1>4, <1>5, <1>6, <1>7, <1>8, <1>9, <1>10
  DEF FrameNext, Drive

-----------------------------------------------------------------------------
\* Inside an instruction the sub CPUs are behind by what it has driven itself,
\* and nothing else is owed to them.
SubsInv ==
  /\ SubsKeepUp
  /\ phase = "op" => ahead = inOp /\ done = 0

LEMMA SubsNext ==
  ASSUME IInv, SubsInv, [FrameNext]_frameVars PROVE SubsInv'
<1> USE DEF SubsInv, SubsKeepUp
<1>1. done \in Nat /\ inOp \in Nat /\ phase \in {"idle", "loop", "op"}
  BY DEF IInv, Settings
<1>2. ASSUME NEW t \in Timings, StartFrame(t) PROVE SubsInv'
  BY <1>2 DEF StartFrame
<1>3. CASE BeginOp
  BY <1>3 DEF BeginOp
<1>4. CASE SpendDone
  BY <1>1, <1>4 DEF SpendDone, Lesser
<1>5. CASE CpuIdles \/ EndFrame
  BY <1>5 DEF CpuIdles, EndFrame
<1>6. ASSUME NEW n \in Pieces, DriveInOp(n) PROVE SubsInv'
  BY <1>6 DEF DriveInOp
<1>7. ASSUME NEW n \in Pieces \union {0}, EndOp(n) PROVE SubsInv'
  <2>1. n \in Nat
    BY EventFrameAssumption
  <2>2. CASE subs
    BY <1>1, <1>7, <2>1, <2>2 DEF EndOp, SubsFollow
  <2>3. CASE ~subs
    BY <1>7, <2>3 DEF EndOp
  <2>4. QED
    BY <2>2, <2>3
<1>8. CASE Reset
  BY <1>8 DEF Reset
<1>9. ASSUME NEW s \in Speeds, SetPower(s) PROVE SubsInv'
  BY <1>9 DEF SetPower
<1>10. CASE UNCHANGED frameVars
  BY <1>10 DEF frameVars
<1>11. QED
  BY <1>2, <1>3, <1>4, <1>5, <1>6, <1>7, <1>8, <1>9, <1>10 DEF FrameNext, Drive

-----------------------------------------------------------------------------
\* EVENT::drive advances the event clock by exactly clocks_per_frame,
\* whatever instructions, speeds and changes of timing a frame meets.
THEOREM ExactFrames == FrameSpec => []FramesAreExact
<1>1. IInv => FramesAreExact
  BY DEF IInv, ClockInv, FramesAreExact
<1>2. QED
  BY <1>1, InitInv, NextInv, PTL DEF FrameSpec

\* Between instructions the sub CPUs are behind the main CPU by the clocks
\* EVENT::drive still owes them, and by no clock it drove inside instructions.
THEOREM SubsFollowTheCpu == FrameSpec => []SubsKeepUp
<1>1. FrameInit => SubsInv
  BY DEF FrameInit, SubsInv, SubsKeepUp
<1>2. IInv /\ SubsInv /\ [FrameNext]_frameVars => SubsInv'
  BY SubsNext
<1>3. SubsInv => SubsKeepUp
  BY DEF SubsInv
<1>4. QED
  BY <1>1, <1>2, <1>3, InitInv, NextInv, PTL DEF FrameSpec

-----------------------------------------------------------------------------
(***************************************************************************)
(* The raster.  Line l begins when the lines before it are over, at a      *)
(* clock that a formula gives; update_event's turns are as many as there   *)
(* are lines, and leave the queue with an event that is not due yet.       *)
(***************************************************************************)
Rest(t) == t[1] - t[2] * (t[1] \div t[2])
Earlier(t, l) == {k \in 0..(Rest(t) - 1) : (t[2] * k) \div Rest(t) < l}
LineBegins(t, l) == l * (t[1] \div t[2]) + Cardinality(Earlier(t, l))

LEMMA FrameDivides ==
  ASSUME NEW t \in Timings
  PROVE  /\ t[1] \in Nat /\ t[2] \in Nat \ {0} /\ t[1] \div t[2] \in Nat
         /\ Rest(t) \in Nat /\ t[2] * (t[1] \div t[2]) + Rest(t) = t[1]
<1>1. PICK c \in FrameClocks, l \in FrameLines : t = <<c, l>>
  BY DEF Timings
<1>2. c \in Nat /\ l \in Nat \ {0} /\ t[1] = c /\ t[2] = l
  BY <1>1, EventFrameAssumption
<1>3. c \div l \in Nat /\ c % l \in Nat /\ c = l * (c \div l) + (c % l)
  BY <1>2
<1>4. l * (c \div l) \in Nat
  BY <1>2, <1>3
<1> QED BY <1>2, <1>3, <1>4 DEF Rest

LEMMA LinesBegin ==
  ASSUME NEW t \in Timings
  PROVE  /\ LineBegins(t, 0) = 0
         /\ \A l \in 0..t[2] : LineBegins(t, l) \in Nat /\ LineBegins(t, l) <= t[1]
         /\ \A l \in 0..(t[2] - 1) : LineBegins(t, l + 1) = LineBegins(t, l) + PerLine(t, l)
<1> DEFINE q == t[1] \div t[2]
           r == Rest(t)
           Share(l) == {k \in 0..(r - 1) : (t[2] * k) \div r = l}
<1>1. q \in Nat /\ r \in Nat /\ t[2] \in Nat \ {0} /\ t[1] \in Nat /\ t[2] * q + r = t[1]
  BY FrameDivides
<1>2. ASSUME NEW k \in 0..(r - 1) PROVE (t[2] * k) \div r \in Nat
  <2>1. \A a, b \in Nat : a * b \in Nat
    OBVIOUS
  <2>2. \A a \in Nat, b \in Nat \ {0} : a \div b \in Nat
    OBVIOUS
  <2>3. t[2] * k \in Nat /\ r \in Nat \ {0}
    BY <1>1, <2>1
  <2> HIDE DEF r
  <2> QED BY <2>2, <2>3
<1> HIDE DEF q, r
<1>3. IsFiniteSet(0..(r - 1)) /\ Cardinality(0..(r - 1)) = r
  <2>1. 0 \in Int /\ r - 1 \in Int /\ (IF 0 > r - 1 THEN 0 ELSE r - 1 - 0 + 1) = r
    BY <1>1
  <2> QED BY <2>1, FS_Interval
<1>4. ASSUME NEW l \in Int
      PROVE  /\ IsFiniteSet(Earlier(t, l)) /\ Cardinality(Earlier(t, l)) \in Nat
             /\ Cardinality(Earlier(t, l)) <= r
             /\ IsFiniteSet(Share(l))
  <2>1. Earlier(t, l) \subseteq 0..(r - 1) /\ Share(l) \subseteq 0..(r - 1)
    BY DEF Earlier, r
  <2> QED BY <1>3, <2>1, FS_Subset, FS_CardinalityType
<1>5. LineBegins(t, 0) = 0
  <2>1. Earlier(t, 0) = {}
    BY <1>2 DEF Earlier, r
  <2>2. 0 * q = 0
    BY <1>1
  <2> QED BY <2>1, <2>2, FS_EmptySet DEF LineBegins, q
<1>6. ASSUME NEW l \in 0..t[2] PROVE LineBegins(t, l) \in Nat /\ LineBegins(t, l) <= t[1]
  <2>1. \A a, b \in Nat : a * b \in Nat
    OBVIOUS
  <2>2. \A a, b, c \in Nat : a <= b => a * c <= b * c
    OBVIOUS
  <2>3. l \in Nat /\ l * q \in Nat /\ l * q <= t[2] * q /\ t[2] * q \in Nat
    BY <1>1, <2>1, <2>2
  <2>4. LineBegins(t, l) = l * q + Cardinality(Earlier(t, l))
    BY DEF LineBegins, q
  <2>5. Cardinality(Earlier(t, l)) \in Nat /\ Cardinality(Earlier(t, l)) <= r
    <3>1. l \in Int
      OBVIOUS
    <3> QED BY ONLY <1>4, <3>1
  <2> QED BY <1>1, <2>3, <2>4, <2>5
<1>7. ASSUME NEW l \in 0..(t[2] - 1) PROVE LineBegins(t, l + 1) = LineBegins(t, l) + PerLine(t, l)
  <2>1. l \in Int /\ Earlier(t, l + 1) = Earlier(t, l) \union Share(l) /\ Earlier(t, l) \cap Share(l) = {}
    BY <1>2 DEF Earlier, r
  <2>2. Cardinality(Earlier(t, l + 1)) = Cardinality(Earlier(t, l)) + Cardinality(Share(l)) - Cardinality({})
    BY <1>4, <2>1, FS_Union
  <2>3. Cardinality(Share(l)) \in Nat /\ Cardinality(Earlier(t, l)) \in Nat /\ Cardinality({}) = 0
    BY <1>4, <2>1, FS_CardinalityType, FS_EmptySet
  <2>4. PerLine(t, l) = q + Cardinality(Share(l))
    BY DEF PerLine, Rest, q, r
  <2>5. (l + 1) * q = l * q + q /\ l * q \in Int
    BY <1>1, <2>1
  <2> QED BY <1>1, <2>2, <2>3, <2>4, <2>5 DEF LineBegins, q
<1> QED BY <1>5, <1>6, <1>7

\* Where the event of the line l is.
EventOf(t, l) == IF l + 1 < t[2] THEN LineBegins(t, l + 1) ELSE None

LEMMA LineEndIs ==
  ASSUME NEW t \in Timings, NEW l \in 0..(t[2] - 1)
  PROVE  LineEnd(t, l, LineBegins(t, l)) = EventOf(t, l)
  BY LinesBegin DEF LineEnd, EventOf

RasterRun(m, t, l, d, c, f) ==
  [n \in 0..m |->
     IF n = 0 THEN [line |-> l, due |-> d]
     ELSE LET p == f[n - 1]
          IN IF p.due # None /\ p.due <= c
             THEN [line |-> p.line + 1, due |-> LineEnd(t, p.line + 1, p.due)]
             ELSE p]

\* The turns are a function: one that begins as it should can be continued.
LEMMA RasterRuns ==
  ASSUME NEW m \in Nat, NEW t, NEW l, NEW d, NEW c
  PROVE  \E f : f = RasterRun(m, t, l, d, c, f)
<1> DEFINE S == {i \in Nat : \E f : f = RasterRun(i, t, l, d, c, f)}
<1>1. 0 \in S
  <2> DEFINE f == [n \in 0..0 |-> [line |-> l, due |-> d]]
  <2>1. f = RasterRun(0, t, l, d, c, f)
    BY DEF RasterRun
  <2> QED BY <2>1
<1>2. ASSUME NEW i \in Nat, i \in S PROVE i + 1 \in S
  <2>1. PICK f : f = RasterRun(i, t, l, d, c, f)
    BY <1>2
  <2> DEFINE p == f[i]
             last == IF p.due # None /\ p.due <= c
                     THEN [line |-> p.line + 1, due |-> LineEnd(t, p.line + 1, p.due)]
                     ELSE p
             g == [k \in 0..(i + 1) |-> IF k = i + 1 THEN last ELSE f[k]]
  <2>2. g[i + 1] = last /\ \A k \in 0..i : g[k] = f[k]
    <3>1. i + 1 \in 0..(i + 1) /\ \A k \in 0..i : k \in 0..(i + 1) /\ k # i + 1
      OBVIOUS
    <3> HIDE DEF last
    <3> QED BY <3>1
  <2>3. \A k \in 0..i : f[k] = RasterRun(i, t, l, d, c, f)[k]
    BY <2>1
  <2>5. g = [k \in 0..(i + 1) |-> g[k]]
        /\ RasterRun(i + 1, t, l, d, c, g) = [k \in 0..(i + 1) |-> RasterRun(i + 1, t, l, d, c, g)[k]]
    BY DEF RasterRun
  <2> HIDE DEF g
  <2>4. ASSUME NEW k \in 0..(i + 1) PROVE g[k] = RasterRun(i + 1, t, l, d, c, g)[k]
    <3>1. CASE k = i + 1
      <4>1. k # 0 /\ k - 1 = i /\ i \in 0..i
        BY <3>1
      <4> QED BY <4>1, <3>1, <2>2 DEF RasterRun
    <3>2. CASE k # i + 1
      <4>1. k \in 0..i /\ (k # 0 => k - 1 \in 0..i)
        BY <3>2
      <4>2. g[k] = f[k] /\ (k # 0 => g[k - 1] = f[k - 1])
        BY <4>1, <2>2
      <4> QED BY <4>1, <4>2, <2>3 DEF RasterRun
    <3> QED BY <3>1, <3>2
  <2>6. g = RasterRun(i + 1, t, l, d, c, g)
    BY <2>4, <2>5
  <2> QED BY <2>6
<1> HIDE DEF S
<1>3. Nat \subseteq S
  BY <1>1, <1>2, SetInduction
<1> QED BY <1>3 DEF S

\* After the turns the line is one whose event is not due yet.
LEMMA RasterIs ==
  ASSUME NEW t \in Timings, NEW l \in 0..(t[2] - 1), NEW c \in Int
  PROVE  LET r == Raster(t, l, EventOf(t, l), c)
         IN /\ r.line \in 0..(t[2] - 1) /\ r.due = EventOf(t, r.line)
            /\ r.due # None => r.due > c
<1> DEFINE d == EventOf(t, l)
           f == CHOOSE g : g = RasterRun(t[2], t, l, d, c, g)
<1>1. t[2] \in Nat /\ t[2] # 0
  BY FrameDivides
<1>2. Raster(t, l, d, c) = f[t[2]]
  BY DEF Raster, RasterRun
<1>3. f = RasterRun(t[2], t, l, d, c, f)
  BY <1>1, RasterRuns
<1>4. ASSUME NEW k \in 0..(t[2] - 1)
      PROVE  EventOf(t, k) = None \/ (k + 1 \in 0..(t[2] - 1) /\ EventOf(t, k) \in Nat
                                      /\ EventOf(t, k) = LineBegins(t, k + 1))
  <2>1. k + 1 < t[2] => k + 1 \in 0..(t[2] - 1) /\ k + 1 \in 0..t[2]
    BY <1>1
  <2> QED BY <2>1, LinesBegin DEF EventOf
<1> HIDE DEF f, d
<1> DEFINE OK(n) == /\ f[n].line \in l..(t[2] - 1) /\ f[n].due = EventOf(t, f[n].line)
                    /\ f[n].due # None /\ f[n].due <= c => f[n].line = l + n
<1>5. OK(0)
  <2>1. 0 \in 0..t[2]
    BY <1>1
  <2>2. f[0] = [line |-> l, due |-> d]
    BY <1>3, <2>1 DEF RasterRun
  <2> QED BY <1>1, <2>2 DEF d
<1>6. ASSUME NEW n \in Nat, n + 1 <= t[2], OK(n) PROVE OK(n + 1)
  <2>1. n + 1 \in 0..t[2] /\ n + 1 # 0 /\ (n + 1) - 1 = n
    BY <1>1, <1>6
  <2>2. f[n + 1] = IF f[n].due # None /\ f[n].due <= c
                   THEN [line |-> f[n].line + 1, due |-> LineEnd(t, f[n].line + 1, f[n].due)]
                   ELSE f[n]
    <3> HIDE DEF OK
    <3>1. f[n + 1] = RasterRun(t[2], t, l, d, c, f)[n + 1]
      BY <1>3
    <3> QED BY <3>1, <2>1 DEF RasterRun
  <2>3. CASE f[n].due # None /\ f[n].due <= c
    <3>1. /\ f[n].line \in 0..(t[2] - 1) /\ f[n].due = EventOf(t, f[n].line) /\ f[n].line = l + n
      BY <1>6, <2>3
    <3>2. /\ f[n].line + 1 \in 0..(t[2] - 1) /\ f[n].due = LineBegins(t, f[n].line + 1)
      BY <1>4, <2>3, <3>1
    <3>3. LineEnd(t, f[n].line + 1, f[n].due) = EventOf(t, f[n].line + 1)
      BY <3>2, LineEndIs
    <3>4. f[n + 1].line = f[n].line + 1 /\ f[n + 1].due = EventOf(t, f[n].line + 1)
      BY <2>2, <2>3, <3>3
    <3>5. f[n + 1].line = l + (n + 1) /\ f[n + 1].line \in l..(t[2] - 1)
      BY <3>1, <3>2, <3>4
    <3> QED BY <3>4, <3>5
  <2>4. CASE ~(f[n].due # None /\ f[n].due <= c)
    BY <1>6, <2>2, <2>4
  <2> QED BY <2>3, <2>4
<1>7. Nat \subseteq {n \in Nat : n <= t[2] => OK(n)}
  <2> DEFINE S == {n \in Nat : n <= t[2] => OK(n)}
  <2> HIDE DEF OK
  <2>1. 0 \in S
    BY <1>5
  <2>2. ASSUME NEW n \in Nat, n \in S PROVE n + 1 \in S
    <3>1. n + 1 <= t[2] => n <= t[2]
      BY <1>1
    <3> QED BY <1>6, <2>2, <3>1
  <2> HIDE DEF S
  <2>3. Nat \subseteq S
    BY <2>1, <2>2, SetInduction
  <2> QED BY <2>3 DEF S
<1>8. OK(t[2])
  <2> HIDE DEF OK
  <2>1. t[2] <= t[2]
    BY <1>1
  <2> QED BY <1>1, <1>7, <2>1
<1>9. f[t[2]].line \in 0..(t[2] - 1) /\ f[t[2]].due = EventOf(t, f[t[2]].line)
  BY <1>1, <1>8
<1>10. f[t[2]].due # None => f[t[2]].due > c
  <2>1. ~(f[t[2]].line = l + t[2])
    BY <1>1, <1>8
  <2>2. f[t[2]].due # None => f[t[2]].due \in Nat
    BY <1>4, <1>9
  <2> QED BY <1>8, <2>1, <2>2
<1> QED BY <1>2, <1>9, <1>10 DEF d

\* Within a frame the next line's event is in the queue, and it is not due yet.
RasterInv ==
  /\ phase = "idle" => line = Lines - 1 /\ due = None
  /\ phase # "idle" => /\ line \in 0..(Lines - 1) /\ due = EventOf(timing, line)
                       /\ due # None => due > clock

LEMMA UpdateKeeps ==
  ASSUME IInv, RasterInv, phase # "idle", NEW n \in Int, UpdateEvent(n), timing' = timing, phase' # "idle"
  PROVE  RasterInv'
<1>1. timing \in Timings /\ line \in 0..(timing[2] - 1) /\ due = EventOf(timing, line) /\ clock + n \in Int
  BY DEF IInv, Settings, ClockInv, RasterInv, Lines
<1> DEFINE r == Raster(timing, line, EventOf(timing, line), clock + n)
<1>2. r.line \in 0..(timing[2] - 1) /\ r.due = EventOf(timing, r.line) /\ (r.due # None => r.due > clock + n)
  BY <1>1, RasterIs
<1>3. line' = r.line /\ due' = r.due /\ clock' = clock + n
  BY <1>1 DEF UpdateEvent
<1> HIDE DEF r
<1> QED BY <1>2, <1>3 DEF RasterInv, Lines

LEMMA SpendDraws ==
  ASSUME IInv, RasterInv, phase # "idle", NEW n \in Nat, Spend(n), timing' = timing, phase' # "idle"
  PROVE  RasterInv'
<1> DEFINE ev == (accum + n) \div speed
<1>1. ev \in Nat /\ remain \in Int
  <2>1. accum + n \in Nat /\ speed \in Speeds /\ remain \in Int
    BY DEF IInv, Settings
  <2> QED BY <2>1, Shifted
<1>2. IF ev > 0 /\ remain > 0 THEN UpdateEvent(Lesser(ev, remain)) ELSE NoUpdate
  BY DEF Spend
<1> HIDE DEF ev
<1>3. CASE ev > 0 /\ remain > 0
  <2>1. Lesser(ev, remain) \in Int
    BY <1>1 DEF Lesser
  <2> QED BY <1>2, <1>3, <2>1, UpdateKeeps
<1>4. CASE ~(ev > 0 /\ remain > 0)
  BY <1>2, <1>4 DEF NoUpdate, RasterInv, Lines
<1> QED BY <1>3, <1>4

LEMMA RasterNext ==
  ASSUME IInv, RasterInv, [FrameNext]_frameVars PROVE RasterInv'
<1>1. ASSUME NEW t \in Timings, StartFrame(t) PROVE RasterInv'
  <2> DEFINE late == IF remain < 0 THEN Lesser(-remain, t[1]) ELSE 0
             r == Raster(t, 0, EventOf(t, 0), late)
  <2>1. t[1] \in Nat /\ t[2] \in Nat \ {0} /\ 0 \in 0..(t[2] - 1) /\ remain \in Int
    BY FrameDivides DEF IInv, Settings
  <2>2. LineEnd(t, 0, 0) = EventOf(t, 0)
    BY <2>1, LineEndIs, LinesBegin
  <2>3. late \in Int
    BY <2>1 DEF Lesser
  <2>4. r.line \in 0..(t[2] - 1) /\ r.due = EventOf(t, r.line) /\ (r.due # None => r.due > late)
    BY <2>1, <2>3, RasterIs
  <2>5. phase' = "loop" /\ timing' = t /\ clock' = late /\ line' = r.line /\ due' = r.due
    BY <1>1, <2>2 DEF StartFrame
  <2> HIDE DEF late, r
  <2> QED BY <2>4, <2>5 DEF RasterInv, Lines
<1>2. CASE BeginOp
  BY <1>2 DEF BeginOp, RasterInv, Lines
<1>3. CASE SpendDone
  <2>1. Lesser(done, 4) \in Nat
    BY DEF IInv, Settings, Lesser
  <2> QED BY <1>3, <2>1, SpendDraws DEF SpendDone
<1>4. CASE CpuIdles
  BY <1>4, UpdateKeeps DEF CpuIdles, IInv, Settings
<1>5. CASE EndFrame
  <2>1. /\ clock = Clocks /\ phase # "idle" /\ phase' = "idle" /\ timing \in Timings
        /\ UNCHANGED <<line, due, timing>>
    BY <1>5 DEF EndFrame, IInv, ClockInv, Settings
  <2>2. timing[1] \in Nat /\ timing[2] \in Nat \ {0}
    BY <2>1, FrameDivides
  <2>3. line \in 0..(timing[2] - 1) /\ due = EventOf(timing, line) /\ (due # None => due > timing[1])
    BY <2>1 DEF RasterInv, Lines, Clocks
  <2>4. ~(line + 1 < timing[2])
    <3> SUFFICES ASSUME line + 1 < timing[2] PROVE FALSE
      OBVIOUS
    <3>1. line + 1 \in 0..timing[2]
      BY <2>2, <2>3
    <3>2. due = LineBegins(timing, line + 1) /\ due \in Nat /\ due <= timing[1]
      BY <2>1, <2>3, <3>1, LinesBegin DEF EventOf
    <3> QED BY <2>2, <2>3, <3>2 DEF None
  <2>5. due = None /\ line = timing[2] - 1
    BY <2>2, <2>3, <2>4 DEF EventOf
  <2> QED BY <2>1, <2>5 DEF RasterInv, Lines
<1>6. ASSUME NEW n \in Pieces, DriveInOp(n) PROVE RasterInv'
  BY <1>6, EventFrameAssumption, SpendDraws DEF DriveInOp
<1>7. ASSUME NEW n \in Pieces \union {0}, EndOp(n) PROVE RasterInv'
  <2>1. n \in Nat /\ phase = "op" /\ phase' = "loop" /\ timing' = timing
    BY <1>7, EventFrameAssumption DEF EndOp
  <2>2. CASE subs
    BY <1>7, <2>1, <2>2 DEF EndOp, NoUpdate, RasterInv, Lines
  <2>3. CASE ~subs
    BY <1>7, <2>1, <2>3, SpendDraws DEF EndOp
  <2> QED BY <2>2, <2>3
<1>8. CASE Reset
  BY <1>8 DEF Reset, RasterInv, Lines
<1>9. ASSUME NEW s \in Speeds, SetPower(s) PROVE RasterInv'
  BY <1>9 DEF SetPower, RasterInv, Lines
<1>10. CASE UNCHANGED frameVars
  BY <1>10 DEF frameVars, RasterInv, Lines
<1> QED BY <1>1, <1>2, <1>3, <1>4, <1>5, <1>6, <1>7, <1>8, <1>9, <1>10 DEF FrameNext, Drive

\* Every frame begins and ends with its own lines, however its clocks divide among
\* them and whatever instructions overrun it: the last line has begun when the frame
\* is over, and no line's event is left for the next frame (EVENT::drive and
\* event_callback in event.cpp).
THEOREM LinesMakeAFrame == FrameSpec => []RasterIsWhole
<1>1. FrameInit => RasterInv
  BY DEF FrameInit, RasterInv
<1>2. RasterInv => RasterIsWhole
  BY DEF RasterInv, RasterIsWhole
<1> QED BY <1>1, <1>2, InitInv, NextInv, RasterNext, PTL DEF FrameSpec

(***************************************************************************)
(* The queue.                                                              *)
(***************************************************************************)
\* m slots, each once, that are met from first along the next links.
Chain(nx, first, m, q) ==
  /\ m \in Nat /\ q \in [1..m -> SlotIds]
  /\ \A i, j \in 1..m : q[i] = q[j] => i = j
  /\ first = IF m = 0 THEN NoSlot ELSE q[1]
  /\ \A i \in 1..m : nx[q[i]] = IF i = m THEN NoSlot ELSE q[i + 1]

LEMMA SlotIsSomething ==
  ASSUME EventListAssumption, NEW s \in SlotIds
  PROVE  s # NoSlot /\ s \in Nat /\ s \in Links
  BY DEF EventListAssumption, SlotIds, NoSlot, Links

Steps1(first, nx, f) ==
  [n \in Nat |-> IF n = 0 THEN first ELSE IF f[n - 1] = NoSlot THEN NoSlot ELSE nx[f[n - 1]]]

LEMMA WalkIs ==
  ASSUME EventListAssumption, NEW nx, NEW first, NEW m, NEW q, Chain(nx, first, m, q), NEW n \in Nat
  PROVE  Walk(first, nx)[n] = IF n < m THEN q[n + 1] ELSE NoSlot
<1> DEFINE at == Walk(first, nx)
           g == [i \in Nat |-> IF i < m THEN q[i + 1] ELSE NoSlot]
<1>1. g = Steps1(first, nx, g)
  <2>1. ASSUME NEW i \in Nat
        PROVE  g[i] = IF i = 0 THEN first ELSE IF g[i - 1] = NoSlot THEN NoSlot ELSE nx[g[i - 1]]
    <3>1. CASE i = 0
      BY <3>1 DEF Chain
    <3>2. CASE i # 0 /\ i - 1 < m
      <4>1. i \in 1..m /\ g[i - 1] = q[i] /\ q[i] \in SlotIds
        BY <3>2 DEF Chain
      <4>2. g[i - 1] # NoSlot /\ nx[q[i]] = IF i = m THEN NoSlot ELSE q[i + 1]
        BY <4>1, SlotIsSomething DEF Chain
      <4>3. g[i] = IF i < m THEN q[i + 1] ELSE NoSlot
        OBVIOUS
      <4> QED BY <3>2, <4>1, <4>2, <4>3 DEF Chain
    <3>3. CASE i # 0 /\ ~(i - 1 < m)
      <4>1. m \in Nat /\ i - 1 \in Nat /\ ~(i < m)
        BY <3>3 DEF Chain
      <4> QED BY <3>3, <4>1
    <3> QED BY <3>1, <3>2, <3>3
  <2> QED BY <2>1 DEF Steps1
<1>2. at = CHOOSE f : f = Steps1(first, nx, f)
  BY DEF Walk, Steps1
<1> HIDE DEF g, at
<1>3. at = Steps1(first, nx, at)
  BY <1>1, <1>2
<1>4. at[0] = g[0] /\ \A i \in Nat : at[i] = g[i] => at[i + 1] = g[i + 1]
  <2>1. at[0] = g[0]
    BY <1>1, <1>3 DEF Steps1
  <2>2. ASSUME NEW i \in Nat, at[i] = g[i] PROVE at[i + 1] = g[i + 1]
    <3>1. i + 1 \in Nat /\ i + 1 # 0 /\ (i + 1) - 1 = i
      OBVIOUS
    <3>2. \A h : h = Steps1(first, nx, h) => h[i + 1] = IF h[i] = NoSlot THEN NoSlot ELSE nx[h[i]]
      BY <3>1 DEF Steps1
    <3> QED BY <1>1, <1>3, <2>2, <3>2
  <2> QED BY <2>1, <2>2
<1>5. Nat \subseteq {i \in Nat : at[i] = g[i]}
  <2> DEFINE S == {i \in Nat : at[i] = g[i]}
  <2>1. 0 \in S /\ \A i \in Nat : i \in S => i + 1 \in S
    BY <1>4
  <2> HIDE DEF S
  <2> QED BY <2>1, SetInduction DEF S
<1> QED BY <1>5 DEF at, g

LinkState == [next : [SlotIds -> Links], prev : [SlotIds -> Links], free : Links, fire : Links]

FireOK(l, A, exp, m, q) ==
  /\ Chain(l.next, l.fire, m, q)
  /\ A = {q[i] : i \in 1..m}
  /\ \A i \in 1..m : l.prev[q[i]] = IF i = 1 THEN NoSlot ELSE q[i - 1]
  /\ \A i \in 1..(m - 1) : exp[q[i]] <= exp[q[i + 1]]

FreeOK(l, F, k, q) == Chain(l.next, l.free, k, q) /\ F = {q[i] : i \in 1..k}

ListsOK(l, A, F, exp) ==
  /\ l \in LinkState /\ A \cap F = {}
  /\ \E m, q : FireOK(l, A, exp, m, q)
  /\ \E k, q : FreeOK(l, F, k, q)

LEMMA FireKept ==
  ASSUME NEW l, NEW k, NEW A, NEW exp, NEW exp2, NEW m, NEW q, FireOK(l, A, exp, m, q),
         k.fire = l.fire,
         \A x \in A : k.next[x] = l.next[x] /\ k.prev[x] = l.prev[x] /\ exp2[x] = exp[x]
  PROVE  FireOK(k, A, exp2, m, q)
<1>1. m \in Nat /\ \A i \in 1..m : q[i] \in A
  BY DEF FireOK, Chain
<1>2. \A i \in 1..(m - 1) : i \in 1..m /\ i + 1 \in 1..m
  BY <1>1
<1> QED BY <1>1, <1>2 DEF FireOK, Chain

LEMMA FreeKept ==
  ASSUME NEW l, NEW k, NEW F, NEW m, NEW q, FreeOK(l, F, m, q),
         k.free = l.free, \A x \in F : k.next[x] = l.next[x]
  PROVE  FreeOK(k, F, m, q)
  BY DEF FreeOK, Chain

\* A slot that is in neither list is freed.
LEMMA FreeIs ==
  ASSUME EventListAssumption, NEW l, NEW A, NEW F, NEW exp, ListsOK(l, A, F, exp),
         NEW s \in SlotIds, s \notin A, s \notin F
  PROVE  ListsOK(Free(l, s), A, F \union {s}, exp)
<1> DEFINE l2 == Free(l, s)
<1>1. /\ l2 \in LinkState /\ l2.fire = l.fire /\ l2.free = s /\ l2.prev = l.prev
      /\ l2.next[s] = l.free /\ \A x \in SlotIds : x # s => l2.next[x] = l.next[x]
  BY SlotIsSomething DEF ListsOK, LinkState, Free
<1>2. PICK m, q : FireOK(l, A, exp, m, q)
  BY DEF ListsOK
<1>3. PICK k, p : FreeOK(l, F, k, p)
  BY DEF ListsOK
<1>4. A \subseteq SlotIds /\ F \subseteq SlotIds
  BY <1>2, <1>3 DEF FireOK, FreeOK, Chain
<1> HIDE DEF l2
<1>5. FireOK(l2, A, exp, m, q)
  BY <1>1, <1>2, <1>4, FireKept
<1> DEFINE p2 == [i \in 1..(k + 1) |-> IF i = 1 THEN s ELSE p[i - 1]]
<1>6. FreeOK(l2, F \union {s}, k + 1, p2)
  <2>1. k \in Nat /\ k + 1 \in Nat /\ p \in [1..k -> SlotIds] /\ 1 \in 1..(k + 1)
    BY <1>3 DEF FreeOK, Chain
  <2>2. \A i \in 2..(k + 1) : i - 1 \in 1..k /\ p2[i] = p[i - 1] /\ p[i - 1] \in F /\ i \in 1..(k+1)
    BY <2>1, <1>3 DEF FreeOK
  <2>3. p2[1] = s /\ \A i \in 1..(k + 1) : i = 1 \/ i \in 2..(k + 1)
    BY <2>1
  <2>4. p2 \in [1..(k + 1) -> SlotIds]
    BY <2>1
  <2>9. \A i \in 1..k : p[i] \in F /\ i + 1 \in 2..(k + 1) /\ p2[i + 1] = p[i]
    BY <2>1, <1>3 DEF FreeOK
  <2> HIDE DEF p2
  <2>5. \A i, j \in 1..(k + 1) : p2[i] = p2[j] => i = j
    <3> SUFFICES ASSUME NEW i \in 1..(k + 1), NEW j \in 1..(k + 1), p2[i] = p2[j] PROVE i = j
      OBVIOUS
    <3>1. CASE i = 1 /\ j = 1
      BY <3>1
    <3>2. CASE i \in 2..(k + 1) /\ j \in 2..(k + 1)
      BY <3>2, <2>2, <1>3, <2>1 DEF FreeOK, Chain
    <3> QED BY <3>1, <3>2, <2>2, <2>3
  <2>6. F \union {s} = {p2[i] : i \in 1..(k + 1)}
    <3>1. ASSUME NEW x \in F PROVE \E i \in 1..(k + 1) : x = p2[i]
      <4>1. PICK i \in 1..k : x = p[i]
        BY <1>3 DEF FreeOK
      <4> QED BY <4>1, <2>9, <2>2
    <3>2. \A i \in 1..(k + 1) : p2[i] \in F \union {s}
      BY <2>2, <2>3
    <3> QED BY <3>1, <3>2, <2>1, <2>3
  <2>7. \A i \in 1..(k + 1) : l2.next[p2[i]] = IF i = k + 1 THEN NoSlot ELSE p2[i + 1]
    <3> SUFFICES ASSUME NEW i \in 1..(k + 1)
                 PROVE  l2.next[p2[i]] = IF i = k + 1 THEN NoSlot ELSE p2[i + 1]
      OBVIOUS
    <3>1. CASE i = 1
      <4>1. CASE k = 0
        BY <3>1, <4>1, <2>3, <1>1, <1>3 DEF FreeOK, Chain
      <4>2. CASE k # 0
        <5>1. 1 \in 1..k /\ p2[2] = p[1] /\ l.free = p[1]
          BY <4>2, <2>1, <2>9, <1>3 DEF FreeOK, Chain
        <5> QED BY <3>1, <4>2, <5>1, <2>3, <1>1, <2>1
      <4> QED BY <4>1, <4>2
    <3>2. CASE i # 1
      <4>1. i \in 2..(k + 1) /\ i - 1 \in 1..k /\ p2[i] = p[i - 1] /\ p[i - 1] \in F
        BY <3>2, <2>2, <2>3
      <4>2. l2.next[p2[i]] = l.next[p[i - 1]]
        BY <4>1, <1>1, <1>4
      <4>3. l.next[p[i - 1]] = IF i - 1 = k THEN NoSlot ELSE p[i]
        <5>1. (i - 1) + 1 = i
          OBVIOUS
        <5> QED BY <4>1, <5>1, <1>3 DEF FreeOK, Chain
      <4>4. i # k + 1 => i \in 1..k /\ p2[i + 1] = p[i]
        BY <2>1, <2>9
      <4> QED BY <4>2, <4>3, <4>4, <2>1
    <3> QED BY <3>1, <3>2
  <2> QED BY <1>1, <2>1, <2>3, <2>4, <2>5, <2>6, <2>7 DEF FreeOK, Chain
<1> QED BY <1>1, <1>5, <1>6 DEF ListsOK, l2
\* A chain without its j-th slot, and with s behind its first n.
Drop(q, m, j) == [i \in 1..(m - 1) |-> q[IF i < j THEN i ELSE i + 1]]
Put(q, m, n, s) ==
  [i \in 1..(m + 1) |-> IF i <= n THEN q[i] ELSE IF i = n + 1 THEN s ELSE q[i - 1]]

\* A pending slot leaves the fire list, the others keep their order.
LEMMA DetachedChain ==
  ASSUME EventListAssumption, NEW l, NEW A, NEW F, NEW exp, ListsOK(l, A, F, exp), NEW s \in A,
         exp \in [SlotIds -> Nat], NEW m, NEW q, FireOK(l, A, exp, m, q)
  PROVE  /\ ListsOK(Detached(l, s), A \ {s}, F, exp)
         /\ \E j \in 1..m : q[j] = s /\ FireOK(Detached(l, s), A \ {s}, exp, m - 1, Drop(q, m, j))
<1> DEFINE l2 == Detached(l, s)
<1>1. FireOK(l, A, exp, m, q)
  OBVIOUS
<1>2. PICK k, p : FreeOK(l, F, k, p)
  BY DEF ListsOK
<1>3. /\ m \in Nat /\ q \in [1..m -> SlotIds]
      /\ \A i \in 1..m : q[i] \in SlotIds /\ q[i] \in A /\ q[i] # NoSlot
      /\ \A i, j \in 1..m : q[i] = q[j] => i = j
      /\ A \subseteq SlotIds /\ F \subseteq SlotIds
  BY <1>1, <1>2, SlotIsSomething DEF FireOK, FreeOK, Chain
<1>4. PICK j \in 1..m : q[j] = s
  BY <1>1 DEF FireOK
<1>5. /\ l.prev[s] = IF j = 1 THEN NoSlot ELSE q[j - 1]
      /\ l.next[s] = IF j = m THEN NoSlot ELSE q[j + 1]
      /\ l.fire = q[1] /\ m # 0
      /\ j # 1 => j - 1 \in 1..m
      /\ j # m => j + 1 \in 1..m
  BY <1>1, <1>3, <1>4 DEF FireOK, Chain
<1>6. /\ l2 \in LinkState /\ l2.free = l.free
      /\ l2.fire = IF j = 1 THEN l.next[s] ELSE l.fire
      /\ \A x \in SlotIds : /\ l2.next[x] = IF x = l.prev[s] THEN l.next[s] ELSE l.next[x]
                            /\ l2.prev[x] = IF x = l.next[s] THEN l.prev[s] ELSE l.prev[x]
  <2>1. l \in LinkState /\ s \in SlotIds
    BY <1>3 DEF ListsOK
  <2>2. l.prev[s] = NoSlot <=> j = 1
    BY <1>3, <1>5
  <2> QED BY <2>1, <2>2 DEF LinkState, Detached
<1> HIDE DEF l2
<1>7. FreeOK(l2, F, k, p)
  <2>1. \A x \in F : x \in SlotIds /\ x # l.prev[s]
    BY <1>3, <1>5, SlotIsSomething DEF ListsOK
  <2>2. \A x \in F : l2.next[x] = l.next[x]
    BY <2>1, <1>6
  <2> QED BY <1>2, <1>6, <2>2, FreeKept
<1>8. \A i \in 1..m :
         /\ l2.next[q[i]] = IF i = j - 1 THEN l.next[s] ELSE l.next[q[i]]
         /\ l2.prev[q[i]] = IF i = j + 1 THEN l.prev[s] ELSE l.prev[q[i]]
  <2> SUFFICES ASSUME NEW i \in 1..m
               PROVE  /\ l2.next[q[i]] = IF i = j - 1 THEN l.next[s] ELSE l.next[q[i]]
                      /\ l2.prev[q[i]] = IF i = j + 1 THEN l.prev[s] ELSE l.prev[q[i]]
    OBVIOUS
  <2>1. q[i] = l.prev[s] <=> i = j - 1
    BY <1>3, <1>5
  <2>2. q[i] = l.next[s] <=> i = j + 1
    BY <1>3, <1>5
  <2> QED BY <2>1, <2>2, <1>3, <1>6
<1>9. \A i \in 1..m : /\ l.next[q[i]] = IF i = m THEN NoSlot ELSE q[i + 1]
                      /\ l.prev[q[i]] = IF i = 1 THEN NoSlot ELSE q[i - 1]
  BY <1>1 DEF FireOK, Chain
<1> DEFINE at(i) == IF i < j THEN i ELSE i + 1
           q2 == Drop(q, m, j)
<1>10. /\ m - 1 \in Nat
       /\ \A i \in 1..(m - 1) : at(i) \in 1..m /\ at(i) # j /\ q2[i] = q[at(i)]
       /\ \A i \in 1..m : i # j => \E n \in 1..(m - 1) : at(n) = i
  <2>1. m - 1 \in Nat
    BY <1>3, <1>5
  <2>2. ASSUME NEW i \in 1..m, i # j PROVE \E n \in 1..(m - 1) : at(n) = i
    <3>1. CASE i < j
      <4>1. i \in 1..(m - 1) /\ at(i) = i
        BY <3>1, <1>3
      <4> QED BY <4>1
    <3>2. CASE i > j
      <4>1. i - 1 \in 1..(m - 1) /\ at(i - 1) = i
        BY <3>2, <1>3
      <4> QED BY <4>1
    <3> QED BY <3>1, <3>2, <2>2
  <2>3. ASSUME NEW i \in 1..(m - 1) PROVE at(i) \in 1..m /\ at(i) # j /\ q2[i] = q[at(i)]
    BY <1>3 DEF Drop
  <2> QED BY <2>1, <2>2, <2>3
<1> HIDE DEF q2
<1>11. FireOK(l2, A \ {s}, exp, m - 1, q2)
  <2>1. q2 \in [1..(m - 1) -> SlotIds]
    BY <1>3, <1>10 DEF q2, Drop
  <2>2. ASSUME NEW i \in 1..(m - 1), NEW n \in 1..(m - 1), q2[i] = q2[n] PROVE i = n
    <3>1. at(i) = at(n)
      BY <1>3, <1>10, <2>2
    <3> QED BY <3>1
  <2>3. A \ {s} = {q2[i] : i \in 1..(m - 1)}
    <3>1. ASSUME NEW x \in A, x # s PROVE \E i \in 1..(m - 1) : x = q2[i]
      <4>1. PICK i \in 1..m : x = q[i]
        BY <1>1 DEF FireOK
      <4>2. PICK n \in 1..(m - 1) : at(n) = i
        BY <4>1, <3>1, <1>4, <1>10
      <4> QED BY <4>1, <4>2, <1>10
    <3>2. ASSUME NEW i \in 1..(m - 1) PROVE q2[i] \in A /\ q2[i] # s
      <4> HIDE DEF at
      <4> QED BY <1>10, <1>3, <1>4
    <3> QED BY <3>1, <3>2
  <2>4. l2.fire = IF m - 1 = 0 THEN NoSlot ELSE q2[1]
    <3>1. CASE j = 1
      <4>1. m - 1 # 0 => q2[1] = q[2]
        BY <3>1, <1>3, <1>10
      <4>2. j + 1 = 2 /\ (j = m <=> m - 1 = 0)
        BY <3>1, <1>3
      <4> QED BY <3>1, <4>1, <4>2, <1>5, <1>6
    <3>2. CASE j # 1
      <4>1. 1 < j /\ 1 \in 1..(m - 1)
        BY <3>2, <1>3
      <4>2. q2[1] = q[1]
        BY <4>1, <1>10
      <4> QED BY <3>2, <4>1, <4>2, <1>5, <1>6, <1>3
    <3> QED BY <3>1, <3>2
  <2>5. ASSUME NEW i \in 1..(m - 1)
        PROVE  /\ l2.next[q2[i]] = IF i = m - 1 THEN NoSlot ELSE q2[i + 1]
               /\ l2.prev[q2[i]] = IF i = 1 THEN NoSlot ELSE q2[i - 1]
               /\ i # m - 1 => exp[q2[i]] <= exp[q2[i + 1]]
    <3>0. /\ i \in Int /\ 1 <= i /\ i <= m - 1 /\ m \in Int /\ j \in Int /\ 1 <= j /\ j <= m
      BY <1>3
    <3>1. /\ at(i) \in 1..m /\ q2[i] = q[at(i)]
          /\ i # m - 1 => i + 1 \in 1..(m - 1) /\ q2[i + 1] = q[at(i + 1)]
          /\ i # 1 => i - 1 \in 1..(m - 1) /\ q2[i - 1] = q[at(i - 1)]
      BY <1>10, <1>3
    <3>2. l2.next[q2[i]] = IF at(i) = j - 1 THEN l.next[s]
                           ELSE IF at(i) = m THEN NoSlot ELSE q[at(i) + 1]
      BY <3>1, <1>8, <1>9
    <3>3. l2.prev[q2[i]] = IF at(i) = j + 1 THEN l.prev[s]
                           ELSE IF at(i) = 1 THEN NoSlot ELSE q[at(i) - 1]
      BY <3>1, <1>8, <1>9
    <3>4. l2.next[q2[i]] = IF i = m - 1 THEN NoSlot ELSE q2[i + 1]
      <4>1. CASE i < j - 1
        <5>1. at(i) = i /\ at(i + 1) = i + 1 /\ i # m - 1 /\ i # j - 1 /\ i # m
          BY <4>1, <3>0
        <5> HIDE DEF at
        <5> QED BY <5>1, <3>1, <3>2
      <4>2. CASE i = j - 1
        <5>1. at(i) = i /\ at(i + 1) = j + 1 /\ (i = m - 1 <=> j = m)
          BY <4>2, <3>0
        <5> HIDE DEF at
        <5> QED BY <4>2, <5>1, <3>1, <3>2, <1>5
      <4>3. CASE i > j - 1
        <5>1. at(i) = i + 1 /\ at(i + 1) = (i + 1) + 1 /\ (i = m - 1 <=> i + 1 = m) /\ i + 1 # j - 1
          BY <4>3, <3>0
        <5> HIDE DEF at
        <5> QED BY <5>1, <3>1, <3>2
      <4> QED BY <4>1, <4>2, <4>3, <3>0
    <3>5. l2.prev[q2[i]] = IF i = 1 THEN NoSlot ELSE q2[i - 1]
      <4>1. CASE i < j
        <5>1. at(i) = i /\ at(i - 1) = i - 1 /\ i # j + 1
          BY <4>1, <3>0
        <5> HIDE DEF at
        <5> QED BY <5>1, <3>1, <3>3
      <4>2. CASE i = j
        <5>1. at(i) = i + 1 /\ at(i - 1) = i - 1 /\ i + 1 = j + 1
          BY <4>2, <3>0
        <5> HIDE DEF at
        <5> QED BY <4>2, <5>1, <3>1, <3>3, <1>5
      <4>3. CASE i > j
        <5>1. /\ at(i) = i + 1 /\ at(i - 1) = i /\ i + 1 # j + 1 /\ i + 1 # 1 /\ i # 1
              /\ (i + 1) - 1 = i
          BY <4>3, <3>0
        <5> HIDE DEF at
        <5> QED BY <5>1, <3>1, <3>3
      <4> QED BY <4>1, <4>2, <4>3, <3>0
    <3>6. i # m - 1 => exp[q2[i]] <= exp[q2[i + 1]]
      <4>0. \A n \in 1..m : exp[q[n]] \in Nat
        BY <1>3
      <4>1. \A n \in 1..(m - 1) : exp[q[n]] <= exp[q[n + 1]]
        BY <1>1 DEF FireOK
      <4> SUFFICES ASSUME i # m - 1 PROVE exp[q2[i]] <= exp[q2[i + 1]]
        OBVIOUS
      <4>2. CASE i < j - 1
        <5>1. at(i) = i /\ at(i + 1) = i + 1
          BY <4>2, <3>0
        <5> HIDE DEF at
        <5> QED BY <5>1, <3>1, <4>1
      <4>3. CASE i = j - 1
        <5>1. at(i) = i /\ at(i + 1) = (i + 1) + 1
          BY <4>3, <3>0
        <5>2. i + 1 \in 1..(m - 1) /\ i \in 1..m /\ i + 1 \in 1..m /\ (i + 1) + 1 \in 1..m
          BY <3>0
        <5>3. /\ exp[q[i]] <= exp[q[i + 1]] /\ exp[q[i + 1]] <= exp[q[(i + 1) + 1]]
              /\ exp[q[i]] \in Nat /\ exp[q[i + 1]] \in Nat /\ exp[q[(i + 1) + 1]] \in Nat
          BY <5>2, <4>0, <4>1
        <5> HIDE DEF at
        <5> QED BY <5>1, <5>3, <3>1
      <4>4. CASE i > j - 1
        <5>1. at(i) = i + 1 /\ at(i + 1) = (i + 1) + 1 /\ i + 1 \in 1..(m - 1)
          BY <4>4, <3>0
        <5> HIDE DEF at
        <5> QED BY <5>1, <3>1, <4>1
      <4> QED BY <4>2, <4>3, <4>4, <3>0
    <3> QED BY <3>4, <3>5, <3>6
  <2>6. \A i \in 1..((m - 1) - 1) : i \in 1..(m - 1) /\ i # m - 1
    BY <1>3
  <2> QED BY <1>10, <2>1, <2>2, <2>3, <2>4, <2>5, <2>6 DEF FireOK, Chain
<1> QED BY <1>4, <1>6, <1>7, <1>11 DEF ListsOK, l2, q2

LEMMA DetachedIs ==
  ASSUME EventListAssumption, NEW l, NEW A, NEW F, NEW exp, ListsOK(l, A, F, exp), NEW s \in A,
         exp \in [SlotIds -> Nat]
  PROVE  ListsOK(Detached(l, s), A \ {s}, F, exp)
<1>1. PICK m, q : FireOK(l, A, exp, m, q)
  BY DEF ListsOK
<1> QED BY <1>1, DetachedChain

\* A list of slots is no longer than there are slots.
LEMMA Fits ==
  ASSUME EventListAssumption, NEW nx, NEW first, NEW m, NEW q, Chain(nx, first, m, q)
  PROVE  m <= MaxEvent
<1>1. m \in Nat /\ MaxEvent \in Nat /\ MaxEvent - 1 \in Int
  BY DEF Chain, EventListAssumption
<1>2. IsFiniteSet(SlotIds) /\ Cardinality(SlotIds) = MaxEvent
  BY <1>1, FS_Interval DEF SlotIds
<1>3. IsFiniteSet(1..m) /\ Cardinality(1..m) = m
  BY <1>1, FS_Interval
<1>4. q \in Injection(1..m, SlotIds)
  BY DEF Chain, Injection, IsInjective
<1>5. Cardinality(1..m) <= Cardinality(SlotIds)
  BY <1>2, <1>4, FS_Injection
<1> QED BY <1>2, <1>3, <1>5

\* The place insert_event finds: behind all that expire no later.
Place(l, exp, s, n) ==
  /\ n \in 0..MaxEvent
  /\ Walk(l.fire, l.next)[n] = NoSlot \/ FiresAfter(exp, Walk(l.fire, l.next)[n], s)
  /\ \A i \in 0..(n - 1) : /\ Walk(l.fire, l.next)[i] # NoSlot
                           /\ ~FiresAfter(exp, Walk(l.fire, l.next)[i], s)

LEMMA PlaceExists ==
  ASSUME EventListAssumption, NEW l, NEW A, NEW exp, NEW m, NEW q, FireOK(l, A, exp, m, q), NEW s
  PROVE  /\ \E n : Place(l, exp, s, n)
         /\ \A n : Place(l, exp, s, n) =>
              /\ n \in 0..m
              /\ n < m => exp[q[n + 1]] > exp[s]
              /\ \A i \in 1..n : ~(exp[q[i]] > exp[s])
<1> DEFINE at == Walk(l.fire, l.next)
           T == {n \in Nat : at[n] = NoSlot \/ FiresAfter(exp, at[n], s)}
<1>a. Chain(l.next, l.fire, m, q)
  BY DEF FireOK
<1>b. m <= MaxEvent
  BY <1>a, Fits
<1>1. /\ m \in Nat /\ m <= MaxEvent /\ MaxEvent \in Nat
      /\ \A i \in 1..m : q[i] \in SlotIds /\ q[i] # NoSlot
  BY <1>a, <1>b, SlotIsSomething DEF Chain, EventListAssumption
<1>2. \A n \in Nat : at[n] = IF n < m THEN q[n + 1] ELSE NoSlot
  BY WalkIs DEF FireOK
<1> HIDE DEF at
<1>3. m \in T
  BY <1>1, <1>2
<1>4. PICK n \in T : \A i \in T : n <= i
  BY <1>3, Least
<1>5. n \in 0..MaxEvent
  BY <1>1, <1>3, <1>4
<1>6. \A i \in 0..(n - 1) : i \in Nat /\ i \notin T
  BY <1>4, <1>5
<1>7. Place(l, exp, s, n)
  BY <1>4, <1>5, <1>6 DEF Place, at
<1>8. ASSUME NEW i, Place(l, exp, s, i)
      PROVE  /\ i \in 0..m
             /\ i < m => exp[q[i + 1]] > exp[s]
             /\ \A j \in 1..i : ~(exp[q[j]] > exp[s])
  <2>1. i \in Nat /\ i <= m
    <3>1. i \in Nat
      BY <1>8, <1>1 DEF Place
    <3>2. ~(m < i)
      <4>1. m < i => m \in 0..(i - 1) /\ at[m] = NoSlot
        BY <3>1, <1>1, <1>2
      <4> QED BY <4>1, <1>8 DEF Place, at
    <3> QED BY <3>1, <3>2, <1>1
  <2>2. i < m => exp[q[i + 1]] > exp[s]
    <3> SUFFICES ASSUME i < m PROVE exp[q[i + 1]] > exp[s]
      OBVIOUS
    <3>1. at[i] = q[i + 1] /\ q[i + 1] # NoSlot
      BY <2>1, <1>1, <1>2
    <3> QED BY <3>1, <1>8 DEF Place, at, FiresAfter
  <2>3. ASSUME NEW j \in 1..i PROVE ~(exp[q[j]] > exp[s])
    <3>1. j - 1 \in 0..(i - 1) /\ j - 1 \in Nat /\ j - 1 < m /\ (j - 1) + 1 = j
      BY <2>1, <1>1
    <3>2. at[j - 1] = q[j]
      BY <3>1, <1>2
    <3> QED BY <3>1, <3>2, <1>8 DEF Place, at, FiresAfter
  <2> QED BY <2>1, <2>2, <2>3
<1> QED BY <1>7, <1>8

LEMMA Relinked ==
  ASSUME NEW l \in LinkState, NEW a \in Links,
         NEW nx \in [SlotIds -> Links], NEW pr \in [SlotIds -> Links]
  PROVE  [l EXCEPT !.fire = a, !.next = nx, !.prev = pr] \in LinkState
  BY DEF LinkState

\* An event is put in its place: behind those that expire no later, before the others.
LEMMA InsertChain ==
  ASSUME EventListAssumption, NEW l, NEW A, NEW F, NEW exp, ListsOK(l, A, F, exp),
         exp \in [SlotIds -> Nat], NEW s \in SlotIds, s \notin A, s \notin F,
         NEW m, NEW q, FireOK(l, A, exp, m, q)
  PROVE  /\ ListsOK(Insert(l, exp, s), A \union {s}, F, exp)
         /\ \E n \in 0..m :
              /\ FireOK(Insert(l, exp, s), A \union {s}, exp, m + 1, Put(q, m, n, s))
              /\ n < m => exp[q[n + 1]] > exp[s]
              /\ \A i \in 1..n : ~(exp[q[i]] > exp[s])
<1> DEFINE l2 == Insert(l, exp, s)
           at == Walk(l.fire, l.next)
           n == CHOOSE i \in 0..MaxEvent :
                  /\ at[i] = NoSlot \/ FiresAfter(exp, at[i], s)
                  /\ \A j \in 0..(i - 1) : at[j] # NoSlot /\ ~FiresAfter(exp, at[j], s)
           was == at[n]
           bef == IF n = 0 THEN NoSlot ELSE at[n - 1]
<1>1. FireOK(l, A, exp, m, q)
  OBVIOUS
<1>2. PICK k, p : FreeOK(l, F, k, p)
  BY DEF ListsOK
<1>3. /\ m \in Nat /\ q \in [1..m -> SlotIds]
      /\ \A i \in 1..m : q[i] \in SlotIds /\ q[i] \in A /\ q[i] # NoSlot /\ q[i] # s
      /\ \A i, j \in 1..m : q[i] = q[j] => i = j
      /\ A \subseteq SlotIds /\ F \subseteq SlotIds /\ s # NoSlot
  BY <1>1, <1>2, SlotIsSomething DEF FireOK, FreeOK, Chain
<1>4. Place(l, exp, s, n)
  BY <1>1, PlaceExists DEF Place
<1>5. /\ l2.fire = IF bef = NoSlot THEN s ELSE l.fire
      /\ l2.free = l.free
      /\ l2.next = [x \in SlotIds |-> IF x = s THEN was ELSE IF x = bef THEN s ELSE l.next[x]]
      /\ l2.prev = [x \in SlotIds |-> IF x = s THEN bef ELSE IF x = was THEN s ELSE l.prev[x]]
  BY DEF ListsOK, LinkState, Insert
<1>6. /\ n \in 0..m
      /\ was = IF n = m THEN NoSlot ELSE q[n + 1]
      /\ bef = IF n = 0 THEN NoSlot ELSE q[n]
  <2>1. n \in 0..m
    BY <1>1, <1>4, PlaceExists
  <2>2. \A i \in Nat : at[i] = IF i < m THEN q[i + 1] ELSE NoSlot
    BY <1>1, WalkIs DEF FireOK
  <2> HIDE DEF n, at
  <2>3. n \in Nat /\ (n < m <=> n # m) /\ (n # 0 => n - 1 \in Nat /\ n - 1 < m /\ (n - 1) + 1 = n)
    BY <2>1, <1>3
  <2> QED BY <2>1, <2>2, <2>3
<1> HIDE DEF l2, n, at, was, bef
<1>7. /\ n < m => exp[q[n + 1]] > exp[s]
      /\ \A i \in 1..n : ~(exp[q[i]] > exp[s])
  BY <1>1, <1>4, PlaceExists
<1>8. l2 \in LinkState
  <2>1. was \in Links /\ bef \in Links /\ s \in Links
    BY <1>3, <1>6, SlotIsSomething DEF Links
  <2>2. l \in LinkState
    BY DEF ListsOK
  <2>3. /\ [x \in SlotIds |-> IF x = s THEN was ELSE IF x = bef THEN s ELSE l.next[x]]
             \in [SlotIds -> Links]
        /\ [x \in SlotIds |-> IF x = s THEN bef ELSE IF x = was THEN s ELSE l.prev[x]]
             \in [SlotIds -> Links]
        /\ (IF bef = NoSlot THEN s ELSE l.fire) \in Links
    BY <2>1, <2>2 DEF LinkState
  <2>4. l2 = [l EXCEPT
               !.fire = IF bef = NoSlot THEN s ELSE l.fire,
               !.next = [x \in SlotIds |-> IF x = s THEN was ELSE IF x = bef THEN s ELSE l.next[x]],
               !.prev = [x \in SlotIds |-> IF x = s THEN bef ELSE IF x = was THEN s ELSE l.prev[x]]]
    BY DEF l2, Insert, n, at, was, bef
  <2> QED BY <2>2, <2>3, <2>4, Relinked
<1>9. FreeOK(l2, F, k, p)
  <2>1. \A x \in F : x \in SlotIds /\ x # s /\ x # bef
    BY <1>3, <1>6, SlotIsSomething DEF ListsOK
  <2>2. \A x \in F : l2.next[x] = l.next[x]
    BY <2>1, <1>5
  <2> QED BY <1>2, <1>5, <2>2, FreeKept
<1>10. \A i \in 1..m :
         /\ l2.next[q[i]] = IF i = n THEN s ELSE IF i = m THEN NoSlot ELSE q[i + 1]
         /\ l2.prev[q[i]] = IF i = n + 1 THEN s ELSE IF i = 1 THEN NoSlot ELSE q[i - 1]
  <2> SUFFICES ASSUME NEW i \in 1..m
               PROVE  /\ l2.next[q[i]] = IF i = n THEN s ELSE IF i = m THEN NoSlot ELSE q[i + 1]
                      /\ l2.prev[q[i]] = IF i = n + 1 THEN s ELSE IF i = 1 THEN NoSlot ELSE q[i - 1]
    OBVIOUS
  <2>1. q[i] = bef <=> i = n
    BY <1>3, <1>6
  <2>2. q[i] = was <=> i = n + 1
    BY <1>3, <1>6
  <2>3. /\ l.next[q[i]] = IF i = m THEN NoSlot ELSE q[i + 1]
        /\ l.prev[q[i]] = IF i = 1 THEN NoSlot ELSE q[i - 1]
    BY <1>1 DEF FireOK, Chain
  <2> QED BY <2>1, <2>2, <2>3, <1>3, <1>5
<1> DEFINE q2 == Put(q, m, n, s)
<1>11. /\ m + 1 \in Nat /\ n \in Nat /\ n <= m
       /\ \A i \in 1..(m + 1) :
            /\ i <= n => i \in 1..m /\ q2[i] = q[i]
            /\ i = n + 1 => q2[i] = s
            /\ i > n + 1 => i - 1 \in 1..m /\ q2[i] = q[i - 1] /\ ~(i <= n) /\ i # n + 1
  BY <1>3, <1>6 DEF Put
<1>12. q2 \in [1..(m + 1) -> SlotIds]
  BY <1>3, <1>11 DEF Put
<1> HIDE DEF q2
<1>13. FireOK(l2, A \union {s}, exp, m + 1, q2)
  <2>2. ASSUME NEW i \in 1..(m + 1), NEW j \in 1..(m + 1), q2[i] = q2[j] PROVE i = j
    <3>1. /\ i <= n \/ i = n + 1 \/ i > n + 1
          /\ j <= n \/ j = n + 1 \/ j > n + 1
      BY <1>11
    <3>2. i = n + 1 <=> j = n + 1
      BY <3>1, <1>3, <1>11, <2>2
    <3>3. CASE i <= n /\ j <= n
      BY <3>3, <1>3, <1>11, <2>2
    <3>4. CASE i > n + 1 /\ j > n + 1
      <4>1. i - 1 = j - 1
        BY <3>4, <1>3, <1>11, <2>2
      <4> QED BY <4>1
    <3>5. CASE i <= n /\ j > n + 1
      <4>1. i = j - 1
        BY <3>5, <1>3, <1>11, <2>2
      <4> QED BY <4>1, <3>5, <1>11
    <3>6. CASE i > n + 1 /\ j <= n
      <4>1. j = i - 1
        BY <3>6, <1>3, <1>11, <2>2
      <4> QED BY <4>1, <3>6, <1>11
    <3> QED BY <3>1, <3>2, <3>3, <3>4, <3>5, <3>6
  <2>3. A \union {s} = {q2[i] : i \in 1..(m + 1)}
    <3>1. ASSUME NEW x \in A PROVE \E i \in 1..(m + 1) : x = q2[i]
      <4>1. PICK i \in 1..m : x = q[i]
        BY <1>1 DEF FireOK
      <4>2. CASE i <= n
        <5>1. i \in 1..(m + 1) /\ q2[i] = q[i]
          BY <4>2, <1>3, <1>11
        <5> QED BY <4>1, <5>1
      <4>3. CASE i > n
        <5>1. i + 1 \in 1..(m + 1) /\ i + 1 > n + 1 /\ (i + 1) - 1 = i
          BY <4>3, <1>3, <1>11
        <5>2. q2[i + 1] = q[i]
          BY <5>1, <1>11
        <5> QED BY <4>1, <5>1, <5>2
      <4> QED BY <4>2, <4>3, <1>11
    <3>2. ASSUME NEW i \in 1..(m + 1) PROVE q2[i] \in A \union {s}
      <4>1. i <= n \/ i = n + 1 \/ i > n + 1
        BY <1>11
      <4> QED BY <4>1, <1>3, <1>11
    <3>3. n + 1 \in 1..(m + 1) /\ q2[n + 1] = s
      <4>1. n + 1 \in 1..(m + 1)
        BY <1>3, <1>6
      <4> QED BY <4>1, <1>11
    <3> QED BY <3>1, <3>2, <3>3
  <2>4. l2.fire = IF m + 1 = 0 THEN NoSlot ELSE q2[1]
    <3>1. 1 \in 1..(m + 1) /\ m + 1 # 0
      BY <1>3
    <3>2. CASE n = 0
      BY <3>1, <3>2, <1>5, <1>6, <1>11
    <3>3. CASE n # 0
      <4>1. 1 <= n /\ n \in 1..m /\ m # 0
        BY <3>3, <1>11
      <4>2. bef # NoSlot /\ q2[1] = q[1] /\ l.fire = q[1]
        BY <3>1, <3>3, <4>1, <1>1, <1>3, <1>6, <1>11 DEF FireOK, Chain
      <4> QED BY <3>1, <4>2, <1>5
    <3> QED BY <3>2, <3>3
  <2>5. ASSUME NEW i \in 1..(m + 1)
        PROVE  /\ l2.next[q2[i]] = IF i = m + 1 THEN NoSlot ELSE q2[i + 1]
               /\ l2.prev[q2[i]] = IF i = 1 THEN NoSlot ELSE q2[i - 1]
               /\ i # m + 1 => exp[q2[i]] <= exp[q2[i + 1]]
    <3>0. /\ i \in Int /\ 1 <= i /\ i <= m + 1 /\ m \in Int /\ n \in Int /\ 0 <= n /\ n <= m
          /\ i # m + 1 => i + 1 \in 1..(m + 1) /\ (i + 1) - 1 = i
          /\ i # 1 => i - 1 \in 1..(m + 1)
      BY <1>3, <1>6
    <3>a. l2.next[s] = was /\ l2.prev[s] = bef
      BY <1>5
    <3>b. exp[s] \in Nat /\ \A j \in 1..m : exp[q[j]] \in Nat
      BY <1>3
    <3>c. \A j \in 1..(m - 1) : exp[q[j]] <= exp[q[j + 1]]
      BY <1>1 DEF FireOK
    <3>1. l2.next[q2[i]] = IF i = m + 1 THEN NoSlot ELSE q2[i + 1]
      <4>1. CASE i < n
        <5>1. i <= n /\ i + 1 <= n /\ i \in 1..m /\ i # m + 1 /\ i # n /\ i # m
          BY <4>1, <3>0
        <5> QED BY <5>1, <3>0, <1>10, <1>11
      <4>2. CASE i = n
        <5>1. i <= n /\ i + 1 = n + 1 /\ i \in 1..m /\ i # m + 1
          BY <4>2, <3>0
        <5> QED BY <4>2, <5>1, <3>0, <1>10, <1>11
      <4>3. CASE i = n + 1
        <5>1. (i = m + 1 <=> n = m) /\ (i # m + 1 => i + 1 > n + 1)
          BY <4>3, <3>0
        <5> QED BY <4>3, <5>1, <3>0, <3>a, <1>6, <1>11
      <4>4. CASE i > n + 1
        <5>1. i - 1 \in 1..m /\ i - 1 # n /\ (i = m + 1 <=> i - 1 = m) /\ i + 1 > n + 1 /\ (i - 1) + 1 = i
          BY <4>4, <3>0
        <5> QED BY <4>4, <5>1, <3>0, <1>10, <1>11
      <4> QED BY <4>1, <4>2, <4>3, <4>4, <3>0
    <3>2. l2.prev[q2[i]] = IF i = 1 THEN NoSlot ELSE q2[i - 1]
      <4>1. CASE i <= n
        <5>1. i \in 1..m /\ i - 1 <= n /\ i # n + 1
          BY <4>1, <3>0
        <5> QED BY <4>1, <5>1, <3>0, <1>10, <1>11
      <4>2. CASE i = n + 1
        <5>1. (i = 1 <=> n = 0) /\ i - 1 <= n /\ i - 1 = n
          BY <4>2, <3>0
        <5> QED BY <4>2, <5>1, <3>0, <3>a, <1>6, <1>11
      <4>3. CASE i = n + 2
        <5>1. i > n + 1 /\ i - 1 \in 1..m /\ i - 1 = n + 1 /\ i # 1
          BY <4>3, <3>0
        <5> QED BY <4>3, <5>1, <3>0, <1>10, <1>11
      <4>4. CASE i > n + 2
        <5>1. /\ i > n + 1 /\ i - 1 \in 1..m /\ i - 1 # n + 1 /\ i # 1 /\ i - 1 > n + 1
              /\ i - 1 # 1 /\ (i - 1) - 1 = i - 2
          BY <4>4, <3>0
        <5> QED BY <4>4, <5>1, <3>0, <1>10, <1>11
      <4> QED BY <4>1, <4>2, <4>3, <4>4, <3>0
    <3>3. i # m + 1 => exp[q2[i]] <= exp[q2[i + 1]]
      <4> SUFFICES ASSUME i # m + 1 PROVE exp[q2[i]] <= exp[q2[i + 1]]
        OBVIOUS
      <4>1. CASE i < n
        <5>1. i <= n /\ i + 1 <= n /\ i \in 1..(m - 1)
          BY <4>1, <3>0
        <5> QED BY <5>1, <3>0, <3>c, <1>11
      <4>2. CASE i = n
        <5>1. i <= n /\ i + 1 = n + 1 /\ i \in 1..m /\ i \in 1..n
          BY <4>2, <3>0
        <5>2. q2[i] = q[i] /\ q2[i + 1] = s /\ exp[q[i]] \in Nat /\ ~(exp[q[i]] > exp[s])
          BY <5>1, <3>0, <3>b, <1>7, <1>11
        <5> QED BY <5>2, <3>b
      <4>3. CASE i = n + 1
        <5>1. i + 1 > n + 1 /\ n < m /\ n + 1 \in 1..m /\ i = n + 1
          BY <4>3, <3>0
        <5>2. q2[i] = s /\ q2[i + 1] = q[n + 1] /\ exp[q[n + 1]] > exp[s] /\ exp[q[n + 1]] \in Nat
          BY <5>1, <3>0, <3>b, <1>7, <1>11
        <5> QED BY <5>2, <3>b
      <4>4. CASE i > n + 1
        <5>1. i - 1 \in 1..(m - 1) /\ i + 1 > n + 1 /\ (i - 1) + 1 = i
          BY <4>4, <3>0
        <5> QED BY <4>4, <5>1, <3>0, <3>c, <1>11
      <4> QED BY <4>1, <4>2, <4>3, <4>4, <3>0
    <3> QED BY <3>1, <3>2, <3>3
  <2>6. \A i \in 1..((m + 1) - 1) : i \in 1..(m + 1) /\ i # m + 1
    BY <1>3
  <2> QED BY <1>11, <1>12, <2>2, <2>3, <2>4, <2>5, <2>6 DEF FireOK, Chain
<1> QED BY <1>6, <1>7, <1>8, <1>9, <1>13 DEF ListsOK, l2, q2

LEMMA InsertIs ==
  ASSUME EventListAssumption, NEW l, NEW A, NEW F, NEW exp, ListsOK(l, A, F, exp),
         exp \in [SlotIds -> Nat], NEW s \in SlotIds, s \notin A, s \notin F
  PROVE  ListsOK(Insert(l, exp, s), A \union {s}, F, exp)
<1>1. PICK m, q : FireOK(l, A, exp, m, q)
  BY DEF ListsOK
<1> QED BY <1>1, InsertChain

\* The top of the free stack is taken.
LEMMA TakeIs ==
  ASSUME EventListAssumption, NEW l, NEW A, NEW F, NEW exp, ListsOK(l, A, F, exp), l.free # NoSlot
  PROVE  /\ l.free \in F /\ l.free \in SlotIds
         /\ ListsOK([l EXCEPT !.free = l.next[l.free]], A, F \ {l.free}, exp)
<1> DEFINE s == l.free
           l2 == [l EXCEPT !.free = l.next[l.free]]
<1>1. PICK m, q : FireOK(l, A, exp, m, q)
  BY DEF ListsOK
<1>2. PICK k, p : FreeOK(l, F, k, p)
  BY DEF ListsOK
<1>3. /\ k \in Nat /\ k # 0 /\ s = p[1] /\ 1 \in 1..k /\ k - 1 \in Nat
      /\ p \in [1..k -> SlotIds] /\ \A i, j \in 1..k : p[i] = p[j] => i = j
      /\ F = {p[i] : i \in 1..k} /\ s \in F /\ s \in SlotIds
  BY <1>2 DEF FreeOK, Chain
<1>4. /\ l2 \in LinkState /\ l2.fire = l.fire /\ l2.next = l.next /\ l2.prev = l.prev
      /\ l2.free = IF k = 1 THEN NoSlot ELSE p[2]
  BY <1>2, <1>3 DEF ListsOK, LinkState, FreeOK, Chain
<1> HIDE DEF l2
<1>5. FireOK(l2, A, exp, m, q)
  BY <1>1, <1>4, FireKept
<1> DEFINE p2 == [i \in 1..(k - 1) |-> p[i + 1]]
<1>6. FreeOK(l2, F \ {s}, k - 1, p2)
  <2>1. \A i \in 1..(k - 1) : /\ i \in 1..k /\ i + 1 \in 1..k /\ p2[i] = p[i + 1] /\ i + 1 # 1
                              /\ (i = k - 1 <=> i + 1 = k)
                              /\ i # k - 1 => i + 1 \in 1..(k - 1) /\ p2[i + 1] = p[(i + 1) + 1]
    BY <1>3
  <2>2. \A i \in 1..k : i # 1 => i - 1 \in 1..(k - 1) /\ (i - 1) + 1 = i
    BY <1>3
  <2>3. p2 \in [1..(k - 1) -> SlotIds]
    BY <1>3, <2>1
  <2>4. k - 1 # 0 => 1 \in 1..(k - 1) /\ p2[1] = p[2]
    BY <1>3, <2>1
  <2> HIDE DEF p2
  <2>5. \A i, j \in 1..(k - 1) : p2[i] = p2[j] => i = j
    <3> SUFFICES ASSUME NEW i \in 1..(k - 1), NEW j \in 1..(k - 1), p2[i] = p2[j] PROVE i = j
      OBVIOUS
    <3>1. i + 1 = j + 1
      BY <1>3, <2>1
    <3> QED BY <3>1
  <2>6. F \ {s} = {p2[i] : i \in 1..(k - 1)}
    <3>1. ASSUME NEW x \in F, x # s PROVE \E i \in 1..(k - 1) : x = p2[i]
      <4>1. PICK i \in 1..k : x = p[i]
        BY <1>3
      <4>2. i - 1 \in 1..(k - 1) /\ p2[i - 1] = p[i]
        BY <4>1, <3>1, <1>3, <2>1, <2>2
      <4> QED BY <4>1, <4>2
    <3>2. \A i \in 1..(k - 1) : p2[i] \in F /\ p2[i] # s
      BY <1>3, <2>1
    <3> QED BY <3>1, <3>2
  <2>7. \A i \in 1..(k - 1) : l2.next[p2[i]] = IF i = k - 1 THEN NoSlot ELSE p2[i + 1]
    <3>1. \A i \in 1..k : l.next[p[i]] = IF i = k THEN NoSlot ELSE p[i + 1]
      BY <1>2 DEF FreeOK, Chain
    <3> QED BY <3>1, <2>1, <1>4
  <2>8. l2.free = IF k - 1 = 0 THEN NoSlot ELSE p2[1]
    BY <1>3, <1>4, <2>4
  <2> QED BY <1>3, <2>3, <2>5, <2>6, <2>7, <2>8 DEF FreeOK, Chain
<1> QED BY <1>3, <1>4, <1>5, <1>6 DEF ListsOK, l2

\* A list has as many slots as it has places.
LEMMA Counts ==
  ASSUME NEW nx, NEW first, NEW m, NEW q, Chain(nx, first, m, q), NEW S, S = {q[i] : i \in 1..m}
  PROVE  IsFiniteSet(S) /\ Cardinality(S) = m
<1>1. m \in Nat /\ IsFiniteSet(1..m) /\ Cardinality(1..m) = m
  BY FS_Interval DEF Chain
<1>2. q \in [1..m -> S] /\ \A i, j \in 1..m : q[i] = q[j] => i = j
  BY DEF Chain
<1>3. q \in Injection(1..m, S) /\ q \in Surjection(1..m, S)
  BY <1>2 DEF Injection, IsInjective, Surjection
<1> QED BY <1>1, <1>3, FS_Surjection

Active == {s \in SlotIds : active[s]}

\* The lists are whole when each runs through its slots.
LEMMA WholeIs ==
  ASSUME EventListAssumption, ListTypeOK, ListsOK(Lists, Active, SlotIds \ Active, expired)
  PROVE  ListsAreWhole
<1> USE DEF Lists
<1>1. PICK m, q : FireOK(Lists, Active, expired, m, q)
  BY DEF ListsOK
<1>2. PICK k, p : FreeOK(Lists, SlotIds \ Active, k, p)
  BY DEF ListsOK
<1>3. /\ Chain(next, firstFire, m, q) /\ Active = {q[i] : i \in 1..m}
      /\ Chain(next, firstFree, k, p) /\ SlotIds \ Active = {p[i] : i \in 1..k}
  BY <1>1, <1>2 DEF FireOK, FreeOK
<1>4. m \in Nat /\ k \in Nat /\ Pending = m /\ MaxEvent - Pending = k
  <2>1. /\ IsFiniteSet(Active) /\ Cardinality(Active) = m
        /\ IsFiniteSet(SlotIds \ Active) /\ Cardinality(SlotIds \ Active) = k
    BY <1>3, Counts
  <2>2. IsFiniteSet(SlotIds) /\ Cardinality(SlotIds) = MaxEvent
    <3>1. MaxEvent \in Nat \ {0}
      BY DEF EventListAssumption
    <3>2. 0 \in Int /\ MaxEvent - 1 \in Int /\ ~(0 > MaxEvent - 1) /\ (MaxEvent - 1) - 0 + 1 = MaxEvent
      BY <3>1
    <3> QED BY <3>2, FS_Interval DEF SlotIds
  <2>3. SlotIds = Active \union (SlotIds \ Active) /\ Active \cap (SlotIds \ Active) = {}
    BY DEF Active
  <2>4. Cardinality(SlotIds) = m + k - Cardinality({})
    BY <2>1, <2>3, FS_Union
  <2>5. m \in Nat /\ k \in Nat /\ MaxEvent \in Nat
    BY <1>3 DEF Chain, EventListAssumption
  <2>6. Pending = m
    BY <2>1 DEF Pending, Active
  <2>7. Cardinality({}) = 0
    BY FS_EmptySet
  <2> QED BY <2>2, <2>4, <2>5, <2>6, <2>7
<1>5. \A n \in Nat : /\ FireAt[n] = IF n < m THEN q[n + 1] ELSE NoSlot
                     /\ FreeAt[n] = IF n < k THEN p[n + 1] ELSE NoSlot
  BY <1>3, WalkIs DEF FireAt, FreeAt
<1>6. {FireAt[n] : n \in 0..(Pending - 1)} = Active
  <2>1. \A i \in 1..m : i - 1 \in 0..(m - 1) /\ FireAt[i - 1] = q[i]
    BY <1>4, <1>5
  <2>2. \A n \in 0..(m - 1) : n + 1 \in 1..m /\ FireAt[n] = q[n + 1]
    BY <1>4, <1>5
  <2> QED BY <1>3, <1>4, <2>1, <2>2
<1>7. {FreeAt[n] : n \in 0..(MaxEvent - Pending - 1)} = SlotIds \ Active
  <2>1. \A i \in 1..k : i - 1 \in 0..(k - 1) /\ FreeAt[i - 1] = p[i]
    BY <1>4, <1>5
  <2>2. \A n \in 0..(k - 1) : n + 1 \in 1..k /\ FreeAt[n] = p[n + 1]
    BY <1>4, <1>5
  <2> QED BY <1>3, <1>4, <2>1, <2>2
<1>8. FireAt[Pending] = NoSlot /\ FreeAt[MaxEvent - Pending] = NoSlot
  BY <1>4, <1>5
<1>9. firstFire # NoSlot => prev[firstFire] = NoSlot
  <2>1. firstFire # NoSlot => firstFire = q[1] /\ 1 \in 1..m
    BY <1>3, <1>4 DEF Chain
  <2> QED BY <2>1, <1>1 DEF FireOK
<1>10. ASSUME NEW s \in SlotIds, active[s], next[s] # NoSlot
       PROVE  prev[next[s]] = s /\ expired[s] <= expired[next[s]]
  <2>1. PICK i \in 1..m : s = q[i]
    BY <1>3, <1>10 DEF Active
  <2>2. i # m /\ next[s] = q[i + 1]
    BY <2>1, <1>3, <1>10 DEF Chain
  <2>3. i \in 1..(m - 1) /\ i + 1 \in 1..m /\ i + 1 # 1 /\ (i + 1) - 1 = i
    BY <2>2, <1>4
  <2> QED BY <2>1, <2>2, <2>3, <1>1 DEF FireOK
<1> QED BY <1>6, <1>7, <1>8, <1>9, <1>10 DEF ListsAreWhole, Active

LEMMA UnlinkIs ==
  ASSUME EventListAssumption, NEW l, NEW A, NEW F, NEW exp, ListsOK(l, A, F, exp), NEW s \in A,
         exp \in [SlotIds -> Nat]
  PROVE  ListsOK(Unlink(l, s), A \ {s}, F \union {s}, exp) /\ Unlink(l, s).free = s
<1>1. ListsOK(Detached(l, s), A \ {s}, F, exp)
  BY DetachedIs
<1>2. s \in SlotIds /\ s \notin F
  BY DEF ListsOK, FireOK, Chain
<1>3. ListsOK(Free(Detached(l, s), s), A \ {s}, F \union {s}, exp)
  BY <1>1, <1>2, FreeIs
<1>4. Free(Detached(l, s), s).free = s
  BY <1>1 DEF Free, ListsOK, LinkState
<1> QED BY <1>3, <1>4 DEF Unlink

\* Cancelling takes one event out of the line.
LEMMA DropIs ==
  ASSUME EventListAssumption, NEW l, NEW A, NEW F, NEW exp, ListsOK(l, A, F, exp), NEW s \in A,
         exp \in [SlotIds -> Nat], NEW m, NEW q, FireOK(l, A, exp, m, q)
  PROVE  \E j \in 1..m : /\ q[j] = s
                         /\ FireOK(Detached(l, s), A \ {s}, exp, m - 1, Drop(q, m, j))
                         /\ FireOK(Unlink(l, s), A \ {s}, exp, m - 1, Drop(q, m, j))
<1>1. PICK j \in 1..m : q[j] = s /\ FireOK(Detached(l, s), A \ {s}, exp, m - 1, Drop(q, m, j))
  BY DetachedChain
<1>2. Detached(l, s) \in LinkState /\ A \subseteq SlotIds
  <2>1. ListsOK(Detached(l, s), A \ {s}, F, exp)
    BY DetachedIs
  <2>2. Detached(l, s) \in LinkState
    BY <2>1 DEF ListsOK
  <2>3. A \subseteq SlotIds
    BY DEF FireOK, Chain
  <2> QED BY <2>2, <2>3
<1> DEFINE d == Detached(l, s)
           u == Unlink(l, s)
<1>3. /\ u.fire = d.fire /\ u.prev = d.prev
      /\ \A x \in A \ {s} : u.next[x] = d.next[x] /\ u.prev[x] = d.prev[x] /\ exp[x] = exp[x]
  BY <1>2 DEF LinkState, Unlink, Free
<1> HIDE DEF d, u
<1>4. FireOK(u, A \ {s}, exp, m - 1, Drop(q, m, j))
  BY <1>1, <1>3, FireKept DEF d
<1> QED BY <1>1, <1>4 DEF u

\* A chain that keeps the order of another.
KeepsOrder(p, n, q, m) ==
  \E at \in [1..n -> 1..m] :
    /\ \A i \in 1..n : p[i] = q[at[i]]
    /\ \A i, j \in 1..n : i < j => at[i] < at[j]

LEMMA KeepsAll ==
  ASSUME NEW q, NEW m \in Nat
  PROVE  KeepsOrder(q, m, q, m)
<1> DEFINE at == [i \in 1..m |-> i]
<1>1. at \in [1..m -> 1..m] /\ \A i \in 1..m : at[i] = i
  OBVIOUS
<1> HIDE DEF at
<1> QED BY <1>1 DEF KeepsOrder

LEMMA KeepsDrop ==
  ASSUME NEW p, NEW n \in Nat, NEW q, NEW m \in Nat, KeepsOrder(p, n, q, m), NEW j \in 1..n
  PROVE  KeepsOrder(Drop(p, n, j), n - 1, q, m)
<1>1. PICK at \in [1..n -> 1..m] : /\ \A i \in 1..n : p[i] = q[at[i]]
                                   /\ \A i, k \in 1..n : i < k => at[i] < at[k]
  BY DEF KeepsOrder
<1> DEFINE by == Drop(at, n, j)
<1>2. ASSUME NEW i \in 1..(n - 1)
      PROVE  /\ (IF i < j THEN i ELSE i + 1) \in 1..n
             /\ by[i] = at[IF i < j THEN i ELSE i + 1]
             /\ Drop(p, n, j)[i] = p[IF i < j THEN i ELSE i + 1]
  BY DEF Drop
<1>3. by = [i \in 1..(n - 1) |-> by[i]]
  BY DEF Drop
<1> HIDE DEF by
<1>4. by \in [1..(n - 1) -> 1..m] /\ \A i \in 1..(n - 1) : Drop(p, n, j)[i] = q[by[i]]
  BY <1>1, <1>2, <1>3
<1>5. ASSUME NEW i \in 1..(n - 1), NEW k \in 1..(n - 1), i < k PROVE by[i] < by[k]
  <2>1. (IF i < j THEN i ELSE i + 1) < (IF k < j THEN k ELSE k + 1)
    BY <1>5
  <2> QED BY <1>1, <1>2, <2>1
<1> QED BY <1>4, <1>5 DEF KeepsOrder

\* Clocks of slots that are not in line do not matter.
LEMMA ClocksKept ==
  ASSUME NEW l, NEW A, NEW F, NEW exp, NEW exp2, ListsOK(l, A, F, exp),
         \A s \in A : exp2[s] = exp[s]
  PROVE  ListsOK(l, A, F, exp2)
<1>1. PICK m, q : FireOK(l, A, exp, m, q)
  BY DEF ListsOK
<1>2. FireOK(l, A, exp2, m, q)
  BY <1>1, FireKept
<1> QED BY <1>2 DEF ListsOK

LEMMA SameLinks ==
  ASSUME NEW l \in LinkState, NEW a \in Links, NEW pr \in [SlotIds -> Links]
  PROVE  [l EXCEPT !.fire = a, !.prev = pr] = [l EXCEPT !.fire = a, !.next = l.next, !.prev = pr]
<1> DEFINE x == [l EXCEPT !.fire = a, !.prev = pr]
           y == [l EXCEPT !.fire = a, !.next = l.next, !.prev = pr]
<1>1. /\ x \in LinkState /\ x.fire = a /\ x.prev = pr /\ x.next = l.next /\ x.free = l.free
      /\ y \in LinkState /\ y.fire = a /\ y.prev = pr /\ y.next = l.next /\ y.free = l.free
  BY DEF LinkState
<1> HIDE DEF x, y
<1>2. x = y
  BY <1>1 DEF LinkState
<1> QED BY <1>2 DEF x, y

\* The first in line.
LEMMA FirstIs ==
  ASSUME EventListAssumption, ListTypeOK, ListsOK(Lists, Active, SlotIds \ Active, expired),
         firstFire # NoSlot
  PROVE  /\ firstFire \in Active /\ Popped = Detached(Lists, firstFire)
         /\ ListsOK(Popped, Active \ {firstFire}, SlotIds \ Active, expired)
<1>1. PICK m, q : FireOK(Lists, Active, expired, m, q)
  BY DEF ListsOK
<1>2. /\ Chain(next, firstFire, m, q) /\ Active = {q[i] : i \in 1..m}
      /\ \A i \in 1..m : prev[q[i]] = IF i = 1 THEN NoSlot ELSE q[i - 1]
  BY <1>1 DEF FireOK, Lists
<1>3. m \in Nat /\ m # 0 /\ 1 \in 1..m /\ firstFire = q[1] /\ prev[firstFire] = NoSlot
  BY <1>2 DEF Chain
<1>4. firstFire \in Active
  BY <1>2, <1>3
<1>5. Popped = Detached(Lists, firstFire)
  <2> DEFINE nx == next[firstFire]
             back == [x \in SlotIds |-> IF x = nx THEN NoSlot ELSE prev[x]]
  <2>1. \A x \in SlotIds : x # NoSlot
    BY SlotIsSomething
  <2>2. [x \in SlotIds |-> IF x = prev[firstFire] THEN nx ELSE next[x]] = next
    BY <1>3, <2>1 DEF ListTypeOK
  <2>3. /\ Lists \in LinkState /\ Lists.next = next /\ Lists.prev = prev /\ Lists.fire = firstFire
        /\ nx \in Links /\ back \in [SlotIds -> Links] /\ next \in [SlotIds -> Links]
    BY <1>4 DEF Lists, ListTypeOK, LinkState, Links, Active
  <2>4. Popped = [Lists EXCEPT !.fire = nx, !.prev = back]
    BY <2>3 DEF Popped
  <2>5. (IF Lists.prev[firstFire] = NoSlot THEN Lists.next[firstFire] ELSE Lists.fire) = nx
    BY <2>3, <1>3
  <2>6. [x \in SlotIds |-> IF x = Lists.next[firstFire] THEN Lists.prev[firstFire] ELSE Lists.prev[x]] = back
    BY <2>3, <1>3
  <2>7. [x \in SlotIds |-> IF x = Lists.prev[firstFire] THEN Lists.next[firstFire] ELSE Lists.next[x]] = next
    BY <2>3, <2>2
  <2>8. Detached(Lists, firstFire) = [Lists EXCEPT !.fire = nx, !.next = next, !.prev = back]
    BY <2>5, <2>6, <2>7 DEF Detached
  <2> HIDE DEF nx, back
  <2> QED BY <2>3, <2>4, <2>8, SameLinks
<1> QED BY <1>4, <1>5, DetachedIs DEF ListTypeOK

-----------------------------------------------------------------------------
\* Every slot number that is held is the holder's own.
OwnIds(act, who, held) == \A t \in Timers : held[t] # NoSlot => act[held[t]] /\ who[held[t]] = t

\* Pending events belong to timers, loops to those that are loops, and none is late.
EventsOK(act, who, lp, exp) ==
  \A s \in SlotIds : act[s] =>
    who[s] \in Timers /\ (lp[s] # 0 <=> who[s] \in Loops) /\ exp[s] >= now

ListInv ==
  /\ ListTypeOK
  /\ ListsOK(Lists, Active, SlotIds \ Active, expired)
  /\ OwnIds(active, timer, ids)
  /\ EventsOK(active, timer, loop, expired)
  /\ target # NoSlot => now <= target

LEMMA SetIs ==
  ASSUME NEW l \in LinkState, SetLists(l)
  PROVE  /\ Lists' = l /\ next' \in [SlotIds -> Links] /\ prev' \in [SlotIds -> Links]
         /\ firstFree' \in Links /\ firstFire' \in Links
  BY DEF LinkState, SetLists, Lists

\* A slot is taken for an event of a timer that holds none.
LEMMA RegisterOK ==
  ASSUME EventListAssumption, ListTypeOK, NEW l, NEW act \in [SlotIds -> BOOLEAN],
         ListsOK(l, {s \in SlotIds : act[s]}, {s \in SlotIds : ~act[s]}, expired),
         NEW t \in Timers, \A u \in Timers : u # t /\ ids[u] # NoSlot => act[ids[u]] /\ timer[ids[u]] = u,
         EventsOK(act, timer, loop, expired),
         NEW delay \in Nat, NEW period \in Nat, period # 0 <=> t \in Loops,
         Register(t, l, act, delay, period), UNCHANGED <<now, target, calling>>,
         target # NoSlot => now <= target
  PROVE  ListInv'
<1> DEFINE A == {s \in SlotIds : act[s]}
<1>0. /\ Active' = {s \in SlotIds : active'[s]} /\ l \in LinkState
      /\ now' = now /\ now \in Nat /\ Fraction \in Nat \ {0} /\ target' = target /\ calling' = calling
  BY DEF Active, ListsOK, EventListAssumption, ListTypeOK
<1>1. CASE l.free = NoSlot
  <2>1. /\ SetLists(l) /\ active' = act /\ ids' = [ids EXCEPT ![t] = NoSlot]
        /\ timer' = timer /\ expired' = expired /\ loop' = loop /\ slotAccum' = slotAccum
    BY <1>1 DEF Register
  <2>2. Lists' = l /\ Active' = A /\ {s \in SlotIds : ~act[s]} = SlotIds \ A
    BY <1>0, <2>1, SetIs
  <2>3. ListTypeOK'
    BY <1>0, <2>1, SetIs DEF ListTypeOK, Links
  <2>4. OwnIds(active, timer, ids)'
    BY <2>1 DEF OwnIds, ListTypeOK
  <2>5. EventsOK(active, timer, loop, expired)'
    BY <1>0, <2>1 DEF EventsOK
  <2> QED BY <1>0, <2>1, <2>2, <2>3, <2>4, <2>5 DEF ListInv
<1>2. CASE l.free # NoSlot
  <2> DEFINE s == l.free
             clk == now + (IF period = 0 THEN delay ELSE period \div Fraction)
             exp == [expired EXCEPT ![s] = clk]
             l2 == [l EXCEPT !.free = l.next[s]]
  <2>1. /\ active' = [act EXCEPT ![s] = TRUE] /\ timer' = [timer EXCEPT ![s] = t]
        /\ expired' = exp /\ loop' = [loop EXCEPT ![s] = period]
        /\ slotAccum' = [slotAccum EXCEPT ![s] = period % Fraction]
        /\ ids' = [ids EXCEPT ![t] = IF t \in NoId THEN NoSlot ELSE s]
        /\ SetLists(Insert(l2, exp, s))
    BY <1>2 DEF Register
  <2>2. /\ s \in SlotIds /\ s \notin A /\ A \subseteq SlotIds /\ SlotIds \ A = {x \in SlotIds : ~act[x]}
        /\ ListsOK(l2, A, (SlotIds \ A) \ {s}, expired)
    <3>1. SlotIds \ A = {x \in SlotIds : ~act[x]}
      OBVIOUS
    <3>2. /\ s \in SlotIds \ A /\ s \in SlotIds
          /\ ListsOK(l2, A, (SlotIds \ A) \ {s}, expired)
      BY <1>2, <3>1, TakeIs
    <3> QED BY <3>1, <3>2
  <2>3. clk \in Nat /\ clk >= now /\ exp \in [SlotIds -> Nat] /\ period % Fraction \in 0..(Fraction - 1)
    <3>1. period \div Fraction \in Nat /\ period % Fraction \in 0..(Fraction - 1)
      <4>1. \A a \in Nat, b \in Nat \ {0} : a \div b \in Nat /\ a % b \in 0..(b - 1)
        OBVIOUS
      <4> QED BY <4>1, <1>0
    <3>2. clk \in Nat /\ clk >= now
      BY <3>1, <1>0
    <3> QED BY <3>1, <3>2 DEF ListTypeOK
  <2> HIDE DEF clk, s
  <2>4. ListsOK(l2, A, (SlotIds \ A) \ {s}, exp)
    <3>1. \A x \in A : exp[x] = expired[x]
      BY <2>2 DEF ListTypeOK
    <3> HIDE DEF A, exp, l2
    <3> QED BY <2>2, <3>1, ClocksKept
  <2>5. ListsOK(Insert(l2, exp, s), A \union {s}, (SlotIds \ A) \ {s}, exp)
    BY <2>2, <2>3, <2>4, InsertIs
  <2>6. Active' = A \union {s} /\ (SlotIds \ A) \ {s} = SlotIds \ (A \union {s})
    BY <1>0, <2>1, <2>2
  <2> HIDE DEF l2
  <2>7. Insert(l2, exp, s) \in LinkState
    BY <2>5 DEF ListsOK
  <2>8. Lists' = Insert(l2, exp, s)
    BY <2>1, <2>7, SetIs
  <2>9. ListTypeOK'
    <3>1. /\ next' \in [SlotIds -> Links] /\ prev' \in [SlotIds -> Links]
          /\ firstFree' \in Links /\ firstFire' \in Links
      BY <2>1, <2>7, SetIs
    <3>2. active' \in [SlotIds -> BOOLEAN]
      BY <2>1
    <3>3. timer' \in [SlotIds -> Timers \union {Nobody}] /\ loop' \in [SlotIds -> Nat]
      BY <2>1 DEF ListTypeOK
    <3>4. slotAccum' \in [SlotIds -> 0..(Fraction - 1)]
      BY <2>1, <2>3 DEF ListTypeOK
    <3>5. ids' \in [Timers -> Links]
      BY <2>1, <2>2 DEF ListTypeOK, Links
    <3> QED BY <3>1, <3>2, <3>3, <3>4, <3>5, <2>1, <2>3, <1>0 DEF ListTypeOK
  <2>10. OwnIds(active, timer, ids)'
    <3> SUFFICES ASSUME NEW u \in Timers, ids'[u] # NoSlot
                 PROVE  active'[ids'[u]] /\ timer'[ids'[u]] = u
      BY DEF OwnIds
    <3>1. CASE u = t
      <4>1. ids'[u] = s
        BY <3>1, <2>1 DEF ListTypeOK
      <4> QED BY <3>1, <4>1, <2>1, <2>2 DEF ListTypeOK
    <3>2. CASE u # t
      <4>1. ids'[u] = ids[u] /\ ids[u] \in SlotIds
        BY <3>2, <2>1 DEF ListTypeOK, Links
      <4>2. act[ids[u]] /\ timer[ids[u]] = u /\ ids[u] # s
        BY <3>2, <4>1, <2>2
      <4> QED BY <4>1, <4>2, <2>1 DEF ListTypeOK
    <3> QED BY <3>1, <3>2
  <2>11. EventsOK(active, timer, loop, expired)'
    <3> SUFFICES ASSUME NEW x \in SlotIds, active'[x]
                 PROVE  timer'[x] \in Timers /\ (loop'[x] # 0 <=> timer'[x] \in Loops) /\ expired'[x] >= now'
      BY DEF EventsOK
    <3>1. CASE x = s
      BY <3>1, <2>1, <2>2, <2>3, <1>0 DEF ListTypeOK
    <3>2. CASE x # s
      <4>1. act[x] /\ timer'[x] = timer[x] /\ loop'[x] = loop[x] /\ expired'[x] = expired[x]
        BY <3>2, <2>1 DEF ListTypeOK
      <4> QED BY <4>1, <1>0 DEF EventsOK
    <3> QED BY <3>1, <3>2
  <2> HIDE DEF A, exp
  <2>12. ListsOK(Lists, Active, SlotIds \ Active, expired)'
    BY <2>1, <2>5, <2>6, <2>8
  <2> QED BY <1>0, <2>9, <2>10, <2>11, <2>12 DEF ListInv
<1> QED BY <1>1, <1>2


LEMMA ArmOK ==
  ASSUME EventListAssumption, ListInv, NEW t \in Timers, NEW delay \in Nat, NEW period \in Nat,
         period # 0 <=> t \in Loops, Arm(t, delay, period)
  PROVE  ListInv'
<1>1. /\ ListTypeOK /\ EventsOK(active, timer, loop, expired) /\ UNCHANGED <<now, target, calling>>
      /\ target # NoSlot => now <= target
      /\ \A u \in Timers : ids[u] # NoSlot => active[ids[u]] /\ timer[ids[u]] = u /\ ids[u] \in SlotIds
      /\ active \in [SlotIds -> BOOLEAN]
  BY DEF ListInv, OwnIds, ListTypeOK, Links, Arm
<1>2. CASE ids[t] = NoSlot
  <2>1. Register(t, Lists, active, delay, period)
    BY <1>2 DEF Arm, Cancelled
  <2>2. ListsOK(Lists, {s \in SlotIds : active[s]}, {s \in SlotIds : ~active[s]}, expired)
    <3>1. {s \in SlotIds : ~active[s]} = SlotIds \ Active /\ {s \in SlotIds : active[s]} = Active
      BY DEF Active
    <3> QED BY <3>1 DEF ListInv
  <2> QED BY <1>1, <2>1, <2>2, RegisterOK
<1>3. CASE ids[t] # NoSlot
  <2> DEFINE s == ids[t]
             act == [active EXCEPT ![s] = FALSE]
  <2>1. s \in SlotIds /\ s \in Active /\ act \in [SlotIds -> BOOLEAN] /\ s # NoSlot /\ active[s]
    BY <1>1, <1>3 DEF Active
  <2>2. Register(t, Unlink(Lists, s), act, delay, period)
    BY <1>3, <2>1 DEF Arm, Cancelled
  <2>3. ListsOK(Unlink(Lists, s), Active \ {s}, (SlotIds \ Active) \union {s}, expired)
    BY <2>1, UnlinkIs DEF ListInv, ListTypeOK
  <2>4. /\ {x \in SlotIds : act[x]} = Active \ {s}
        /\ {x \in SlotIds : ~act[x]} = (SlotIds \ Active) \union {s}
    BY <1>1, <2>1 DEF Active
  <2>5. \A u \in Timers : u # t /\ ids[u] # NoSlot => act[ids[u]] /\ timer[ids[u]] = u
    BY <1>1, <2>1
  <2>6. EventsOK(act, timer, loop, expired)
    BY <1>1, <2>1 DEF EventsOK
  <2> HIDE DEF s, act
  <2>7. ListsOK(Unlink(Lists, s), {x \in SlotIds : act[x]}, {x \in SlotIds : ~act[x]}, expired)
    BY <2>3, <2>4
  <2> QED BY <1>1, <2>1, <2>2, <2>5, <2>6, <2>7, RegisterOK
<1> QED BY <1>2, <1>3

\* A slot leaves the line and its holder forgets it.
LEMMA CancelOK ==
  ASSUME EventListAssumption, ListInv, NEW s \in Active, SetLists(Unlink(Lists, s)),
         active' = [active EXCEPT ![s] = FALSE], ids' = [ids EXCEPT ![timer[s]] = NoSlot],
         UNCHANGED <<timer, expired, loop, slotAccum>>,
         now' \in 0..MaxClock, now' <= now, calling' \in Timers \union {Nobody},
         target' \in {NoSlot} \union 0..MaxClock, target' # NoSlot => now' <= target'
  PROVE  ListInv'
<1>1. ListsOK(Unlink(Lists, s), Active \ {s}, (SlotIds \ Active) \union {s}, expired)
  BY UnlinkIs DEF ListInv, ListTypeOK
<1>2. Unlink(Lists, s) \in LinkState
  BY <1>1 DEF ListsOK
<1>3. /\ Active' = Active \ {s} /\ (SlotIds \ Active) \union {s} = SlotIds \ (Active \ {s})
      /\ s \in SlotIds /\ active[s] /\ ListTypeOK
  BY DEF Active, ListInv, ListTypeOK
<1>4. Lists' = Unlink(Lists, s)
  BY <1>2, SetIs
<1>5. ListsOK(Lists, Active, SlotIds \ Active, expired)'
  BY <1>1, <1>3, <1>4
<1>6. timer[s] \in Timers
  BY <1>3 DEF ListInv, EventsOK
<1>7. ListTypeOK'
  BY <1>2, <1>3, <1>6, SetIs DEF ListTypeOK, Links
<1>8. OwnIds(active, timer, ids)'
  <2> SUFFICES ASSUME NEW u \in Timers, ids'[u] # NoSlot
               PROVE  active'[ids'[u]] /\ timer'[ids'[u]] = u
    BY DEF OwnIds
  <2>1. u # timer[s] /\ ids'[u] = ids[u] /\ ids[u] \in SlotIds
    BY <1>3, <1>6 DEF ListTypeOK, Links
  <2>2. active[ids[u]] /\ timer[ids[u]] = u /\ ids[u] # s
    BY <2>1 DEF ListInv, OwnIds
  <2> QED BY <1>3, <2>1, <2>2 DEF ListTypeOK
<1>9. EventsOK(active, timer, loop, expired)'
  <2> SUFFICES ASSUME NEW x \in SlotIds, active'[x]
               PROVE  timer'[x] \in Timers /\ (loop'[x] # 0 <=> timer'[x] \in Loops) /\ expired'[x] >= now'
    BY DEF EventsOK
  <2>1. active[x]
    BY <1>3 DEF ListTypeOK
  <2>2. expired[x] \in Int /\ now \in Int /\ now' \in Int /\ expired[x] >= now
    BY <1>3, <2>1 DEF ListTypeOK, ListInv, EventsOK
  <2> QED BY <2>1, <2>2 DEF ListInv, EventsOK
<1> QED BY <1>5, <1>7, <1>8, <1>9 DEF ListInv

LEMMA DisarmOK ==
  ASSUME EventListAssumption, ListInv, NEW t \in Timers, Disarm(t)
  PROVE  ListInv'
<1>1. ids[t] \in Active /\ timer[ids[t]] = t /\ active[ids[t]]
  BY DEF ListInv, OwnIds, ListTypeOK, Links, Disarm, Active
<1>2. now \in 0..MaxClock /\ now' = now /\ now \in Int
  BY DEF ListInv, ListTypeOK, Disarm, EventListAssumption
<1> DEFINE s == ids[t]
<1>3. /\ SetLists(Unlink(Lists, s)) /\ active' = [active EXCEPT ![s] = FALSE]
      /\ ids' = [ids EXCEPT ![timer[s]] = NoSlot] /\ UNCHANGED <<timer, expired, loop, slotAccum>>
      /\ calling' = calling /\ target' = target
  BY <1>1 DEF Disarm
<1>4. /\ calling \in Timers \union {Nobody} /\ target \in {NoSlot} \union 0..MaxClock
      /\ target # NoSlot => now <= target
  BY DEF ListInv, ListTypeOK
<1> HIDE DEF s
<1>5. s \in Active
  BY <1>1 DEF s
<1>6. /\ now' \in 0..MaxClock /\ now' <= now /\ calling' \in Timers \union {Nobody}
      /\ target' \in {NoSlot} \union 0..MaxClock /\ (target' # NoSlot => now' <= target')
  BY <1>2, <1>3, <1>4
<1> QED BY <1>3, <1>5, <1>6, CancelOK

\* Nothing but the clock and the callback changes.
LEMMA TimeOK ==
  ASSUME EventListAssumption, ListInv, UNCHANGED <<slotVars, linkVars, ids>>,
         now' \in 0..MaxClock, \A s \in Active : expired[s] >= now',
         calling' \in Timers \union {Nobody},
         target' \in {NoSlot} \union 0..MaxClock, target' # NoSlot => now' <= target'
  PROVE  ListInv'
<1>1. Lists' = Lists /\ Active' = Active /\ expired' = expired /\ timer' = timer /\ loop' = loop
      /\ active' = active /\ ids' = ids
  BY DEF Lists, Active, slotVars, linkVars
<1>2. ListsOK(Lists, Active, SlotIds \ Active, expired)'
  BY <1>1 DEF ListInv
<1>3. ListTypeOK'
  BY DEF ListInv, ListTypeOK, slotVars, linkVars
<1>4. OwnIds(active, timer, ids)' /\ EventsOK(active, timer, loop, expired)'
  BY <1>1 DEF ListInv, OwnIds, EventsOK, Active
<1> QED BY <1>2, <1>3, <1>4 DEF ListInv


\* The first in line is due, and no event is earlier.
LEMMA FirstIsFirst ==
  ASSUME EventListAssumption, ListTypeOK, ListsOK(Lists, Active, SlotIds \ Active, expired)
  PROVE  /\ firstFire = NoSlot => Active = {}
         /\ \A s \in Active : expired[firstFire] <= expired[s]
<1>1. PICK m, q : FireOK(Lists, Active, expired, m, q)
  BY DEF ListsOK
<1>2. /\ m \in Nat /\ \A i \in 1..m : q[i] \in SlotIds /\ q[i] # NoSlot /\ expired[q[i]] \in Nat
      /\ Active = {q[i] : i \in 1..m} /\ firstFire = IF m = 0 THEN NoSlot ELSE q[1]
      /\ \A i \in 1..(m - 1) : expired[q[i]] <= expired[q[i + 1]]
  BY <1>1, SlotIsSomething DEF FireOK, Chain, Lists, ListTypeOK
<1>3. firstFire = NoSlot => Active = {}
  <2>1. m # 0 => 1 \in 1..m
    BY <1>2
  <2>2. m = 0 => \A i \in 1..m : FALSE
    OBVIOUS
  <2> QED BY <1>2, <2>1, <2>2
<1>4. Nat \subseteq {i \in Nat : i + 1 \in 1..m => expired[q[1]] <= expired[q[i + 1]]}
  <2> DEFINE S == {i \in Nat : i + 1 \in 1..m => expired[q[1]] <= expired[q[i + 1]]}
  <2>1. 0 \in S
    BY <1>2
  <2>2. ASSUME NEW i \in Nat, i \in S PROVE i + 1 \in S
    <3> SUFFICES ASSUME (i + 1) + 1 \in 1..m PROVE expired[q[1]] <= expired[q[(i + 1) + 1]]
      OBVIOUS
    <3>1. i + 1 \in 1..m /\ i + 1 \in 1..(m - 1) /\ 1 \in 1..m
      BY <1>2
    <3>2. expired[q[1]] <= expired[q[i + 1]] /\ expired[q[i + 1]] <= expired[q[(i + 1) + 1]]
      BY <2>2, <3>1, <1>2
    <3>3. expired[q[1]] \in Nat /\ expired[q[i + 1]] \in Nat /\ expired[q[(i + 1) + 1]] \in Nat
      BY <3>1, <1>2
    <3> QED BY <3>2, <3>3
  <2> HIDE DEF S
  <2>3. Nat \subseteq S
    BY <2>1, <2>2, SetInduction
  <2> QED BY <2>3 DEF S
<1>5. ASSUME NEW s \in Active PROVE expired[firstFire] <= expired[s]
  <2>1. PICK i \in 1..m : s = q[i]
    BY <1>2
  <2>2. i - 1 \in Nat /\ (i - 1) + 1 = i /\ m # 0
    BY <1>2
  <2>3. expired[q[1]] <= expired[q[i]]
    BY <1>4, <2>2
  <2> QED BY <1>2, <2>1, <2>2, <2>3
<1> QED BY <1>3, <1>5

LEMMA UpdateOK ==
  ASSUME EventListAssumption, ListInv, NEW c \in Steps, UpdateTo(c)
  PROVE  ListInv'
<1>1. /\ now \in Int /\ now' = now /\ now \in 0..MaxClock /\ c \in Nat /\ MaxClock \in Nat
      /\ target' = now + c /\ now + c <= MaxClock /\ calling' = calling
      /\ calling \in Timers \union {Nobody}
  BY DEF EventListAssumption, ListInv, ListTypeOK, UpdateTo
<1>2. target' \in 0..MaxClock /\ now' <= target'
  BY <1>1
<1>3. \A s \in Active : expired[s] >= now'
  BY <1>1 DEF ListInv, EventsOK, Active
<1> QED BY <1>1, <1>2, <1>3, TimeOK DEF UpdateTo

LEMMA ReturnOK ==
  ASSUME EventListAssumption, ListInv, CallbackReturns
  PROVE  ListInv'
<1>1. \A s \in Active : expired[s] >= now
  BY DEF ListInv, EventsOK, Active
<1> QED BY <1>1, TimeOK DEF CallbackReturns, ListInv, ListTypeOK

LEMMA EndOK ==
  ASSUME EventListAssumption, ListInv, EndUpdate
  PROVE  ListInv' /\ \A s \in Active : expired[s] > now'
<1>1. /\ target \in 0..MaxClock /\ target \in Int /\ now' = target /\ target' = NoSlot
      /\ calling' = calling /\ calling \in Timers \union {Nobody}
  BY DEF EventListAssumption, ListInv, ListTypeOK, EndUpdate, InLoop
<1>2. \A s \in Active : expired[s] > now'
  <2> SUFFICES ASSUME NEW s \in Active PROVE expired[s] > now'
    OBVIOUS
  <2>1. firstFire # NoSlot /\ firstFire \in SlotIds /\ s \in SlotIds
    BY FirstIsFirst, FirstIs DEF ListInv, Active
  <2>2. expired[firstFire] <= expired[s] /\ expired[firstFire] \in Nat /\ expired[s] \in Nat
    BY <2>1, FirstIsFirst DEF ListInv, ListTypeOK
  <2>3. ~(expired[firstFire] <= target)
    BY <2>1 DEF EndUpdate, Due
  <2> QED BY <2>2, <2>3, <1>1
<1>3. \A s \in Active : expired[s] >= now'
  <2>1. \A s \in Active : expired[s] \in Nat
    BY DEF Active, ListInv, ListTypeOK
  <2> QED BY <1>1, <1>2, <2>1
<1>4. target' # NoSlot => now' <= target'
  BY <1>1
<1> QED BY <1>1, <1>2, <1>3, <1>4, TimeOK DEF EndUpdate

LEMMA FireOnceOK ==
  ASSUME EventListAssumption, ListInv, FireOnce
  PROVE  ListInv'
<1> DEFINE s == firstFire
<1>1. /\ s # NoSlot /\ expired[s] <= target /\ target # NoSlot /\ target \in 0..MaxClock
      /\ target' = target /\ now' = expired[s] /\ calling' = timer[s]
      /\ SetLists(Free(Popped, s)) /\ active' = [active EXCEPT ![s] = FALSE]
      /\ ids' = [ids EXCEPT ![timer[s]] = NoSlot] /\ UNCHANGED <<timer, expired, loop, slotAccum>>
  BY DEF FireOnce, InLoop, Due, ListInv, ListTypeOK
<1>2. /\ s \in Active /\ s \in SlotIds /\ s \notin SlotIds \ Active
      /\ ListsOK(Popped, Active \ {s}, SlotIds \ Active, expired)
  BY <1>1, FirstIs DEF ListInv, Active
<1>3a. ListsOK(Free(Popped, s), Active \ {s}, (SlotIds \ Active) \union {s}, expired)
  BY <1>2, FreeIs
<1>3. timer[s] \in Timers /\ ListTypeOK /\ expired[s] \in Nat /\ active[s]
  BY <1>2 DEF Active, ListInv, EventsOK, ListTypeOK
<1>4. timer[s] \in Timers /\ ListTypeOK /\ expired[s] \in Nat /\ now' \in 0..MaxClock /\ active[s]
  <2>1. MaxClock \in Nat
    BY DEF EventListAssumption
  <2> QED BY <1>1, <1>3, <2>1
<1> HIDE DEF s
<1>5. Free(Popped, s) \in LinkState
  BY <1>3a DEF ListsOK
<1>6. Lists' = Free(Popped, s) /\ Active' = Active \ {s}
      /\ (SlotIds \ Active) \union {s} = SlotIds \ (Active \ {s})
  BY <1>1, <1>2, <1>4, <1>5, SetIs DEF Active, ListTypeOK
<1>7. ListsOK(Lists, Active, SlotIds \ Active, expired)'
  BY <1>1, <1>3a, <1>6
<1>8. ListTypeOK'
  BY <1>1, <1>2, <1>4, <1>5, SetIs DEF ListTypeOK, Links
<1>9. OwnIds(active, timer, ids)'
  <2> SUFFICES ASSUME NEW u \in Timers, ids'[u] # NoSlot
               PROVE  active'[ids'[u]] /\ timer'[ids'[u]] = u
    BY DEF OwnIds
  <2>1. u # timer[s] /\ ids'[u] = ids[u] /\ ids[u] \in SlotIds
    BY <1>1, <1>4 DEF ListTypeOK, Links
  <2>2. active[ids[u]] /\ timer[ids[u]] = u /\ ids[u] # s
    BY <2>1 DEF ListInv, OwnIds
  <2> QED BY <1>1, <1>4, <2>1, <2>2 DEF ListTypeOK
<1>10. EventsOK(active, timer, loop, expired)'
  <2> SUFFICES ASSUME NEW x \in SlotIds, active'[x]
               PROVE  timer'[x] \in Timers /\ (loop'[x] # 0 <=> timer'[x] \in Loops) /\ expired'[x] >= now'
    BY DEF EventsOK
  <2>1. active[x] /\ x \in Active
    BY <1>1, <1>2, <1>4 DEF ListTypeOK, Active
  <2>2. expired[s] <= expired[x]
    BY <2>1, FirstIsFirst DEF ListInv, s
  <2>3. expired[x] \in Nat
    BY <1>4 DEF ListTypeOK
  <2> QED BY <1>1, <1>4, <2>1, <2>2, <2>3 DEF ListInv, EventsOK
<1>11. target' # NoSlot => now' <= target'
  BY <1>1
<1> QED BY <1>7, <1>8, <1>9, <1>10, <1>11 DEF ListInv

LEMMA FireLoopOK ==
  ASSUME EventListAssumption, ListInv, FireLoop
  PROVE  ListInv'
<1> DEFINE s == firstFire
           sum == slotAccum[s] + loop[s]
           exp == [expired EXCEPT ![s] = expired[s] + sum \div Fraction]
<1>1. /\ s # NoSlot /\ expired[s] <= target /\ target # NoSlot /\ target \in 0..MaxClock
      /\ target' = target /\ now' = expired[s] /\ calling' = timer[s]
      /\ SetLists(Insert(Popped, exp, s)) /\ expired' = exp
      /\ slotAccum' = [slotAccum EXCEPT ![s] = sum % Fraction]
      /\ active' = active /\ timer' = timer /\ loop' = loop /\ ids' = ids
  BY DEF FireLoop, InLoop, Due, ListInv, ListTypeOK
<1>2. /\ s \in Active /\ s \in SlotIds /\ s \notin SlotIds \ Active
      /\ ListsOK(Popped, Active \ {s}, SlotIds \ Active, expired)
  BY <1>1, FirstIs DEF ListInv, Active
<1>3. timer[s] \in Timers /\ ListTypeOK /\ expired[s] \in Nat /\ active[s]
  BY <1>2 DEF Active, ListInv, EventsOK, ListTypeOK
<1>4. timer[s] \in Timers /\ ListTypeOK /\ expired[s] \in Nat /\ now' \in 0..MaxClock /\ active[s]
  <2>1. MaxClock \in Nat
    BY DEF EventListAssumption
  <2> HIDE DEF exp
  <2> QED BY <1>1, <1>3, <2>1
<1>5. sum \div Fraction \in Nat /\ sum % Fraction \in 0..(Fraction - 1)
  <2>1. \A a \in Nat, b \in Nat \ {0} : a \div b \in Nat /\ a % b \in 0..(b - 1)
    OBVIOUS
  <2>2. sum \in Nat /\ Fraction \in Nat \ {0}
    BY <1>2, <1>4 DEF ListTypeOK, EventListAssumption
  <2> QED BY <2>1, <2>2
<1> HIDE DEF sum, s
<1>6. exp \in [SlotIds -> Nat] /\ exp[s] \in Nat /\ exp[s] >= expired[s] /\ \A x \in SlotIds : x # s => exp[x] = expired[x]
  BY <1>2, <1>4, <1>5 DEF ListTypeOK
<1> HIDE DEF exp
<1>7. ListsOK(Popped, Active \ {s}, SlotIds \ Active, exp)
  <2>1. \A x \in Active \ {s} : exp[x] = expired[x]
    BY <1>6 DEF Active
  <2> QED BY <1>2, <2>1, ClocksKept
<1>8. ListsOK(Insert(Popped, exp, s), (Active \ {s}) \union {s}, SlotIds \ Active, exp)
  BY <1>2, <1>6, <1>7, InsertIs
<1>9. Insert(Popped, exp, s) \in LinkState
  BY <1>8 DEF ListsOK
<1>10. Lists' = Insert(Popped, exp, s) /\ Active' = Active /\ (Active \ {s}) \union {s} = Active
  BY <1>1, <1>2, <1>9, SetIs DEF Active
<1>11. ListsOK(Lists, Active, SlotIds \ Active, expired)'
  BY <1>1, <1>8, <1>10
<1>12. ListTypeOK'
  <2>1. slotAccum' \in [SlotIds -> 0..(Fraction - 1)]
    BY <1>1, <1>4, <1>5 DEF ListTypeOK
  <2>2. next' \in [SlotIds -> Links] /\ prev' \in [SlotIds -> Links]
        /\ firstFree' \in Links /\ firstFire' \in Links
    BY <1>1, <1>9, SetIs
  <2> QED BY <1>1, <1>4, <1>6, <2>1, <2>2 DEF ListTypeOK
<1>13. OwnIds(active, timer, ids)'
  BY <1>1 DEF ListInv, OwnIds
<1>14. EventsOK(active, timer, loop, expired)'
  <2> SUFFICES ASSUME NEW x \in SlotIds, active[x]
               PROVE  timer[x] \in Timers /\ (loop[x] # 0 <=> timer[x] \in Loops) /\ exp[x] >= expired[s]
    BY <1>1 DEF EventsOK
  <2>1. expired[s] <= expired[x]
    BY FirstIsFirst DEF ListInv, s, Active
  <2>2. expired[x] \in Nat
    BY <1>4 DEF ListTypeOK
  <2>3. exp[x] >= expired[s]
    <3>1. CASE x = s
      BY <3>1, <1>6
    <3>2. CASE x # s
      BY <3>2, <2>1, <2>2, <1>4, <1>6
    <3> QED BY <3>1, <3>2
  <2> QED BY <2>3 DEF ListInv, EventsOK
<1>15. target' # NoSlot => now' <= target'
  BY <1>1
<1> QED BY <1>11, <1>12, <1>13, <1>14, <1>15 DEF ListInv


-----------------------------------------------------------------------------
(* A reset: the slots one by one, as the source's loop goes.               *)

Cancels(k) == active[k] /\ loop[k] = 0

ResetRun(n, f) ==
  [k \in 0..n |->
     IF k = 0 THEN [lists |-> Lists, act |-> active]
     ELSE IF active[k - 1] /\ loop[k - 1] = 0
          THEN [lists |-> Unlink(f[k - 1].lists, k - 1),
                act   |-> [f[k - 1].act EXCEPT ![k - 1] = FALSE]]
          ELSE f[k - 1]]

\* The loop's steps are a function: one that begins as it should can be continued.
LEMMA ResetRuns ==
  ASSUME NEW n \in Nat
  PROVE  \E f : f = ResetRun(n, f)
<1> DEFINE S == {i \in Nat : \E f : f = ResetRun(i, f)}
<1>1. 0 \in S
  <2> DEFINE f == [k \in 0..0 |-> [lists |-> Lists, act |-> active]]
  <2>1. f = ResetRun(0, f)
    BY DEF ResetRun
  <2> QED BY <2>1
<1>2. ASSUME NEW i \in Nat, i \in S PROVE i + 1 \in S
  <2>1. PICK f : f = ResetRun(i, f)
    BY <1>2
  <2> DEFINE last == IF active[i] /\ loop[i] = 0
                     THEN [lists |-> Unlink(f[i].lists, i), act |-> [f[i].act EXCEPT ![i] = FALSE]]
                     ELSE f[i]
             g == [k \in 0..(i + 1) |-> IF k = i + 1 THEN last ELSE f[k]]
  <2>2. g[i + 1] = last /\ \A k \in 0..i : g[k] = f[k]
    <3>1. i + 1 \in 0..(i + 1) /\ \A k \in 0..i : k \in 0..(i + 1) /\ k # i + 1
      OBVIOUS
    <3> HIDE DEF last
    <3> QED BY <3>1
  <2>3. \A k \in 0..i : f[k] = ResetRun(i, f)[k]
    BY <2>1
  <2> HIDE DEF g
  <2>4. ASSUME NEW k \in 0..(i + 1) PROVE g[k] = ResetRun(i + 1, g)[k]
    <3>1. CASE k = i + 1
      <4>1. k # 0 /\ k - 1 = i /\ i \in 0..i
        BY <3>1
      <4> QED BY <4>1, <3>1, <2>2 DEF ResetRun
    <3>2. CASE k # i + 1
      <4>1. k \in 0..i /\ (k # 0 => k - 1 \in 0..i)
        BY <3>2
      <4>2. g[k] = f[k] /\ (k # 0 => g[k - 1] = f[k - 1])
        BY <4>1, <2>2
      <4> QED BY <4>1, <4>2, <2>3 DEF ResetRun
    <3> QED BY <3>1, <3>2
  <2>5. g = [k \in 0..(i + 1) |-> g[k]] /\ ResetRun(i + 1, g) = [k \in 0..(i + 1) |-> ResetRun(i + 1, g)[k]]
    BY DEF g, ResetRun
  <2>6. g = ResetRun(i + 1, g)
    BY <2>4, <2>5
  <2> QED BY <2>6
<1> HIDE DEF S
<1>3. Nat \subseteq S
  BY <1>1, <1>2, SetInduction
<1> QED BY <1>3 DEF S

\* After k turns the one-shots in the first k slots are gone.
Left(k) == {s \in SlotIds : active[s] /\ ~(s < k /\ loop[s] = 0)}

InOrder(l, K) ==
  \A m, q : FireOK(Lists, Active, expired, m, q) =>
    \E n, p : FireOK(l, K, expired, n, p) /\ KeepsOrder(p, n, q, m)

LEMMA ResetLists ==
  ASSUME EventListAssumption, ListInv
  PROVE  LET st == ListResetTo(MaxEvent) IN
         /\ ListsOK(st.lists, Left(MaxEvent), SlotIds \ Left(MaxEvent), expired)
         /\ st.act \in [SlotIds -> BOOLEAN]
         /\ \A s \in SlotIds : st.act[s] <=> s \in Left(MaxEvent)
         /\ \A m, q : FireOK(Lists, Active, expired, m, q) =>
              \E n, p : FireOK(st.lists, Left(MaxEvent), expired, n, p) /\ KeepsOrder(p, n, q, m)
<1> DEFINE f == CHOOSE g : g = ResetRun(MaxEvent, g)
           OK(k) == /\ ListsOK(f[k].lists, Left(k), SlotIds \ Left(k), expired)
                    /\ f[k].act \in [SlotIds -> BOOLEAN]
                    /\ \A s \in SlotIds : f[k].act[s] <=> s \in Left(k)
                    /\ InOrder(f[k].lists, Left(k))
<1>0. /\ MaxEvent \in Nat /\ MaxEvent \in 0..MaxEvent /\ ListTypeOK
      /\ \A s \in SlotIds : s \in Nat
  BY SlotIsSomething DEF EventListAssumption, ListInv
<1>1. ListResetTo(MaxEvent) = f[MaxEvent]
  BY DEF ListResetTo, ResetRun
<1>2. f = ResetRun(MaxEvent, f)
  BY <1>0, ResetRuns
<1> HIDE DEF f
<1>3. f[0] = [lists |-> Lists, act |-> active]
  <2>1. 0 \in 0..MaxEvent
    BY <1>0
  <2> QED BY <1>2, <2>1 DEF ResetRun
<1>4. OK(0)
  <2>1. Left(0) = Active
    BY <1>0 DEF Left, Active
  <2>2. f[0].lists = Lists /\ f[0].act = active
    BY <1>3
  <2>3. active \in [SlotIds -> BOOLEAN] /\ \A s \in SlotIds : active[s] <=> s \in Active
    BY <1>0 DEF ListTypeOK, Active
  <2>4. ListsOK(f[0].lists, Left(0), SlotIds \ Left(0), expired)
    BY <2>1, <2>2 DEF ListInv
  <2>5. \A m, q : FireOK(Lists, Active, expired, m, q) => KeepsOrder(q, m, q, m)
    BY KeepsAll DEF FireOK, Chain
  <2>6. InOrder(f[0].lists, Left(0))
    BY <2>1, <2>2, <2>5 DEF InOrder
  <2> QED BY <2>1, <2>2, <2>3, <2>4, <2>6
<1>5. ASSUME NEW k \in Nat, k + 1 <= MaxEvent, OK(k) PROVE OK(k + 1)
  <2>1. /\ k \in SlotIds /\ k + 1 \in 0..MaxEvent /\ k + 1 # 0 /\ (k + 1) - 1 = k
    BY <1>0, <1>5 DEF SlotIds
  <2>2. f[k + 1] = IF active[k] /\ loop[k] = 0
                   THEN [lists |-> Unlink(f[k].lists, k), act |-> [f[k].act EXCEPT ![k] = FALSE]]
                   ELSE f[k]
    <3> HIDE DEF OK
    <3>1. f[k + 1] = ResetRun(MaxEvent, f)[k + 1]
      BY <1>2
    <3> QED BY <3>1, <2>1 DEF ResetRun
  <2>3. CASE active[k] /\ loop[k] = 0
    <3>1. k \in Left(k) /\ Left(k + 1) = Left(k) \ {k}
      <4>1. \A s \in SlotIds : s < k + 1 <=> s < k \/ s = k
        BY <1>0
      <4>2. ~(k < k)
        OBVIOUS
      <4> QED BY <2>1, <2>3, <4>1, <4>2 DEF Left
    <3>2. ListsOK(Unlink(f[k].lists, k), Left(k) \ {k}, (SlotIds \ Left(k)) \union {k}, expired)
      BY <1>5, <3>1, <1>0, UnlinkIs DEF ListTypeOK
    <3>3. (SlotIds \ Left(k)) \union {k} = SlotIds \ Left(k + 1)
      BY <2>1, <3>1
    <3>4. f[k + 1].lists = Unlink(f[k].lists, k) /\ f[k + 1].act = [f[k].act EXCEPT ![k] = FALSE]
      BY <2>2, <2>3
    <3>5. ListsOK(f[k + 1].lists, Left(k + 1), SlotIds \ Left(k + 1), expired)
      BY <3>1, <3>2, <3>3, <3>4
    <3>6. ASSUME NEW m, NEW q, FireOK(Lists, Active, expired, m, q)
          PROVE  \E n, p : FireOK(f[k + 1].lists, Left(k + 1), expired, n, p) /\ KeepsOrder(p, n, q, m)
      <4>1. PICK n, p : FireOK(f[k].lists, Left(k), expired, n, p) /\ KeepsOrder(p, n, q, m)
        BY <1>5, <3>6 DEF InOrder
      <4>2. n \in Nat /\ m \in Nat
        BY <4>1, <3>6 DEF FireOK, Chain
      <4>3. ListsOK(f[k].lists, Left(k), SlotIds \ Left(k), expired) /\ expired \in [SlotIds -> Nat]
        BY <1>5, <1>0 DEF ListTypeOK
      <4>4. PICK j \in 1..n : FireOK(Unlink(f[k].lists, k), Left(k) \ {k}, expired, n - 1, Drop(p, n, j))
        BY <4>1, <4>3, <3>1, DropIs
      <4>5. KeepsOrder(Drop(p, n, j), n - 1, q, m)
        BY <4>1, <4>2, KeepsDrop
      <4> QED BY <4>4, <4>5, <3>1, <3>4
    <3>7. InOrder(f[k + 1].lists, Left(k + 1))
      BY <3>6 DEF InOrder
    <3>8. /\ f[k + 1].act \in [SlotIds -> BOOLEAN]
          /\ \A s \in SlotIds : f[k + 1].act[s] <=> s \in Left(k + 1)
      BY <3>1, <3>4, <2>1, <1>5
    <3> QED BY <3>5, <3>7, <3>8
  <2>4. CASE ~(active[k] /\ loop[k] = 0)
    <3>1. Left(k + 1) = Left(k)
      <4>1. \A s \in SlotIds : s < k + 1 <=> s < k \/ s = k
        BY <1>0
      <4> QED BY <2>4, <4>1 DEF Left
    <3> QED BY <1>5, <2>2, <2>4, <3>1
  <2> QED BY <2>3, <2>4
<1>6. Nat \subseteq {k \in Nat : k <= MaxEvent => OK(k)}
  <2> DEFINE S == {k \in Nat : k <= MaxEvent => OK(k)}
  <2> HIDE DEF OK
  <2>1. 0 \in S
    BY <1>4
  <2>2. ASSUME NEW k \in Nat, k \in S PROVE k + 1 \in S
    <3>1. k + 1 <= MaxEvent => k <= MaxEvent
      BY <1>0
    <3> QED BY <1>5, <2>2, <3>1
  <2> HIDE DEF S
  <2>3. Nat \subseteq S
    BY <2>1, <2>2, SetInduction
  <2> QED BY <2>3 DEF S
<1>7. OK(MaxEvent)
  <2> HIDE DEF OK
  <2>1. MaxEvent <= MaxEvent
    BY <1>0
  <2> QED BY <1>0, <1>6, <2>1
<1> QED BY <1>1, <1>7 DEF InOrder

LEMMA ResetOK ==
  ASSUME EventListAssumption, ListInv, ListReset
  PROVE  ListInv'
<1> DEFINE st == ListResetTo(MaxEvent)
           K == Left(MaxEvent)
<1>1. /\ SetLists(st.lists) /\ active' = st.act
      /\ ids' = [t \in Timers |-> IF t \in Loops THEN ids[t] ELSE NoSlot]
      /\ timer' = timer /\ expired' = expired /\ loop' = loop /\ slotAccum' = slotAccum
      /\ now' = now /\ target' = target /\ calling' = calling
  BY DEF ListReset
<1>2. /\ ListsOK(st.lists, K, SlotIds \ K, expired)
      /\ st.act \in [SlotIds -> BOOLEAN] /\ \A s \in SlotIds : st.act[s] <=> s \in K
  BY ResetLists
<1>3. \A s \in SlotIds : s \in K <=> active[s] /\ loop[s] # 0
  <2>1. \A s \in SlotIds : s < MaxEvent
    BY DEF SlotIds, EventListAssumption
  <2> QED BY <2>1 DEF Left
<1> HIDE DEF st, K
<1>4. st.lists \in LinkState
  BY <1>2 DEF ListsOK
<1>5. Lists' = st.lists /\ Active' = K
  <2>1. K \subseteq SlotIds
    BY <1>2 DEF K, Left
  <2> QED BY <1>1, <1>2, <1>4, <2>1, SetIs DEF Active
<1>6. ListsOK(Lists, Active, SlotIds \ Active, expired)'
  BY <1>1, <1>2, <1>5
<1>7. ListTypeOK'
  <2>1. next' \in [SlotIds -> Links] /\ prev' \in [SlotIds -> Links]
        /\ firstFree' \in Links /\ firstFire' \in Links
    BY <1>1, <1>4, SetIs
  <2>2. ids' \in [Timers -> Links]
    BY <1>1 DEF ListInv, ListTypeOK, Links
  <2> QED BY <1>1, <1>2, <2>1, <2>2 DEF ListInv, ListTypeOK
<1>8. OwnIds(active, timer, ids)'
  <2> SUFFICES ASSUME NEW u \in Timers, ids'[u] # NoSlot
               PROVE  active'[ids'[u]] /\ timer'[ids'[u]] = u
    BY DEF OwnIds
  <2>1. u \in Loops /\ ids'[u] = ids[u] /\ ids[u] \in SlotIds
    BY <1>1 DEF ListInv, ListTypeOK, Links
  <2>2. active[ids[u]] /\ timer[ids[u]] = u
    BY <2>1 DEF ListInv, OwnIds
  <2>3. loop[ids[u]] # 0
    BY <2>1, <2>2 DEF ListInv, EventsOK
  <2> QED BY <1>1, <1>2, <1>3, <2>1, <2>2, <2>3
<1>9. EventsOK(active, timer, loop, expired)'
  <2> SUFFICES ASSUME NEW x \in SlotIds, active'[x]
               PROVE  timer[x] \in Timers /\ (loop[x] # 0 <=> timer[x] \in Loops) /\ expired[x] >= now
    BY <1>1 DEF EventsOK
  <2> QED BY <1>1, <1>2, <1>3 DEF ListInv, EventsOK
<1> QED BY <1>1, <1>6, <1>7, <1>8, <1>9 DEF ListInv

LEMMA InitList ==
  ASSUME EventListAssumption, ListInit
  PROVE  ListInv
<1>1. MaxEvent \in Nat /\ MaxEvent # 0 /\ MaxClock \in Nat /\ Fraction \in Nat \ {0}
      /\ 0 \in 0..(Fraction - 1) /\ 0 \in SlotIds
  BY DEF EventListAssumption, SlotIds
<1>2. next \in [SlotIds -> Links]
  <2>1. \A s \in SlotIds : s \in Nat /\ (s + 1 < MaxEvent => s + 1 \in SlotIds)
    BY <1>1 DEF SlotIds
  <2> QED BY <2>1 DEF ListInit, Links
<1>3. ListTypeOK
  BY <1>1, <1>2 DEF ListInit, ListTypeOK, Links
<1>4. Active = {} /\ SlotIds \ Active = SlotIds
  BY DEF ListInit, Active
<1>5. Lists \in LinkState
  BY <1>3 DEF Lists, LinkState, ListTypeOK
<1>6. FireOK(Lists, {}, expired, 0, [i \in 1..0 |-> 0])
  <2>1. \A i \in 1..0 : FALSE
    OBVIOUS
  <2>2. \A i \in 1..(0 - 1) : FALSE
    OBVIOUS
  <2> QED BY <2>1, <2>2 DEF FireOK, Chain, Lists, ListInit
<1>7. FreeOK(Lists, SlotIds, MaxEvent, [i \in 1..MaxEvent |-> i - 1])
  <2> DEFINE p == [i \in 1..MaxEvent |-> i - 1]
  <2>1. \A i \in 1..MaxEvent : /\ i - 1 \in SlotIds /\ p[i] = i - 1
                               /\ next[i - 1] = IF i = MaxEvent THEN NoSlot ELSE i
                               /\ i # MaxEvent => i + 1 \in 1..MaxEvent /\ p[i + 1] = i
    BY <1>1 DEF SlotIds, ListInit
  <2>2. \A s \in SlotIds : s + 1 \in 1..MaxEvent /\ p[s + 1] = s
    BY <1>1 DEF SlotIds
  <2>3. p \in [1..MaxEvent -> SlotIds]
    BY <2>1
  <2>4. firstFree = p[1] /\ 1 \in 1..MaxEvent
    BY <1>1 DEF ListInit
  <2> HIDE DEF p
  <2>5. \A i, j \in 1..MaxEvent : p[i] = p[j] => i = j
    BY <2>1
  <2>6. SlotIds = {p[i] : i \in 1..MaxEvent}
    BY <2>1, <2>2
  <2>7. \A i \in 1..MaxEvent : next[p[i]] = IF i = MaxEvent THEN NoSlot ELSE p[i + 1]
    BY <2>1
  <2>8. FreeOK(Lists, SlotIds, MaxEvent, p)
    BY <1>1, <2>3, <2>4, <2>5, <2>6, <2>7 DEF FreeOK, Chain, Lists
  <2> QED BY <2>8 DEF p
<1>8. ListsOK(Lists, Active, SlotIds \ Active, expired)
  BY <1>4, <1>5, <1>6, <1>7 DEF ListsOK
<1>9. OwnIds(active, timer, ids) /\ EventsOK(active, timer, loop, expired)
  BY DEF OwnIds, EventsOK, ListInit
<1> QED BY <1>3, <1>8, <1>9 DEF ListInv, ListInit

LEMMA ListStep ==
  ASSUME EventListAssumption, ListInv, [ListNext]_listVars
  PROVE  ListInv'
<1>1. ASSUME NEW t \in Timers \ Loops, NEW d \in Delays, Arm(t, d, 0) PROVE ListInv'
  BY <1>1, ArmOK DEF EventListAssumption
<1>2. ASSUME NEW t \in Loops, NEW p \in Periods, Arm(t, 0, p) PROVE ListInv'
  <2>1. t \in Timers /\ p \in Nat /\ p # 0
    BY DEF EventListAssumption
  <2> QED BY <1>2, <2>1, ArmOK
<1>3. CASE UNCHANGED listVars
  BY <1>3 DEF listVars, slotVars, linkVars, ListInv, ListTypeOK, Lists, Active, OwnIds, EventsOK
<1> QED BY <1>1, <1>2, <1>3, DisarmOK, UpdateOK, FireOnceOK, FireLoopOK, ReturnOK, EndOK, ResetOK DEF ListNext

-----------------------------------------------------------------------------
\* No event slot is lost, handed out twice, linked out of order or taken from the
\* device that holds it, however many slots, timers and delays there are, whatever
\* callbacks register and cancel, and over resets (event.cpp, register_event to reset).
THEOREM NoSlotIsLost ==
  ASSUME EventListAssumption
  PROVE  ListSpec => []SlotsAreWhole
<1>1. ListInit => ListInv
  BY InitList
<1>2. ListInv /\ [ListNext]_listVars => ListInv'
  BY ListStep
<1>3. ListInv => SlotsAreWhole
  <2>1. ListInv => IdsAreOwn
    BY DEF ListInv, OwnIds, IdsAreOwn
  <2> QED BY <2>1, WholeIs DEF ListInv, SlotsAreWhole
<1> QED BY <1>1, <1>2, <1>3, PTL DEF ListSpec

-----------------------------------------------------------------------------
(***************************************************************************)
(* The line of events.  What EventQueue sees of a slot is a function of    *)
(* the slot, and its line is that function along the fire list.            *)
(***************************************************************************)
Recs == [s \in SlotIds |-> [timer |-> timer[s], due |-> expired[s] * Fraction + slotAccum[s],
                            period |-> loop[s]]]
Seen(R, q, m) == [n \in 1..m |-> R[q[n]]]

LEMMA SeenIs ==
  ASSUME NEW R, NEW q, NEW m \in Nat
  PROVE  /\ Len(Seen(R, q, m)) = m /\ DOMAIN Seen(R, q, m) = 1..m
         /\ \A i \in 1..m : Seen(R, q, m)[i] = R[q[i]]
         /\ Seen(R, q, m) = <<>> <=> m = 0
<1> DEFINE f == Seen(R, q, m)
           S == {R[q[i]] : i \in 1..m}
<1>1. f \in [1..m -> S] /\ DOMAIN f = 1..m /\ \A i \in 1..m : f[i] = R[q[i]]
  BY DEF Seen
<1> HIDE DEF f, S
<1>2. f \in Seq(S)
  BY <1>1, SeqDef
<1>3. Len(f) \in Nat /\ DOMAIN f = 1..Len(f)
  BY <1>2, LenProperties
<1>4. Len(f) = m
  BY <1>1, <1>3
<1>5. f = <<>> <=> m = 0
  <2>1. f # <<>> => Len(f) # 0
    BY <1>2, <1>3, EmptySeq
  <2>2. f = <<>> => Len(f) = 0
    BY EmptySeq
  <2> QED BY <1>4, <2>1, <2>2
<1> QED BY <1>1, <1>4, <1>5 DEF f

LEMMA SeenDrop ==
  ASSUME NEW R, NEW q, NEW m \in Nat, NEW j \in 1..m
  PROVE  Seen(R, Drop(q, m, j), m - 1) = InTime!Without(Seen(R, q, m), j)
<1>1. Len(Seen(R, q, m)) = m
  BY SeenIs
<1>2. \A i \in 1..(m - 1) : /\ i < j => i \in 1..m
                            /\ ~(i < j) => i + 1 \in 1..m
  OBVIOUS
<1>3. ASSUME NEW i \in 1..(m - 1)
      PROVE  R[Drop(q, m, j)[i]] = IF i < j THEN Seen(R, q, m)[i] ELSE Seen(R, q, m)[i + 1]
  BY <1>2, SeenIs DEF Drop
<1> QED BY <1>1, <1>3 DEF Seen, InTime!Without

LEMMA SeenPut ==
  ASSUME NEW R, NEW R2, NEW q, NEW m \in Nat, NEW n \in 0..m, NEW s,
         \A i \in 1..m : R2[q[i]] = R[q[i]]
  PROVE  Seen(R2, Put(q, m, n, s), m + 1) = InTime!Inserted(Seen(R, q, m), n, R2[s])
<1>1. Len(Seen(R, q, m)) = m
  BY SeenIs
<1>2. ASSUME NEW i \in 1..(m + 1)
      PROVE  R2[Put(q, m, n, s)[i]] = IF i <= n THEN Seen(R, q, m)[i]
                                      ELSE IF i = n + 1 THEN R2[s] ELSE Seen(R, q, m)[i - 1]
  <2>1. CASE i <= n
    <3>1. i \in 1..m
      BY <2>1
    <3> QED BY <2>1, <3>1, SeenIs DEF Put
  <2>2. CASE i = n + 1
    BY <2>2 DEF Put
  <2>3. CASE ~(i <= n) /\ i # n + 1
    <3>1. i - 1 \in 1..m
      BY <2>3
    <3> QED BY <2>3, <3>1, SeenIs DEF Put
  <2> QED BY <2>1, <2>2, <2>3
<1> QED BY <1>1, <1>2 DEF Seen, InTime!Inserted

\* The whole clocks of an event's time are those of its slot.
LEMMA ClockOf ==
  ASSUME NEW d \in Nat \ {0}, NEW a \in Nat, NEW r \in 0..(d - 1)
  PROVE  (a * d + r) \div d = a
<1> DEFINE x == a * d + r
           k == x \div d
<1>1. x \in Nat /\ k \in Nat /\ k * d <= x /\ x < (k + 1) * d
  <2>1. x \in Nat
    OBVIOUS
  <2>2. \A y \in Nat : /\ y \div d \in Nat
                       /\ (y \div d) * d <= y /\ y < ((y \div d) + 1) * d
    OBVIOUS
  <2> HIDE DEF x
  <2> QED BY <2>1, <2>2
<1> HIDE DEF k
<1>2. ~(k < a)
  <2>1. k < a => (k + 1) * d <= a * d
    BY <1>1
  <2> QED BY <1>1, <2>1
<1>3. ~(a < k)
  <2>1. a < k => (a + 1) * d <= k * d
    BY <1>1
  <2>2. (a + 1) * d = a * d + d
    OBVIOUS
  <2> QED BY <1>1, <2>1, <2>2
<1>4. k = a
  BY <1>1, <1>2, <1>3
<1> QED BY <1>4 DEF k

LEMMA ClockIs ==
  EventListAssumption /\ ListTypeOK =>
    \A s \in SlotIds :
      /\ InTime!Clock(Recs[s]) = expired[s] /\ Recs[s].period = loop[s] /\ Recs[s].timer = timer[s]
      /\ Recs[s].due = expired[s] * Fraction + slotAccum[s]
<1> SUFFICES ASSUME EventListAssumption, ListTypeOK, NEW s \in SlotIds
             PROVE  /\ InTime!Clock(Recs[s]) = expired[s] /\ Recs[s].period = loop[s]
                    /\ Recs[s].timer = timer[s] /\ Recs[s].due = expired[s] * Fraction + slotAccum[s]
  OBVIOUS
<1>1. Fraction \in Nat \ {0} /\ expired[s] \in Nat /\ slotAccum[s] \in 0..(Fraction - 1)
  BY DEF EventListAssumption, ListTypeOK
<1>2. (expired[s] * Fraction + slotAccum[s]) \div Fraction = expired[s]
  BY <1>1, ClockOf
<1> QED BY <1>2 DEF Recs, InTime!Clock

LEMMA ClockThen ==
  EventListAssumption /\ ListTypeOK' =>
    \A s \in SlotIds :
      /\ InTime!Clock(Recs'[s]) = expired'[s] /\ Recs'[s].period = loop'[s] /\ Recs'[s].timer = timer'[s]
      /\ Recs'[s].due = expired'[s] * Fraction + slotAccum'[s]
<1>1. (EventListAssumption /\ ListTypeOK =>
         \A s \in SlotIds :
           /\ InTime!Clock(Recs[s]) = expired[s] /\ Recs[s].period = loop[s] /\ Recs[s].timer = timer[s]
           /\ Recs[s].due = expired[s] * Fraction + slotAccum[s])'
  BY ClockIs, PTL
<1> QED BY <1>1

\* EventQueue's line is what is seen along the fire list.
LEMMA LineIs ==
  EventListAssumption =>
    \A m, q : FireOK(Lists, Active, expired, m, q) => InLine = Seen(Recs, q, m)
<1> SUFFICES ASSUME EventListAssumption, NEW m, NEW q, FireOK(Lists, Active, expired, m, q)
             PROVE  InLine = Seen(Recs, q, m)
  OBVIOUS
<1>1. /\ Chain(next, firstFire, m, q) /\ Active = {q[i] : i \in 1..m}
      /\ m \in Nat /\ q \in [1..m -> SlotIds]
  BY DEF FireOK, Lists, Chain
<1>2. Pending = m
  BY <1>1, Counts DEF Pending, Active
<1>3. \A n \in Nat : FireAt[n] = IF n < m THEN q[n + 1] ELSE NoSlot
  BY <1>1, WalkIs DEF FireAt
<1>4. ASSUME NEW n \in 1..m PROVE FireAt[n - 1] = q[n] /\ q[n] \in SlotIds
  BY <1>1, <1>3
<1> QED BY <1>2, <1>4 DEF InLine, Seen, Recs

LEMMA LineThen ==
  EventListAssumption =>
    \A m, q : FireOK(Lists', Active', expired', m, q) => InLine' = Seen(Recs', q, m)
<1>1. (EventListAssumption =>
         \A m, q : FireOK(Lists, Active, expired, m, q) => InLine = Seen(Recs, q, m))'
  BY LineIs, PTL
<1> QED BY <1>1

\* Along the fire list the clocks do not fall.
LEMMA Sorted ==
  ASSUME NEW l, NEW A, NEW exp \in [SlotIds -> Nat], NEW m, NEW q, FireOK(l, A, exp, m, q),
         NEW n \in 1..m
  PROVE  \A i \in n..m : exp[q[n]] <= exp[q[i]]
<1>1. /\ m \in Nat /\ \A i \in 1..m : exp[q[i]] \in Nat
      /\ \A i \in 1..(m - 1) : exp[q[i]] <= exp[q[i + 1]]
  BY DEF FireOK, Chain
<1> DEFINE S == {k \in Nat : n + k <= m => exp[q[n]] <= exp[q[n + k]]}
<1>2. 0 \in S
  BY <1>1
<1>3. ASSUME NEW k \in Nat, k \in S PROVE k + 1 \in S
  <2> SUFFICES ASSUME n + (k + 1) <= m PROVE exp[q[n]] <= exp[q[n + (k + 1)]]
    OBVIOUS
  <2>1. n + k \in 1..(m - 1) /\ n + k <= m /\ (n + k) + 1 = n + (k + 1) /\ n + k \in 1..m
        /\ n + (k + 1) \in 1..m
    BY <1>1
  <2>2. exp[q[n]] <= exp[q[n + k]] /\ exp[q[n + k]] <= exp[q[(n + k) + 1]]
    BY <1>1, <1>3, <2>1
  <2>3. exp[q[n]] \in Nat /\ exp[q[n + k]] \in Nat /\ exp[q[n + (k + 1)]] \in Nat
    BY <1>1, <2>1
  <2> QED BY <2>1, <2>2, <2>3
<1> HIDE DEF S
<1>4. Nat \subseteq S
  BY <1>2, <1>3, SetInduction
<1>5. ASSUME NEW i \in n..m PROVE exp[q[n]] <= exp[q[i]]
  <2>1. i - n \in Nat /\ n + (i - n) = i /\ i <= m
    BY <1>1
  <2> QED BY <1>4, <2>1 DEF S
<1> QED BY <1>5

\* Inserting a slot puts its event in line, leaving the others as they are.
LEMMA PutIs ==
  ASSUME EventListAssumption, NEW l, NEW A, NEW F, NEW exp, ListsOK(l, A, F, exp),
         exp \in [SlotIds -> Nat], NEW s \in SlotIds, s \notin A, s \notin F,
         NEW m, NEW q, FireOK(l, A, exp, m, q), NEW R, NEW R2,
         \A x \in A : R2[x] = R[x] /\ InTime!Clock(R[x]) = exp[x], InTime!Clock(R2[s]) = exp[s]
  PROVE  \E p : /\ FireOK(Insert(l, exp, s), A \union {s}, exp, m + 1, p)
                /\ InTime!PutInLine(Seen(R, q, m), R2[s], Seen(R2, p, m + 1))
                /\ \E i \in 1..(m + 1) : p[i] = s
<1>1. PICK n \in 0..m :
        /\ FireOK(Insert(l, exp, s), A \union {s}, exp, m + 1, Put(q, m, n, s))
        /\ n < m => exp[q[n + 1]] > exp[s]
        /\ \A i \in 1..n : ~(exp[q[i]] > exp[s])
  BY InsertChain
<1>2. /\ m \in Nat /\ exp[s] \in Nat
      /\ \A i \in 1..m : q[i] \in A /\ exp[q[i]] \in Nat
  BY DEF FireOK, Chain
<1>3. Seen(R2, Put(q, m, n, s), m + 1) = InTime!Inserted(Seen(R, q, m), n, R2[s])
  <2>1. \A i \in 1..m : R2[q[i]] = R[q[i]]
    BY <1>2
  <2> QED BY <1>2, <2>1, SeenPut
<1>4. Len(Seen(R, q, m)) = m /\ \A i \in 1..m : InTime!Clock(Seen(R, q, m)[i]) = exp[q[i]]
  BY <1>2, SeenIs
<1>5. \A i \in 1..n : InTime!Clock(Seen(R, q, m)[i]) <= InTime!Clock(R2[s])
  BY <1>1, <1>2, <1>4
<1>6. ASSUME NEW i \in (n + 1)..m PROVE InTime!Clock(Seen(R, q, m)[i]) > InTime!Clock(R2[s])
  <2>1. n < m /\ n + 1 \in 1..m /\ i \in 1..m
    BY <1>2
  <2>2. exp[q[n + 1]] <= exp[q[i]]
    BY <2>1, Sorted
  <2> QED BY <1>1, <1>2, <1>4, <2>1, <2>2
<1>7. n \in 0..Len(Seen(R, q, m))
  BY <1>4
<1>8. InTime!PutInLine(Seen(R, q, m), R2[s], Seen(R2, Put(q, m, n, s), m + 1))
  BY <1>3, <1>4, <1>5, <1>6, <1>7 DEF InTime!PutInLine
<1>9. n + 1 \in 1..(m + 1) /\ Put(q, m, n, s)[n + 1] = s
  BY <1>2 DEF Put
<1> QED BY <1>1, <1>8, <1>9

\* A cancel takes one event out of the line.
LEMMA DropLine ==
  ASSUME EventListAssumption, ListInv, NEW s \in Active, SetLists(Unlink(Lists, s)),
         active' = [active EXCEPT ![s] = FALSE], UNCHANGED <<timer, expired, loop, slotAccum>>,
         NEW m, NEW q, FireOK(Lists, Active, expired, m, q)
  PROVE  \E j \in 1..m : q[j] = s /\ InLine' = InTime!Without(InLine, j)
<1>1. /\ ListsOK(Lists, Active, SlotIds \ Active, expired) /\ expired \in [SlotIds -> Nat]
      /\ active \in [SlotIds -> BOOLEAN] /\ m \in Nat
  BY DEF ListInv, ListTypeOK, FireOK, Chain
<1>2. PICK j \in 1..m : q[j] = s /\ FireOK(Unlink(Lists, s), Active \ {s}, expired, m - 1, Drop(q, m, j))
  BY <1>1, DropIs
<1>3. Unlink(Lists, s) \in LinkState
  <2>1. ListsOK(Unlink(Lists, s), Active \ {s}, (SlotIds \ Active) \union {s}, expired)
    BY <1>1, UnlinkIs
  <2> QED BY <2>1 DEF ListsOK
<1>4. Lists' = Unlink(Lists, s) /\ Active' = Active \ {s} /\ Recs' = Recs
  BY <1>1, <1>3, SetIs DEF Active, Recs
<1>5. InLine' = Seen(Recs, Drop(q, m, j), m - 1)
  BY <1>2, <1>4, LineThen
<1>6. InLine = Seen(Recs, q, m)
  BY LineIs
<1> QED BY <1>1, <1>2, <1>5, <1>6, SeenDrop

\* The line is the same while the slots and links are.
LEMMA SameLine ==
  ASSUME EventListAssumption, ListInv, Lists' = Lists,
         UNCHANGED <<active, timer, expired, loop, slotAccum>>
  PROVE  InLine' = InLine
<1>1. PICK m, q : FireOK(Lists, Active, expired, m, q)
  BY DEF ListInv, ListsOK
<1>2. Lists' = Lists /\ Active' = Active /\ Recs' = Recs /\ expired' = expired
  BY DEF Active, Recs
<1>3. FireOK(Lists', Active', expired', m, q)
  BY <1>1, <1>2
<1> QED BY <1>1, <1>2, <1>3, LineIs, LineThen

LEMMA Times ==
  ASSUME NEW a \in Nat, NEW b \in Nat, NEW d \in Nat, a <= b
  PROVE  a * d <= b * d
  OBVIOUS

LEMMA WholeAndRest ==
  ASSUME NEW a \in Nat, NEW x \in Nat, NEW d \in Nat \ {0}
  PROVE  /\ (a + x \div d) * d + (x % d) = a * d + x
         /\ x \div d \in Nat /\ x % d \in 0..(d - 1)
<1>1. x \div d \in Nat /\ x % d \in 0..(d - 1)
  OBVIOUS
<1>2. x = d * (x \div d) + (x % d)
  OBVIOUS
<1>3. \A k \in Nat : (a + k) * d = a * d + k * d /\ d * k = k * d /\ k * d \in Nat
  OBVIOUS
<1>4. (a + x \div d) * d = a * d + (x \div d) * d /\ x = (x \div d) * d + (x % d)
  BY <1>1, <1>2, <1>3
<1>5. a * d \in Nat /\ (x \div d) * d \in Nat /\ x % d \in Nat
  BY <1>1, <1>3
<1> QED BY <1>1, <1>4, <1>5

\* Registering an event puts it in line, unless no slot is free.
LEMMA JoinIs ==
  ASSUME EventListAssumption, ListTypeOK, ListTypeOK', NEW l, NEW act \in [SlotIds -> BOOLEAN],
         ListsOK(l, {s \in SlotIds : act[s]}, {s \in SlotIds : ~act[s]}, expired),
         NEW m, NEW q, FireOK(l, {s \in SlotIds : act[s]}, expired, m, q),
         NEW t \in Timers, NEW delay \in Nat, NEW period \in Nat, l.free # NoSlot,
         Register(t, l, act, delay, period)
  PROVE  InTime!Join(Seen(Recs, q, m), InLine')
<1> DEFINE A == {s \in SlotIds : act[s]}
           s == l.free
           clk == now + (IF period = 0 THEN delay ELSE period \div Fraction)
           exp == [expired EXCEPT ![s] = clk]
           l2 == [l EXCEPT !.free = l.next[s]]
<1>1. /\ active' = [act EXCEPT ![s] = TRUE] /\ timer' = [timer EXCEPT ![s] = t]
      /\ expired' = exp /\ loop' = [loop EXCEPT ![s] = period]
      /\ slotAccum' = [slotAccum EXCEPT ![s] = period % Fraction]
      /\ SetLists(Insert(l2, exp, s))
  BY DEF Register
<1>2. /\ s \in SlotIds /\ s \notin A /\ A \subseteq SlotIds
      /\ ListsOK(l2, A, (SlotIds \ A) \ {s}, expired)
  <2>1. SlotIds \ A = {x \in SlotIds : ~act[x]}
    OBVIOUS
  <2>2. s \in SlotIds \ A /\ ListsOK(l2, A, (SlotIds \ A) \ {s}, expired)
    BY <2>1, TakeIs
  <2> QED BY <2>2
<1>3. /\ now \in Nat /\ Fraction \in Nat \ {0} /\ clk \in Nat /\ clk >= now
      /\ exp \in [SlotIds -> Nat] /\ exp[s] = clk
  <2>1. now \in Nat /\ Fraction \in Nat \ {0} /\ expired \in [SlotIds -> Nat]
    BY DEF EventListAssumption, ListTypeOK
  <2>2. period \div Fraction \in Nat
    BY <2>1, WholeAndRest
  <2>3. clk \in Nat /\ clk >= now
    BY <2>1, <2>2
  <2> HIDE DEF clk
  <2> QED BY <1>2, <2>1, <2>3
<1> HIDE DEF clk
<1>4. \A x \in A : exp[x] = expired[x]
  BY <1>2 DEF ListTypeOK
<1>5. FireOK(l2, A, exp, m, q)
  <2>1. l2.fire = l.fire /\ l2.next = l.next /\ l2.prev = l.prev
    BY DEF ListsOK, LinkState
  <2> HIDE DEF l2, exp, A, s
  <2>2. FireOK(l, A, expired, m, q)
    BY DEF A
  <2> QED BY <2>1, <2>2, <1>4, FireKept
<1>6. Active' = A \union {s}
  BY <1>1, <1>2 DEF Active
<1> HIDE DEF l2
<1>7. ListsOK(l2, A, (SlotIds \ A) \ {s}, exp)
  <2> HIDE DEF A, exp, s
  <2> QED BY <1>2, <1>4, ClocksKept
<1>8. /\ \A x \in SlotIds : InTime!Clock(Recs[x]) = expired[x] /\ InTime!Clock(Recs'[x]) = expired'[x]
      /\ Recs'[s].due = exp[s] * Fraction + slotAccum'[s]
      /\ slotAccum'[s] \in Nat
  BY <1>1, <1>2, ClockIs, ClockThen DEF ListTypeOK
<1>9. \A x \in A : Recs'[x] = Recs[x] /\ InTime!Clock(Recs[x]) = exp[x]
  <2>1. \A x \in A : /\ timer'[x] = timer[x] /\ expired'[x] = expired[x] /\ loop'[x] = loop[x]
                     /\ slotAccum'[x] = slotAccum[x] /\ x \in SlotIds
    BY <1>1, <1>2 DEF ListTypeOK
  <2> QED BY <2>1, <1>4, <1>8 DEF Recs
<1>10. InTime!Clock(Recs'[s]) = exp[s]
  BY <1>1, <1>2, <1>8
<1> HIDE DEF A, exp, s
<1> DEFINE F == (SlotIds \ A) \ {s}
           R == Recs
           R2 == Recs'
<1>f. /\ ListsOK(l2, A, F, exp) /\ s \notin F /\ InTime!Clock(R2[s]) = exp[s]
      /\ \A x \in A : R2[x] = R[x] /\ InTime!Clock(R[x]) = exp[x]
  BY <1>7, <1>9, <1>10
<1> HIDE DEF F, R, R2
<1>11. PICK p : /\ FireOK(Insert(l2, exp, s), A \union {s}, exp, m + 1, p)
                /\ InTime!PutInLine(Seen(R, q, m), R2[s], Seen(R2, p, m + 1))
                /\ \E i \in 1..(m + 1) : p[i] = s
  <2>1. s \in SlotIds /\ s \notin A /\ exp \in [SlotIds -> Nat]
    BY <1>2, <1>3
  <2> QED BY <1>5, <1>f, <2>1, PutIs
<1> USE DEF R, R2
<1>12. Insert(l2, exp, s) \in LinkState
  <2>1. ListsOK(Insert(l2, exp, s), A \union {s}, (SlotIds \ A) \ {s}, exp)
    BY <1>2, <1>3, <1>7, InsertIs
  <2> QED BY <2>1 DEF ListsOK
<1>13. Lists' = Insert(l2, exp, s)
  BY <1>1, <1>12, SetIs
<1>14. FireOK(Lists', Active', expired', m + 1, p)
  BY <1>1, <1>6, <1>11, <1>13
<1>15. InLine' = Seen(Recs', p, m + 1)
  BY <1>14, LineThen
<1>16. m \in Nat /\ m + 1 \in Nat /\ m + 1 <= MaxEvent
  <2>1. Chain(Lists'.next, Lists'.fire, m + 1, p)
    BY <1>14 DEF FireOK
  <2>2. m \in Nat
    BY <1>5 DEF FireOK, Chain
  <2> QED BY <2>1, <2>2, Fits
<1>17. PICK i \in 1..(m + 1) : p[i] = s
  BY <1>11
<1>18. InLine'[i] = Recs'[s] /\ i \in DOMAIN InLine' /\ Len(InLine') = m + 1
  BY <1>15, <1>16, <1>17, SeenIs
<1>19. InLine'[i].due >= now * Fraction
  <2>1. now * Fraction <= clk * Fraction
    BY <1>3, Times
  <2>2. \A x, y, z \in Nat : x <= y => x <= y + z
    OBVIOUS
  <2>3. \A x, y \in Nat : x * y \in Nat
    OBVIOUS
  <2>4. clk * Fraction \in Nat /\ now * Fraction \in Nat
    BY <1>3, <2>3
  <2>5. Recs'[s].due = clk * Fraction + slotAccum'[s]
    BY <1>3, <1>8
  <2>6. now * Fraction <= clk * Fraction + slotAccum'[s]
    BY <1>8, <2>1, <2>2, <2>4
  <2>7. clk * Fraction + slotAccum'[s] >= now * Fraction
    BY <1>8, <2>4, <2>6
  <2> QED BY <1>18, <2>5, <2>7
<1>20. Len(Seen(Recs, q, m)) = m
  BY <1>16, SeenIs
<1>21. InTime!PutInLine(Seen(Recs, q, m), InLine'[i], InLine')
  BY <1>11, <1>15, <1>18
<1> QED BY <1>16, <1>18, <1>19, <1>20, <1>21 DEF InTime!Join

LEMMA ArmMaps ==
  ASSUME EventListAssumption, ListInv, ListInv', NEW t \in Timers, NEW delay \in Nat, NEW period \in Nat,
         Arm(t, delay, period)
  PROVE  InTime!EqRegister \/ InTime!EqReplace \/ UNCHANGED InTime!eqVars
<1>1. /\ ListTypeOK /\ ListTypeOK' /\ UNCHANGED <<now, target, calling>>
      /\ \A u \in Timers : ids[u] # NoSlot => active[ids[u]] /\ ids[u] \in SlotIds
      /\ active \in [SlotIds -> BOOLEAN] /\ expired \in [SlotIds -> Nat]
      /\ ListsOK(Lists, Active, SlotIds \ Active, expired) /\ Lists.free = firstFree
  BY DEF ListInv, OwnIds, ListTypeOK, Links, Arm, Lists
<1>2. PICK m, q : FireOK(Lists, Active, expired, m, q)
  BY <1>1 DEF ListsOK
<1>3. InLine = Seen(Recs, q, m) /\ m \in Nat
  BY <1>2, LineIs DEF FireOK, Chain
<1>4. {s \in SlotIds : ~active[s]} = SlotIds \ Active /\ {s \in SlotIds : active[s]} = Active
  BY DEF Active
<1>5. CASE ids[t] = NoSlot
  <2>1. Register(t, Lists, active, delay, period)
    BY <1>5 DEF Arm, Cancelled
  <2>2. CASE Lists.free = NoSlot
    <3>1. SetLists(Lists) /\ UNCHANGED <<active, timer, expired, loop, slotAccum>>
      BY <2>1, <2>2 DEF Register
    <3>2. Lists' = Lists
      BY <3>1, <1>1, SetIs DEF ListsOK
    <3>3. InLine' = InLine
      BY <3>1, <3>2, SameLine
    <3> QED BY <3>3, <1>1 DEF InTime!eqVars
  <2>3. CASE Lists.free # NoSlot
    <3>1. InTime!Join(Seen(Recs, q, m), InLine')
      BY <1>1, <1>2, <1>4, <2>1, <2>3, JoinIs
    <3> QED BY <3>1, <1>1, <1>3 DEF InTime!EqRegister
  <2> QED BY <2>2, <2>3
<1>6. CASE ids[t] # NoSlot
  <2> DEFINE s == ids[t]
             act == [active EXCEPT ![s] = FALSE]
             l == Unlink(Lists, s)
  <2>1. s \in SlotIds /\ s \in Active /\ act \in [SlotIds -> BOOLEAN] /\ s # NoSlot /\ active[s]
    BY <1>1, <1>6 DEF Active
  <2>2. Register(t, l, act, delay, period)
    BY <1>6, <2>1 DEF Arm, Cancelled
  <2>3. ListsOK(l, Active \ {s}, (SlotIds \ Active) \union {s}, expired) /\ l.free = s
    <3> HIDE DEF s
    <3> QED BY <2>1, <1>1, UnlinkIs
  <2>4. /\ {x \in SlotIds : act[x]} = Active \ {s}
        /\ {x \in SlotIds : ~act[x]} = (SlotIds \ Active) \union {s}
    BY <1>1, <2>1 DEF Active
  <2>5. PICK j \in 1..m : FireOK(l, Active \ {s}, expired, m - 1, Drop(q, m, j))
    BY <1>1, <1>2, <2>1, DropIs
  <2> HIDE DEF s, act, l
  <2>6. InTime!Join(Seen(Recs, Drop(q, m, j), m - 1), InLine')
    BY <1>1, <2>1, <2>2, <2>3, <2>4, <2>5, JoinIs
  <2>7. InTime!Join(InTime!Without(InLine, j), InLine') /\ j \in DOMAIN InLine
    BY <2>6, <1>3, SeenDrop, SeenIs
  <2> QED BY <2>7, <1>1 DEF InTime!EqReplace
<1> QED BY <1>5, <1>6

LEMMA DisarmMaps ==
  ASSUME EventListAssumption, ListInv, NEW t \in Timers, Disarm(t)
  PROVE  InTime!EqCancel
<1>1. PICK m, q : FireOK(Lists, Active, expired, m, q)
  BY DEF ListInv, ListsOK
<1>2. ids[t] \in Active /\ active[ids[t]]
  BY DEF ListInv, OwnIds, ListTypeOK, Links, Disarm, Active
<1> DEFINE s == ids[t]
<1>3. /\ SetLists(Unlink(Lists, s)) /\ active' = [active EXCEPT ![s] = FALSE]
      /\ UNCHANGED <<timer, expired, loop, slotAccum, now, calling>>
  BY <1>2 DEF Disarm
<1> HIDE DEF s
<1>4. PICK j \in 1..m : InLine' = InTime!Without(InLine, j)
  BY <1>1, <1>2, <1>3, DropLine DEF s
<1>5. j \in DOMAIN InLine
  <2>1. m \in Nat /\ InLine = Seen(Recs, q, m)
    BY <1>1, LineIs DEF FireOK, Chain
  <2> QED BY <2>1, SeenIs
<1> QED BY <1>3, <1>4, <1>5 DEF InTime!EqCancel

-----------------------------------------------------------------------------
(* Each step is one of EventQueue's.                                       *)

\* A one-shot fires at its clock and leaves the line.
LEMMA FireOnceMaps ==
  ASSUME EventListAssumption, ListInv, FireOnce
  PROVE  InTime!EqFire
<1> DEFINE s == firstFire
<1>1. /\ s # NoSlot /\ loop[s] = 0 /\ calling = Nobody
      /\ now' = expired[s] /\ calling' = timer[s]
      /\ SetLists(Free(Popped, s)) /\ active' = [active EXCEPT ![s] = FALSE]
      /\ UNCHANGED <<timer, expired, loop, slotAccum>>
  BY DEF FireOnce, InLoop, Due
<1>2. s \in Active /\ s \in SlotIds /\ active[s] /\ Popped = Detached(Lists, s)
  BY <1>1, FirstIs DEF ListInv, Active
<1>3. PICK m, q : FireOK(Lists, Active, expired, m, q)
  BY DEF ListInv, ListsOK
<1>4. m \in Nat /\ 1 \in 1..m /\ q[1] = s /\ \A i, j \in 1..m : q[i] = q[j] => i = j
  BY <1>1, <1>3 DEF FireOK, Chain, Lists
<1> HIDE DEF s
<1>5. SetLists(Unlink(Lists, s))
  BY <1>1, <1>2 DEF Unlink
<1>6. PICK j \in 1..m : q[j] = s /\ InLine' = InTime!Without(InLine, j)
  <2>1. s \in Active /\ active' = [active EXCEPT ![s] = FALSE]
    BY <1>1, <1>2
  <2>2. UNCHANGED <<timer, expired, loop, slotAccum>>
    BY <1>1
  <2> QED BY <1>3, <1>5, <2>1, <2>2, DropLine
<1>7. InLine' = InTime!Without(InLine, 1)
  BY <1>4, <1>6
<1>8. InLine # <<>> /\ InLine[1] = Recs[s]
  BY <1>3, <1>4, LineIs, SeenIs
<1>9. InTime!Clock(Recs[s]) = expired[s] /\ Recs[s].period = 0 /\ Recs[s].timer = timer[s]
  BY <1>1, <1>2, ClockIs DEF ListInv
<1>10. now' >= now
  BY <1>1, <1>2 DEF ListInv, EventsOK
<1> QED BY <1>1, <1>7, <1>8, <1>9, <1>10 DEF InTime!EqFire

\* A loop fires at its clock and joins the line again, exactly one period later.
LEMMA FireLoopMaps ==
  ASSUME EventListAssumption, ListInv, ListInv', FireLoop
  PROVE  InTime!EqFire
<1> DEFINE s == firstFire
           sum == slotAccum[s] + loop[s]
           exp == [expired EXCEPT ![s] = expired[s] + sum \div Fraction]
           A == Active \ {s}
<1>1. /\ s # NoSlot /\ loop[s] # 0 /\ calling = Nobody
      /\ now' = expired[s] /\ calling' = timer[s]
      /\ SetLists(Insert(Popped, exp, s)) /\ expired' = exp
      /\ slotAccum' = [slotAccum EXCEPT ![s] = sum % Fraction]
      /\ active' = active /\ timer' = timer /\ loop' = loop
  BY DEF FireLoop, InLoop, Due
<1>2. /\ s \in Active /\ s \in SlotIds /\ active[s] /\ Popped = Detached(Lists, s)
      /\ ListsOK(Popped, A, SlotIds \ Active, expired)
      /\ ListsOK(Lists, Active, SlotIds \ Active, expired)
  BY <1>1, FirstIs DEF ListInv, Active
<1>3. PICK m, q : FireOK(Lists, Active, expired, m, q)
  BY DEF ListInv, ListsOK
<1>4. m \in Nat /\ 1 \in 1..m /\ q[1] = s /\ \A i, j \in 1..m : q[i] = q[j] => i = j
  BY <1>1, <1>3 DEF FireOK, Chain, Lists
<1>5. /\ expired \in [SlotIds -> Nat] /\ slotAccum \in [SlotIds -> 0..(Fraction - 1)]
      /\ loop[s] \in Nat /\ expired[s] \in Nat /\ slotAccum[s] \in Nat /\ Fraction \in Nat \ {0}
  BY <1>2 DEF ListInv, ListTypeOK, EventListAssumption
<1>6. /\ (expired[s] + sum \div Fraction) * Fraction + (sum % Fraction) = expired[s] * Fraction + sum
      /\ sum \div Fraction \in Nat /\ sum \in Nat
  <2>1. sum \in Nat
    BY <1>5
  <2> HIDE DEF sum
  <2> QED BY <1>5, <2>1, WholeAndRest
<1> HIDE DEF s
<1>7. /\ exp \in [SlotIds -> Nat] /\ exp[s] = expired[s] + sum \div Fraction
      /\ \A x \in SlotIds : x # s => exp[x] = expired[x]
      /\ \A x \in A : exp[x] = expired[x] /\ x \in SlotIds
  <2> HIDE DEF sum
  <2> QED BY <1>2, <1>5, <1>6 DEF Active
<1>8. /\ slotAccum'[s] = sum % Fraction
      /\ \A x \in SlotIds : x # s => slotAccum'[x] = slotAccum[x]
  BY <1>1, <1>2, <1>5
<1> HIDE DEF exp
<1>9. FireOK(Popped, A, exp, m - 1, Drop(q, m, 1))
  <2>1. PICK j \in 1..m : q[j] = s /\ FireOK(Detached(Lists, s), A, expired, m - 1, Drop(q, m, j))
    BY <1>2, <1>3, <1>5, DropIs
  <2>2. j = 1
    BY <2>1, <1>4
  <2>3. FireOK(Popped, A, expired, m - 1, Drop(q, m, 1))
    BY <2>1, <2>2, <1>2
  <2> HIDE DEF A
  <2> QED BY <2>3, <1>7, FireKept
<1>10. ListsOK(Popped, A, SlotIds \ Active, exp)
  <2> HIDE DEF A
  <2> QED BY <1>2, <1>7, ClocksKept
<1>11. /\ \A x \in SlotIds : InTime!Clock(Recs[x]) = expired[x] /\ InTime!Clock(Recs'[x]) = expired'[x]
       /\ Recs[s].due = expired[s] * Fraction + slotAccum[s] /\ Recs[s].period = loop[s]
       /\ Recs[s].timer = timer[s]
  BY <1>2, ClockIs, ClockThen DEF ListInv
<1>12. \A x \in A : Recs'[x] = Recs[x] /\ InTime!Clock(Recs[x]) = exp[x]
  <2>1. \A x \in A : x \in SlotIds /\ x # s
    BY <1>7
  <2>2. \A x \in A : /\ timer'[x] = timer[x] /\ expired'[x] = expired[x] /\ loop'[x] = loop[x]
                     /\ slotAccum'[x] = slotAccum[x]
    BY <1>1, <1>7, <1>8, <2>1
  <2> QED BY <2>1, <2>2, <1>7, <1>11 DEF Recs
<1>13. InTime!Clock(Recs'[s]) = exp[s]
  BY <1>1, <1>2, <1>11
<1>14. s \notin A /\ s \notin SlotIds \ Active /\ A \union {s} = Active
  BY <1>2
<1> HIDE DEF A
<1>15. PICK p : /\ FireOK(Insert(Popped, exp, s), A \union {s}, exp, (m - 1) + 1, p)
                /\ InTime!PutInLine(Seen(Recs, Drop(q, m, 1), m - 1), Recs'[s], Seen(Recs', p, (m - 1) + 1))
  BY <1>2, <1>7, <1>9, <1>10, <1>12, <1>13, <1>14, PutIs
<1>16. Insert(Popped, exp, s) \in LinkState
  <2>1. ListsOK(Insert(Popped, exp, s), A \union {s}, SlotIds \ Active, exp)
    BY <1>2, <1>7, <1>10, <1>14, InsertIs
  <2> QED BY <2>1 DEF ListsOK
<1>17. Lists' = Insert(Popped, exp, s) /\ Active' = Active
  BY <1>1, <1>16, SetIs DEF Active
<1>18. FireOK(Lists', Active', expired', (m - 1) + 1, p)
  BY <1>1, <1>14, <1>15, <1>17
<1>19. InLine' = Seen(Recs', p, (m - 1) + 1)
  BY <1>18, LineThen
<1>20. InLine = Seen(Recs, q, m) /\ InLine # <<>> /\ InLine[1] = Recs[s]
  BY <1>3, <1>4, LineIs, SeenIs
<1>21. Seen(Recs, Drop(q, m, 1), m - 1) = InTime!Without(InLine, 1)
  BY <1>4, <1>20, SeenDrop
<1>22. Recs'[s] = [Recs[s] EXCEPT !.due = Recs[s].due + Recs[s].period]
  <2>1. /\ Recs'[s] = [timer |-> timer[s], due |-> exp[s] * Fraction + slotAccum'[s], period |-> loop[s]]
        /\ Recs[s] = [timer |-> timer[s], due |-> expired[s] * Fraction + slotAccum[s], period |-> loop[s]]
    BY <1>1, <1>2 DEF Recs
  <2>2. exp[s] * Fraction + slotAccum'[s] = expired[s] * Fraction + sum
    BY <1>6, <1>7, <1>8
  <2>3. expired[s] * Fraction \in Nat
    <3>1. \A x, y \in Nat : x * y \in Nat
      OBVIOUS
    <3> QED BY <1>5, <3>1
  <2>4. expired[s] * Fraction + sum = (expired[s] * Fraction + slotAccum[s]) + loop[s]
    BY <1>5, <2>3
  <2>5. exp[s] * Fraction + slotAccum'[s] = Recs[s].due + Recs[s].period
    BY <1>11, <2>2, <2>4
  <2> QED BY <2>1, <2>5
<1>23. now' >= now
  BY <1>1, <1>2 DEF ListInv, EventsOK
<1>24. InTime!PutInLine(InTime!Without(InLine, 1),
                        [InLine[1] EXCEPT !.due = InLine[1].due + InLine[1].period], InLine')
  BY <1>15, <1>19, <1>20, <1>21, <1>22
<1> QED BY <1>1, <1>2, <1>11, <1>20, <1>23, <1>24 DEF InTime!EqFire

\* The clock passes no event; a callback's end and update_event's begin change nothing in line.
LEMMA OthersMap ==
  ASSUME EventListAssumption, ListInv
  PROVE  /\ EndUpdate => InTime!EqAdvance
         /\ CallbackReturns => InTime!EqReturn
         /\ \A c \in Steps : UpdateTo(c) => UNCHANGED InTime!eqVars
         /\ UNCHANGED listVars => UNCHANGED InTime!eqVars
<1>1. UNCHANGED <<slotVars, linkVars>> => InLine' = InLine
  <2>1. UNCHANGED <<slotVars, linkVars>> =>
          Lists' = Lists /\ UNCHANGED <<active, timer, expired, loop, slotAccum>>
    BY DEF slotVars, linkVars, Lists
  <2> QED BY <2>1, SameLine
<1>2. ASSUME EndUpdate PROVE InTime!EqAdvance
  <2>1. /\ calling = Nobody /\ now' = target /\ now' >= now /\ UNCHANGED <<slotVars, linkVars, calling>>
    BY <1>2 DEF EndUpdate, InLoop, ListInv, ListTypeOK, EventListAssumption
  <2>2. InLine # <<>> => now' < InTime!Clock(InLine[1])
    <3> SUFFICES ASSUME InLine # <<>> PROVE now' < InTime!Clock(InLine[1])
      OBVIOUS
    <3>1. PICK m, q : FireOK(Lists, Active, expired, m, q)
      BY DEF ListInv, ListsOK
    <3>2. InLine = Seen(Recs, q, m) /\ m \in Nat
      BY <3>1, LineIs DEF FireOK, Chain
    <3>3. 1 \in 1..m
      BY <3>2, SeenIs
    <3>4. InLine[1] = Recs[q[1]] /\ q[1] \in Active /\ q[1] \in SlotIds
      BY <3>1, <3>2, <3>3, SeenIs DEF FireOK, Chain
    <3>5. InTime!Clock(InLine[1]) = expired[q[1]] /\ expired[q[1]] \in Nat
      BY <3>4, ClockIs DEF ListInv, ListTypeOK
    <3>6. expired[q[1]] > now'
      BY <1>2, <3>4, EndOK
    <3>7. now' \in Int
      BY <2>1, <1>2 DEF EndUpdate, InLoop, ListInv, ListTypeOK, NoSlot
    <3> QED BY <3>5, <3>6, <3>7
  <2>3. InLine' = InLine
    BY <1>1, <2>1
  <2> QED BY <2>1, <2>2, <2>3 DEF InTime!EqAdvance
<1>3. ASSUME CallbackReturns PROVE InTime!EqReturn
  BY <1>3, <1>1 DEF CallbackReturns, InTime!EqReturn
<1>4. ASSUME NEW c \in Steps, UpdateTo(c) PROVE UNCHANGED InTime!eqVars
  BY <1>4, <1>1 DEF UpdateTo, InTime!eqVars
<1>5. ASSUME UNCHANGED listVars PROVE UNCHANGED InTime!eqVars
  BY <1>5, <1>1 DEF listVars, InTime!eqVars
<1> QED BY <1>2, <1>3, <1>4, <1>5

\* A reset leaves the loops, in their order.
LEMMA ResetMaps ==
  ASSUME EventListAssumption, ListInv, ListReset
  PROVE  InTime!EqReset
<1> DEFINE st == ListResetTo(MaxEvent)
           K == Left(MaxEvent)
<1>1. /\ SetLists(st.lists) /\ active' = st.act
      /\ timer' = timer /\ expired' = expired /\ loop' = loop /\ slotAccum' = slotAccum
      /\ now' = now /\ calling' = calling
  BY DEF ListReset
<1>2. /\ ListsOK(st.lists, K, SlotIds \ K, expired)
      /\ st.act \in [SlotIds -> BOOLEAN] /\ \A s \in SlotIds : st.act[s] <=> s \in K
      /\ \A m, q : FireOK(Lists, Active, expired, m, q) =>
           \E n, p : FireOK(st.lists, K, expired, n, p) /\ KeepsOrder(p, n, q, m)
  BY ResetLists
<1>3. K \subseteq SlotIds /\ \A s \in SlotIds : s \in K <=> s \in Active /\ loop[s] # 0
  <2>1. \A s \in SlotIds : s < MaxEvent
    BY DEF SlotIds, EventListAssumption
  <2> QED BY <2>1 DEF Left, Active
<1> HIDE DEF st, K
<1>4. Lists' = st.lists /\ Active' = K /\ Recs' = Recs
  <2>1. st.lists \in LinkState
    BY <1>2 DEF ListsOK
  <2> QED BY <1>1, <1>2, <1>3, <2>1, SetIs DEF Active, Recs
<1>5. PICK m, q : FireOK(Lists, Active, expired, m, q)
  BY DEF ListInv, ListsOK
<1>6. PICK n, p : FireOK(st.lists, K, expired, n, p) /\ KeepsOrder(p, n, q, m)
  BY <1>2, <1>5
<1>7. PICK at \in [1..n -> 1..m] : /\ \A i \in 1..n : p[i] = q[at[i]]
                                   /\ \A i, j \in 1..n : i < j => at[i] < at[j]
  BY <1>6 DEF KeepsOrder
<1>8. FireOK(Lists', Active', expired', n, p)
  BY <1>1, <1>4, <1>6
<1>9. InLine' = Seen(Recs, p, n) /\ InLine = Seen(Recs, q, m)
  BY <1>4, <1>5, <1>8, LineIs, LineThen
<1>10. /\ m \in Nat /\ n \in Nat /\ \A i, j \in 1..m : q[i] = q[j] => i = j
       /\ Active = {q[i] : i \in 1..m} /\ K = {p[i] : i \in 1..n}
  BY <1>5, <1>6 DEF FireOK, Chain
<1>11. /\ Len(InLine') = n /\ \A i \in 1..n : InLine'[i] = Recs[p[i]]
       /\ Len(InLine) = m /\ \A i \in 1..m : InLine[i] = Recs[q[i]]
  BY <1>9, <1>10, SeenIs
<1>12. \A i \in 1..n : InLine'[i] = InLine[at[i]]
  BY <1>7, <1>11
<1>13. \A i \in 1..m : InLine[i].period # 0 <=> q[i] \in K
  <2>1. \A i \in 1..m : q[i] \in SlotIds /\ q[i] \in Active
    BY <1>10 DEF Active
  <2> QED BY <2>1, <1>3, <1>11, ClockIs DEF ListInv
<1>14. {at[i] : i \in 1..n} = {i \in 1..m : InLine[i].period # 0}
  <2>1. ASSUME NEW x \in 1..m, q[x] \in K PROVE \E i \in 1..n : x = at[i]
    <3>1. PICK i \in 1..n : q[x] = p[i]
      BY <1>10, <2>1
    <3>2. q[x] = q[at[i]] /\ at[i] \in 1..m
      BY <1>7, <3>1
    <3> QED BY <1>10, <3>2
  <2>2. ASSUME NEW i \in 1..n PROVE at[i] \in 1..m /\ q[at[i]] \in K
    BY <1>7, <1>10
  <2> QED BY <1>13, <2>1, <2>2
<1> QED BY <1>1, <1>7, <1>11, <1>12, <1>14 DEF InTime!EqReset

LEMMA StepMaps ==
  ASSUME EventListAssumption, ListInv, ListInv', [ListNext]_listVars
  PROVE  [InTime!EqNext]_(InTime!eqVars)
<1>1. ASSUME NEW t \in Timers \ Loops, NEW d \in Delays, Arm(t, d, 0)
      PROVE  InTime!EqRegister \/ InTime!EqReplace \/ UNCHANGED InTime!eqVars
  <2>1. t \in Timers /\ d \in Nat /\ 0 \in Nat
    BY DEF EventListAssumption
  <2> QED BY <1>1, <2>1, ArmMaps
<1>2. ASSUME NEW t \in Loops, NEW p \in Periods, Arm(t, 0, p)
      PROVE  InTime!EqRegister \/ InTime!EqReplace \/ UNCHANGED InTime!eqVars
  <2>1. t \in Timers /\ p \in Nat /\ 0 \in Nat
    BY DEF EventListAssumption
  <2> QED BY <1>2, <2>1, ArmMaps
<1>3. ASSUME NEW t \in Timers, Disarm(t) PROVE InTime!EqCancel
  BY <1>3, DisarmMaps
<1>4. FireOnce \/ FireLoop => InTime!EqFire
  BY FireOnceMaps, FireLoopMaps
<1>5. ListReset => InTime!EqReset
  BY ResetMaps
<1> QED BY <1>1, <1>2, <1>3, <1>4, <1>5, OthersMap DEF ListNext, InTime!EqNext

LEMMA InitMaps ==
  ASSUME EventListAssumption, ListInit
  PROVE  InTime!EqInit
<1>1. ListInv /\ Active = {} /\ now = 0 /\ calling = Nobody
  BY InitList DEF ListInit, Active
<1>2. PICK m, q : FireOK(Lists, Active, expired, m, q)
  BY <1>1 DEF ListInv, ListsOK
<1>3. m \in Nat /\ \A i \in 1..m : q[i] \in {}
  <2>1. m \in Nat /\ Active = {q[i] : i \in 1..m}
    BY <1>2 DEF FireOK, Chain
  <2> QED BY <1>1, <2>1
<1>4. m = 0
  <2>1. m # 0 => 1 \in 1..m
    BY <1>3
  <2> QED BY <1>3, <2>1
<1>5. InLine = <<>>
  BY <1>2, <1>3, <1>4, LineIs, SeenIs
<1> QED BY <1>1, <1>5 DEF InTime!EqInit

\* The slots and links carry out EventQueue's line in exact time: events fire in the
\* order of their clocks, those of one clock in the order they were registered, none
\* is passed over, a loop never drifts and a reset keeps the loops' order, for every
\* number of slots, every set of timers, delay and period (event.cpp, register_event
\* to reset).
THEOREM EventsComeInOrder ==
  ASSUME EventListAssumption
  PROVE  ListSpec => IsAnEventQueue
<1>1. ListInit => ListInv /\ InTime!EqInit
  BY InitList, InitMaps
<1>2. ListInv /\ [ListNext]_listVars => ListInv'
  BY ListStep
<1>3. ListInv /\ ListInv' /\ [ListNext]_listVars => [InTime!EqNext]_(InTime!eqVars)
  BY StepMaps
<1> QED BY <1>1, <1>2, <1>3, PTL DEF ListSpec, IsAnEventQueue, InTime!EqSpec

=============================================================================

------------------------------ MODULE FmOperator ------------------------------
(***************************************************************************)
(* An operator of fmgen's FM channel (fmgen/fmgen.cpp, fmgeninl.h) as the  *)
(* YM2151 of a sound board sets it (fmgen/opm.cpp): its key, its envelope, *)
(* its pitch, and how the four of a channel are connected.  The samples    *)
(* are left out; an envelope is a level of 1024, where 0 is the loudest.   *)
(* A parameter is only marked as changed when it is set, and used from the *)
(* next block of samples, before which the channel is prepared.  The       *)
(* envelopes of the SSG type are the OPN's, which an X1 has not.           *)
(***************************************************************************)
EXTENDS Integers, Sequences, FiniteSets, Bytes

CONSTANTS Bottom,      \* FM_EG_BOTTOM, 955
          Top,         \* the end of an envelope, 1024
          Registers,   \* <<parameter, byte>>
          MaxSets, MaxKeys   \* bounds

\* SL, of 32: the last is the deepest.
LevelOf(v) == IF v \div 16 = 15 THEN 124 ELSE 4 * (v \div 16)

\* Every level that is set lies in the table: of 1024, all of them do.
FmOperatorAssumption ==
  /\ Bottom \in Nat /\ Top \in Nat /\ Top > Bottom /\ {MaxSets, MaxKeys} \subseteq Nat
  /\ \A r \in Registers : r[2] \in Byte /\ (r[1] = "sl/rr" => 8 * LevelOf(r[2]) <= Top)

VARIABLES op, sets, keys

fmVars == <<op, sets, keys>>

Phases == {"attack", "decay", "sustain", "release", "off"}
FmTypeOK ==
  /\ op \in [phase : Phases, level : Int, next : Nat, rate : 0..63, curve : 0..7,
             tl : 0..127, latch : 0..127, shown : Nat,            \* tl_latch_, tl_out_
             ar : 0..63, dr : 0..63, sr : 0..63, sl : 0..124, rr : 0..63, ks : 0..3,
             kc : Byte, kf : 0..63, pitch : Nat, scale : 0..31,   \* dp_, key_scale_rate_
             keyon : BOOLEAN, changed : BOOLEAN, csm : BOOLEAN,
             latched : BOOLEAN,  \* tl_ is the latch since parameters were used
             deaf : BOOLEAN]     \* the chip was reset while the key was down
  /\ sets \in 0..MaxSets /\ keys \in 0..MaxKeys

(* -------------------------------- the tables --------------------------- *)
\* decaytable1: what a step adds, of a rate's row and the column of the step. To
\* 47 it is 1 or nothing, from 48 it is doubled in each fourth row.
Columns == << {0, 2, 4, 6}, {0, 1, 2, 4, 6}, {0, 1, 2, 4, 5, 6}, 0..6 >>
Doubled == << {}, {0, 4}, {0, 2, 4, 6}, {0, 1, 2, 4, 5, 6} >>
One(yes) == IF yes THEN 1 ELSE 0
DecayStep(rate, i) ==
  IF rate < 6 THEN One(rate >= 2)
  ELSE IF rate < 8 THEN One(i % 4 # 3)
  ELSE IF rate < 48 THEN One(i \in Columns[1 + (rate % 4)])
  ELSE IF rate < 60 THEN 2^((rate - 48) \div 4) * (1 + One(i \in Doubled[1 + (rate % 4)]))
  ELSE 16

\* attacktable: the shift that goes with what a decay adds; -1 is no step.
AttackShift(rate, i) ==
  LET add == DecayStep(rate, i) IN IF add = 0 THEN -1 ELSE CHOOSE c \in 0..4 : 2^(4 - c) = add

\* kctable, kftable: the pitch of a note, and of a 64th of a semitone, 2^(i/768).
KeyCodes == <<5197, 5506, 5833, 6180, 6180, 6547, 6937, 7349, 7349, 7786, 8249, 8740, 8740, 9259, 9810, 10394>>
Fractions == <<
  65536, 65595, 65654, 65713, 65773, 65832, 65891, 65951, 66010, 66070, 66130, 66189, 66249, 66309, 66369, 66429,
  66489, 66549, 66609, 66669, 66729, 66789, 66850, 66910, 66971, 67031, 67092, 67152, 67213, 67273, 67334, 67395,
  67456, 67517, 67578, 67639, 67700, 67761, 67822, 67883, 67945, 68006, 68067, 68129, 68190, 68252, 68314, 68375,
  68437, 68499, 68561, 68623, 68685, 68747, 68809, 68871, 68933, 68995, 69057, 69120, 69182, 69245, 69307, 69370>>
Octave(kc) == (kc \div 16) % 8

\* Mutant: an octave is shifted before what is not kept is cut off.
PitchAtOnce(kc, kf) ==
  ((4 * ((KeyCodes[1 + (kc % 16)] + 2) \div 4)) * Fractions[1 + kf]) \div 2^(19 - Octave(kc))

\* Channel4::SetKCKF
Pitch(kc, kf) ==
  (((4 * ((KeyCodes[1 + (kc % 16)] + 2) \div 4)) * Fractions[1 + kf]) \div 2^19) * 2^Octave(kc)
Block(kc) == (kc \div 4) % 32

(* ------------------------------ the envelope --------------------------- *)
Least(a, b) == IF a < b THEN a ELSE b
RateOf(o, phase) ==
  LET given == [attack |-> o.ar, decay |-> o.dr, sustain |-> o.sr] IN
  IF phase = "release" THEN Least(63, o.rr + o.scale)
  ELSE IF phase = "off" \/ given[phase] = 0 THEN 0 ELSE Least(63, given[phase] + o.scale)

\* ShiftPhase: a phase that has nothing to do is passed over.
Off(o) == [o EXCEPT !.phase = "off", !.level = Bottom, !.next = Bottom, !.rate = 0]
Release(o) ==
  IF o.phase = "attack" \/ o.level < Bottom
  THEN [o EXCEPT !.phase = "release", !.next = Top, !.rate = RateOf(o, "release")] ELSE Off(o)
Sustain(o) == [o EXCEPT !.phase = "sustain", !.level = 8 * o.sl, !.next = Top, !.rate = RateOf(o, "sustain")]
Decay(o) ==
  IF o.sl = 0 THEN Sustain(o)
  ELSE [o EXCEPT !.phase = "decay", !.level = 0, !.next = 8 * o.sl, !.rate = RateOf(o, "decay")]
Attack(o) ==
  LET a == [o EXCEPT !.tl = o.latch, !.latched = @ \/ o.tl # o.latch] IN
  IF o.ar + o.scale < 62 THEN [a EXCEPT !.phase = "attack", !.rate = RateOf(o, "attack")] ELSE Decay(a)

\* Mutant: a parameter that is set counts from the next phase.
PreparedLater(o) == [o EXCEPT !.changed = FALSE, !.scale = Block(o.kc) \div 2^(3 - o.ks), !.shown = 8 * o.tl, !.latched = FALSE]

\* Prepare
Prepared(o) ==
  LET p == [o EXCEPT !.changed = FALSE, !.scale = Block(o.kc) \div 2^(3 - o.ks),
                     !.shown = 8 * o.tl, !.latched = FALSE]
  IN [p EXCEPT !.rate = RateOf(p, o.phase), !.next = IF o.phase = "decay" THEN 8 * o.sl ELSE @]

\* EGCalc: a step of the envelope.
Stepped(o) ==
  LET add == DecayStep(o.rate, o.curve)
      shift == AttackShift(o.rate, o.curve)
      went == [o EXCEPT !.level = IF o.phase # "attack" THEN @ + add
                                  ELSE IF shift = -1 THEN @ ELSE @ - (1 + (@ \div 2^shift))]
      shifted == IF o.phase = "attack" THEN (IF went.level <= 0 /\ shift # -1 THEN Decay(went) ELSE went)
                 ELSE IF went.level < o.next THEN went
                 ELSE IF o.phase = "decay" THEN Sustain(went)
                 ELSE IF o.phase = "sustain" THEN Release(went) ELSE Off(went)
  IN [shifted EXCEPT !.curve = (@ + 1) % 8]

(* -------------------------------- the key ------------------------------ *)
\* Mutant: a key that is struck again while it dies away only dies away.
KeyOnWhenOff(o) ==
  IF o.keyon THEN o
  ELSE LET k == [o EXCEPT !.keyon = TRUE] IN IF o.phase = "off" THEN Attack(k) ELSE k

KeyOn(o) ==
  IF o.keyon THEN o
  ELSE LET k == [o EXCEPT !.keyon = TRUE] IN IF o.phase \in {"off", "release"} THEN Attack(k) ELSE k
KeyOff(o) == IF o.keyon THEN Release([o EXCEPT !.keyon = FALSE, !.deaf = FALSE]) ELSE o

(* ------------------------------ the registers -------------------------- *)
\* OPM::SetParameter, and SetReg of 14h, 28h and 30h
Set(o, parameter, v) ==
  IF parameter = "csm" THEN [o EXCEPT !.csm = Is(v, 7)]
  ELSE IF parameter = "tl" /\ o.csm THEN [o EXCEPT !.latch = v % 128]
  ELSE LET c == [o EXCEPT !.changed = TRUE] IN
       IF parameter = "tl" THEN [c EXCEPT !.tl = v % 128, !.latch = v % 128]
       ELSE IF parameter = "ks/ar" THEN [c EXCEPT !.ks = v \div 64, !.ar = 2 * (v % 32)]
       ELSE IF parameter = "dr" THEN [c EXCEPT !.dr = 2 * (v % 32)]
       ELSE IF parameter = "sr" THEN [c EXCEPT !.sr = 2 * (v % 32)]
       ELSE IF parameter = "sl/rr" THEN [c EXCEPT !.sl = LevelOf(v), !.rr = 4 * (v % 16) + 2]
       ELSE IF parameter = "kc" THEN [c EXCEPT !.kc = v, !.pitch = Pitch(v, o.kf)]
       ELSE [c EXCEPT !.kf = v \div 4, !.pitch = Pitch(o.kc, v \div 4)]

\* Operator::Reset, after OPM::Reset has written 0 to every register: the key
\* of the first channel only goes up, and what Prepare computed stays.
Blank == [phase |-> "off", level |-> 0, next |-> 0, rate |-> 0, curve |-> 0, tl |-> 127, latch |-> 127, shown |-> 0,
          ar |-> 0, dr |-> 0, sr |-> 0, sl |-> 0, rr |-> 2, ks |-> 0, kc |-> 0, kf |-> 0, pitch |-> Pitch(0, 0),
          scale |-> 0, keyon |-> FALSE, changed |-> TRUE, csm |-> FALSE, latched |-> FALSE, deaf |-> FALSE]
AtFmReset(o, keyon) ==
  Off([Blank EXCEPT !.shown = o.shown, !.scale = o.scale, !.keyon = keyon, !.deaf = keyon])

FmInit == op = Off(Blank) /\ sets = 0 /\ keys = 0

SetReg == \E r \in Registers :
  sets < MaxSets /\ sets' = sets + 1 /\ op' = Set(op, r[1], r[2]) /\ UNCHANGED keys

\* Register 08h: in CSM it only lets keys go.
Key(down) ==
  /\ keys < MaxKeys /\ keys' = keys + 1
  /\ op' = IF ~down THEN KeyOff(op) ELSE IF op.csm THEN op ELSE KeyOn(op)
  /\ UNCHANGED sets

\* OPM::TimerA
Csm == keys < MaxKeys /\ keys' = keys + 1 /\ op.csm /\ op' = KeyOn(KeyOff(op)) /\ UNCHANGED sets

\* Mix: a channel is prepared, and its envelopes go on while it can be heard.
Prepare == op.changed /\ op' = Prepared(op) /\ UNCHANGED <<sets, keys>>
EnvelopeStep == ~op.changed /\ op.phase # "off" /\ op' = Stepped(op) /\ UNCHANGED <<sets, keys>>

FmReset == \E first \in BOOLEAN :
  keys < MaxKeys /\ keys' = keys + 1 /\ op' = AtFmReset(op, op.keyon /\ ~first) /\ UNCHANGED sets

FmNext == SetReg \/ Key(TRUE) \/ Key(FALSE) \/ Csm \/ Prepare \/ EnvelopeStep \/ FmReset
FmSpec == FmInit /\ [][FmNext]_fmVars

(* ------------------------------ the channel ---------------------------- *)
\* Calc and CalcL: who modulates the second, the third and the fourth operator,
\* and who is heard.
Wired(algorithm) ==
  << [by |-> << {1}, {2}, {3} >>, heard |-> {4}],        [by |-> << {}, {1, 2}, {3} >>, heard |-> {4}],
     [by |-> << {}, {2}, {1, 3} >>, heard |-> {4}],      [by |-> << {1}, {}, {2, 3} >>, heard |-> {4}],
     [by |-> << {1}, {}, {3} >>, heard |-> {2, 4}],      [by |-> << {1}, {1}, {1} >>, heard |-> {2, 3, 4}],
     [by |-> << {1}, {}, {} >>, heard |-> {2, 3, 4}],    [by |-> << {}, {}, {} >>, heard |-> {1, 2, 3, 4}] >>[algorithm + 1]

\* SetAlgorithm's table of what is taken from and put into four places, which
\* CalcN and CalcLN follow; the first operator is in the first place.
Places == << <<0, 1, 1, 2, 2, 3>>, <<1, 0, 0, 1, 1, 2>>, <<1, 1, 1, 0, 0, 2>>, <<0, 1, 2, 1, 1, 2>>,
             <<0, 1, 2, 2, 2, 1>>, <<0, 1, 0, 1, 0, 1>>, <<0, 1, 2, 1, 2, 1>>, <<1, 0, 1, 0, 1, 0>> >>
Put(buf, place, by) == [buf EXCEPT ![place] = @ \union {by}]
ByPlaces(algorithm) ==
  LET p == Places[algorithm + 1]
      first == [i \in 0..3 |-> IF i = 0 THEN {1} ELSE {}]
      second == Put(first, p[2], 2)
      third == Put(second, p[4], 3)
  IN [by |-> << first[p[1]], second[p[3]], third[p[5]] >>, heard |-> third[p[6]] \union {4}]

(* ----------------------------- properties ------------------------------ *)
\* A key that is down is not dying away, one that is up is; only a reset of the
\* chip can leave a key down that is off without having sounded.
KeyIsHeard ==
  /\ op.keyon => op.phase # "release"
  /\ ~op.keyon => op.phase \in {"release", "off"}
  /\ op.deaf => op.keyon /\ op.phase = "off"

\* After it is prepared an operator sounds as its parameters say, also those
\* that were set in the middle of a phase; a release always goes on. Only a
\* level that was latched for CSM waits for the next parameter.
HeardAsSet ==
  ~op.changed =>
    /\ op.rate = RateOf(op, op.phase)
    /\ op.latched \/ op.shown = 8 * op.tl
    /\ op.scale = Block(op.kc) \div 2^(3 - op.ks)
    /\ op.phase = "decay" => op.next = 8 * op.sl
    /\ op.phase = "release" => op.rate >= 2

\* The level stays inside its table, and an operator that is off is silent.
LevelFits ==
  /\ op.level \in 0..Top + 15
  /\ op.phase = "off" => op.level = Bottom /\ op.rate = 0

\* An octave is twice the pitch exactly, and notes rise.
PitchIsRight ==
  /\ op.pitch = Pitch(op.kc, op.kf)
  /\ Octave(op.kc) < 7 => Pitch(op.kc + 16, op.kf) = 2 * op.pitch
  /\ op.kf < 63 => Pitch(op.kc, op.kf + 1) >= op.pitch
  /\ op.kc % 4 \notin {2, 3} => Pitch(op.kc + 1, 0) >= Pitch(op.kc, 63)

\* Both descriptions of an algorithm connect the same operators.
ConnectionsAgree == \A a \in 0..7 : Wired(a) = ByPlaces(a)

ToneIsRight == KeyIsHeard /\ HeardAsSet /\ LevelFits /\ PitchIsRight /\ ConnectionsAgree

\* Unless a key is struck, an envelope gets louder only in its attack, or where
\* the level at which it is sustained was made louder; and a key that is down
\* goes off only when its envelope is at its end.
GoesItsWay ==
  /\ op.phase = op.phase' /\ op.phase # "attack" /\ keys' = keys => op.level' >= op.level
  /\ op.phase = "attack" /\ op.phase' = "attack" => op.level' <= op.level
  /\ op.phase = "decay" /\ op.phase' = "sustain" => op.level' <= op.level + 16
  /\ op.keyon /\ op.keyon' /\ op.phase # "off" /\ op.phase' = "off" =>
       (op.deaf' \/ (op.phase = "sustain" /\ op.level + 16 >= op.next))
  /\ ~op.keyon /\ op.keyon' => op.phase' \notin {"release", "off"}
==============================================================================

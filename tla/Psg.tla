--------------------------------- MODULE Psg ---------------------------------
(***************************************************************************)
(* The AY-3-8910 (core/vm/ay_3_891x.cpp) and fmgen's PSG that it is made   *)
(* of (fmgen/psg.cpp, and the part of fmgen/opna.cpp in between): the      *)
(* registers, what is computed from them when they are written, the        *)
(* envelope, which is drawn in tables and read with a counter, and the     *)
(* joysticks on its ports (x1/joystick.cpp).  A level is of 16; what it    *)
(* is in decibels is a factor for each ear.                                *)
(***************************************************************************)
EXTENDS Integers, Sequences, FiniteSets, SequencesExt, Bytes

CONSTANTS ToneBits, EnvBits, NoiseBits,  \* fractions of the counters: 24, 22 and 14
          Oversampling,                  \* a sample is 2^Oversampling steps, 4
          Coarse,                        \* bits that a skipped envelope is counted without, 8
          Clock,                         \* steps of the counters at a prescaler of 1, for a sample
          Volumes,                       \* of the menu
          Writes,                        \* <<register, value>>
          Frames,                        \* <<pads of both, as bits>>
          Restores,                      \* states are loaded
          MaxSteps                       \* bound

PsgAssumption ==
  /\ {ToneBits, EnvBits, NoiseBits, Oversampling, Coarse, Clock} \subseteq Nat
  /\ Coarse >= Oversampling /\ Volumes \subseteq Nat \ {0}
  /\ Writes \subseteq (0..15) \X Byte /\ Restores \in BOOLEAN /\ MaxSteps \in Nat

VARIABLES psg,     \* the sound
          ports,   \* the device around it
          true,    \* what a real one would have done
          steps    \* bound

vars == <<psg, ports, true, steps>>

Voice == 0..2
TypeOK ==
  /\ psg \in [reg : [0..15 -> Byte],
              tonePeriod : [Voice -> Nat], noisePeriod : Nat, envPeriod : Nat,
              level : [Voice -> Nat],          \* olevel
              left : 0..15, right : 0..15,     \* the rows that envelop_l and envelop_r are in
              env : Nat, prescale : 0..2, volume : Volumes]
  /\ ports \in [mode : Byte, out : [{"A", "B"} -> Byte], in : [{"A", "B"} -> Byte]]
  /\ true \in [env : Nat, slack : Nat, noise : BOOLEAN, pads : [{"A", "B"} -> Byte]]
  /\ steps \in 0..MaxSteps

(* ------------------------------ the registers -------------------------- *)
\* SetClock: what a counter goes on in a step, of the bits of its fraction.
Base(p, bits) == (2^bits * Clock) \div (4 * (IF p.prescale = 0 THEN 4 ELSE IF p.prescale = 1 THEN 2 ELSE 1))
Shorter(base, by, zero) == IF by = 0 THEN zero ELSE base \div by

TonePeriod(p, c) ==
  LET base == Base(p, ToneBits) IN Shorter(base, (p.reg[2 * c] + 256 * p.reg[2 * c + 1]) % 4096, base)
NoisePeriod(p) == LET base == Base(p, NoiseBits) IN Shorter(base, p.reg[6] % 32, base)
EnvPeriod(p) == LET base == Base(p, EnvBits) IN Shorter(base, p.reg[11] + 256 * p.reg[12], 2 * base)

\* A level from a volume of 16, and from one of the 32 that an envelope has.
Level(p, v) == p.volume * v
EnvLevel(p, v) == p.volume * (v \div 2)

\* SetReg
SetReg(p, r, v) ==
  LET q == [p EXCEPT !.reg[r] = v] IN
  IF r <= 5 THEN [q EXCEPT !.tonePeriod[r \div 2] = TonePeriod(q, r \div 2)]
  ELSE IF r = 6 THEN [q EXCEPT !.noisePeriod = NoisePeriod(q)]
  ELSE IF r \in 8..10 THEN [q EXCEPT !.level[r - 8] = Level(q, v % 16)]
  ELSE IF r \in 11..12 THEN [q EXCEPT !.envPeriod = EnvPeriod(q)]
  ELSE IF r = 13 THEN [q EXCEPT !.env = 0, !.left = v % 16, !.right = v % 16]
  ELSE q

\* SetPrescaler with SetClock: the noise is as fast as half of its period says.
SetPrescaler(p, n) ==
  LET q == [p EXCEPT !.prescale = n] IN
  IF p.prescale = n THEN p
  ELSE [q EXCEPT !.tonePeriod = [c \in Voice |-> TonePeriod(q, c)],
                 !.noisePeriod = NoisePeriod(q) \div 2, !.envPeriod = EnvPeriod(q)]

\* Mutant: the levels that are set already stay as loud.
SetVolumeLater(p, volume) == [p EXCEPT !.volume = volume]

\* SetVolume with MakeEnvelopTable and SetChannelMask; no channel is masked.
SetVolume(p, volume) ==
  [p EXCEPT !.volume = volume, !.level = [c \in Voice |-> volume * (p.reg[8 + c] % 16)]]

\* PSG::Reset
Cleared(p) ==
  LET all == SetReg(SetReg(SetReg(FoldLeft(LAMBDA q, r : SetReg(q, r - 1, 0), p, [r \in 1..14 |-> r]), 7, 255), 14, 255), 15, 255)
  IN all

(* ------------------------------ the envelope --------------------------- *)
\* MakeEnvelopTable: the two halves of a shape, each of 32.
Halves(shape) ==
  IF shape < 4 THEN <<"down", "low">> ELSE IF shape < 8 THEN <<"up", "low">>
  ELSE << <<"down", "down">>, <<"down", "low">>, <<"down", "up">>, <<"down", "high">>,
          <<"up", "up">>, <<"up", "high">>, <<"up", "down">>, <<"up", "low">> >>[shape - 7]
Table(shape, i) ==
  LET half == Halves(shape)[1 + (i \div 32)] IN
  IF half = "low" THEN 0 ELSE IF half = "high" THEN 31 ELSE IF half = "up" THEN i % 32 ELSE 31 - (i % 32)

Half == 2^(EnvBits + 5 + Oversampling)
Alternates(p) == And(p.reg[13], 11) = 10

\* A counter that has passed the end goes on in the second half, or anew.
Folded(p, count, half) ==
  IF count < 2 * half THEN count
  ELSE IF Alternates(p) \/ (count \div half) % 2 = 1 THEN count % (2 * half) ELSE (count + half) % (2 * half)

\* Mutant: what is skipped is not brought back to the counter's scale.
SkippedShort(p, n) ==
  Folded(p, (p.env \div 2^Coarse) + (p.envPeriod \div 2^Coarse) * n, Half \div 2^Coarse) * 2^Coarse

\* Mix of n samples when no voice has the envelope.
Skipped(p, n) ==
  Folded(p, (p.env \div 2^Coarse) + (p.envPeriod \div 2^(Coarse - Oversampling)) * n, Half \div 2^Coarse) * 2^Coarse

\* Mix of n samples when one has.
Stepped(p, n) ==
  FoldLeft(LAMBDA count, i : Folded(p, count + p.envPeriod, Half), p.env, [i \in 1..n * 2^Oversampling |-> i])

ByEnvelope(p) == \E c \in Voice : Is(p.reg[8 + c], 4)
\* Nothing is mixed, and no counter goes on.
Silent(p) == And(p.reg[7], 63) = 63 /\ \A c \in Voice : p.reg[8 + c] % 32 = 0

\* What a voice is at when it is up.
Loudness(p, c) ==
  IF Is(p.reg[8 + c], 4) THEN EnvLevel(p, Table(p.left, p.env \div 2^(EnvBits + Oversampling))) ELSE p.level[c]

(* -------------------------------- the steps ---------------------------- *)
Begun(p) == SetPrescaler(Cleared(SetPrescaler(p, 0)), 1)
Ports == {"A", "B"}

Init ==
  /\ \E volume \in Volumes :
       psg = Begun([reg |-> [r \in 0..15 |-> 0], tonePeriod |-> [c \in Voice |-> 0], noisePeriod |-> 0,
                    envPeriod |-> 0, level |-> [c \in Voice |-> 0], left |-> 0, right |-> 0, env |-> 0,
                    prescale |-> 2, volume |-> volume])
  /\ ports = [mode |-> 0, out |-> [s \in Ports |-> 0], in |-> [s \in Ports |-> 255]]
  /\ true = [env |-> 0, slack |-> 0, noise |-> FALSE, pads |-> [s \in Ports |-> 0]]
  /\ steps = 0

Step == steps < MaxSteps /\ steps' = steps + 1

\* write_via_debugger_data8
Write(r, v) ==
  /\ Step
  /\ psg' = SetReg(psg, r, v)
  /\ ports' = IF r = 7 THEN [ports EXCEPT !.mode = v] ELSE IF r = 14 THEN [ports EXCEPT !.out["A"] = v]
              ELSE IF r = 15 THEN [ports EXCEPT !.out["B"] = v] ELSE ports
  /\ true' = IF r = 13 THEN [true EXCEPT !.env = 0, !.slack = 0]
             ELSE IF r = 6 THEN [true EXCEPT !.noise = TRUE] ELSE true

\* read_via_debugger_data8
ReadPort(s) == IF Is(ports.mode, IF s = "A" THEN 6 ELSE 7) THEN ports.out[s] ELSE ports.in[s]

\* A block of the sound of n samples.
Mix(n) ==
  /\ Step /\ ~Silent(psg)
  /\ psg' = [psg EXCEPT !.env = IF ByEnvelope(psg) THEN Stepped(psg, n) ELSE Skipped(psg, n)]
  /\ true' = [true EXCEPT !.env = @ + n * 2^Oversampling * psg.envPeriod,
                          !.slack = IF ByEnvelope(psg) THEN @ ELSE @ + (n + 1) * 2^Coarse]
  /\ UNCHANGED ports

Louder == Step /\ (\E volume \in Volumes : psg' = SetVolume(psg, volume)) /\ UNCHANGED <<ports, true>>

\* JOYSTICK::event_frame: a bit is low for what is pressed, and the fifth is
\* not used.
Wired(pads) == 255 - ((pads % 16) + 2 * (pads - (pads % 16)))
Frame(a, b) ==
  /\ Step
  /\ ports' = [ports EXCEPT !.in = [s \in Ports |-> Wired(IF s = "A" THEN a ELSE b)]]
  /\ true' = [true EXCEPT !.pads = [s \in Ports |-> IF s = "A" THEN a ELSE b]]
  /\ UNCHANGED psg

\* VM::reset
Reset ==
  /\ Step
  /\ psg' = Begun(psg)
  /\ ports' = [ports EXCEPT !.mode = 0, !.out = [s \in Ports |-> 0]]
  /\ true' = [true EXCEPT !.env = 0, !.slack = 0, !.noise = FALSE]

\* ProcessState, into an application that has been started anew: the row of
\* the right ear is not in the file.
Load == Step /\ Restores /\ psg' = [psg EXCEPT !.right = 0] /\ UNCHANGED <<ports, true>>

Next ==
  \/ \E w \in Writes : Write(w[1], w[2])
  \/ \E n \in {1, 7, 12} : Mix(n)
  \/ \E f \in Frames : Frame(f[1], f[2])
  \/ Louder \/ Reset \/ Load

Spec == Init /\ [][Next]_vars

(* ----------------------------- properties ------------------------------ *)
\* What was computed when a register was written, the volume set or the clock
\* changed is what the registers say now, for both ears; and where Mix skips
\* everything there is nothing to hear. The noise of register 6 as it is at the
\* reset is not looked at.
RegistersAreHeard ==
  /\ \A c \in Voice :
       /\ psg.level[c] = psg.volume * (psg.reg[8 + c] % 16)
       /\ psg.tonePeriod[c] = TonePeriod(psg, c)
  /\ psg.envPeriod = EnvPeriod(psg) /\ (true.noise => psg.noisePeriod = NoisePeriod(psg))
  /\ psg.left = psg.reg[13] % 16 /\ psg.right = psg.left
  /\ Silent(psg) => \A c \in Voice : Loudness(psg, c) = 0

\* The shapes of the AY: continue, attack, alternate, hold.
RealShape(shape, i) ==
  LET attack == Is(shape, 2)
      second == attack # Is(shape, 1)
      Ramp(rises) == IF rises THEN i % 32 ELSE 31 - (i % 32)
  IN IF i < 32 THEN Ramp(attack) ELSE IF ~Is(shape, 3) THEN 0
     ELSE IF Is(shape, 0) THEN (IF second THEN 31 ELSE 0) ELSE Ramp(second)

\* The envelope is at the place of its shape where a real one would be,
\* whether it was listened to or skipped, but for what Coarse leaves out.
RealEnvelope(t) == LET i == t \div 2^(EnvBits + Oversampling) IN
  IF i < 64 THEN RealShape(psg.reg[13] % 16, i)
  ELSE IF Alternates(psg) THEN RealShape(psg.reg[13] % 16, i % 64) ELSE RealShape(psg.reg[13] % 16, 32 + (i % 32))
EnvelopeKeepsTime ==
  /\ psg.env < 2 * Half
  /\ \E lost \in 0..true.slack :
       /\ lost <= true.env
       /\ Table(psg.left, psg.env \div 2^(EnvBits + Oversampling)) = RealEnvelope(true.env - lost)

\* A program that has not made a port an output reads the pads of the last
\* frame, the second trigger above the bit that is not used.
PadsAreSeen == \A s \in Ports :
  ~Is(ports.mode, IF s = "A" THEN 6 ELSE 7) =>
    \A b \in {0, 1, 2, 3, 5, 6} : Is(ReadPort(s), b) # Is(true.pads[s], IF b < 4 THEN b ELSE b - 1)

SoundIsTrue == RegistersAreHeard /\ EnvelopeKeepsTime /\ PadsAreSeen
==============================================================================

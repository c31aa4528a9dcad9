------------------------------- MODULE SoundMix -------------------------------
(***************************************************************************)
(* EVENT's sound (event.cpp): an event for every sample, at most of which  *)
(* the devices are not asked yet; a device that is about to sound          *)
(* differently has what is due mixed first (touch_sound), or asks for      *)
(* every sample in its own time (set_realtime_render); create_sound takes  *)
(* a lastChunk from the front and moves what is left there.                    *)
(*                                                                         *)
(* A sample is its number, counted since power-on or the last load of a    *)
(* state, and 0 is silence.                                                *)
(***************************************************************************)
EXTENDS Integers, Sequences, FiniteSets

CONSTANTS
  SoundDevices,    \* that may render in realtime
  SoundSamples,      \* sound_samples: what create_sound gives
  MixLimit,      \* mix_limit: samples in half a millisecond
  MaxMixTicks, MaxMixCalls

SoundMixAssumption ==
  /\ SoundSamples \in Nat \ {0} /\ MixLimit \in Nat \ {0}
  /\ MaxMixTicks \in Nat /\ MaxMixCalls \in Nat /\ IsFiniteSet(SoundDevices)
ASSUME SoundMixIsAssumed == SoundMixAssumption

VARIABLES
  soundTmp,               \* sound_tmp up to buffer_ptr
  mixCounter,
  realtimeDevs, needMix,  \* dev_need_mix: the devices for which it is set; and how many
  strictly,               \* config.sound_strict_rendering
  mixTicks, mixed,        \* samples that were due, and that the devices were asked for
  takenAway,              \* samples that create_sound took away
  lastChunk,              \* what it returned last
  switches,               \* times the rendering became realtime
  stalled,                \* a tick did not find the room for what was due
  keptDevs, mixCalls

soundVars == <<soundTmp, mixCounter, mixTicks, mixed, takenAway, lastChunk, switches, stalled>>
needVars == <<realtimeDevs, needMix, strictly, keptDevs>>
mixVars == <<soundVars, needVars, mixCalls>>

TmpRoom == 2 * SoundSamples - Len(soundTmp)  \* sound_tmp_samples - buffer_ptr
Realtime == strictly \/ needMix > 0
Smaller(a, b) == IF a < b THEN a ELSE b

\* mix_sound
Mix(samples) ==
  /\ soundTmp' = soundTmp \o [i \in 1..samples |-> mixed + i]
  /\ mixed' = mixed + samples

MixInit ==
  /\ soundTmp = <<>> /\ mixCounter = 1
  /\ realtimeDevs = {} /\ needMix = 0 /\ strictly \in BOOLEAN
  /\ mixTicks = 0 /\ mixed = 0 /\ takenAway = 0 /\ lastChunk = <<>>
  /\ switches = 0 /\ stalled = FALSE /\ keptDevs = {} /\ mixCalls = 0

\* event_callback, EVENT_MIX
MixTick ==
  /\ mixTicks < MaxMixTicks /\ mixTicks' = mixTicks + 1
  /\ IF TmpRoom = 0 THEN /\ UNCHANGED <<soundTmp, mixed, mixCounter>> /\ stalled' = TRUE
     ELSE IF Realtime
     THEN LET due == IF mixCounter < 1 THEN 1 ELSE mixCounter
          IN /\ Mix(Smaller(due, TmpRoom)) /\ mixCounter' = 1
             /\ stalled' = (stalled \/ due > TmpRoom)
     ELSE LET due == IF mixCounter >= MixLimit THEN Smaller(mixCounter, TmpRoom) ELSE 0
          IN /\ Mix(due) /\ mixCounter' = mixCounter - due + 1
             /\ stalled' = (stalled \/ (mixCounter >= MixLimit /\ mixCounter > TmpRoom))
  /\ UNCHANGED <<takenAway, lastChunk, switches, needVars, mixCalls>>

MixCall == mixCalls < MaxMixCalls /\ mixCalls' = mixCalls + 1

\* Mutant: what was mixed stays due.
TouchAgain ==
  /\ MixCall /\ ~Realtime
  /\ LET due == Smaller(mixCounter, TmpRoom) IN due > 0 /\ Mix(due) /\ UNCHANGED mixCounter
  /\ UNCHANGED <<mixTicks, takenAway, lastChunk, switches, stalled, needVars>>

\* touch_sound
TouchSound ==
  /\ MixCall /\ ~Realtime
  /\ LET due == Smaller(mixCounter, TmpRoom) IN due > 0 /\ Mix(due) /\ mixCounter' = mixCounter - due
  /\ UNCHANGED <<mixTicks, takenAway, lastChunk, switches, stalled, needVars>>

\* set_realtime_render
SetRealtimeRender(d, on) ==
  /\ MixCall /\ (d \in realtimeDevs) # on
  /\ realtimeDevs' = IF on THEN realtimeDevs \union {d} ELSE realtimeDevs \ {d}
  /\ needMix' = IF on THEN needMix + 1 ELSE needMix - 1
  /\ switches' = IF on /\ ~Realtime THEN switches + 1 ELSE switches
  /\ UNCHANGED <<soundTmp, mixCounter, strictly, mixTicks, mixed, takenAway, lastChunk, stalled, keptDevs>>

\* The configuration is the user's, at any time.
SetStrictRendering(on) ==
  /\ MixCall /\ strictly' = on
  /\ switches' = IF on /\ ~Realtime THEN switches + 1 ELSE switches
  /\ UNCHANGED <<soundTmp, mixCounter, realtimeDevs, needMix, mixTicks, mixed, takenAway, lastChunk, stalled, keptDevs>>

\* create_sound, once the frames it drives have filled the chunk.
CreateSound ==
  /\ MixCall /\ Len(soundTmp) >= SoundSamples
  /\ lastChunk' = SubSeq(soundTmp, 1, SoundSamples)
  /\ soundTmp' = SubSeq(soundTmp, SoundSamples + 1, Len(soundTmp))
  /\ takenAway' = takenAway + SoundSamples
  /\ UNCHANGED <<mixCounter, mixTicks, mixed, switches, stalled, needVars>>

\* reset: buffer_ptr stays.
ResetSound ==
  /\ MixCall
  /\ soundTmp' = [i \in 1..Len(soundTmp) |-> 0]
  /\ UNCHANGED <<mixCounter, mixTicks, mixed, takenAway, lastChunk, switches, stalled, needVars>>

\* process_state: the needs are kept, the sound is not.
SaveSound ==
  /\ MixCall /\ keptDevs' = realtimeDevs
  /\ UNCHANGED <<soundVars, realtimeDevs, needMix, strictly>>
LoadSound ==
  /\ MixCall
  /\ realtimeDevs' = keptDevs /\ needMix' = Cardinality(keptDevs)
  /\ soundTmp' = <<>> /\ mixCounter' = 1
  /\ mixTicks' = 0 /\ mixed' = 0 /\ takenAway' = 0 /\ lastChunk' = <<>>
  /\ switches' = 0 /\ stalled' = FALSE
  /\ UNCHANGED <<strictly, keptDevs>>

MixNext ==
  \/ MixTick \/ TouchSound \/ CreateSound \/ ResetSound \/ SaveSound \/ LoadSound
  \/ \E d \in SoundDevices, on \in BOOLEAN : SetRealtimeRender(d, on)
  \/ \E on \in BOOLEAN : SetStrictRendering(on)
MixSpec == MixInit /\ [][MixNext]_mixVars

(* ----------------------------- properties ------------------------------ *)
SoundMixTypeOK ==
  /\ soundTmp \in Seq(Nat) /\ mixCounter \in 0..MixLimit
  /\ realtimeDevs \subseteq SoundDevices /\ needMix \in Nat /\ strictly \in BOOLEAN
  /\ mixTicks \in 0..MaxMixTicks /\ mixed \in Nat /\ takenAway \in Nat /\ lastChunk \in Seq(Nat)
  /\ switches \in Nat /\ stalled \in BOOLEAN /\ keptDevs \subseteq SoundDevices /\ mixCalls \in 0..MaxMixCalls

\* The sound never runs out of its buffer, and what is left over does not overlap
\* its new place; the samples of the buffer, and of the chunk before it, are the
\* devices' in order, each once, or silence after a reset; while no tick has found the
\* buffer full, the sound is at most half a millisecond behind the emulated time, and
\* ahead of it by a sample, and one more for each time the rendering became
\* realtime; and the devices that asked for it are counted.
SoundKeepsTime ==
  /\ TmpRoom \in 0..2 * SoundSamples
  /\ takenAway + Len(soundTmp) = mixed
  /\ \A i \in 1..Len(soundTmp) : soundTmp[i] \in {0, takenAway + i}
  /\ \A i \in 1..Len(lastChunk) : lastChunk[i] \in {0, takenAway - SoundSamples + i}
  /\ ~stalled => mixTicks - MixLimit < mixed /\ mixed <= mixTicks + 1 + switches
  /\ needMix = Cardinality(realtimeDevs)
==============================================================================

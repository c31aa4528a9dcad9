------------------------------- MODULE SoundRing ------------------------------
(***************************************************************************)
(* OSD's sound ring (core/sdl/osd_sound.cpp): one producer, update_sound   *)
(* on whichever thread drives a frame; one consumer, pull_sound on the     *)
(* audio device's thread; and mute_sound / stop_sound.                     *)
(*                                                                         *)
(* Producer and mute run under the VM lock, so they exclude each other     *)
(* (module EmuThreads); the consumer takes only sound_mutex.  update_sound *)
(* reads the count, lets the machine make a chunk with sound_mutex free,   *)
(* and pushes: two steps with pulls in between.  A frame is its number since *)
(* the last mute, modulo Numbers.                                          *)
(***************************************************************************)
EXTENDS Naturals, Sequences

CONSTANTS Samples,    \* frames in a chunk: sound_samples
          RingChunks, \* chunks the ring has room for (8 in the code)
          Numbers,    \* frame numbers
          MaxPull     \* the most frames the device asks for at once

ASSUME SoundRingAssumption ==
  /\ Samples \in Nat \ {0}
  /\ RingChunks \in Nat /\ RingChunks >= 3
  /\ Numbers \in Nat \ {0}
  /\ MaxPull \in Nat

VARIABLES
  ring, head, count,  \* sound_ring_buffer, sound_ring_head, sound_ring_count
  muted,              \* sound_muted
  making,             \* update_sound is between its two critical sections
  number,             \* of the next frame the machine makes
  fresh,              \* frames made since the last mute, capped (history)
  dst                 \* what the last pull copied

buffer == <<ring, head, count>>
ringVars == <<buffer, muted, making, number, fresh, dst>>

Capacity == RingChunks * Samples
Silence  == Numbers
Frames   == 0..Numbers
Slots    == 0..(Capacity - 1)

RingTypeOK ==
  /\ ring \in [Slots -> Frames] /\ head \in Slots /\ count \in 0..Capacity
  /\ muted \in BOOLEAN /\ making \in BOOLEAN
  /\ number \in 0..(Numbers - 1) /\ fresh \in 0..Capacity
  /\ dst \in Seq(Frames)

\* OSD::initialize: the ring is allocated zeroed.
RingInit ==
  /\ ring = [s \in Slots |-> 0] /\ head = 0 /\ count = 0
  /\ muted = FALSE /\ making = FALSE
  /\ number = 0 /\ fresh = 0 /\ dst = <<>>

\* Mutant: a chunk is made however full the ring is.
UpdateSoundUngated ==
  /\ ~making /\ making' = TRUE
  /\ muted' = FALSE
  /\ UNCHANGED <<buffer, number, fresh, dst>>

(* The first critical section.  Mute is cleared before the early return.   *)
UpdateSound ==
  /\ ~making
  /\ muted' = FALSE
  /\ IF count < 2 * Samples THEN making' = TRUE ELSE UNCHANGED making
  /\ UNCHANGED <<buffer, number, fresh, dst>>

\* The i-th frame of the chunk create_sound returns, silenced when muted.
Chunk(i) == IF muted THEN Silence ELSE (number + i) % Numbers

Least(a, b) == IF a < b THEN a ELSE b

(* The second critical section: the chunk goes in frame by frame, each     *)
(* dropping the oldest frame when the ring is full.                        *)
PushChunk ==
  /\ making /\ making' = FALSE
  /\ LET dropped == count + Samples - Least(Capacity, count + Samples)
         at(s)   == (s + Capacity - ((head + count) % Capacity)) % Capacity
     IN /\ ring' = [s \in Slots |-> IF at(s) < Samples THEN Chunk(at(s))
                                                      ELSE ring[s]]
        /\ head' = (head + dropped) % Capacity
        /\ count' = Least(Capacity, count + Samples)
  /\ number' = (number + Samples) % Numbers
  /\ fresh' = Least(Capacity, fresh + Samples)
  /\ UNCHANGED <<muted, dst>>

\* Mutant: frames the ring does not hold are taken as well.
PullSoundUnchecked(frames) ==
  /\ dst' = [i \in 1..frames |-> ring[(head + (i - 1)) % Capacity]]
  /\ head' = (head + frames) % Capacity
  /\ count' = count - frames
  /\ UNCHANGED <<ring, muted, making, number, fresh>>

\* pull_sound, from the device's callback; what is missing is silence there.
PullSound(frames) ==
  LET n == Least(frames, count)
  IN /\ dst' = [i \in 1..n |-> ring[(head + (i - 1)) % Capacity]]
     /\ head' = (head + n) % Capacity
     /\ count' = count - n
     /\ UNCHANGED <<ring, muted, making, number, fresh>>

\* Mutant: the ring keeps the old machine's frames.
MuteSoundKeeps ==
  /\ ~making
  /\ muted' = TRUE
  /\ number' = 0 /\ fresh' = 0
  /\ UNCHANGED <<buffer, making, dst>>

\* mute_sound after a state load, stop_sound before the VM is rebuilt.
MuteSound ==
  /\ ~making
  /\ head' = 0 /\ count' = 0
  /\ muted' = TRUE
  /\ number' = 0 /\ fresh' = 0
  /\ UNCHANGED <<ring, making, dst>>

RingNext == \/ UpdateSound \/ PushChunk \/ MuteSound
        \/ \E frames \in 0..MaxPull : PullSound(frames)

RingSpec == RingInit /\ [][RingNext]_ringVars

-----------------------------------------------------------------------------
\* The ring never holds three chunks: a chunk is only begun below two, and
\* nothing but pulls happens before it is pushed, so the branch that drops
\* the oldest frame ("the host is not draining fast enough") is never taken.
\* And after a mute it holds only frames made since: "What is already in the
\* ring belongs to a machine that no longer exists".
RingBound == count < 3 * Samples /\ count <= fresh

\* The ring is a queue.
Queued == [i \in 1..count |-> ring[(head + (i - 1)) % Capacity]]
Queue == INSTANCE AudioQueue WITH queue <- Queued
IsAQueue == Queue!AqSpec
=============================================================================

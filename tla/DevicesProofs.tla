----------------------------- MODULE DevicesProofs ----------------------------
(***************************************************************************)
(* Proofs about five devices, for every value of their constants.          *)
(*                                                                         *)
(* The sound ring never overflows, never plays what a mute threw away, and *)
(* is a queue: a chunk is begun only below two chunks, and only pulls come *)
(* in between.                                                             *)
(*                                                                         *)
(* A save-state slot holds the old state or a whole new one after a crash  *)
(* at any step, and a load applies the slot's state or nothing.  Both are  *)
(* for writes that do not fall short (~DiskFills): dump_vm_state does not  *)
(* look at what they return.                                               *)
(*                                                                         *)
(* The CTC's events are due exactly when real counters are at zero, for    *)
(* programs that reset a channel before they change its mode or prescaler  *)
(* (~Careless).                                                            *)
(*                                                                         *)
(* The sound that EVENT mixes is in its buffer once, in order, and in time *)
(* with what it emulates, whoever asks for it early or in realtime.        *)
(*                                                                         *)
(* Each way of the sub CPU's port holds one byte at most, all that are     *)
(* told of it agree, and the CPU is asked for the bytes that are requests. *)
(***************************************************************************)
EXTENDS SoundRing, StateFile, CtcCounter, SoundMix, SubLink, FiniteSetTheorems, SequenceTheorems, TLAPS

(* --------------------------- the sound ring ---------------------------- *)

(* ----- indices that go round a ring, and the ends of sequences ----- *)

\* The remainder of an index less than two rounds from the start.
LEMMA Wrap ==
  ASSUME NEW C \in Nat \ {0}, NEW a \in Nat, a < 2 * C
  PROVE  a % C = (IF a < C THEN a ELSE a - C) /\ a % C \in 0..(C - 1)
<1>1. CASE a < C
  BY <1>1
<1>2. CASE a >= C
  <2>1. a - C \in 0..(C - 1) /\ (a - C) + C = a
    BY <1>2
  <2>2. ((a - C) + C) % C = a - C
    BY <2>1
  <2> QED BY <1>2, <2>1, <2>2
<1> QED BY <1>1, <1>2

\* Advancing twice is advancing by the sum.
LEMMA Twice ==
  ASSUME NEW C \in Nat \ {0}, NEW h \in 0..(C - 1),
         NEW n \in Nat, NEW j \in Nat, n + j < C
  PROVE  (((h + n) % C) + j) % C = (h + (n + j)) % C
<1>1. \A a \in Nat : a < 2 * C => a % C = IF a < C THEN a ELSE a - C
  BY Wrap
<1>2. h + n \in Nat /\ h + n < 2 * C /\ h + (n + j) \in Nat /\ h + (n + j) < 2 * C
  OBVIOUS
<1>3. (h + n) % C = IF h + n < C THEN h + n ELSE h + n - C
  BY <1>1, <1>2
<1>4. (h + (n + j)) % C = IF h + (n + j) < C THEN h + (n + j) ELSE h + (n + j) - C
  BY <1>1, <1>2
<1>5. CASE h + n < C
  BY <1>3, <1>5
<1>6. CASE h + n >= C
  <2>1. (h + n) % C = h + n - C
    BY <1>3, <1>6
  <2>2. h + n - C + j \in 0..(C - 1)
    BY <1>6
  <2>3. (h + n - C + j) % C = h + n - C + j
    BY <2>2
  <2>4. (h + (n + j)) % C = h + (n + j) - C
    BY <1>4, <1>6
  <2> QED BY <2>1, <2>3, <2>4
<1> QED BY <1>5, <1>6

\* What is left of a sequence after its first n elements, and those n.
LEMMA Ends ==
  ASSUME NEW S, NEW q \in Seq(S), NEW n \in 0..Len(q)
  PROVE  /\ SubSeq(q, n + 1, Len(q)) = [i \in 1..(Len(q) - n) |-> q[n + i]]
         /\ SubSeq(q, 1, n) = [i \in 1..n |-> q[i]]
  OBVIOUS

\* A sequence that begins with another is that one and the rest of it.
LEMMA Split ==
  ASSUME NEW S, NEW p \in Seq(S), NEW q \in Seq(S), NEW k \in Nat \ {0},
         Len(q) = Len(p) + k, \A i \in 1..Len(p) : q[i] = p[i]
  PROVE  q = p \o SubSeq(q, Len(q) - k + 1, Len(q))
  OBVIOUS

\* A function on 1..n is a sequence of length n.
LEMMA IsSeq ==
  ASSUME NEW S, NEW n \in Nat, NEW f \in [1..n -> S]
  PROVE  f \in Seq(S) /\ Len(f) = n
  OBVIOUS

(* ---------------------------- the ring itself ------------------------ *)

RingInv ==
  /\ RingTypeOK
  /\ count < 3 * Samples
  /\ making => count < 2 * Samples
  /\ count <= fresh

\* A ring has room for three chunks at least.
LEMMA Room ==
  Capacity \in Nat \ {0} /\ Capacity >= 3 * Samples /\ Samples >= 1
  BY SoundRingAssumption DEF Capacity

LEMMA InitRing == RingInit => RingInv
  BY Room, SoundRingAssumption
  DEF RingInit, RingInv, RingTypeOK, Slots, Frames

LEMMA RingStep == RingInv /\ [RingNext]_ringVars => RingInv'
<1> SUFFICES ASSUME RingInv, [RingNext]_ringVars PROVE RingInv'
  OBVIOUS
<1> USE Room, SoundRingAssumption DEF RingInv, RingTypeOK, buffer
<1>1. CASE UpdateSound
  <2>1. muted' \in BOOLEAN /\ making' \in BOOLEAN
    BY <1>1 DEF UpdateSound
  <2>2. making' => count < 2 * Samples
    BY <1>1 DEF UpdateSound
  <2>3. UNCHANGED <<ring, head, count, number, fresh, dst>>
    BY <1>1 DEF UpdateSound
  <2> QED BY <2>1, <2>2, <2>3
<1>2. CASE PushChunk
  <2>0. making
    BY <1>2 DEF PushChunk
  <2>1. /\ count + Samples < Capacity
        /\ Least(Capacity, count + Samples) = count + Samples
    BY <2>0 DEF Least
  <2>2. head' = head
    <3>1. head' = (head + (count + Samples - Least(Capacity, count + Samples)))
                    % Capacity
      BY <1>2 DEF PushChunk
    <3>2. head + (count + Samples - (count + Samples)) = head
      BY DEF Slots
    <3>3. head \in Nat /\ head < Capacity /\ head < 2 * Capacity
      BY DEF Slots
    <3>4. head % Capacity = head
      BY <3>3, Wrap
    <3> QED BY <2>1, <3>1, <3>2, <3>4
  <2>3. count' = count + Samples /\ fresh' = Least(Capacity, fresh + Samples)
    BY <1>2, <2>1 DEF PushChunk
  <2>4. fresh' \in 0..Capacity /\ count' <= fresh' /\ count' < 3 * Samples
    BY <2>0, <2>1, <2>3 DEF Least
  <2>5. number' \in 0..(Numbers - 1)
    BY <1>2 DEF PushChunk
  <2>6. \A i \in Nat : Chunk(i) \in Frames
    BY DEF Chunk, Frames, Silence
  <2>7. ring' \in [Slots -> Frames]
    <3>1. \A s \in Slots : s + Capacity - ((head + count) % Capacity) \in Nat
      BY DEF Slots
    <3>2. \A s \in Slots : (s + Capacity - ((head + count) % Capacity)) % Capacity \in Nat
      BY <3>1
    <3> QED BY <1>2, <2>6, <3>2 DEF PushChunk
  <2>8. making' = FALSE /\ making' \in BOOLEAN /\ UNCHANGED <<muted, dst>>
    BY <1>2 DEF PushChunk
  <2> QED BY <2>2, <2>3, <2>4, <2>5, <2>7, <2>8
<1>3. CASE MuteSound
  BY <1>3 DEF MuteSound, Slots
<1>4. ASSUME NEW frames \in 0..MaxPull, PullSound(frames)
      PROVE  RingInv'
  <2> DEFINE n == Least(frames, count)
  <2>1. n \in 0..count
    BY DEF Least
  <2>2. head' \in Slots /\ count' = count - n
    BY <1>4, <2>1 DEF PullSound, Slots
  <2>3. dst' \in Seq(Frames)
    <3>1. \A i \in 1..n : (head + (i - 1)) % Capacity \in Slots
      BY <2>1 DEF Slots
    <3>2. dst' \in [1..n -> Frames]
      BY <1>4, <3>1 DEF PullSound
    <3> QED BY <2>1, <3>2
  <2> QED BY <1>4, <2>1, <2>2, <2>3 DEF PullSound
<1>5. CASE UNCHANGED ringVars
  BY <1>5 DEF ringVars
<1> QED BY <1>1, <1>2, <1>3, <1>4, <1>5 DEF RingNext

\* The branch that drops the oldest frame is never taken, and no frame made
\* before a mute is left after it.
THEOREM RingIsBounded == RingSpec => [](RingTypeOK /\ RingBound)
<1>1. RingInv => RingTypeOK /\ RingBound
  BY DEF RingInv, RingBound
<1> QED BY <1>1, InitRing, RingStep, PTL DEF RingSpec

-----------------------------------------------------------------------------
\* The queue's frames, and that they are where the ring has them.
QueuedOK ==
  /\ Queued \in Seq(Frames) /\ Len(Queued) = count /\ count \in Nat
  /\ \A i \in 1..count : Queued[i] = ring[(head + (i - 1)) % Capacity]

LEMMA QueuedIsSeq == RingTypeOK => QueuedOK
<1> SUFFICES ASSUME RingTypeOK PROVE QueuedOK
  OBVIOUS
<1>1. \A i \in 1..count : (head + (i - 1)) % Capacity \in Slots
  <2> TAKE i \in 1..count
  <2>1. head + (i - 1) \in Nat /\ head + (i - 1) < 2 * Capacity
    BY Room DEF RingTypeOK, Slots
  <2> QED BY <2>1, Room, Wrap DEF Slots
<1>2. Queued \in [1..count -> Frames]
  BY <1>1 DEF Queued, RingTypeOK
<1>3. count \in Nat
  BY Room DEF RingTypeOK
<1> QED BY <1>2, <1>3, IsSeq DEF Queued, QueuedOK

\* A pull takes the first frames of the queue.
LEMMA PullIsPull ==
  ASSUME RingInv, NEW frames \in 0..MaxPull, PullSound(frames)
  PROVE  Queue!AqNext
<1>1. PICK n \in 0..count :
        /\ count' = count - n /\ head' = (head + n) % Capacity /\ ring' = ring
        /\ dst' = [i \in 1..n |-> ring[(head + (i - 1)) % Capacity]]
  <2>1. Least(frames, count) \in 0..count
    BY SoundRingAssumption, Room DEF RingInv, RingTypeOK, Least
  <2> QED BY <2>1 DEF PullSound
<1>2. /\ Queued \in Seq(Frames) /\ Len(Queued) = count
      /\ \A i \in 1..count : Queued[i] = ring[(head + (i - 1)) % Capacity]
  BY QueuedIsSeq DEF RingInv, QueuedOK
<1>3. count \in Nat /\ count < Capacity /\ head \in 0..(Capacity - 1)
  BY Room, SoundRingAssumption DEF RingInv, RingTypeOK, Slots
<1>4. Queued' = SubSeq(Queued, n + 1, Len(Queued))
  <2>1. ASSUME NEW i \in 1..(count - n)
        PROVE  ring'[(head' + (i - 1)) % Capacity] = Queued[n + i]
    <3>1. /\ n \in Nat /\ i - 1 \in Nat /\ n + (i - 1) < Capacity
          /\ n + i \in 1..count /\ (n + i) - 1 = n + (i - 1)
      <4>1. n \in Nat /\ n <= count /\ i \in Nat /\ 1 <= i /\ i <= count - n
        BY <1>3
      <4>2. n + i <= count
        BY <1>3, <4>1
      <4> QED BY <1>3, <4>1, <4>2, Room
    <3>2. (((head + n) % Capacity) + (i - 1)) % Capacity
             = (head + (n + (i - 1))) % Capacity
      BY <1>3, <3>1, Room, Twice
    <3> QED BY <1>1, <1>2, <3>1, <3>2
  <2>2. Queued' = [i \in 1..(count - n) |-> Queued[n + i]]
    BY <1>1, <2>1 DEF Queued
  <2> QED BY <1>2, <2>2, Ends
<1>5. dst' = SubSeq(Queued, 1, n)
  <2>1. dst' = [i \in 1..n |-> Queued[i]]
    BY <1>1, <1>2, <1>3
  <2> QED BY <1>2, <2>1, Ends
<1>6. Queue!Pull(n)
  BY <1>2, <1>4, <1>5 DEF Queue!Pull
<1> QED BY <1>2, <1>6 DEF Queue!AqNext

\* A slot outside the queue, seen from the queue's end.
LEMMA FromTheEnd ==
  ASSUME NEW C \in Nat \ {0}, NEW h \in 0..(C - 1), NEW c \in Nat, c < C,
         NEW j \in Nat, j < C
  PROVE  (((h + j) % C) + C - ((h + c) % C)) % C
           = IF j < c THEN C + j - c ELSE j - c
<1>1. \A a \in Nat : a < 2 * C => a % C = IF a < C THEN a ELSE a - C
  BY Wrap
<1>2. /\ h + j \in Nat /\ h + j < 2 * C /\ h + c \in Nat /\ h + c < 2 * C
  OBVIOUS
<1>3. (h + j) % C = IF h + j < C THEN h + j ELSE h + j - C
  BY <1>1, <1>2
<1>4. (h + c) % C = IF h + c < C THEN h + c ELSE h + c - C
  BY <1>1, <1>2
<1>5. PICK a \in Nat, b \in Nat : a = (h + j) % C /\ b = (h + c) % C
  BY <1>3, <1>4
<1>6. PICK d \in Nat : d = a + C - b /\ d < 2 * C
  BY <1>3, <1>4, <1>5
<1>7. d % C = IF d < C THEN d ELSE d - C
  BY <1>1, <1>6
<1>8. d = (IF j < c THEN C + j - c ELSE j - c) \/
      d = (IF j < c THEN C + j - c ELSE j - c) + C
  BY <1>3, <1>4, <1>5, <1>6
<1> QED BY <1>5, <1>6, <1>7, <1>8

\* A push appends the chunk, and drops nothing.
LEMMA PushIsPush ==
  ASSUME RingInv, RingInv', PushChunk
  PROVE  Queue!AqNext
<1>1. making /\ count + Samples < Capacity
  BY Room, SoundRingAssumption DEF RingInv, PushChunk, RingTypeOK
<1>2. Least(Capacity, count + Samples) = count + Samples
  BY <1>1, Room, SoundRingAssumption DEF Least, RingInv, RingTypeOK
<1>3. count' = count + Samples /\ UNCHANGED dst
  BY <1>2 DEF PushChunk
<1>4. head' = head
  <2>1. head' = (head + (count + Samples - (count + Samples))) % Capacity
    BY <1>2 DEF PushChunk
  <2>2. head \in Nat /\ head < Capacity
        /\ head + (count + Samples - (count + Samples)) = head
    BY Room, SoundRingAssumption DEF RingInv, RingTypeOK, Slots
  <2> QED BY <2>1, <2>2, Room
<1>5. \A j \in 0..(count - 1) :
         ring'[(head + j) % Capacity] = ring[(head + j) % Capacity]
  <2> TAKE j \in 0..(count - 1)
  <2> DEFINE s == (head + j) % Capacity
  <2>1. j \in Nat /\ j < count /\ j < Capacity
    BY <1>1, Room, SoundRingAssumption DEF RingInv, RingTypeOK
  <2>2. head + j \in Nat /\ head + j < 2 * Capacity
    BY <2>1, Room DEF RingInv, RingTypeOK, Slots
  <2>3. s \in Slots
    BY <2>2, Wrap, Room DEF Slots
  <2>4. (s + Capacity - ((head + count) % Capacity)) % Capacity
          = Capacity + j - count
    <3>1. head \in 0..(Capacity - 1) /\ count \in Nat /\ count < Capacity
      BY <1>1, Room, SoundRingAssumption DEF RingInv, RingTypeOK, Slots
    <3> QED BY <2>1, <3>1, FromTheEnd, Room
  <2>5. ~(Capacity + j - count < Samples)
    BY <1>1, <2>1, Room, SoundRingAssumption DEF RingInv, RingTypeOK
  <2> QED BY <2>3, <2>4, <2>5 DEF PushChunk
<1>6. QueuedOK /\ QueuedOK'
  <2>1. RingTypeOK => QueuedOK
    BY QueuedIsSeq
  <2>2. (RingTypeOK => QueuedOK)'
    BY QueuedIsSeq, PTL
  <2> QED BY <2>1, <2>2 DEF RingInv
<1> DEFINE chunk == SubSeq(Queued', Len(Queued') - Samples + 1, Len(Queued'))
<1>7. /\ Len(Queued') = Len(Queued) + Samples
      /\ Len(Queued) \in Nat /\ Samples \in Nat \ {0} /\ Samples <= Capacity
      /\ Len(Queued') <= Capacity
  BY <1>1, <1>3, <1>6, Room, SoundRingAssumption DEF QueuedOK
<1>8. \A i \in 1..Len(Queued) : Queued'[i] = Queued[i]
  <2> TAKE i \in 1..Len(Queued)
  <2>1. i - 1 \in 0..(count - 1) /\ i \in 1..count /\ i \in 1..count'
    BY <1>3, <1>6, SoundRingAssumption DEF QueuedOK
  <2> QED BY <1>4, <1>5, <1>6, <2>1 DEF QueuedOK
<1>9. Queued' = Queued \o chunk
  BY <1>6, <1>7, <1>8, Split DEF QueuedOK
<1>10. Queue!Newest(Queued \o chunk, Capacity) = Queued'
  BY <1>7, <1>9 DEF Queue!Newest
<1>11. Queue!Push(chunk)
  BY <1>3, <1>10 DEF Queue!Push
<1> QED BY <1>7, <1>11 DEF Queue!AqNext

-----------------------------------------------------------------------------
\* A mute empties the queue; what comes before a push is a stutter.
LEMMA MuteIsClear == ASSUME MuteSound PROVE Queue!AqNext
<1>1. count' = 0 /\ UNCHANGED dst
  BY DEF MuteSound
<1>2. Queued' = <<>>
  BY <1>1 DEF Queued
<1> QED BY <1>1, <1>2 DEF Queue!AqNext, Queue!Clear

\* The sound ring is a queue of frames: the device hears every frame pushed
\* since the last mute, once and in order.
THEOREM RingIsAQueue == RingSpec => IsAQueue
<1>1. RingInit => Queue!AqInit
  <2> SUFFICES ASSUME RingInit PROVE Queue!AqInit
    OBVIOUS
  <2>1. Queued = <<>>
    BY DEF RingInit, Queued
  <2> QED BY <2>1 DEF RingInit, Queue!AqInit
<1>2. RingInv /\ RingInv' /\ [RingNext]_ringVars => [Queue!AqNext]_<<Queued, dst>>
  <2> SUFFICES ASSUME RingInv, RingInv', [RingNext]_ringVars
               PROVE  Queue!AqNext \/ UNCHANGED <<Queued, dst>>
    OBVIOUS
  <2>1. CASE UpdateSound
    BY <2>1 DEF UpdateSound, buffer, Queued
  <2>2. CASE UNCHANGED ringVars
    BY <2>2 DEF ringVars, buffer, Queued
  <2> QED
    BY <2>1, <2>2, PushIsPush, PullIsPull, MuteIsClear DEF RingNext
<1> QED BY <1>1, <1>2, InitRing, RingStep, PTL DEF RingSpec, IsAQueue, Queue!AqSpec

(* -------------------------- a save-state slot -------------------------- *)

\* A machine that was captured while it was parked is of one moment.
Machines == {m \in States : \A d \in Devices : m[d] = m[1]}

\* What this program saves, and what a slot may hold from another build.
OwnBlobs == [body : Machines, end : {TRUE}, refused : {0}]
AnyBlobs == [body : Machines, end : {TRUE}, refused : {0} \cup Devices]

FilesOf(blobs) == [parts : Nat, sections : Sections, blob : blobs]

\* A save goes through its steps with a file of its own, and reports nothing.
SaveInv ==
  /\ saving \in {"no", "captured", "writing", "closed"}
  /\ saving = "captured" => blob \in OwnBlobs
  /\ saving \in {"writing", "closed"} => tmp \in FilesOf(OwnBlobs)
  /\ saving = "closed" => Whole(tmp)
  /\ saving # "no" => outcome = "none"

\* What is in the slot can be read by this program or is refused by it; and it
\* is this program's own and whole if it is not what was there before.
SlotInv ==
  /\ slot = NoFile \/ slot \in FilesOf(AnyBlobs)
  /\ slot = kept \/ (Whole(slot) /\ slot.blob \in OwnBlobs)

FileInv == machine \in Machines /\ SaveInv /\ SlotInv

-----------------------------------------------------------------------------
\* A stream that is whole and that nobody refuses replaces every device.
LEMMA WholeApplies ==
  ASSUME StateFileAssumption, NEW b \in OwnBlobs, NEW m
  PROVE  Accepted(b) /\ Applied(b, m) = {b.body}
<1>1. /\ b.body \in [1..NumDevices -> 0..Spoilt] /\ NumDevices \in Nat
      /\ b.end = TRUE /\ b.refused = 0
  BY DEF OwnBlobs, Machines, States, Devices, StateFileAssumption
<1>2. Len(b.body) = NumDevices
  BY <1>1
<1>3. Taken(b) = NumDevices
  BY <1>1, <1>2 DEF Taken
<1>4. \A d \in Devices : d <= Taken(b)
  BY <1>1, <1>3 DEF Devices
<1>5. b.body = [d \in Devices |-> b.body[d]]
  BY <1>1 DEF Devices
<1>6. Applied(b, m) = {b.body}
  BY <1>4, <1>5 DEF Applied
<1>7. QED
  BY <1>1, <1>6 DEF Accepted

\* The rollback's stream is the machine's, so it gives the machine back.
LEMMA RollsBack ==
  ASSUME StateFileAssumption, ~DiskFills, machine \in Machines, NEW m
  PROVE  RolledBack(m) = {machine}
<1>1. Dumps(machine) = {Complete(machine)}
  BY DEF Dumps
<1>2. Complete(machine) \in OwnBlobs /\ Complete(machine).body = machine
  BY DEF Complete, OwnBlobs
<1>3. Applied(Complete(machine), m) = {machine}
  BY <1>2, WholeApplies
<1>4. QED
  BY <1>1, <1>3 DEF RolledBack

\* A load takes the slot's state, or leaves the machine as it is.
LEMMA LoadStep ==
  ASSUME StateFileAssumption, ~DiskFills, FileInv, Load
  PROVE  FileInv' /\ AllOrNothing
<1>1. /\ saving = "no" /\ slot # NoFile
      /\ UNCHANGED <<slot, tmp, blob, saving, kept>>
  BY DEF Load
<1>2. slot \in FilesOf(AnyBlobs) /\ machine \in Machines
  BY <1>1 DEF FileInv, SlotInv
<1>3. slot.blob \in AnyBlobs
  BY <1>2 DEF FilesOf
<1>4. CASE outcome' \in {"refused", "failed"} /\ machine' = machine
  BY <1>1, <1>2, <1>4 DEF FileInv, SaveInv, SlotInv, AllOrNothing
<1>5. ASSUME NEW m \in Applied(slot.blob, machine), Accepted(slot.blob),
             outcome' = "applied", machine' = m
      PROVE  FileInv' /\ AllOrNothing
  <2>1. slot.blob \in OwnBlobs
    BY <1>3, <1>5 DEF Accepted, AnyBlobs, OwnBlobs
  <2>2. machine' = slot.blob.body
    BY <1>5, <2>1, WholeApplies
  <2>3. machine' \in Machines
    BY <2>1, <2>2 DEF OwnBlobs
  <2>4. QED
    BY <1>1, <1>5, <2>2, <2>3 DEF FileInv, SaveInv, SlotInv, AllOrNothing
<1>6. ASSUME NEW m, outcome' = "failed", machine' \in RolledBack(m)
      PROVE  FileInv' /\ AllOrNothing
  <2>1. machine' = machine
    BY <1>2, <1>6, RollsBack
  <2>2. QED
    BY <1>4, <1>6, <2>1
<1>7. QED
  BY <1>4, <1>5, <1>6 DEF Load

\* A save reads the machine once and touches the slot only by its last step.
LEMMA SavingStep ==
  ASSUME StateFileAssumption, ~DiskFills, FileInv,
         Capture \/ OpenTmp \/ WritePart \/ Move \/ SaveFails
  PROVE  FileInv' /\ AllOrNothing
<1>1. machine \in Machines /\ SaveInv /\ SlotInv
  BY DEF FileInv
<1>2. machine' = machine /\ outcome' = "none"
  BY <1>1 DEF SaveInv, Capture, OpenTmp, WritePart, Move, SaveFails
<1>3. CASE Capture
  <2>1. /\ saving' = "captured" /\ blob' \in Dumps(machine)
        /\ kept' = slot /\ slot' = slot
    BY <1>3 DEF Capture
  <2>2. blob' \in OwnBlobs
    <3>1. Dumps(machine) = {Complete(machine)}
      BY DEF Dumps
    <3>2. blob' = Complete(machine)
      BY <2>1, <3>1
    <3>3. QED
      BY <1>1, <3>2 DEF Complete, OwnBlobs
  <2>3. QED
    BY <1>1, <1>2, <2>1, <2>2 DEF FileInv, SaveInv, SlotInv, AllOrNothing
<1>4. CASE OpenTmp
  <2>1. /\ saving = "captured" /\ saving' = "writing"
        /\ UNCHANGED <<slot, blob, kept>>
    BY <1>4 DEF OpenTmp
  <2>2. PICK s \in Sections : tmp' = [parts |-> 0, sections |-> s, blob |-> blob]
    BY <1>4 DEF OpenTmp
  <2>3. tmp' \in FilesOf(OwnBlobs)
    BY <1>1, <2>1, <2>2 DEF SaveInv, FilesOf
  <2>4. QED
    BY <1>1, <1>2, <2>1, <2>3 DEF FileInv, SaveInv, SlotInv, AllOrNothing
<1>5. CASE WritePart
  <2>1. saving = "writing" /\ UNCHANGED <<slot, blob, kept>>
    BY <1>5 DEF WritePart
  <2>2. tmp \in FilesOf(OwnBlobs)
    BY <1>1, <2>1 DEF SaveInv
  <2>3. CASE Whole(tmp) /\ saving' = "closed" /\ UNCHANGED tmp
    <3>1. Whole(tmp)'
      BY <2>3 DEF Whole
    <3>2. QED
      BY <1>1, <1>2, <2>1, <2>2, <2>3, <3>1
         DEF FileInv, SaveInv, SlotInv, AllOrNothing
  <2>4. CASE tmp' = [tmp EXCEPT !.parts = @ + 1] /\ UNCHANGED saving
    <3>1. tmp' \in FilesOf(OwnBlobs)
      BY <2>2, <2>4 DEF FilesOf
    <3>2. QED
      BY <1>1, <1>2, <2>1, <2>4, <3>1 DEF FileInv, SaveInv, SlotInv, AllOrNothing
  <2>5. QED
    BY <1>5, <2>3, <2>4 DEF WritePart
<1>6. CASE Move
  <2>1. saving = "closed" /\ saving' = "no" /\ slot' = tmp
    BY <1>6 DEF Move
  <2>2. tmp \in FilesOf(OwnBlobs) /\ Whole(tmp)
    BY <1>1, <2>1 DEF SaveInv
  <2>3. tmp \in FilesOf(AnyBlobs) /\ tmp.blob \in OwnBlobs
    BY <2>2 DEF FilesOf, OwnBlobs, AnyBlobs
  <2>4. SlotInv'
    BY <2>1, <2>2, <2>3 DEF SlotInv, Whole
  <2>5. QED
    BY <1>1, <1>2, <2>1, <2>4 DEF FileInv, SaveInv, AllOrNothing
<1>7. CASE SaveFails
  <2>1. saving' = "no" /\ UNCHANGED <<slot, kept>>
    BY <1>7 DEF SaveFails
  <2>2. QED
    BY <1>1, <1>2, <2>1 DEF FileInv, SaveInv, SlotInv, AllOrNothing
<1>8. QED
  BY <1>3, <1>4, <1>5, <1>6, <1>7

\* The machine's devices go from moment to moment together, and begin again
\* together; neither touches the slot.
LEMMA MachineStep ==
  ASSUME StateFileAssumption, FileInv, RunFrame \/ Crash
  PROVE  FileInv' /\ AllOrNothing
<1>1. /\ outcome' = "none" /\ saving' = "no" /\ UNCHANGED <<slot, kept>>
  BY DEF RunFrame, Crash
<1>2. NumDevices \in Nat \ {0} /\ MaxMoment \in Nat /\ 1 \in Devices
  BY DEF StateFileAssumption, Devices
<1>3. machine' \in Machines
  <2>1. CASE RunFrame
    <3>1. machine' = [d \in Devices |-> machine[1] + 1] /\ machine[1] < MaxMoment
      BY <1>2, <2>1 DEF RunFrame
    <3>2. machine[1] \in 0..(MaxMoment + 1)
      BY <1>2 DEF FileInv, Machines, States, Spoilt
    <3>3. machine[1] + 1 \in 0..Spoilt
      BY <1>2, <3>1, <3>2 DEF Spoilt
    <3>4. QED
      BY <1>2, <3>1, <3>3 DEF Machines, States
  <2>2. CASE Crash
    <3>1. machine' = [d \in Devices |-> 0] /\ 0 \in 0..Spoilt
      BY <1>2, <2>2 DEF Crash, Spoilt
    <3>2. QED
      BY <1>2, <3>1 DEF Machines, States
  <2>3. QED
    BY <2>1, <2>2
<1>4. QED
  BY <1>1, <1>3 DEF FileInv, SaveInv, SlotInv, AllOrNothing

LEMMA InitFile == ASSUME StateFileAssumption, FileInit PROVE FileInv
<1>1. NumDevices \in Nat \ {0} /\ MaxMoment \in Nat /\ 1 \in Devices /\ 0 \in 0..Spoilt
  BY DEF StateFileAssumption, Devices, Spoilt
<1>2. [d \in Devices |-> 0] \in Machines
  BY <1>1 DEF Machines, States
<1>3. slot = NoFile \/ slot \in FilesOf(AnyBlobs)
  <2>1. \A k \in Devices : Foreign(k) \in AnyBlobs
    BY <1>2 DEF Foreign, AnyBlobs
  <2>2. \A k \in Devices :
          [parts |-> 3, sections |-> <<"vm", "meta">>, blob |-> Foreign(k)]
            \in FilesOf(AnyBlobs)
    BY <2>1 DEF FilesOf, Sections
  <2>3. QED
    BY <2>2 DEF FileInit
<1>4. QED
  BY <1>2, <1>3 DEF FileInit, FileInv, SaveInv, SlotInv

LEMMA NextFile ==
  ASSUME StateFileAssumption, ~DiskFills, FileInv, [FileNext]_fileVars
  PROVE  FileInv' /\ (AllOrNothing \/ UNCHANGED fileVars)
<1>1. CASE UNCHANGED fileVars
  BY <1>1 DEF fileVars, FileInv, SaveInv, SlotInv, Whole
<1>2. CASE FileNext
  BY <1>2, LoadStep, SavingStep, MachineStep DEF FileNext
<1>3. QED
  BY <1>1, <1>2

-----------------------------------------------------------------------------
\* "A crash midway cannot leave a half-written slot where a working one used to
\* be": at every moment the slot is what it was when the last save began, or a
\* whole file with a machine of one moment in it.
THEOREM CrashesKeepAState ==
  ASSUME StateFileAssumption, ~DiskFills
  PROVE  FileSpec => []CrashKeepsAState
<1>1. FileInit => FileInv
  BY InitFile
<1>2. FileInv /\ [FileNext]_fileVars => FileInv'
  BY NextFile
<1>3. FileInv => CrashKeepsAState
  BY DEF FileInv, SlotInv, CrashKeepsAState, OwnBlobs, Machines, Accepted
<1>4. QED
  BY <1>1, <1>2, <1>3, PTL DEF FileSpec

\* A load that says it worked has given the machine the slot's state, and one
\* that did not has left it as it was, devices that took theirs included.
THEOREM LoadsAreAllOrNothing ==
  ASSUME StateFileAssumption, ~DiskFills
  PROVE  FileSpec => LoadIsAllOrNothing
<1>1. FileInit => FileInv
  BY InitFile
<1>2. FileInv /\ [FileNext]_fileVars => FileInv'
  BY NextFile
<1>3. FileInv /\ [FileNext]_fileVars => [AllOrNothing]_fileVars
  BY NextFile
<1>4. QED
  BY <1>1, <1>2, <1>3, PTL DEF FileSpec, LoadIsAllOrNothing

(* ------------------------ the CTC's counters --------------------------- *)

\* The event that a channel's flags ask for.
EventOf(ch, c) ==
  IF c.freeze \/ (IF c.byTrigger THEN ch \notin Fed ELSE ~c.start) THEN "none"
  ELSE IF c.byTrigger THEN "clock" ELSE "sysclock"

\* What a program that writes as MayWrite says leaves of the flags.
FlagsOK(c) ==
  /\ c.freeze => c.freezed
  /\ ~c.freeze => c.clocks < c.pre
  /\ c.latch /\ (c.freezed \/ c.first) => c.freeze
  /\ ~c.byTrigger /\ ~c.start => c.freezed \/ c.first
  /\ ~c.byTrigger /\ ~c.start /\ ~c.freeze => c.clocks = 0

\* The event is the one the flags ask for, and stands for the whole count.
EventOK(ch, c, left) ==
  /\ c.event = EventOf(ch, c)
  /\ c.event # "none" => c.due = left
  /\ c.event = "sysclock" => c.count * c.pre = c.clocks + c.input /\ c.input = c.due + c.passed
  /\ c.event = "clock" => c.count = c.input

CountOK(ch, c, left) == ch \notin Fed /\ c.byTrigger /\ ~c.freeze => c.count = left

ChannelOK(ch, c, left) ==
  c \in Counter /\ left \in Nat /\ FlagsOK(c) /\ EventOK(ch, c, left) /\ CountOK(ch, c, left)

CtcInv ==
  /\ Channels \in Wirings /\ writes \in Nat
  /\ counters \in [Channels -> Counter] /\ ideal \in [Channels -> Nat]
  /\ \A ch \in Channels : ChannelOK(ch, counters[ch], ideal[ch])

LEMMA Constants ==
  ASSUME CtcCounterAssumption
  PROVE  Full \in Nat \ {0} /\ Pres \subseteq Nat \ {0} /\ SmallPre \in Pres /\ LargePre \in Pres
BY DEF CtcCounterAssumption, Pres

\* What a count and a prescaler leave of a period.
LEMMA Leaves ==
  ASSUME NEW k \in Nat \ {0}, NEW p \in Nat \ {0}, NEW r \in Nat, r < p
  PROVE  k * p \in Nat /\ k * p - r \in Nat
<1>1. k * p >= p
  <2>1. k - 1 \in Nat /\ (k - 1) * p \in Nat /\ k * p = (k - 1) * p + p
    OBVIOUS
  <2> QED BY <2>1
<1> QED BY <1>1

\* Division with a remainder.
LEMMA Divided ==
  ASSUME NEW n \in Nat, NEW p \in Nat \ {0}
  PROVE  /\ n \div p \in Nat /\ n % p \in Nat /\ n % p < p
         /\ n = (n \div p) * p + (n % p)
OBVIOUS

LEMMA FewerThan ==
  ASSUME NEW n \in Nat, NEW p \in Nat \ {0}, NEW k \in Nat, n < k * p
  PROVE  n \div p < k
<1> DEFINE q == n \div p
<1>1. q \in Nat /\ q * p <= n
  BY Divided
<1>2. CASE q >= k
  <2>1. (q - k) * p >= 0 /\ q * p = (q - k) * p + k * p
    BY <1>1, <1>2
  <2> QED BY <2>1, <1>1
<1> QED BY <1>1, <1>2

LEMMA Exactly ==
  ASSUME NEW k \in Nat, NEW p \in Nat \ {0}
  PROVE  (k * p) \div p = k /\ (k * p) % p = 0
<1> DEFINE q == (k * p) \div p  r == (k * p) % p
<1>1. k * p \in Nat
  OBVIOUS
<1>2. q \in Nat /\ r \in Nat /\ r < p /\ k * p = q * p + r
  BY <1>1, Divided
<1>3. CASE q > k
  <2>1. q * p = (q - k) * p + k * p /\ (q - k) * p > 0
    BY <1>2, <1>3
  <2> QED BY <2>1, <1>2
<1>4. CASE q < k
  <2>1. k * p = (k - q) * p + q * p /\ (k - q) * p >= p
    BY <1>2, <1>4, Leaves
  <2> QED BY <2>1, <1>2
<1>5. q = k => r = 0
  BY <1>2
<1> QED BY <1>2, <1>3, <1>4, <1>5

(* ----------------------- what the helpers do to a channel --------------- *)
SameSetting(d, c) ==
  /\ d.constant = c.constant /\ d.byTrigger = c.byTrigger /\ d.pre = c.pre /\ d.freeze = c.freeze
  /\ d.start = c.start /\ d.latch = c.latch /\ d.first = c.first
SameEvent(d, c) ==
  d.event = c.event /\ d.input = c.input /\ d.due = c.due /\ d.passed = c.passed

LEMMA NoEventOK ==
  ASSUME NEW c \in Counter
  PROVE  /\ NoEvent(c) \in Counter /\ NoEvent(c).event = "none" /\ SameSetting(NoEvent(c), c)
         /\ NoEvent(c).count = c.count /\ NoEvent(c).clocks = c.clocks
         /\ NoEvent(c).freezed = c.freezed
BY DEF NoEvent, Counter, SameSetting

\* A channel without an event gets the one that its flags ask for.
LEMMA Registers ==
  ASSUME CtcCounterAssumption, NEW ch, NEW c \in Counter, NEW left \in Nat,
         FlagsOK(c), CountOK(ch, c, left), c.event = "none" \/ c.freeze,
         EventOf(ch, c) = "clock" => left = 2 * c.count,
         EventOf(ch, c) = "sysclock" => left = c.count * c.pre - c.clocks
  PROVE  ChannelOK(ch, Updated(ch, c), left)
<1> DEFINE u == Updated(ch, c)
<1>1. c.count \in Nat \ {0} /\ c.pre \in Nat \ {0} /\ c.clocks \in Nat
  BY Constants DEF Counter
<1>0. u = Updated(ch, c)
  OBVIOUS
<1> HIDE DEF u
<1>2. CASE EventOf(ch, c) = "none"
  <2>1. u = NoEvent(c)
    BY <1>0, <1>2 DEF Updated, EventOf
  <2> QED
    BY <1>0, <2>1, NoEventOK, <1>2 DEF SameSetting, ChannelOK, FlagsOK, EventOK, CountOK, EventOf
<1>3. CASE EventOf(ch, c) = "clock"
  <2>1. u = [c EXCEPT !.event = "clock", !.input = c.count, !.passed = 0, !.due = 2 * c.count]
    BY <1>0, <1>3 DEF Updated, EventOf, Counter
  <2>2. u \in Counter
    <3>1. c.count \in Nat /\ 2 * c.count \in Nat
      BY <1>1
    <3> QED BY <2>1, <3>1 DEF Counter
  <2> QED
    BY <1>0, <2>1, <2>2, <1>3 DEF ChannelOK, FlagsOK, EventOK, CountOK, EventOf, Counter
<1>4. CASE EventOf(ch, c) = "sysclock"
  <2>1. u = [c EXCEPT !.event = "sysclock", !.input = c.count * c.pre - c.clocks, !.passed = 0,
                      !.due = c.count * c.pre - c.clocks]
    BY <1>0, <1>4 DEF Updated, EventOf, Counter
  <2>2. c.count * c.pre - c.clocks \in Nat /\ c.count * c.pre \in Nat
    BY <1>1, <1>4, Leaves DEF FlagsOK, EventOf
  <2>3. u \in Counter
    BY <2>1, <2>2 DEF Counter
  <2>4. c.count * c.pre = c.clocks + (c.count * c.pre - c.clocks)
    BY <2>2, <1>1
  <2>5. EventOK(ch, u, left)
    BY <2>1, <2>2, <2>4, <1>4 DEF EventOK, EventOf, Counter
  <2> QED
    BY <1>0, <2>1, <2>3, <2>5, <1>4 DEF ChannelOK, FlagsOK, CountOK, EventOf, Counter
<1> QED
  BY <1>0, <1>2, <1>3, <1>4 DEF EventOf

\* A channel that has its event keeps it.
LEMMA Stays ==
  ASSUME NEW ch, NEW c \in Counter, NEW left \in Nat, ChannelOK(ch, c, left)
  PROVE  ChannelOK(ch, Updated(ch, c), left)
<1>1. CASE EventOf(ch, c) = "none"
  <2>1. Updated(ch, c) = NoEvent(c)
    BY <1>1 DEF Updated, EventOf
  <2> QED
    BY <2>1, NoEventOK, <1>1 DEF SameSetting, ChannelOK, FlagsOK, EventOK, CountOK, EventOf
<1>2. CASE EventOf(ch, c) # "none"
  <2>1. Updated(ch, c) = c
    BY <1>2 DEF Updated, EventOf, ChannelOK, EventOK
  <2> QED
    BY <2>1
<1> QED
  BY <1>1, <1>2

\* Fewer than are left: none is met, and so many are gone.
LEMMA CountsDown ==
  ASSUME CtcCounterAssumption, NEW c \in Counter, NEW n \in Nat, n < c.count,
         NEW d, d = CountedBy(c, n)
  PROVE  /\ d \in Counter /\ Zeros(c, n) = 0 /\ SameSetting(d, c) /\ SameEvent(d, c)
         /\ d.count = c.count - n /\ ~d.freezed /\ d.clocks = c.clocks
<1>1. c.count \in 1..Full /\ c.constant \in 1..Full /\ Full \in Nat
  BY Constants DEF Counter
<1>2. Zeros(c, n) = 0
  BY DEF Zeros
<1>3. c.count + Zeros(c, n) * c.constant - n = c.count - n /\ c.count - n \in 1..Full
  BY <1>1, <1>2
<1>4. d = [c EXCEPT !.count = c.count - n, !.freezed = FALSE]
  BY <1>3 DEF CountedBy
<1> QED
  BY <1>2, <1>3, <1>4 DEF Counter, SameSetting, SameEvent

\* As many as are left: one zero, and the constant is the count.
LEMMA CountsOut ==
  ASSUME CtcCounterAssumption, NEW c \in Counter, NEW d, d = CountedBy(c, c.count)
  PROVE  /\ d \in Counter /\ Zeros(c, c.count) = 1 /\ SameSetting(d, c) /\ SameEvent(d, c)
         /\ d.count = c.constant /\ ~d.freezed /\ d.clocks = c.clocks
<1>1. c.count \in Nat \ {0} /\ c.constant \in Nat \ {0} /\ c.constant \in 1..Full
  BY Constants DEF Counter
<1>2. (c.count - c.count) \div c.constant = 0
  BY <1>1
<1>3. Zeros(c, c.count) = 1
  BY <1>1, <1>2 DEF Zeros
<1>4. c.count + Zeros(c, c.count) * c.constant - c.count = c.constant
  BY <1>1, <1>3
<1>5. d = [c EXCEPT !.count = c.constant, !.freezed = FALSE]
  BY <1>4 DEF CountedBy
<1> QED
  BY <1>1, <1>3, <1>5 DEF Counter, SameSetting, SameEvent

(* ------------------------------ the steps -------------------------------- *)
LEMMA FireOK ==
  ASSUME CtcCounterAssumption, NEW ch, NEW c, NEW left, ChannelOK(ch, c, left),
         c.event # "none", c.due = 0,
         NEW counted, NEW n,
         n = (IF c.event = "clock" THEN c.input ELSE (c.clocks + c.input) \div c.pre),
         counted = (IF c.event = "clock" THEN CountedBy(c, n) ELSE Prescaled(c, c.input))
  PROVE  /\ ChannelOK(ch, Updated(ch, NoEvent(counted)), Takes(ch, c, c.constant))
         /\ Zeros(c, n) = 1
<1> DEFINE e == NoEvent(counted)
<1>1. /\ c \in Counter /\ c.constant \in Nat \ {0} /\ c.pre \in Nat \ {0} /\ c.count \in Nat \ {0}
      /\ c.input \in Nat /\ c.clocks \in Nat /\ ~c.freeze
  BY Constants DEF ChannelOK, EventOK, EventOf, Counter
<1>2. CASE c.event = "clock"
  <2>1. c.byTrigger /\ ch \in Fed /\ n = c.count /\ counted = CountedBy(c, c.count)
    BY <1>2 DEF ChannelOK, EventOK, EventOf
  <2>2. /\ counted \in Counter /\ Zeros(c, n) = 1 /\ SameSetting(counted, c)
        /\ counted.count = c.constant /\ ~counted.freezed /\ counted.clocks = c.clocks
    BY <1>1, <2>1, CountsOut
  <2>3. /\ e \in Counter /\ e.event = "none" /\ e.count = c.constant /\ e.clocks = c.clocks
        /\ e.byTrigger /\ e.pre = c.pre /\ ~e.freeze /\ ~e.freezed /\ e.start = c.start
        /\ e.latch = c.latch /\ e.first = c.first
    BY <1>1, <2>1, <2>2, NoEventOK DEF SameSetting
  <2>4. Takes(ch, c, c.constant) = 2 * c.constant /\ 2 * c.constant \in Nat
    BY <2>1, <1>1 DEF Takes
  <2>5. FlagsOK(e) /\ CountOK(ch, e, 2 * c.constant)
    BY <2>3, <2>1, <1>1 DEF ChannelOK, FlagsOK, CountOK
  <2>6. EventOf(ch, e) = "clock"
    BY <2>3, <2>1 DEF EventOf
  <2> HIDE DEF e
  <2>7. ChannelOK(ch, Updated(ch, e), 2 * c.constant)
    BY <2>3, <2>4, <2>5, <2>6, Registers
  <2> QED
    BY <2>2, <2>4, <2>7 DEF e
<1>3. CASE c.event = "sysclock"
  <2>1. ~c.byTrigger /\ c.start /\ c.clocks + c.input = c.count * c.pre
    BY <1>3, <1>1 DEF ChannelOK, EventOK, EventOf
  <2>2. n = c.count /\ (c.clocks + c.input) % c.pre = 0
    BY <1>1, <1>3, <2>1, Exactly
  <2>3. counted = [CountedBy(c, c.count) EXCEPT !.clocks = 0]
    BY <1>3, <2>2 DEF Prescaled
  <2>4. /\ counted \in Counter /\ Zeros(c, n) = 1 /\ SameSetting(counted, c)
        /\ counted.count = c.constant /\ ~counted.freezed /\ counted.clocks = 0
    <3> DEFINE g == CountedBy(c, c.count)
    <3>1. /\ g \in Counter /\ Zeros(c, n) = 1 /\ SameSetting(g, c)
          /\ g.count = c.constant /\ ~g.freezed
      BY <1>1, <2>2, CountsOut
    <3>2. counted = [g EXCEPT !.clocks = 0]
      BY <2>3
    <3> HIDE DEF g
    <3> QED BY <3>1, <3>2 DEF Counter, SameSetting
  <2>5. /\ e \in Counter /\ e.event = "none" /\ e.count = c.constant /\ e.clocks = 0
        /\ ~e.byTrigger /\ e.pre = c.pre /\ ~e.freeze /\ ~e.freezed /\ e.start
        /\ e.latch = c.latch /\ e.first = c.first
    BY <1>1, <2>1, <2>4, NoEventOK DEF SameSetting
  <2>6. /\ Takes(ch, c, c.constant) = c.constant * c.pre /\ c.constant * c.pre \in Nat
        /\ c.constant * c.pre - 0 = c.constant * c.pre
    BY <2>1, <1>1 DEF Takes
  <2>7. FlagsOK(e) /\ CountOK(ch, e, c.constant * c.pre)
    BY <2>5, <1>1 DEF ChannelOK, FlagsOK, CountOK
  <2>8. EventOf(ch, e) = "sysclock"
    BY <2>5 DEF EventOf
  <2> HIDE DEF e
  <2>9. ChannelOK(ch, Updated(ch, e), c.constant * c.pre)
    BY <2>5, <2>6, <2>7, <2>8, Registers
  <2> QED
    BY <2>4, <2>6, <2>9 DEF e
<1> QED
  BY <1>1, <1>2, <1>3 DEF Counter

\* A zero of channel 0 is one trigger of channel 3.
LEMMA TriggerOK ==
  ASSUME CtcCounterAssumption, NEW c, NEW left, ChannelOK(3, c, left)
  PROVE  ChannelOK(3, Updated(3, Triggered(c, 1)), AfterTrigger(3, c, left))
<1>1. /\ c \in Counter /\ left \in Nat /\ c.constant \in Nat \ {0} /\ c.pre \in Nat \ {0}
      /\ c.count \in Nat \ {0} /\ c.clocks \in Nat /\ 3 \notin Fed
  BY Constants DEF ChannelOK, Counter, Fed
<1>2. CASE c.byTrigger /\ ~c.freeze
  <2> DEFINE d == CountedBy(c, 1)
  <2>1. Triggered(c, 1) = d /\ c.count = left /\ c.event = "none"
    BY <1>1, <1>2 DEF Triggered, ChannelOK, CountOK, EventOK, EventOf
  <2>2. /\ d \in Counter /\ SameSetting(d, c) /\ SameEvent(d, c) /\ ~d.freezed /\ d.clocks = c.clocks
        /\ d.count = IF left = 1 THEN c.constant ELSE left - 1
    <3>1. CASE left = 1
      BY <1>1, <2>1, <3>1, CountsOut
    <3>2. CASE left # 1
      BY <1>1, <2>1, <3>2, CountsDown
    <3> QED BY <3>1, <3>2
  <2>3. AfterTrigger(3, c, left) = IF left = 1 THEN c.constant ELSE left - 1
    BY <1>1, <1>2 DEF AfterTrigger, Takes
  <2>4. AfterTrigger(3, c, left) \in Nat
    BY <1>1, <2>1, <2>3
  <2> HIDE DEF d
  <2>5. d.count = AfterTrigger(3, c, left) /\ d.event = "none" /\ EventOf(3, d) = "none"
    BY <1>1, <1>2, <2>1, <2>2, <2>3 DEF EventOf, SameSetting, SameEvent
  <2>6. FlagsOK(d)
    BY <1>1, <1>2, <2>2 DEF ChannelOK, FlagsOK, SameSetting
  <2> QED
    BY <2>1, <2>2, <2>4, <2>5, <2>6, Registers DEF CountOK
<1>3. CASE c.byTrigger /\ c.freeze
  <2>1. Triggered(c, 1) = c /\ AfterTrigger(3, c, left) = left
    BY <1>3 DEF Triggered, AfterTrigger
  <2> QED BY <2>1, <1>1, Stays
<1>4. CASE ~c.byTrigger /\ (c.start \/ c.freeze)
  <2> DEFINE d == [c EXCEPT !.start = TRUE]
  <2>1. Triggered(c, 1) = d /\ AfterTrigger(3, c, left) = left
    BY <1>4 DEF Triggered, AfterTrigger
  <2>2. d \in Counter /\ ChannelOK(3, d, left)
    BY <1>1, <1>4 DEF ChannelOK, FlagsOK, EventOK, EventOf, CountOK, Counter
  <2> HIDE DEF d
  <2> QED BY <2>1, <2>2, <1>1, Stays
<1>5. CASE ~c.byTrigger /\ ~c.start /\ ~c.freeze
  <2> DEFINE d == [c EXCEPT !.start = TRUE]
  <2>1. Triggered(c, 1) = d /\ AfterTrigger(3, c, left) = c.count * c.pre
    BY <1>5 DEF Triggered, AfterTrigger, Takes
  <2>2. c.clocks = 0 /\ c.event = "none"
    BY <1>5 DEF ChannelOK, FlagsOK, EventOK, EventOf
  <2>3. c.count * c.pre \in Nat /\ c.count * c.pre - 0 = c.count * c.pre
    BY <1>1
  <2>4. /\ d \in Counter /\ FlagsOK(d) /\ CountOK(3, d, c.count * c.pre) /\ d.event = "none"
        /\ EventOf(3, d) = "sysclock" /\ d.count = c.count /\ d.pre = c.pre /\ d.clocks = 0
    BY <1>1, <1>5, <2>2 DEF ChannelOK, FlagsOK, EventOf, CountOK, Counter
  <2> HIDE DEF d
  <2> QED BY <2>1, <2>3, <2>4, Registers
<1> QED
  BY <1>1, <1>2, <1>3, <1>4, <1>5 DEF Counter

LEMMA Passed ==
  ASSUME NEW g \in Counter, NEW n, g.input - n \in Nat,
         NEW d, d = [g EXCEPT !.input = g.input - n, !.passed = 0]
  PROVE  d \in Counter
BY DEF Counter

\* A read counts what has passed, and the event stays due when it was.
LEMMA ReadOK ==
  ASSUME CtcCounterAssumption, NEW ch, NEW c, NEW left, ChannelOK(ch, c, left),
         c.event # "none", NEW n,
         n = (IF c.event = "clock" THEN c.passed \div 2 ELSE c.passed), n > 0, n < c.input,
         NEW d,
         d = [(IF c.event = "clock" THEN CountedBy(c, n) ELSE Prescaled(c, n))
               EXCEPT !.input = @ - n, !.passed = 0]
  PROVE  ChannelOK(ch, d, left)
<1>1. /\ c \in Counter /\ left \in Nat /\ c.pre \in Nat \ {0} /\ c.count \in Nat \ {0}
      /\ c.clocks \in Nat /\ c.input \in Nat /\ c.passed \in Nat /\ c.due \in Nat /\ ~c.freeze
  BY Constants DEF ChannelOK, EventOK, EventOf, Counter
<1>2. n \in Nat
  BY <1>1
<1>3. CASE c.event = "clock"
  <2>1. c.count = c.input /\ c.byTrigger /\ ch \in Fed
    BY <1>3 DEF ChannelOK, EventOK, EventOf
  <2> DEFINE g == CountedBy(c, n)
  <2>2. /\ g \in Counter /\ SameSetting(g, c) /\ SameEvent(g, c)
        /\ g.count = c.count - n /\ ~g.freezed /\ g.clocks = c.clocks
    BY <1>1, <1>2, <2>1, CountsDown
  <2>3. d = [g EXCEPT !.input = g.input - n, !.passed = 0]
    BY <1>3
  <2> HIDE DEF g
  <2>4. g.input - n \in Nat
    BY <1>1, <1>2, <2>2 DEF SameEvent
  <2>5. /\ d \in Counter /\ SameSetting(d, c) /\ d.count = c.count - n /\ ~d.freezed
        /\ d.clocks = c.clocks /\ d.input = c.input - n /\ d.event = c.event /\ d.due = c.due
    <3>1. d \in Counter
      BY <2>2, <2>3, <2>4, Passed
    <3>2. /\ SameSetting(d, g) /\ d.count = g.count /\ d.freezed = g.freezed /\ d.clocks = g.clocks
          /\ d.input = g.input - n /\ d.event = g.event /\ d.due = g.due
      BY <2>2, <2>3 DEF Counter, SameSetting
    <3> QED BY <3>1, <3>2, <2>2 DEF SameSetting, SameEvent
  <2> QED
    BY <1>1, <1>3, <2>1, <2>5 DEF ChannelOK, FlagsOK, EventOK, EventOf, CountOK, SameSetting
<1>4. CASE c.event = "sysclock"
  <2> DEFINE total == c.clocks + n  gone == total \div c.pre  rest == total % c.pre
  <2>1. /\ ~c.byTrigger /\ c.start /\ n = c.passed
        /\ c.count * c.pre = c.clocks + c.input /\ c.input = c.due + c.passed
    BY <1>4, <1>1 DEF ChannelOK, EventOK, EventOf
  <2>2. total \in Nat /\ total < c.count * c.pre /\ c.count * c.pre \in Nat
    BY <1>1, <1>2, <2>1
  <2> HIDE DEF total
  <2>3. /\ gone \in Nat /\ rest \in Nat /\ rest < c.pre /\ total = gone * c.pre + rest
        /\ gone < c.count
    BY <1>1, <2>2, Divided, FewerThan
  <2> DEFINE g == CountedBy(c, gone)
  <2>4. d = [[g EXCEPT !.clocks = rest] EXCEPT !.input = @ - n, !.passed = 0]
    BY <1>4 DEF Prescaled, total
  <2> HIDE DEF gone, rest
  <2>5. /\ g \in Counter /\ SameSetting(g, c) /\ SameEvent(g, c)
        /\ g.count = c.count - gone /\ ~g.freezed
    BY <1>1, <2>3, CountsDown
  <2> HIDE DEF g
  <2>6. (c.count - gone) * c.pre = rest + (c.input - n)
    <3>1. \A p \in Nat, k \in Nat, m \in Nat : (k - m) * p = k * p - m * p
      OBVIOUS
    <3>2. (c.count - gone) * c.pre = c.count * c.pre - gone * c.pre
      BY <3>1, <1>1, <2>3
    <3>3. gone * c.pre \in Nat
      BY <1>1, <2>3
    <3>4. total = c.clocks + n
      BY DEF total
    <3> HIDE <3>1
    <3>5. \A a, b \in Nat : a = c.clocks + c.input /\ total = b + rest =>
                            a - b = rest + (c.input - n)
      BY <3>4, <2>2, <2>3, <1>1, <1>2
    <3> QED BY <3>2, <3>3, <3>5, <2>1, <2>2, <2>3
  <2>7. c.input - n \in Nat /\ c.input - n = c.due + 0
    BY <1>1, <1>2, <2>1
  <2>8. d \in Counter
    <3>1. g.input - n \in Nat /\ rest \in Nat
      BY <2>3, <2>5, <2>7 DEF SameEvent
    <3> DEFINE h == [g EXCEPT !.clocks = rest]
    <3>2. h \in Counter /\ h.input = g.input
      BY <3>1, <2>5 DEF Counter
    <3>3. d = [h EXCEPT !.input = h.input - n, !.passed = 0]
      BY <2>4, <3>2
    <3> HIDE DEF h
    <3> QED BY <3>1, <3>2, <3>3, Passed
  <2>9. /\ d.count = c.count - gone /\ d.clocks = rest /\ d.input = c.input - n /\ d.passed = 0
        /\ d.due = c.due /\ d.event = c.event /\ SameSetting(d, c) /\ ~d.freezed
    <3>1. /\ SameSetting(d, g) /\ d.count = g.count /\ d.freezed = g.freezed /\ d.clocks = rest
          /\ d.input = g.input - n /\ d.passed = 0 /\ d.event = g.event /\ d.due = g.due
      BY <2>4, <2>5 DEF Counter, SameSetting
    <3> QED BY <3>1, <2>5 DEF SameSetting, SameEvent
  <2>10. EventOK(ch, d, left)
    BY <1>4, <2>1, <2>6, <2>7, <2>9 DEF ChannelOK, EventOK, EventOf, SameSetting
  <2>11. FlagsOK(d) /\ CountOK(ch, d, left)
    BY <1>1, <2>1, <2>3, <2>9 DEF ChannelOK, FlagsOK, CountOK, SameSetting
  <2> QED
    BY <1>1, <2>8, <2>10, <2>11 DEF ChannelOK
<1> QED
  BY <1>1, <1>3, <1>4 DEF Counter

\* A program that writes as MayWrite says stops a channel, or leaves it as it runs.
LEMMA ControlOK ==
  ASSUME CtcCounterAssumption, ~Careless, NEW ch, NEW c, NEW left, ChannelOK(ch, c, left),
         NEW w \in Words, ~c.latch, MayWrite(c, w),
         NEW d, d = [c EXCEPT !.pre = w.pre, !.byTrigger = w.byTrigger, !.latch = w.loads,
                              !.freeze = w.resets, !.freezed = @ \/ w.resets,
                              !.start = ch \in Fed \/ ~w.waits]
  PROVE  ChannelOK(ch, Updated(ch, d), left)
<1>1. c \in Counter /\ left \in Nat
  BY DEF ChannelOK
<1>2. d \in Counter
  BY <1>1 DEF Counter, Words
<1>3. /\ d.freeze = w.resets /\ d.freezed = (c.freezed \/ w.resets) /\ d.clocks = c.clocks
      /\ d.latch = w.loads /\ d.first = c.first /\ d.count = c.count /\ d.event = c.event
      /\ d.pre = w.pre /\ d.byTrigger = w.byTrigger /\ d.start = (ch \in Fed \/ ~w.waits)
      /\ d.due = c.due /\ d.input = c.input /\ d.passed = c.passed
  BY <1>1 DEF Counter
<1>4. CASE w.resets
  <2>1. FlagsOK(d) /\ CountOK(ch, d, left) /\ EventOf(ch, d) = "none" /\ d.freeze
    BY <1>3, <1>4 DEF FlagsOK, CountOK, EventOf
  <2> QED BY <1>1, <1>2, <2>1, Registers
<1>5. CASE ~w.resets
  <2>1. /\ ~c.first /\ ~c.freezed /\ ~w.waits /\ w.byTrigger = c.byTrigger /\ w.pre = c.pre
        /\ ~c.freeze /\ (c.byTrigger \/ c.start)
    BY <1>5 DEF MayWrite, ChannelOK, FlagsOK
  <2>2. FlagsOK(d)
    BY <1>1, <1>3, <1>5, <2>1 DEF ChannelOK, FlagsOK
  <2>3. EventOf(ch, d) = EventOf(ch, c)
    BY <1>3, <1>5, <2>1 DEF EventOf
  <2>4. ChannelOK(ch, d, left)
    BY <1>1, <1>2, <1>3, <1>5, <2>1, <2>2, <2>3 DEF ChannelOK, EventOK, CountOK
  <2> QED BY <2>4, <1>1, <1>2, Stays
<1> QED BY <1>4, <1>5

\* A constant is loaded into a channel that was stopped, or kept for the next zero.
LEMMA ConstantOK ==
  ASSUME CtcCounterAssumption, NEW ch, NEW c, NEW left, ChannelOK(ch, c, left),
         NEW k \in 1..Full, c.latch,
         NEW d, d = [c EXCEPT !.constant = k, !.latch = FALSE],
         NEW l, l = [d EXCEPT !.count = k, !.clocks = 0, !.freeze = FALSE, !.first = FALSE]
  PROVE  IF d.freezed \/ d.first THEN ChannelOK(ch, Updated(ch, l), Takes(ch, d, k))
         ELSE ChannelOK(ch, d, left)
<1>1. c \in Counter /\ left \in Nat /\ c.pre \in Nat \ {0} /\ k \in Nat
  BY Constants DEF ChannelOK, Counter
<1>2. /\ d \in Counter /\ d.freezed = c.freezed /\ d.first = c.first /\ d.pre = c.pre
      /\ d.byTrigger = c.byTrigger /\ d.start = c.start /\ d.event = c.event /\ d.freeze = c.freeze
      /\ ~d.latch /\ d.count = c.count /\ d.clocks = c.clocks /\ SameEvent(d, c)
  BY <1>1 DEF Counter, SameEvent
<1>3. CASE d.freezed \/ d.first
  <2>1. c.freeze /\ c.event = "none"
    BY <1>2, <1>3 DEF ChannelOK, FlagsOK, EventOK, EventOf
  <2>2. /\ l \in Counter /\ l.count = k /\ l.clocks = 0 /\ ~l.freeze /\ ~l.first /\ ~l.latch
        /\ l.event = "none" /\ l.pre = c.pre /\ l.byTrigger = c.byTrigger /\ l.start = c.start
        /\ l.freezed
    <3>1. c.freezed
      BY <2>1 DEF ChannelOK, FlagsOK
    <3> QED BY <1>1, <1>2, <2>1, <3>1 DEF Counter
  <2>3. /\ Takes(ch, d, k) \in Nat /\ (~c.byTrigger => Takes(ch, d, k) = k * c.pre - 0)
        /\ (c.byTrigger => Takes(ch, d, k) = IF ch \in Fed THEN 2 * k ELSE k)
    BY <1>1, <1>2 DEF Takes
  <2>4. FlagsOK(l) /\ CountOK(ch, l, Takes(ch, d, k))
    BY <1>1, <2>2, <2>3 DEF FlagsOK, CountOK
  <2>5. /\ EventOf(ch, l) = "clock" => Takes(ch, d, k) = 2 * l.count
        /\ EventOf(ch, l) = "sysclock" => Takes(ch, d, k) = l.count * l.pre - l.clocks
    BY <2>2, <2>3 DEF EventOf
  <2> QED BY <1>3, <2>2, <2>3, <2>4, <2>5, Registers
<1>4. CASE ~(d.freezed \/ d.first)
  <2>1. ChannelOK(ch, d, left)
    BY <1>1, <1>2, <1>4 DEF ChannelOK, FlagsOK, EventOK, EventOf, CountOK, SameEvent
  <2> QED BY <1>4, <2>1
<1> QED BY <1>3, <1>4

LEMMA Ticked ==
  ASSUME NEW c \in Counter, c.due > 0
  PROVE  [c EXCEPT !.due = @ - 1, !.passed = @ + 1] \in Counter
<1>1. c.due - 1 \in Nat /\ c.passed + 1 \in Nat
  BY DEF Counter
<1> QED BY <1>1 DEF Counter

LEMMA TickOK ==
  ASSUME NEW ch, NEW c, NEW left, ChannelOK(ch, c, left), c.event # "none" => c.due > 0,
         NEW d, d = (IF c.event # "none" THEN [c EXCEPT !.due = @ - 1, !.passed = @ + 1] ELSE c),
         NEW less, less = (IF c.event # "none" /\ left > 0 THEN left - 1 ELSE left)
  PROVE  ChannelOK(ch, d, less)
<1>1. CASE c.event = "none"
  BY <1>1
<1>2. CASE c.event # "none"
  <2>1. /\ c \in Counter /\ left \in Nat /\ c.due = left /\ left > 0 /\ less = left - 1
        /\ c.passed \in Nat /\ c.due \in Nat
    BY <1>2 DEF ChannelOK, EventOK, Counter
  <2>2. d \in Counter
    BY <1>2, <2>1, Ticked
  <2>3. /\ SameSetting(d, c) /\ d.count = c.count /\ d.clocks = c.clocks /\ d.event = c.event
        /\ d.freezed = c.freezed /\ d.input = c.input /\ d.due = c.due - 1 /\ d.passed = c.passed + 1
    BY <1>2, <2>1 DEF Counter, SameSetting
  <2>4. d.due + d.passed = c.due + c.passed /\ d.due = less /\ less \in Nat
    BY <2>1, <2>3
  <2>5. FlagsOK(d) /\ EventOK(ch, d, less)
    BY <1>2, <2>3, <2>4 DEF ChannelOK, FlagsOK, EventOK, EventOf, SameSetting
  <2>6. CountOK(ch, d, less)
    BY <1>2, <2>3 DEF ChannelOK, EventOK, EventOf, CountOK, SameSetting
  <2> QED BY <2>2, <2>4, <2>5, <2>6 DEF ChannelOK
<1> QED BY <1>1, <1>2

LEMMA ResetOK ==
  ASSUME CtcCounterAssumption, NEW ch, NEW left \in Nat
  PROVE  AtReset \in Counter /\ ChannelOK(ch, AtReset, left)
<1>1. AtReset \in Counter
  BY Constants DEF AtReset, Counter
<1>2. 0 < LargePre
  BY Constants DEF Pres
<1> QED
  BY <1>1, <1>2 DEF AtReset, ChannelOK, FlagsOK, EventOK, EventOf, CountOK

LEMMA InitCtc == ASSUME CtcCounterAssumption, CtcInit PROVE CtcInv
<1>1. PICK wired \in Wirings :
         counters = [ch \in wired |-> AtReset] /\ ideal = [ch \in wired |-> 0]
  BY DEF CtcInit
<1>2. Channels = wired
  BY <1>1 DEF Channels
<1> QED
  BY <1>1, <1>2, ResetOK DEF CtcInv, CtcInit

\* A step that changes one channel, and may change its real counter.
LEMMA OneChannel ==
  ASSUME CtcInv, NEW ch \in Channels, NEW d, NEW left, ChannelOK(ch, d, left), writes' \in Nat,
         counters' = [counters EXCEPT ![ch] = d], ideal' = [ideal EXCEPT ![ch] = left]
  PROVE  CtcInv'
<1>1. Channels' = Channels
  BY DEF Channels, CtcInv
<1>2. d \in Counter /\ left \in Nat
  BY DEF ChannelOK
<1>3. counters' \in [Channels -> Counter] /\ ideal' \in [Channels -> Nat]
  BY <1>2 DEF CtcInv
<1>4. ASSUME NEW i \in Channels PROVE ChannelOK(i, counters'[i], ideal'[i])
  <2>1. ChannelOK(i, counters[i], ideal[i])
    BY DEF CtcInv
  <2> QED BY <2>1 DEF CtcInv
<1> QED BY <1>1, <1>3, <1>4 DEF CtcInv

LEMMA CtcStep ==
  ASSUME CtcCounterAssumption, ~Careless, CtcInv, [CtcNext]_ctcVars
  PROVE  CtcInv'
<1>1. ASSUME NEW ch \in Channels
      PROVE  /\ ChannelOK(ch, counters[ch], ideal[ch])
             /\ counters[ch] \in Counter /\ ideal[ch] \in Nat
  BY <1>1 DEF CtcInv
<1>2. CASE UNCHANGED ctcVars
  BY <1>2 DEF ctcVars, CtcInv, Channels
<1>3. CASE Tick
  <2>1. \A ch \in Channels : counters[ch].event # "none" => counters[ch].due > 0
    BY <1>1, <1>3 DEF Tick, Runs, Counter
  <2>2. ASSUME NEW ch \in Channels
        PROVE  /\ counters'[ch] = (IF counters[ch].event # "none"
                    THEN [counters[ch] EXCEPT !.due = @ - 1, !.passed = @ + 1] ELSE counters[ch])
               /\ ideal'[ch] = (IF counters[ch].event # "none" /\ ideal[ch] > 0
                                THEN ideal[ch] - 1 ELSE ideal[ch])
    BY <1>3 DEF Tick, Runs
  <2>3. ASSUME NEW ch \in Channels PROVE ChannelOK(ch, counters'[ch], ideal'[ch])
    BY <1>1, <2>1, <2>2, TickOK
  <2>4. Channels' = Channels /\ DOMAIN counters' = Channels /\ DOMAIN ideal' = Channels
    BY <1>3 DEF Tick, Channels
  <2>5. counters' \in [Channels -> Counter] /\ ideal' \in [Channels -> Nat]
    <3>1. \A ch \in Channels : counters'[ch] \in Counter /\ ideal'[ch] \in Nat
      BY <2>3 DEF ChannelOK
    <3>2. /\ counters' = [ch \in Channels |-> counters'[ch]]
          /\ ideal' = [ch \in Channels |-> ideal'[ch]]
      BY <1>3 DEF Tick
    <3> QED BY <3>1, <3>2
  <2> QED BY <1>3, <2>3, <2>4, <2>5 DEF Tick, CtcInv
<1>4. CASE CtcReset
  <2>1. Channels' = Channels /\ \A ch \in Channels : counters'[ch] = AtReset
    BY <1>4 DEF CtcReset, Channels
  <2>2. counters' \in [Channels -> Counter]
    BY <1>4, ResetOK DEF CtcReset
  <2> QED BY <1>1, <1>4, <2>1, <2>2, ResetOK DEF CtcReset, CtcInv
<1>5. ASSUME NEW ch \in Channels, Read(ch) PROVE CtcInv'
  <2> DEFINE c == counters[ch]
             n == IF c.event = "clock" THEN c.passed \div 2 ELSE c.passed
             d == [(IF c.event = "clock" THEN CountedBy(c, n) ELSE Prescaled(c, n))
                    EXCEPT !.input = @ - n, !.passed = 0]
  <2>1. /\ c.event # "none" /\ n > 0 /\ n < c.input
        /\ counters' = [counters EXCEPT ![ch] = d] /\ ideal' = ideal /\ writes' = writes
    BY <1>5 DEF Read, Runs
  <2>2. ChannelOK(ch, d, ideal[ch])
    BY <1>1, <2>1, ReadOK
  <2>3. ideal' = [ideal EXCEPT ![ch] = ideal[ch]]
    BY <2>1 DEF CtcInv
  <2> HIDE DEF d, c, n
  <2> QED BY <2>1, <2>2, <2>3, OneChannel DEF CtcInv
<1>6. ASSUME NEW ch \in Channels, NEW w \in Words, WriteControl(ch, w) PROVE CtcInv'
  <2> DEFINE c == counters[ch]
             d == [c EXCEPT !.pre = w.pre, !.byTrigger = w.byTrigger, !.latch = w.loads,
                            !.freeze = w.resets, !.freezed = @ \/ w.resets,
                            !.start = ch \in Fed \/ ~w.waits]
  <2>1. /\ ~c.latch /\ MayWrite(c, w) /\ counters' = [counters EXCEPT ![ch] = Updated(ch, d)]
        /\ ideal' = ideal /\ writes' = writes + 1
    BY <1>6 DEF WriteControl
  <2>2. ChannelOK(ch, Updated(ch, d), ideal[ch])
    BY <1>1, <2>1, ControlOK
  <2>3. ideal' = [ideal EXCEPT ![ch] = ideal[ch]] /\ writes' \in Nat
    BY <2>1 DEF CtcInv
  <2> HIDE DEF d, c
  <2> QED BY <2>1, <2>2, <2>3, OneChannel
<1>7. ASSUME NEW ch \in Channels, NEW k \in 1..Full, WriteConstant(ch, k) PROVE CtcInv'
  <2> DEFINE c == counters[ch]
             d == [c EXCEPT !.constant = k, !.latch = FALSE]
             l == [d EXCEPT !.count = k, !.clocks = 0, !.freeze = FALSE, !.first = FALSE]
  <2>1. /\ c.latch /\ writes' = writes
        /\ IF d.freezed \/ d.first
           THEN /\ counters' = [counters EXCEPT ![ch] = Updated(ch, l)]
                /\ ideal' = [ideal EXCEPT ![ch] = Takes(ch, d, k)]
           ELSE counters' = [counters EXCEPT ![ch] = d] /\ ideal' = ideal
    BY <1>7 DEF WriteConstant
  <2>2. IF d.freezed \/ d.first THEN ChannelOK(ch, Updated(ch, l), Takes(ch, d, k))
        ELSE ChannelOK(ch, d, ideal[ch])
    BY <1>1, <2>1, ConstantOK
  <2>3. ideal = [ideal EXCEPT ![ch] = ideal[ch]] /\ writes' \in Nat
    BY <2>1 DEF CtcInv
  <2> HIDE DEF d, c, l
  <2> QED BY <2>1, <2>2, <2>3, OneChannel
<1>8. ASSUME NEW ch \in Channels, Fire(ch) PROVE CtcInv'
  <2> DEFINE c == counters[ch]
             n == IF c.event = "clock" THEN c.input ELSE (c.clocks + c.input) \div c.pre
             counted == IF c.event = "clock" THEN CountedBy(c, n) ELSE Prescaled(c, c.input)
             d == Updated(ch, NoEvent(counted))
             one == [counters EXCEPT ![ch] = d]
  <2>1. /\ c.event # "none" /\ c.due = 0 /\ writes' = writes
        /\ counters' = WithTriggers(one, IF ch = 0 THEN Zeros(c, n) ELSE 0)
        /\ ideal' = [i \in Channels |->
             IF i = ch THEN Takes(ch, c, c.constant)
             ELSE IF ch = 0 /\ i = 3 THEN AfterTrigger(3, counters[3], ideal[3]) ELSE ideal[i]]
    BY <1>8 DEF Fire, Runs
  <2>2. ChannelOK(ch, d, Takes(ch, c, c.constant)) /\ Zeros(c, n) = 1
    BY <1>1, <2>1, FireOK
  <2> HIDE DEF c, n, counted, d
  <2>3. d \in Counter /\ one \in [Channels -> Counter] /\ one[ch] = d
        /\ \A i \in Channels \ {ch} : one[i] = counters[i]
    BY <2>2 DEF ChannelOK, CtcInv
  <2>4. CASE ch # 0
    <3>1. counters' = one
      BY <2>1, <2>4 DEF WithTriggers
    <3>2. ideal' = [ideal EXCEPT ![ch] = Takes(ch, c, c.constant)]
      BY <2>1, <2>4 DEF CtcInv
    <3> QED BY <2>1, <2>2, <3>1, <3>2, OneChannel DEF CtcInv
  <2>5. CASE ch = 0
    <3> DEFINE t == Updated(3, Triggered(counters[3], 1))
               after == AfterTrigger(3, counters[3], ideal[3])
    <3>1. 3 \in Channels
      BY <2>5 DEF CtcInv, CtcCounterAssumption
    <3>2. ChannelOK(3, t, after) /\ t \in Counter /\ after \in Nat
      BY <1>1, <3>1, TriggerOK DEF ChannelOK
    <3>3. counters' = [one EXCEPT ![3] = t]
      BY <2>1, <2>2, <2>3, <2>5, <3>1 DEF WithTriggers
    <3> HIDE DEF t, after, one
    <3>4. /\ Channels' = Channels /\ counters' \in [Channels -> Counter]
          /\ ideal' \in [Channels -> Nat]
      BY <2>1, <2>2, <2>3, <2>5, <3>2, <3>3 DEF Channels, ChannelOK, CtcInv, after
    <3>5. ASSUME NEW i \in Channels PROVE ChannelOK(i, counters'[i], ideal'[i])
      BY <1>1, <2>1, <2>2, <2>3, <2>5, <3>2, <3>3 DEF after
    <3> QED BY <2>1, <3>4, <3>5 DEF CtcInv
  <2> QED BY <2>4, <2>5
<1> QED
  BY <1>2, <1>3, <1>4, <1>5, <1>6, <1>7, <1>8 DEF CtcNext

\* A channel's event is due when a real counter would be at zero, and finds
\* exactly the count to use up (z80ctc.cpp, update_event and event_callback).
THEOREM CountersTickOnTime ==
  ASSUME CtcCounterAssumption, ~Careless
  PROVE  CtcSpec => []TicksOnTime
<1>1. ASSUME CtcInv PROVE TicksOnTime
  <2> SUFFICES ASSUME NEW ch \in Channels
               PROVE  LET c == counters[ch] IN
                      /\ Runs(ch) => c.due = ideal[ch]
                      /\ c.event = "sysclock" => c.count * c.pre - c.clocks = c.due + c.passed
                      /\ c.event = "clock" => c.count = c.input
                      /\ ch \notin Fed /\ c.byTrigger /\ ~c.freeze => c.count = ideal[ch]
    BY DEF TicksOnTime
  <2> DEFINE c == counters[ch]
  <2>1. ChannelOK(ch, c, ideal[ch])
    BY <1>1 DEF CtcInv
  <2>2. c.count * c.pre \in Nat /\ c.clocks \in Nat /\ c.due \in Nat /\ c.passed \in Nat
    BY <2>1, Constants DEF ChannelOK, Counter
  <2> HIDE DEF c
  <2>3. c.event = "sysclock" => c.count * c.pre - c.clocks = c.due + c.passed
    BY <2>1, <2>2 DEF ChannelOK, EventOK
  <2> QED
    BY <2>1, <2>3 DEF c, ChannelOK, EventOK, CountOK, Runs
<1>2. CtcInit => CtcInv
  BY InitCtc
<1>3. CtcInv /\ [CtcNext]_ctcVars => CtcInv'
  BY CtcStep
<1> QED
  BY <1>1, <1>2, <1>3, PTL DEF CtcSpec

(* ------------------------------ the sound ------------------------------ *)
\* The devices that asked for realtime are counted, and are devices.
NeedsInv ==
  /\ realtimeDevs \subseteq SoundDevices /\ keptDevs \subseteq SoundDevices /\ strictly \in BOOLEAN
  /\ needMix = Cardinality(realtimeDevs)

\* A buffer's samples, and those of a chunk, are numbered from where they begin.
TmpInv ==
  /\ soundTmp \in Seq(Nat) /\ takenAway \in Nat
  /\ Len(soundTmp) <= 2 * SoundSamples
  /\ takenAway + Len(soundTmp) = mixed
  /\ \A i \in 1..Len(soundTmp) : soundTmp[i] \in {0, takenAway + i}
ChunkInv ==
  /\ lastChunk \in Seq(Nat)
  /\ \/ Len(lastChunk) = 0
     \/ /\ Len(lastChunk) = SoundSamples /\ takenAway >= SoundSamples
        /\ \A i \in 1..SoundSamples : lastChunk[i] \in {0, takenAway - SoundSamples + i}

\* What is mixed and what is due make up the ticks and the samples that came early:
\* one for each time the rendering became realtime, but for one that is still to come.
Owed == IF Realtime /\ mixCounter = 0 THEN 1 ELSE 0
Early == mixed + mixCounter - 1 - mixTicks
TimeInv ==
  /\ mixCounter \in 0..MixLimit /\ mixTicks \in 0..MaxMixTicks /\ mixCalls \in 0..MaxMixCalls
  /\ mixed \in Nat /\ switches \in Nat /\ stalled \in BOOLEAN
  /\ ~stalled => /\ Early >= 0
                 /\ Early + Owed <= switches

MixInv == NeedsInv /\ TmpInv /\ ChunkInv /\ TimeInv

LEMMA DevicesCount ==
  ASSUME SoundMixAssumption, NEW S \in SUBSET SoundDevices
  PROVE  IsFiniteSet(S) /\ Cardinality(S) \in Nat
<1>1. IsFiniteSet(SoundDevices) BY DEF SoundMixAssumption
<1>2. IsFiniteSet(S) BY <1>1, FS_Subset, Zenon
<1> QED BY <1>2, FS_CardinalityType, Zenon

LEMMA MixInitInv == ASSUME SoundMixAssumption, MixInit PROVE MixInv
<1>1. NeedsInv BY FS_EmptySet, Zenon DEF NeedsInv, MixInit
<1>2. soundTmp \in Seq(Nat) /\ Len(soundTmp) = 0 /\ lastChunk \in Seq(Nat) /\ Len(lastChunk) = 0
  BY EmptySeq, Zenon DEF MixInit
<1>3. TmpInv BY <1>2, SMT DEF TmpInv, MixInit, SoundMixAssumption
<1>4. ChunkInv BY <1>2, Zenon DEF ChunkInv
<1>5. TimeInv
  <2>1. mixed = 0 /\ mixCounter = 1 /\ mixTicks = 0 /\ mixCalls = 0 /\ switches = 0 /\ stalled = FALSE
    BY Zenon DEF MixInit
  <2>2. Early = 0 BY <2>1, SMT DEF Early
  <2>3. Owed = 0 BY <2>1, SMT DEF Owed
  <2>4. Early >= 0 /\ Early + 0 <= switches BY <2>1, <2>2, SMT
  <2>5. mixCounter \in 0..MixLimit /\ mixTicks \in 0..MaxMixTicks /\ mixCalls \in 0..MaxMixCalls
    BY <2>1, SMT DEF SoundMixAssumption
  <2>6. mixed \in Nat /\ switches \in Nat BY <2>1, SMT
  <2>7. stalled \in BOOLEAN BY <2>1, Zenon
  <2> QED BY <2>6, <2>7, <2>3, <2>4, <2>5, Zenon DEF TimeInv
<1> QED BY <1>1, <1>3, <1>4, <1>5, Zenon DEF MixInv

\* What mix_sound appends goes on where the buffer ended.
LEMMA MixedInOrder ==
  ASSUME TmpInv, SoundMixAssumption, NEW samples \in Nat, samples <= TmpRoom, Mix(samples), UNCHANGED takenAway
  PROVE  TmpInv'
<1> DEFINE more == [i \in 1..samples |-> mixed + i]
<1>1. mixed \in Nat /\ Len(soundTmp) \in Nat
  <2>1. Len(soundTmp) \in Nat BY LenProperties, Zenon DEF TmpInv
  <2> QED BY <2>1, SMT DEF TmpInv
<1>2. more \in Seq(Nat) /\ Len(more) = samples
  <2>1. \A i \in 1..samples : mixed + i \in Nat BY <1>1, SMT
  <2>2. more \in [1..samples -> Nat] BY <2>1, Zenon
  <2> HIDE DEF more
  <2> QED BY <2>2, IsSeq, Zenon
<1>3. \A i \in 1..samples : more[i] = mixed + i BY Zenon
<1>4. soundTmp' = soundTmp \o more /\ mixed' = mixed + samples BY Zenon DEF Mix
<1> HIDE DEF more
<1>5. soundTmp \in Seq(Nat) BY Zenon DEF TmpInv
<1>6. /\ soundTmp' \in Seq(Nat) /\ Len(soundTmp') = Len(soundTmp) + samples
      /\ \A i \in 1..Len(soundTmp) + samples :
           soundTmp'[i] = IF i <= Len(soundTmp) THEN soundTmp[i] ELSE more[i - Len(soundTmp)]
  BY <1>2, <1>4, <1>5, ConcatProperties, Zenon
<1>7. ASSUME NEW i \in 1..Len(soundTmp') PROVE soundTmp'[i] \in {0, takenAway + i}
  <2>1. i \in 1..Len(soundTmp) + samples BY <1>6, Zenon
  <2>2. CASE i <= Len(soundTmp)
    <3>1. i \in 1..Len(soundTmp) BY <1>1, <2>1, <2>2, SMT
    <3> QED BY <1>6, <2>1, <2>2, <3>1, Zenon DEF TmpInv
  <2>3. CASE ~(i <= Len(soundTmp))
    <3>1. i - Len(soundTmp) \in 1..samples BY <1>1, <2>1, <2>3, SMT
    <3>2. soundTmp'[i] = mixed + (i - Len(soundTmp)) BY <1>3, <1>6, <2>1, <2>3, <3>1, Zenon
    <3>3. takenAway \in Nat /\ takenAway + Len(soundTmp) = mixed BY Zenon DEF TmpInv
    <3>4. takenAway + i = mixed + (i - Len(soundTmp)) BY <1>1, <2>1, <3>3, SMT
    <3> QED BY <3>2, <3>4, Zenon
  <2> QED BY <2>2, <2>3, Zenon
<1>8. Len(soundTmp') <= 2 * SoundSamples BY <1>1, <1>6, SMT DEF TmpRoom, SoundMixAssumption
<1>9. takenAway' + Len(soundTmp') = mixed'
  <2>1. takenAway \in Nat /\ takenAway + Len(soundTmp) = mixed BY Zenon DEF TmpInv
  <2>2. Len(soundTmp') = Len(soundTmp) + samples /\ takenAway' = takenAway /\ mixed' = mixed + samples
    BY <1>4, <1>6, Zenon
  <2> QED BY <1>1, <2>1, <2>2, SMT
<1> QED BY <1>6, <1>7, <1>8, <1>9, Zenon DEF TmpInv

LEMMA RoomIsNat == ASSUME TmpInv, SoundMixAssumption PROVE TmpRoom \in Nat /\ Len(soundTmp) \in Nat
<1>1. Len(soundTmp) \in Nat BY LenProperties, Zenon DEF TmpInv
<1> QED BY <1>1, SMT DEF TmpInv, TmpRoom, SoundMixAssumption

LEMMA EarlyIsInt == ASSUME TimeInv, SoundMixAssumption PROVE Early \in Int /\ switches \in Nat
BY SMT DEF TimeInv, Early, SoundMixAssumption

LEMMA TicksKeepTime == ASSUME SoundMixAssumption, MixInv, MixTick PROVE MixInv'
<1> USE DEF MixInv
<1>1. UNCHANGED <<takenAway, lastChunk, switches, needVars, mixCalls>> /\ mixTicks' = mixTicks + 1 /\ mixTicks < MaxMixTicks
  BY Zenon DEF MixTick
<1>2. NeedsInv' BY <1>1, Zenon DEF NeedsInv, needVars
<1>3. ChunkInv' BY <1>1, Zenon DEF ChunkInv
<1>4. TmpRoom \in Nat /\ Len(soundTmp) \in Nat BY RoomIsNat, Zenon
<1>5. Realtime' = Realtime BY <1>1, Zenon DEF Realtime, needVars
<1>6. mixTicks' \in 0..MaxMixTicks BY <1>1, SMT DEF TimeInv, SoundMixAssumption
<1>7. CASE TmpRoom = 0
  <2>1. UNCHANGED <<soundTmp, mixed, mixCounter>> /\ stalled' = TRUE BY <1>7, Zenon DEF MixTick
  <2>2. TmpInv' BY <1>1, <2>1, Zenon DEF TmpInv
  <2>3. TimeInv' BY <1>1, <1>6, <2>1, Zenon DEF TimeInv
  <2> QED BY <1>2, <1>3, <2>2, <2>3, Zenon
<1>8. CASE TmpRoom # 0 /\ Realtime
  <2> DEFINE due == IF mixCounter < 1 THEN 1 ELSE mixCounter
  <2>1. /\ Mix(Smaller(due, TmpRoom)) /\ mixCounter' = 1 /\ stalled' = (stalled \/ due > TmpRoom)
    BY <1>8, Zenon DEF MixTick
  <2>2. due \in Nat /\ due > 0 /\ Smaller(due, TmpRoom) \in Nat /\ Smaller(due, TmpRoom) <= TmpRoom
    BY <1>4, SMT DEF TimeInv, Smaller, SoundMixAssumption
  <2>3. TmpInv' BY <1>1, <2>1, <2>2, MixedInOrder, Zenon
  <2>4. mixed' = mixed + Smaller(due, TmpRoom) BY <2>1, Zenon DEF Mix
  <2>5. TimeInv'
    <3>1. mixCounter' \in 0..MixLimit /\ mixed' \in Nat /\ stalled' \in BOOLEAN
      BY <2>1, <2>2, <2>4, SMT DEF TimeInv, SoundMixAssumption
    <3>2. ASSUME ~stalled' PROVE Early' >= 0 /\ Early' <= switches
      <4>1. ~stalled /\ ~(due > TmpRoom) BY <2>1, <3>2, Zenon
      <4>2. mixed' = mixed + due BY <1>4, <2>2, <2>4, <4>1, SMT DEF Smaller
      <4>3. CASE mixCounter = 0
        <5>1. due = 1 BY <4>3, SMT
        <5>2. Early >= 0 /\ Early + 1 <= switches BY <1>8, <4>1, <4>3, Zenon DEF TimeInv, Owed
        <5>3. Early' = mixed + 1 + 1 - 1 - (mixTicks + 1) BY <1>1, <2>1, <4>2, <5>1, SMT DEF Early
        <5>4. Early = mixed - 1 - mixTicks BY <4>3, SMT DEF Early, TimeInv
        <5>5. mixed \in Nat /\ mixTicks \in Int BY SMT DEF TimeInv
        <5>6. Early' = Early + 1 /\ Early \in Int BY <5>3, <5>4, <5>5, SMT
        <5>7. switches \in Nat BY SMT DEF TimeInv
        <5> HIDE DEF due
        <5> QED BY <5>2, <5>6, <5>7, SMT
      <4>4. CASE mixCounter # 0
        <5>1. due = mixCounter BY <4>4, SMT DEF TimeInv, SoundMixAssumption
        <5>2. Early >= 0 /\ Early <= switches
          <6>1. Owed = 0 BY <4>4, Zenon DEF Owed
          <6>2. Early >= 0 /\ Early + 0 <= switches BY <4>1, <6>1, Zenon DEF TimeInv
          <6> QED BY <6>2, EarlyIsInt, SMT
        <5>3. Early' = mixed + mixCounter + 1 - 1 - (mixTicks + 1) BY <1>1, <2>1, <4>2, <5>1, SMT DEF Early
        <5> QED BY <5>2, <5>3, SMT DEF TimeInv, Early, SoundMixAssumption
      <4> QED BY <4>3, <4>4, Zenon
    <3>3. switches' = switches /\ mixCalls' = mixCalls /\ mixCounter' # 0 BY <1>1, <2>1, SMT
    <3>4. Owed' = 0 BY <3>3, Zenon DEF Owed
    <3>5. ~stalled' => /\ Early' >= 0
                       /\ Early' + Owed' <= switches'
      <4> SUFFICES ASSUME ~stalled' PROVE Early' >= 0 /\ Early' + Owed' <= switches' OBVIOUS
      <4>1. Early' >= 0 /\ Early' <= switches BY <3>2, Zenon
      <4>2. Early' \in Int BY <1>6, <2>1, <3>1, SMT DEF Early
      <4> QED BY <3>3, <3>4, <4>1, <4>2, SMT
    <3> QED BY <1>6, <3>1, <3>3, <3>5, Zenon DEF TimeInv
  <2> QED BY <1>2, <1>3, <2>3, <2>5, Zenon
<1>9. CASE TmpRoom # 0 /\ ~Realtime
  <2> DEFINE due == IF mixCounter >= MixLimit THEN Smaller(mixCounter, TmpRoom) ELSE 0
  <2>1. /\ Mix(due) /\ mixCounter' = mixCounter - due + 1
        /\ stalled' = (stalled \/ (mixCounter >= MixLimit /\ mixCounter > TmpRoom))
    BY <1>9, Zenon DEF MixTick
  <2>2. due \in Nat /\ due <= TmpRoom /\ due <= mixCounter /\ (mixCounter >= MixLimit => due >= 1)
    BY <1>4, <1>9, SMT DEF TimeInv, Smaller, SoundMixAssumption
  <2>3. TmpInv' BY <1>1, <2>1, <2>2, MixedInOrder, Zenon
  <2>4. mixed' = mixed + due BY <2>1, Zenon DEF Mix
  <2> HIDE DEF due
  <2>5. TimeInv'
    <3>1. mixCounter' \in 0..MixLimit /\ mixed' \in Nat /\ mixCounter' # 0
      BY <2>1, <2>2, <2>4, SMT DEF TimeInv, SoundMixAssumption
    <3>2. stalled' \in BOOLEAN BY <2>1, Zenon
    <3>3. Early' = Early BY <1>1, <2>1, <2>2, <2>4, SMT DEF Early, TimeInv, SoundMixAssumption
    <3>4. ~stalled' => ~stalled BY <2>1, Zenon
    <3>5. ~stalled => Early >= 0 /\ Early + 0 <= switches
      <4>1. Owed = 0 BY <1>9, Zenon DEF Owed
      <4> QED BY <4>1, Zenon DEF TimeInv
    <3>6. Owed' = 0 BY <3>1, Zenon DEF Owed
    <3>7. switches' = switches /\ mixCalls' = mixCalls BY <1>1, Zenon
    <3>8. ~stalled' => /\ Early' >= 0
                       /\ Early' + Owed' <= switches'
      <4> SUFFICES ASSUME ~stalled' PROVE Early' >= 0 /\ Early' + Owed' <= switches' OBVIOUS
      <4>1. Early >= 0 /\ Early + 0 <= switches BY <3>4, <3>5, Zenon
      <4> QED BY <4>1, <3>3, <3>6, <3>7, Zenon
    <3> QED BY <1>6, <3>1, <3>2, <3>7, <3>8, Zenon DEF TimeInv
  <2> QED BY <1>2, <1>3, <2>3, <2>5, Zenon
<1> QED BY <1>7, <1>8, <1>9, Zenon

LEMMA TouchesKeepTime == ASSUME SoundMixAssumption, MixInv, TouchSound PROVE MixInv'
<1> USE DEF MixInv
<1> DEFINE due == Smaller(mixCounter, TmpRoom)
<1>1. /\ UNCHANGED <<mixTicks, takenAway, lastChunk, switches, stalled, needVars>> /\ ~Realtime
      /\ due > 0 /\ Mix(due) /\ mixCounter' = mixCounter - due /\ mixCalls' \in 0..MaxMixCalls
  <2>1. mixCalls' \in 0..MaxMixCalls BY SMT DEF TouchSound, MixCall, TimeInv, SoundMixAssumption
  <2> QED BY <2>1, Zenon DEF TouchSound
<1>2. NeedsInv' /\ ChunkInv' BY <1>1, Zenon DEF NeedsInv, ChunkInv, needVars
<1>3. due \in Nat /\ due <= TmpRoom /\ due <= mixCounter
  <2>1. TmpRoom \in Nat BY RoomIsNat, Zenon
  <2>2. mixCounter \in Nat BY SMT DEF TimeInv, SoundMixAssumption
  <2> QED BY <2>1, <2>2, SMT DEF Smaller
<1>4. TmpInv' BY <1>1, <1>3, MixedInOrder, Zenon
<1>5. mixed' = mixed + due BY <1>1, Zenon DEF Mix
<1> HIDE DEF due
<1>6. mixCounter' \in 0..MixLimit /\ mixed' \in Nat BY <1>1, <1>3, <1>5, SMT DEF TimeInv, SoundMixAssumption
<1>7. Early' = Early BY <1>1, <1>3, <1>5, SMT DEF Early, TimeInv, SoundMixAssumption
<1>8. Owed' = 0 /\ Owed = 0
  <2>1. ~Realtime' BY <1>1, Zenon DEF Realtime, needVars
  <2> QED BY <1>1, <2>1, Zenon DEF Owed
<1>9. TimeInv' BY <1>1, <1>6, <1>7, <1>8, Zenon DEF TimeInv
<1> QED BY <1>2, <1>4, <1>9, Zenon

LEMMA Owing ==
  \A e \in Int, o \in 0..1, n \in 0..1, s \in Nat :
     e + o <= s => e + n <= s + 1 /\ ((n = 1 => o = 1) => e + n <= s)
OBVIOUS

\* A call of the devices or of the user that changes whether the rendering is
\* realtime.  What it becomes from now on is one sample early, if none was due.
LEMMA SwitchesKeepTime ==
  ASSUME SoundMixAssumption, TimeInv, mixCalls' \in 0..MaxMixCalls, NEW on \in BOOLEAN,
         UNCHANGED <<mixCounter, mixTicks, mixed, stalled>>,
         ~on => (Realtime' => Realtime),
         switches' = IF on /\ ~Realtime THEN switches + 1 ELSE switches
  PROVE  TimeInv'
<1>1. Early' = Early BY Zenon DEF Early
<1>2. Early \in Int /\ switches \in Nat BY EarlyIsInt, Zenon
<1>3. switches' \in Nat BY <1>2, SMT
<1>4. ASSUME ~stalled' PROVE Early >= 0 /\ Early + Owed' <= switches'
  <2>1. Early >= 0 /\ Early + Owed <= switches BY <1>4, Zenon DEF TimeInv
  <2>2. Owed \in 0..1 /\ Owed' \in 0..1 BY SMT DEF Owed
  <2>3. CASE on /\ ~Realtime
    <3>1. switches' = switches + 1 BY <2>3, Zenon
    <3> QED BY <1>2, <2>1, <2>2, <3>1, Owing, Zenon
  <2>4. CASE ~(on /\ ~Realtime)
    <3>1. switches' = switches BY <2>4, Zenon
    <3>2. Owed' = 1 => Owed = 1
      <4>1. Realtime' => Realtime BY <2>4, Zenon
      <4> QED BY <4>1, SMT DEF Owed
    <3> QED BY <1>2, <2>1, <2>2, <3>1, <3>2, Owing, Zenon
  <2> QED BY <2>3, <2>4, Zenon
<1> QED BY <1>1, <1>3, <1>4, Zenon DEF TimeInv

LEMMA CallCounts == ASSUME SoundMixAssumption, TimeInv, MixCall PROVE mixCalls' \in 0..MaxMixCalls
BY SMT DEF MixCall, TimeInv, SoundMixAssumption

LEMMA RealtimesKeepTime ==
  ASSUME SoundMixAssumption, MixInv, NEW d \in SoundDevices, NEW on \in BOOLEAN, SetRealtimeRender(d, on)
  PROVE  MixInv'
<1> USE DEF MixInv
<1>1. /\ UNCHANGED <<soundTmp, mixCounter, strictly, mixTicks, mixed, takenAway, lastChunk, stalled, keptDevs>>
      /\ (d \in realtimeDevs) # on
      /\ realtimeDevs' = IF on THEN realtimeDevs \union {d} ELSE realtimeDevs \ {d}
      /\ needMix' = IF on THEN needMix + 1 ELSE needMix - 1
      /\ switches' = IF on /\ ~Realtime THEN switches + 1 ELSE switches
      /\ mixCalls' \in 0..MaxMixCalls
  BY CallCounts, Zenon DEF SetRealtimeRender
<1>2. IsFiniteSet(realtimeDevs) /\ needMix \in Nat BY DevicesCount, Zenon DEF NeedsInv
<1>3. needMix' = Cardinality(realtimeDevs') /\ realtimeDevs' \subseteq SoundDevices
  <2>1. CASE on
    <3>1. realtimeDevs' = realtimeDevs \union {d} /\ needMix' = needMix + 1 /\ d \notin realtimeDevs BY <1>1, <2>1, Zenon
    <3> QED BY <1>2, <3>1, FS_AddElement, Zenon DEF NeedsInv
  <2>2. CASE ~on
    <3>1. realtimeDevs' = realtimeDevs \ {d} /\ needMix' = needMix - 1 BY <1>1, <2>2, Zenon
    <3>2. d \in realtimeDevs BY <1>1, <2>2, SMT
    <3> QED BY <1>2, <3>1, <3>2, FS_RemoveElement, Zenon DEF NeedsInv
  <2> QED BY <2>1, <2>2, Zenon
<1>4. NeedsInv' BY <1>1, <1>3, Zenon DEF NeedsInv
<1>5. TmpInv' /\ ChunkInv' BY <1>1, Zenon DEF TmpInv, ChunkInv
<1>6. ~on => (Realtime' => Realtime)
  <2> SUFFICES ASSUME ~on PROVE needMix' > 0 => needMix > 0 BY <1>1, Zenon DEF Realtime
  <2>1. needMix' = needMix - 1 BY <1>1, Zenon
  <2> QED BY <1>2, <2>1, SMT
<1>7. TimeInv' BY <1>1, <1>6, SwitchesKeepTime, Zenon
<1> QED BY <1>4, <1>5, <1>7, Zenon

LEMMA StrictKeepsTime ==
  ASSUME SoundMixAssumption, MixInv, NEW on \in BOOLEAN, SetStrictRendering(on)
  PROVE  MixInv'
<1> USE DEF MixInv
<1>1. /\ UNCHANGED <<soundTmp, mixCounter, realtimeDevs, needMix, mixTicks, mixed, takenAway, lastChunk, stalled, keptDevs>>
      /\ strictly' = on
      /\ switches' = IF on /\ ~Realtime THEN switches + 1 ELSE switches
      /\ mixCalls' \in 0..MaxMixCalls
  BY CallCounts, Zenon DEF SetStrictRendering
<1>2. NeedsInv' BY <1>1, Zenon DEF NeedsInv
<1>3. TmpInv' /\ ChunkInv' BY <1>1, Zenon DEF TmpInv, ChunkInv
<1>4. ~on => (Realtime' => Realtime) BY <1>1, Zenon DEF Realtime
<1>5. TimeInv' BY <1>1, <1>4, SwitchesKeepTime, Zenon
<1> QED BY <1>2, <1>3, <1>5, Zenon

LEMMA ChunksKeepTime == ASSUME SoundMixAssumption, MixInv, CreateSound PROVE MixInv'
<1> USE DEF MixInv
<1>1. /\ UNCHANGED <<mixCounter, mixTicks, mixed, switches, stalled, needVars>>
      /\ Len(soundTmp) >= SoundSamples /\ takenAway' = takenAway + SoundSamples
      /\ lastChunk' = SubSeq(soundTmp, 1, SoundSamples)
      /\ soundTmp' = SubSeq(soundTmp, SoundSamples + 1, Len(soundTmp))
      /\ mixCalls' \in 0..MaxMixCalls
  BY CallCounts, Zenon DEF CreateSound
<1>2. NeedsInv' BY <1>1, Zenon DEF NeedsInv, needVars
<1>3. TimeInv'
  <2>1. Early' = Early /\ Owed' = Owed BY <1>1, Zenon DEF Early, Owed, Realtime, needVars
  <2> QED BY <1>1, <2>1, Zenon DEF TimeInv
<1>4. /\ Len(soundTmp) \in Nat /\ SoundSamples \in Nat \ {0} /\ SoundSamples \in 0..Len(soundTmp)
      /\ soundTmp \in Seq(Nat) /\ takenAway \in Nat
  <2>1. Len(soundTmp) \in Nat BY RoomIsNat, Zenon
  <2> QED BY <1>1, <2>1, SMT DEF SoundMixAssumption, TmpInv
<1> DEFINE left == Len(soundTmp) - SoundSamples
<1>5. left \in Nat BY <1>4, SMT
<1>6. \A i \in 1..Len(soundTmp) : soundTmp[i] \in Nat BY <1>4, ElementOfSeq, Zenon
<1>7. /\ soundTmp' \in Seq(Nat) /\ Len(soundTmp') = left
      /\ \A i \in 1..left : soundTmp'[i] = soundTmp[SoundSamples + i]
  <2>1. soundTmp' = [i \in 1..(Len(soundTmp) - SoundSamples) |-> soundTmp[SoundSamples + i]] BY <1>1, <1>4, Ends, SMT
  <2>2. \A i \in 1..left : SoundSamples + i \in 1..Len(soundTmp) BY <1>4, SMT
  <2>3. soundTmp' \in [1..left -> Nat] BY <1>6, <2>1, <2>2, Zenon
  <2> HIDE DEF left
  <2> QED BY <1>5, <2>1, <2>3, IsSeq, Zenon
<1>8. /\ lastChunk' \in Seq(Nat) /\ Len(lastChunk') = SoundSamples
      /\ \A i \in 1..SoundSamples : lastChunk'[i] = soundTmp[i]
  <2>1. lastChunk' = [i \in 1..SoundSamples |-> soundTmp[i]] BY <1>1, <1>4, Ends, Zenon
  <2>2. \A i \in 1..SoundSamples : i \in 1..Len(soundTmp) BY <1>4, SMT
  <2>3. lastChunk' \in [1..SoundSamples -> Nat] BY <1>6, <2>1, <2>2, Zenon
  <2>4. SoundSamples \in Nat BY <1>4, Zenon
  <2> QED BY <2>1, <2>3, <2>4, IsSeq, Zenon
<1>9. TmpInv'
  <2>1. takenAway' \in Nat /\ Len(soundTmp') <= 2 * SoundSamples BY <1>1, <1>4, <1>7, SMT DEF TmpInv
  <2>2. takenAway' + Len(soundTmp') = mixed'
    <3>1. takenAway + Len(soundTmp) = mixed BY Zenon DEF TmpInv
    <3>2. Len(soundTmp') = Len(soundTmp) - SoundSamples BY <1>7, Zenon
    <3>3. takenAway' + Len(soundTmp') = (takenAway + SoundSamples) + (Len(soundTmp) - SoundSamples)
      BY <1>1, <3>2, Zenon
    <3>4. \A a, s, l \in Int : (a + s) + (l - s) = a + l BY SMT
    <3>5. takenAway \in Int /\ SoundSamples \in Int /\ Len(soundTmp) \in Int BY <1>4, SMT
    <3>6. (takenAway + SoundSamples) + (Len(soundTmp) - SoundSamples) = takenAway + Len(soundTmp)
      BY <3>4, <3>5, Zenon
    <3> QED BY <1>1, <3>1, <3>3, <3>6, Zenon
  <2>3. ASSUME NEW i \in 1..Len(soundTmp') PROVE soundTmp'[i] \in {0, takenAway' + i}
    <3>1. i \in 1..left /\ SoundSamples + i \in 1..Len(soundTmp) BY <1>4, <1>7, SMT
    <3>2. soundTmp'[i] \in {0, takenAway + (SoundSamples + i)} BY <1>7, <3>1, Zenon DEF TmpInv
    <3>3. takenAway + (SoundSamples + i) = takenAway' + i BY <1>1, <1>4, <3>1, SMT
    <3> QED BY <3>2, <3>3, Zenon
  <2> QED BY <1>7, <2>1, <2>2, <2>3, Zenon DEF TmpInv
<1>10. ChunkInv'
  <2>1. takenAway' >= SoundSamples BY <1>1, <1>4, SMT
  <2>2. ASSUME NEW i \in 1..SoundSamples PROVE lastChunk'[i] \in {0, takenAway' - SoundSamples + i}
    <3>1. i \in 1..Len(soundTmp) BY <1>4, SMT
    <3>2. lastChunk'[i] \in {0, takenAway + i} BY <1>8, <3>1, Zenon DEF TmpInv
    <3>3. takenAway + i = takenAway' - SoundSamples + i BY <1>1, <1>4, SMT
    <3> QED BY <3>2, <3>3, Zenon
  <2> QED BY <1>8, <2>1, <2>2, Zenon DEF ChunkInv
<1> QED BY <1>2, <1>3, <1>9, <1>10, Zenon

LEMMA ResetsKeepTime == ASSUME SoundMixAssumption, MixInv, ResetSound PROVE MixInv'
<1> USE DEF MixInv
<1>1. /\ UNCHANGED <<mixCounter, mixTicks, mixed, takenAway, lastChunk, switches, stalled, needVars>>
      /\ soundTmp' = [i \in 1..Len(soundTmp) |-> 0]
      /\ mixCalls' \in 0..MaxMixCalls
  BY CallCounts, Zenon DEF ResetSound
<1>2. NeedsInv' /\ ChunkInv' BY <1>1, Zenon DEF NeedsInv, ChunkInv, needVars
<1>3. TimeInv'
  <2>1. Early' = Early /\ Owed' = Owed BY <1>1, Zenon DEF Early, Owed, Realtime, needVars
  <2> QED BY <1>1, <2>1, Zenon DEF TimeInv
<1>4. soundTmp' \in Seq(Nat) /\ Len(soundTmp') = Len(soundTmp)
  <2>1. Len(soundTmp) \in Nat BY RoomIsNat, Zenon
  <2>2. soundTmp' \in [1..Len(soundTmp) -> Nat] BY <1>1, SMT
  <2> QED BY <2>1, <2>2, IsSeq, Zenon
<1>5. \A i \in 1..Len(soundTmp') : soundTmp'[i] = 0 BY <1>1, <1>4, Zenon
<1>6. TmpInv' BY <1>1, <1>4, <1>5, Zenon DEF TmpInv
<1> QED BY <1>2, <1>3, <1>6, Zenon

LEMMA LoadsKeepTime == ASSUME SoundMixAssumption, MixInv, LoadSound PROVE MixInv'
<1> USE DEF MixInv
<1>1. /\ UNCHANGED <<strictly, keptDevs>> /\ realtimeDevs' = keptDevs /\ needMix' = Cardinality(keptDevs)
      /\ soundTmp' = <<>> /\ mixCounter' = 1 /\ mixTicks' = 0 /\ mixed' = 0 /\ takenAway' = 0
      /\ lastChunk' = <<>> /\ switches' = 0 /\ stalled' = FALSE
      /\ mixCalls' \in 0..MaxMixCalls
  BY CallCounts, Zenon DEF LoadSound
<1>2. NeedsInv' BY <1>1, Zenon DEF NeedsInv
<1>3. soundTmp' \in Seq(Nat) /\ Len(soundTmp') = 0 /\ lastChunk' \in Seq(Nat) /\ Len(lastChunk') = 0
  BY <1>1, EmptySeq, Zenon
<1>4. TmpInv' BY <1>1, <1>3, SMT DEF TmpInv, SoundMixAssumption
<1>5. ChunkInv' BY <1>3, Zenon DEF ChunkInv
<1>6. TimeInv'
  <2>1. Early' = 0 BY <1>1, SMT DEF Early
  <2>2. Owed' = 0 BY <1>1, SMT DEF Owed
  <2>3. Early' >= 0 /\ Early' + Owed' <= switches' BY <1>1, <2>1, <2>2, SMT
  <2>4. mixCounter' \in 0..MixLimit /\ mixTicks' \in 0..MaxMixTicks /\ mixed' \in Nat /\ switches' \in Nat
    BY <1>1, SMT DEF SoundMixAssumption
  <2>5. stalled' \in BOOLEAN BY <1>1, Zenon
  <2> QED BY <1>1, <2>3, <2>4, <2>5, Zenon DEF TimeInv
<1> QED BY <1>2, <1>4, <1>5, <1>6, Zenon

LEMMA MixIdle ==
  ASSUME SoundMixAssumption, MixInv, SaveSound \/ UNCHANGED mixVars
  PROVE  MixInv'
<1> USE DEF MixInv
<1>1. UNCHANGED <<soundVars, realtimeDevs, needMix, strictly>> BY Zenon DEF SaveSound, mixVars, needVars
<1>2. mixCalls' \in 0..MaxMixCalls BY CallCounts, Zenon DEF SaveSound, mixVars, TimeInv
<1>3. NeedsInv' BY Zenon DEF NeedsInv, SaveSound, mixVars, needVars
<1>4. TmpInv' /\ ChunkInv' BY <1>1, Zenon DEF TmpInv, ChunkInv, soundVars
<1>5. Early' = Early /\ Owed' = Owed BY <1>1, Zenon DEF Early, Owed, Realtime, soundVars
<1>6. TimeInv' BY <1>1, <1>2, <1>5, Zenon DEF TimeInv, soundVars
<1> QED BY <1>3, <1>4, <1>6, Zenon

LEMMA TimeIsKept == ASSUME SoundMixAssumption, MixInv PROVE SoundMixTypeOK /\ SoundKeepsTime
<1> USE DEF MixInv
<1>1. TmpRoom \in Nat /\ Len(soundTmp) \in Nat BY RoomIsNat, Zenon
<1>2. needMix \in Nat BY DevicesCount, Zenon DEF NeedsInv
<1>3. SoundMixTypeOK BY <1>2, Zenon DEF SoundMixTypeOK, NeedsInv, TmpInv, ChunkInv, TimeInv
<1>4. TmpRoom \in 0..2 * SoundSamples BY <1>1, SMT DEF TmpRoom, SoundMixAssumption
<1>5. \A i \in 1..Len(lastChunk) : lastChunk[i] \in {0, takenAway - SoundSamples + i}
  <2>1. CASE Len(lastChunk) = 0 BY <2>1, SMT
  <2>2. CASE Len(lastChunk) # 0 BY <2>2, Zenon DEF ChunkInv
  <2> QED BY <2>1, <2>2, Zenon
<1>6. ~stalled => mixTicks - MixLimit < mixed /\ mixed <= mixTicks + 1 + switches
  <2> SUFFICES ASSUME ~stalled PROVE mixTicks - MixLimit < mixed /\ mixed <= mixTicks + 1 + switches OBVIOUS
  <2>1. Early >= 0 /\ Early + Owed <= switches BY Zenon DEF TimeInv
  <2>2. Owed \in 0..1 BY SMT DEF Owed
  <2>3. /\ mixed \in Nat /\ switches \in Nat /\ mixTicks \in Int
        /\ mixCounter \in Int /\ 0 <= mixCounter /\ mixCounter <= MixLimit /\ MixLimit \in Int
    BY SMT DEF TimeInv, SoundMixAssumption
  <2>4. \A m, c, t, o, s, l \in Int :
          /\ m + c - 1 - t >= 0 /\ (m + c - 1 - t) + o <= s /\ o >= 0 /\ 0 <= c /\ c <= l
          => t - l < m /\ m <= t + 1 + s
    BY SMT
  <2> QED BY <2>1, <2>2, <2>3, <2>4, SMT DEF Early
<1> QED BY <1>3, <1>4, <1>5, <1>6, Zenon DEF SoundKeepsTime, TmpInv, NeedsInv

-----------------------------------------------------------------------------
\* For any buffer, limit and devices, whatever they ask for and however long it runs:
\* the sound neither overruns its buffer nor overlaps itself when it is moved, no sample
\* is lost or given twice, and it keeps within half a millisecond of the emulated time,
\* with one sample more for each change to realtime (event.cpp, touch_sound to create_sound).
THEOREM SoundIsOnTime ==
  ASSUME SoundMixAssumption
  PROVE  MixSpec => [](SoundMixTypeOK /\ SoundKeepsTime)
<1>1. MixInit => MixInv BY MixInitInv
<1>2. MixInv /\ [MixNext]_mixVars => MixInv'
  BY TicksKeepTime, TouchesKeepTime, ChunksKeepTime, ResetsKeepTime, LoadsKeepTime, MixIdle,
     RealtimesKeepTime, StrictKeepsTime, Zenon DEF MixNext
<1>3. MixInv => SoundMixTypeOK /\ SoundKeepsTime BY TimeIsKept
<1> QED BY <1>1, <1>2, <1>3, PTL DEF MixSpec


(* ------------------------- the sub CPU's port --------------------------- *)
Bytes == Codes \union {0}
LinkRecords ==
  [written : [Groups -> Bytes], read : [Groups -> Bytes], out : SUBSET (0..7), inp : SUBSET {4, 6},
   mode : [Groups -> 0..2], inputs : SUBSET Groups, inputsC : SUBSET (0..7), fresh : SUBSET {"A", "B", "C"},
   seen : SUBSET {0, 5, 6}, own : SUBSET (0..7), portC : SUBSET (0..7), p2 : SUBSET (0..7),
   intr : BOOLEAN, obf : BOOLEAN, iei : BOOLEAN, line : BOOLEAN, wind : -1..1, remote : BOOLEAN,
   cassette : BOOLEAN]

\* Those that port C is wired to know what it shows.
SeenOf(out) == {n \in {0, 5, 6} : CASE n = 0 -> 1 \in out [] n = 5 -> 7 \in out [] n = 6 -> 5 \in out}
Knows(l) == l.seen = SeenOf(l.out) /\ l.obf = (7 \notin l.out)
\* The CPU is asked as update_intr would: an acknowledge forgets that for a while.
Asked(l) == l.line = (l.intr /\ l.obf /\ l.iei)

BothWays == [A |-> 2, B |-> 0]
Sound(l) == l \in LinkRecords /\ Knows(l) /\ l.mode = BothWays /\ l.inputsC = {} /\ "C" \notin l.fresh

\* What a change of port C leaves as it was.
Kept(l, m) ==
  /\ m.written = l.written /\ m.read = l.read /\ m.mode = l.mode /\ m.inputsC = l.inputsC
  /\ m.p2 = l.p2 /\ m.intr = l.intr /\ m.iei = l.iei

LEMMA BitsAre ==
  /\ Groups = {"A", "B"}
  /\ Bit.A.stb = 4 /\ Bit.A.ibf = 5 /\ Bit.A.ack = 6 /\ Bit.A.obf = 7 /\ Bit.A.intr = 3
  /\ Bit.B.ibf = 1 /\ Bit.B.obf = 1 /\ Bit.B.intr = 0
  /\ BothWays.A = 2 /\ BothWays.B = 0 /\ BothWays \in [Groups -> 0..2]
  BY DEF Bit, Groups, BothWays

LEMMA IntrIs ==
  ASSUME NEW l \in LinkRecords
  PROVE  LET m == UpdateIntr(l)
         IN /\ m \in LinkRecords /\ Kept(l, m) /\ Asked(m)
            /\ m.out = l.out /\ m.inp = l.inp /\ m.fresh = l.fresh /\ m.seen = l.seen /\ m.obf = l.obf
<1> DEFINE asks == l.intr /\ l.obf /\ l.iei
<1>1. asks \in BOOLEAN
  OBVIOUS
<1>2. UpdateIntr(l) = [l EXCEPT !.line = asks]
  BY DEF UpdateIntr
<1> HIDE DEF asks
<1>3. LET m == UpdateIntr(l)
      IN m \in LinkRecords /\ Kept(l, m) /\ m.line = asks
         /\ m.out = l.out /\ m.inp = l.inp /\ m.fresh = l.fresh /\ m.seen = l.seen /\ m.obf = l.obf
  BY <1>1, <1>2 DEF LinkRecords, Kept
<1> DEFINE m == UpdateIntr(l)
<1> HIDE DEF m
<1>4. m \in LinkRecords /\ Kept(l, m) /\ m.line = asks
      /\ m.out = l.out /\ m.inp = l.inp /\ m.fresh = l.fresh /\ m.seen = l.seen /\ m.obf = l.obf
  BY <1>3 DEF m
<1>5. Asked(m)
  BY <1>4 DEF Asked, Kept, asks
<1> QED BY <1>4, <1>5 DEF m

\* Whoever is wired to port C is told of a change, and of the first output.
LEMMA PutIs ==
  ASSUME NEW l \in LinkRecords, NEW bits \in SUBSET (0..7), "C" \in l.fresh \/ Knows(l)
  PROVE  LET m == PutC(l, bits)
         IN /\ m \in LinkRecords /\ Knows(m) /\ Kept(l, m)
            /\ Asked(l) \/ bits # l.out \/ "C" \in l.fresh => Asked(m)
            /\ m.out = bits /\ m.inp = l.inp /\ m.fresh = l.fresh \ {"C"}
<1>1. CASE bits = l.out /\ "C" \notin l.fresh
  <2>1. PutC(l, bits) = l
    BY <1>1 DEF PutC
  <2>2. l.fresh \ {"C"} = l.fresh
    BY <1>1
  <2> QED BY <1>1, <2>1, <2>2 DEF Kept
<1>2. CASE ~(bits = l.out /\ "C" \notin l.fresh)
  <2> DEFINE silent == l.fresh \ {"C"}
             in == l.cassette /\ ~(0 \in l.portC /\ 0 \notin bits)
             full == 7 \notin bits
             seen == SeenOf(bits)
             own == (l.own \ {7}) \union (bits \intersect {7})
             p == [l EXCEPT !.out = bits, !.fresh = silent]
             q == [p EXCEPT !.cassette = in, !.obf = full, !.portC = bits, !.seen = seen, !.own = own]
  <2>1. silent \in SUBSET {"A", "B", "C"} /\ in \in BOOLEAN /\ full \in BOOLEAN
    BY DEF LinkRecords
  <2>2. seen \in SUBSET {0, 5, 6} /\ own \in SUBSET (0..7)
    BY DEF LinkRecords, SeenOf
  <2>3. p.cassette = l.cassette /\ p.portC = l.portC /\ p.out = bits /\ p.own = l.own
    BY DEF LinkRecords
  <2>4. PutC(l, bits) = UpdateIntr(q)
    <3>1. PutC(l, bits) = PortCTold(p)
      BY <1>2 DEF PutC
    <3> HIDE DEF p
    <3>2. PortCTold(p) = UpdateIntr(q)
      BY <2>3 DEF PortCTold, SeenOf
    <3> QED BY <3>1, <3>2
  <2> HIDE DEF silent, in, full, seen, own
  <2>5. p \in LinkRecords /\ Kept(l, p) /\ p.inp = l.inp /\ p.fresh = silent /\ p.out = bits
    BY <2>1 DEF LinkRecords, Kept
  <2> HIDE DEF p
  <2>6. q \in LinkRecords /\ Kept(p, q) /\ q.inp = p.inp /\ q.fresh = p.fresh /\ q.out = p.out
        /\ q.seen = seen /\ q.obf = full
    <3>1. q \in LinkRecords
      <4> DEFINE q1 == [p EXCEPT !.cassette = in, !.obf = full]
                 q2 == [q1 EXCEPT !.portC = bits, !.seen = seen]
      <4>1. q1 \in LinkRecords
        BY <2>1, <2>5 DEF LinkRecords
      <4>3. q = [q2 EXCEPT !.own = own]
        BY <2>5 DEF LinkRecords
      <4> HIDE DEF q1
      <4>2. q2 \in LinkRecords
        BY <2>2, <4>1 DEF LinkRecords
      <4> HIDE DEF q2, q
      <4> QED BY <2>2, <4>2, <4>3 DEF LinkRecords
    <3>2. /\ q.written = p.written /\ q.read = p.read /\ q.mode = p.mode /\ q.inputsC = p.inputsC
          /\ q.p2 = p.p2 /\ q.intr = p.intr /\ q.iei = p.iei
          /\ q.inp = p.inp /\ q.fresh = p.fresh /\ q.out = p.out
      BY <2>5, SMTT(60) DEF LinkRecords
    <3>3. q.seen = seen /\ q.obf = full
      BY <2>5, SMTT(60) DEF LinkRecords
    <3> HIDE DEF q
    <3> QED BY <3>1, <3>2, <3>3 DEF Kept
  <2> HIDE DEF q
  <2> DEFINE m == UpdateIntr(q)
  <2>7. /\ m \in LinkRecords /\ Kept(q, m) /\ Asked(m)
        /\ m.out = q.out /\ m.inp = q.inp /\ m.fresh = q.fresh /\ m.seen = q.seen /\ m.obf = q.obf
    BY <2>6, IntrIs
  <2> HIDE DEF m
  <2>8. Kept(l, m)
    BY <2>5, <2>6, <2>7 DEF Kept
  <2>9. Knows(m)
    BY <2>5, <2>6, <2>7 DEF Knows, Kept, full, seen
  <2> QED BY <2>4, <2>5, <2>6, <2>7, <2>8, <2>9 DEF m, silent
<1> QED BY <1>1, <1>2

LEMMA SoundPut ==
  ASSUME NEW l, Sound(l), NEW bits \in SUBSET (0..7)
  PROVE  LET m == PutC(l, bits)
         IN Sound(m) /\ Kept(l, m) /\ m.out = bits /\ m.inp = l.inp /\ (Asked(l) \/ bits # l.out => Asked(m))
<1> DEFINE m == PutC(l, bits)
<1>1. l \in LinkRecords /\ Knows(l) /\ "C" \notin l.fresh
  BY DEF Sound
<1>2. m \in LinkRecords /\ Knows(m) /\ Kept(l, m) /\ m.out = bits /\ m.inp = l.inp /\ m.fresh = l.fresh \ {"C"}
      /\ (Asked(l) \/ bits # l.out => Asked(m))
  BY <1>1, PutIs
<1> HIDE DEF m
<1>3. Sound(m)
  BY <1>2 DEF Sound, Kept
<1> QED BY <1>2, <1>3 DEF m

\* An edge of the wire n: a falling one raises the flag, a rising one may ask.
FlagOf(n) == IF n = 4 THEN 5 ELSE 7
WireOf(n) == IF n = 4 THEN "stb" ELSE "ack"
LEMMA EdgeIs ==
  ASSUME NEW l, Sound(l), NEW n \in {4, 6}, NEW level \in BOOLEAN
  PROVE  LET m == Edge(l, "A", WireOf(n), level)
         IN /\ Sound(m) /\ Kept(l, m) /\ m.inp = l.inp
            /\ Asked(l) \/ (n \in l.inp /\ ~level /\ FlagOf(n) \notin l.out) => Asked(m)
            /\ \A b \in {5, 7} : b \in m.out <=> b \in l.out \/ (b = FlagOf(n) /\ n \in l.inp /\ ~level)
<1> DEFINE m == Edge(l, "A", WireOf(n), level)
<1>1. Bit["A"][WireOf(n)] = n /\ (IF WireOf(n) = "stb" THEN Bit["A"].ibf ELSE Bit["A"].obf) = FlagOf(n)
      /\ Bit["A"].intr = 3
  BY DEF Bit, WireOf, FlagOf
<1>2. l.out \in SUBSET (0..7) /\ FlagOf(n) \in 0..7 /\ 3 \in 0..7
  BY DEF Sound, LinkRecords, FlagOf
<1>3. CASE n \in l.inp /\ ~level
  <2> DEFINE bits == l.out \union {FlagOf(n)}
  <2>1. m = PutC(l, bits)
    BY <1>1, <1>3 DEF Edge
  <2>2. bits \in SUBSET (0..7)
    BY <1>2
  <2> HIDE DEF m, bits
  <2>3. Sound(m) /\ Kept(l, m) /\ m.inp = l.inp /\ m.out = bits /\ (Asked(l) \/ bits # l.out => Asked(m))
    BY <2>1, <2>2, SoundPut
  <2>4. FlagOf(n) \notin l.out => bits # l.out
    BY DEF bits
  <2> QED BY <1>3, <2>3, <2>4 DEF m, bits
<1>4. CASE ~(n \in l.inp /\ ~level) /\ (n \notin l.inp /\ level /\ n \in l.out)
  <2> DEFINE bits == l.out \union {3}
  <2>1. m = PutC(l, bits)
    BY <1>1, <1>4 DEF Edge
  <2>2. bits \in SUBSET (0..7)
    BY <1>2
  <2> HIDE DEF m, bits
  <2>3. Sound(m) /\ Kept(l, m) /\ m.inp = l.inp /\ m.out = bits /\ (Asked(l) \/ bits # l.out => Asked(m))
    BY <2>1, <2>2, SoundPut
  <2>4. \A b \in {5, 7} : b \in bits <=> b \in l.out
    BY DEF bits
  <2> QED BY <1>4, <2>3, <2>4 DEF m
<1>5. CASE ~(n \in l.inp /\ ~level) /\ ~(n \notin l.inp /\ level /\ n \in l.out)
  <2>1. m = l
    BY <1>1, <1>5 DEF Edge
  <2> HIDE DEF m
  <2> QED BY <1>5, <2>1 DEF m, Kept
<1> QED BY <1>3, <1>4, <1>5

LEMMA DrivenIs ==
  ASSUME NEW l, Sound(l), NEW n \in {4, 6}, NEW level \in BOOLEAN, NEW m, m = Driven(l, n, level)
  PROVE     /\ Sound(m) /\ Kept(l, m) /\ (level => n \in m.inp)
            /\ Asked(l) \/ (n \in l.inp /\ ~level /\ FlagOf(n) \notin l.out) => Asked(m)
            /\ \A b \in {5, 7} : b \in m.out <=> b \in l.out \/ (b = FlagOf(n) /\ n \in l.inp /\ ~level)
<1> DEFINE k == IF n = 6 THEN SetLevel(l, 6, level) ELSE l
           e == Edge(k, "A", WireOf(n), level)
           inp == IF level THEN e.inp \union {n} ELSE e.inp \ {n}
<1>1. Sound(k) /\ Kept(l, k) /\ k.inp = l.inp /\ k.out = l.out /\ (Asked(l) => Asked(k))
  <2>1. CASE n # 6
    BY <2>1 DEF Kept
  <2>2. CASE n = 6
    <3> DEFINE own == IF level THEN l.own \union {6} ELSE l.own \ {6}
    <3>1. own \in SUBSET (0..7) /\ k = [l EXCEPT !.own = own]
      BY <2>2 DEF SetLevel, Sound, LinkRecords
    <3> HIDE DEF own, k
    <3> QED BY <3>1 DEF Sound, Kept, Knows, Asked, LinkRecords
  <2> QED BY <2>1, <2>2
<1>2. m = [e EXCEPT !.inp = inp]
  <2>1. k.mode.A # 0
    BY <1>1 DEF Sound, BothWays
  <2>2. SignalC(k, n, level) = [e EXCEPT !.inp = inp]
    <3> HIDE DEF k
    <3>1. CASE n = 4
      BY <2>1, <3>1 DEF SignalC, WireOf
    <3>2. CASE n = 6
      BY <2>1, <3>2 DEF SignalC, WireOf
    <3> QED BY <3>1, <3>2
  <2> QED BY <2>2 DEF Driven
<1> HIDE DEF k
<1>3. /\ Sound(e) /\ Kept(k, e) /\ e.inp = k.inp
      /\ Asked(k) \/ (n \in k.inp /\ ~level /\ FlagOf(n) \notin k.out) => Asked(e)
      /\ \A b \in {5, 7} : b \in e.out <=> b \in k.out \/ (b = FlagOf(n) /\ n \in k.inp /\ ~level)
  BY <1>1, EdgeIs
<1> HIDE DEF e
<1>4. inp \in SUBSET {4, 6} /\ (level => n \in inp)
  BY <1>3 DEF Sound, LinkRecords
<1> HIDE DEF inp
<1>5. Sound(m) /\ Kept(e, m) /\ m.inp = inp /\ m.out = e.out /\ (Asked(e) => Asked(m))
  BY <1>2, <1>3, <1>4 DEF Sound, Kept, Knows, Asked, LinkRecords
<1>6. Kept(l, m)
  BY <1>1, <1>3, <1>5 DEF Kept
<1> QED BY <1>1, <1>3, <1>4, <1>5, <1>6

Rises(l, n) == Driven(l, n, TRUE)
Falls(l, n) == Driven(l, n, FALSE)
LEMMA Rising ==
  ASSUME NEW l, Sound(l), NEW n \in {4, 6}, NEW m, m = Rises(l, n)
  PROVE  Sound(m) /\ Kept(l, m) /\ n \in m.inp /\ (Asked(l) => Asked(m)) /\ \A b \in {5, 7} : b \in m.out <=> b \in l.out
<1> DEFINE level == TRUE
<1>1. level \in BOOLEAN /\ m = Driven(l, n, level)
  BY Zenon DEF Rises
<1>2. level = TRUE
  OBVIOUS
<1> HIDE DEF level
<1>3. Sound(m) /\ Kept(l, m) /\ (Asked(l) => Asked(m))
  BY <1>1, DrivenIs
<1>4. level => n \in m.inp
  BY <1>1, DrivenIs
<1>5. \A b \in {5, 7} : b \in m.out <=> b \in l.out \/ (b = FlagOf(n) /\ n \in l.inp /\ ~level)
  BY <1>1, DrivenIs
<1> QED BY <1>2, <1>3, <1>4, <1>5

LEMMA Falling ==
  ASSUME NEW l, Sound(l), NEW n \in {4, 6}, n \in l.inp, NEW m, m = Falls(l, n)
  PROVE  Sound(m) /\ Kept(l, m) /\ (Asked(l) \/ FlagOf(n) \notin l.out => Asked(m))
         /\ \A b \in {5, 7} : b \in m.out <=> b \in l.out \/ b = FlagOf(n)
<1> DEFINE level == FALSE
<1>1. level \in BOOLEAN /\ m = Driven(l, n, level) /\ ~level
  BY Zenon DEF Falls
<1> HIDE DEF level
<1>2. /\ Sound(m) /\ Kept(l, m) /\ (level => n \in m.inp)
      /\ Asked(l) \/ (n \in l.inp /\ ~level /\ FlagOf(n) \notin l.out) => Asked(m)
      /\ \A b \in {5, 7} : b \in m.out <=> b \in l.out \/ (b = FlagOf(n) /\ n \in l.inp /\ ~level)
  BY <1>1, DrivenIs
<1> QED BY <1>1, <1>2

\* A pulse raises the flag, and the other one stays.
LEMMA PulsedIs ==
  ASSUME NEW l, Sound(l), NEW n \in {4, 6}, NEW m, m = Pulsed(l, n)
  PROVE  Sound(m) /\ Kept(l, m) /\ (Asked(l) \/ FlagOf(n) \notin l.out => Asked(m))
         /\ \A b \in {5, 7} : b \in m.out <=> b \in l.out \/ b = FlagOf(n)
<1>1. PICK i : i = Rises(l, n)
  OBVIOUS
<1>2. PICK j : j = Falls(i, n)
  OBVIOUS
<1>3. m = Rises(j, n)
  BY <1>1, <1>2, Zenon DEF Pulsed, Rises, Falls
<1>4. Sound(i) /\ Kept(l, i) /\ n \in i.inp /\ (Asked(l) => Asked(i)) /\ \A b \in {5, 7} : b \in i.out <=> b \in l.out
  BY <1>1, Rising
<1>5. Sound(j) /\ Kept(i, j) /\ (Asked(i) \/ FlagOf(n) \notin i.out => Asked(j))
      /\ \A b \in {5, 7} : b \in j.out <=> b \in i.out \/ b = FlagOf(n)
  BY <1>2, <1>4, Falling
<1>6. Sound(m) /\ Kept(j, m) /\ (Asked(j) => Asked(m)) /\ \A b \in {5, 7} : b \in m.out <=> b \in j.out
  BY <1>3, <1>5, Rising
<1>7. Kept(l, m)
  BY <1>4, <1>5, <1>6 DEF Kept
<1>8. FlagOf(n) \in {5, 7}
  BY DEF FlagOf
<1> QED BY <1>4, <1>5, <1>6, <1>7, <1>8

(* ---------------------------- the programs ----------------------------- *)
Posts == [byte : Codes, ask : BOOLEAN]
Subs == [saw : {"", "byte", "room"}, asking : BOOLEAN]

\* Before the 80C48's program begins nothing is under way.
Asleep(l) ==
  /\ l.mode = [g \in Groups |-> 0] /\ "C" \in l.fresh /\ l.p2 = 0..7
  /\ l.intr = FALSE /\ l.obf = FALSE /\ l.line = FALSE

\* The flag of a way says whether the one byte that it has room for is there.
In(l, in) ==
  IF 5 \in l.out THEN \E byte \in Codes : in = <<byte>> /\ l.read.A = byte ELSE in = <<>>
Out(l, out) ==
  IF 7 \in l.out THEN out = <<>>
  ELSE \E post \in Posts : /\ out = <<post>> /\ l.written.A = post.byte
                           /\ (post.ask <=> 6 \notin l.p2) /\ (l.intr <=> 6 \notin l.p2)

\* What a program saw is still so, and P26 is low while a request is prepared.
Seen(l, m, s) ==
  /\ m = "write" => 5 \notin l.out
  /\ m = "read" => 7 \notin l.out
  /\ s.saw = "byte" => 5 \in l.out
  /\ s.saw = "room" => 7 \in l.out
  /\ s.asking => s.saw = "room" /\ 6 \notin l.p2 /\ l.intr
  /\ 6 \in l.p2 => ~l.intr

LinkOK(l, m, s, in, out) ==
  /\ m \in {"", "read", "write"} /\ s \in Subs /\ l \in LinkRecords
  /\ \/ Asleep(l) /\ m = "" /\ s = Idle /\ in = <<>> /\ out = <<>>
     \/ Sound(l) /\ Asked(l) /\ In(l, in) /\ Out(l, out) /\ Seen(l, m, s)
LinkInv == LinkOK(link, main, sub, toSub, toMain)

LEMMA AsleepOrNot ==
  ASSUME LinkInv
  PROVE  IF Begun THEN Sound(link) /\ Asked(link) /\ In(link, toSub) /\ Out(link, toMain) /\ Seen(link, main, sub)
         ELSE Asleep(link) /\ main = "" /\ sub = Idle /\ toSub = <<>> /\ toMain = <<>>
<1>1. Asleep(link) => ~Begun
  BY BitsAre DEF Asleep, Begun
<1>2. Sound(link) => Begun
  BY BitsAre DEF Sound, Begun
<1> QED BY <1>1, <1>2 DEF LinkInv, LinkOK

\* Where nothing but the programs' knowledge of a flag changes.
LEMMA FlagsKept ==
  ASSUME NEW l, NEW k, Kept(l, k), NEW in, NEW out, NEW m, NEW s,
         \A b \in {5, 7} : b \in k.out <=> b \in l.out
  PROVE  /\ In(l, in) => In(k, in)
         /\ Out(l, out) => Out(k, out)
         /\ Seen(l, m, s) => Seen(k, m, s)
  BY DEF Kept, In, Out, Seen

LEMMA BuiltIs == ASSUME SubLinkAssumption PROVE Built \in LinkRecords /\ Asleep(Built)
<1>1. [g \in Groups |-> 0] \in [Groups -> Bytes] /\ [g \in Groups |-> 0] \in [Groups -> 0..2]
  BY DEF Bytes
<1> QED BY <1>1 DEF Built, LinkRecords, Asleep

LEMMA ResetIs ==
  ASSUME NEW l \in LinkRecords PROVE LinkAtReset(l) \in LinkRecords /\ Asleep(LinkAtReset(l))
<1> DEFINE modes == [g \in Groups |-> 0]
           p == [l EXCEPT !.mode = modes, !.inputs = Groups, !.inputsC = 0..7, !.fresh = {"A", "B", "C"}]
           q == [p EXCEPT !.portC = 0..7, !.p2 = 0..7, !.intr = FALSE]
           m == [q EXCEPT !.obf = FALSE, !.iei = TRUE, !.line = FALSE]
<1>1. modes \in [Groups -> 0..2]
  OBVIOUS
<1>2. LinkAtReset(l) = m
  BY DEF LinkAtReset, LinkRecords
<1> HIDE DEF modes
<1>3. p \in LinkRecords /\ p.mode = modes /\ p.fresh = {"A", "B", "C"}
  BY <1>1 DEF LinkRecords
<1> HIDE DEF p
<1>4. q \in LinkRecords /\ q.mode = modes /\ q.fresh = {"A", "B", "C"} /\ q.p2 = 0..7 /\ q.intr = FALSE
  BY <1>3 DEF LinkRecords
<1> HIDE DEF q
<1>5. /\ m \in LinkRecords /\ m.mode = modes /\ m.fresh = {"A", "B", "C"} /\ m.p2 = 0..7 /\ m.intr = FALSE
      /\ m.obf = FALSE /\ m.line = FALSE
  BY <1>4 DEF LinkRecords
<1> HIDE DEF m
<1> QED BY <1>2, <1>5 DEF Asleep, modes

\* The control word with which the 80C48's program begins.
LEMMA BeginIs ==
  ASSUME NEW l \in LinkRecords, Asleep(l)
  PROVE  LET k == Command(l, [A |-> 2, B |-> 0], {"B"}, {})
         IN Sound(k) /\ Asked(k) /\ 5 \notin k.out /\ 7 \in k.out /\ k.p2 = 0..7 /\ k.intr = FALSE
<1> DEFINE set == [l EXCEPT !.mode = BothWays, !.inputs = {"B"}, !.inputsC = {}]
           out == (l.out \ {5, 3}) \union {7}
           k == PutC(set, out)
<1>1. Command(l, [A |-> 2, B |-> 0], {"B"}, {}) = k
  BY BitsAre DEF Command, BothWays
<1>2. set \in LinkRecords /\ set.fresh = l.fresh /\ set.p2 = l.p2 /\ set.intr = l.intr
      /\ set.mode = BothWays /\ set.inputsC = {}
  BY BitsAre DEF LinkRecords
<1>3. out \in SUBSET (0..7)
  BY DEF LinkRecords
<1> HIDE DEF set, out
<1>4. /\ k \in LinkRecords /\ Knows(k) /\ Kept(set, k) /\ Asked(k)
      /\ k.out = out /\ k.inp = set.inp /\ k.fresh = set.fresh \ {"C"}
  BY <1>2, <1>3, PutIs DEF Asleep
<1> HIDE DEF k
<1>5. Sound(k) /\ k.p2 = 0..7 /\ k.intr = FALSE
  BY <1>2, <1>4 DEF Sound, Kept, Asleep
<1>6. 5 \notin out /\ 7 \in out
  BY DEF out
<1> QED BY <1>1, <1>4, <1>5, <1>6

\* P2: SUB keeps the request while its bit is low.
LEMMA P2Is ==
  ASSUME NEW l, Sound(l), NEW p2 \in SUBSET (0..7)
  PROVE  LET k == WriteP2(l, p2)
         IN /\ Sound(k) /\ Asked(k) /\ k.p2 = p2 /\ k.intr = (6 \notin p2)
            /\ k.out = l.out /\ k.written = l.written /\ k.read = l.read
<1> DEFINE low == 6 \notin p2
<1>1. PICK wind, remote : /\ wind \in -1..1 /\ remote \in BOOLEAN
                          /\ WriteP2(l, p2) = UpdateIntr([l EXCEPT !.wind = wind, !.remote = remote, !.intr = low, !.p2 = p2])
  <2> DEFINE Fell(n) == n \in l.p2 /\ n \notin p2
             Rose(n) == n \notin l.p2 /\ n \in p2
             wind == IF Fell(3) THEN -1 ELSE IF Fell(2) THEN 1 ELSE IF Fell(1) THEN 0 ELSE l.wind
             remote == IF Rose(4) THEN FALSE
                       ELSE IF Fell(3) \/ Fell(2) THEN TRUE
                       ELSE IF Rose(1) /\ OldRom THEN FALSE
                       ELSE IF Fell(1) THEN TRUE ELSE l.remote
  <2>1. wind \in -1..1
    BY DEF Sound, LinkRecords
  <2>2. remote \in BOOLEAN
    BY DEF Sound, LinkRecords
  <2>3. WriteP2(l, p2) = UpdateIntr([l EXCEPT !.wind = wind, !.remote = remote, !.intr = low, !.p2 = p2])
    BY DEF WriteP2
  <2> HIDE DEF wind, remote
  <2> QED BY <2>1, <2>2, <2>3
<1> DEFINE p == [l EXCEPT !.wind = wind, !.remote = remote, !.intr = low, !.p2 = p2]
<1>2. low \in BOOLEAN
  OBVIOUS
<1> HIDE DEF low
<1>3. /\ p \in LinkRecords /\ p.p2 = p2 /\ p.intr = low /\ p.out = l.out /\ p.written = l.written
      /\ p.read = l.read /\ p.mode = l.mode /\ p.inputsC = l.inputsC /\ p.fresh = l.fresh
      /\ p.seen = l.seen /\ p.obf = l.obf
  BY <1>1, <1>2 DEF Sound, LinkRecords
<1> HIDE DEF p
<1> DEFINE k == UpdateIntr(p)
<1>4. /\ k \in LinkRecords /\ Kept(p, k) /\ Asked(k)
      /\ k.out = p.out /\ k.inp = p.inp /\ k.fresh = p.fresh /\ k.seen = p.seen /\ k.obf = p.obf
  BY <1>3, IntrIs
<1>5. WriteP2(l, p2) = k
  BY <1>1 DEF p
<1> HIDE DEF k
<1>6. Sound(k)
  BY <1>3, <1>4 DEF Sound, Knows, Kept
<1> QED BY <1>3, <1>4, <1>5, <1>6 DEF Kept, low

\* The programs do not look before there is something to see.
LEMMA NotAsleep ==
  ASSUME LinkInv, main # "" \/ sub.saw # "" PROVE Begun
<1>1. CASE ~Begun
  <2>1. main = "" /\ sub = Idle
    BY <1>1, AsleepOrNot
  <2>2. sub.saw = ""
    BY <2>1 DEF Idle
  <2> QED BY <2>1, <2>2
<1> QED BY <1>1

\* A step of a sound link, from what it and the programs become.
LEMMA SoundStep ==
  ASSUME NEW k, Sound(k), Asked(k), NEW m \in {"", "read", "write"}, NEW s \in Subs, NEW in, NEW out,
         In(k, in), Out(k, out), Seen(k, m, s),
         link' = k, main' = m, sub' = s, toSub' = in, toMain' = out
  PROVE  LinkInv'
<1>1. k \in LinkRecords
  BY DEF Sound
<1>2. LinkOK(k, m, s, in, out)
  BY <1>1 DEF LinkOK
<1> QED BY <1>2 DEF LinkInv

LEMMA MainLooksOK == ASSUME LinkInv, MainLooks PROVE LinkInv'
<1>1. Sound(link) /\ Asked(link) /\ In(link, toSub) /\ Out(link, toMain) /\ Seen(link, main, sub) /\ sub \in Subs
  BY AsleepOrNot DEF MainLooks, LinkInv, LinkOK
<1>2. /\ 6 \in link.seen <=> 5 \in link.out
      /\ 5 \in link.seen <=> 7 \in link.out
  BY <1>1 DEF Sound, Knows, SeenOf
<1>3. /\ (main' = "write" /\ 5 \notin link.out) \/ (main' = "read" /\ 7 \notin link.out)
      /\ UNCHANGED <<link, sub, toSub, toMain>>
  BY <1>2 DEF MainLooks
<1>4. Seen(link, main', sub)
  BY <1>1, <1>3 DEF Seen
<1> QED BY <1>1, <1>3, <1>4, SoundStep

LEMMA SubLooksOK == ASSUME LinkInv, SubLooks PROVE LinkInv'
<1>1. Sound(link) /\ Asked(link) /\ In(link, toSub) /\ Out(link, toMain) /\ Seen(link, main, sub) /\ sub \in Subs
      /\ main \in {"", "read", "write"}
  BY AsleepOrNot DEF SubLooks, LinkInv, LinkOK
<1>2. \/ 5 \in link.out /\ sub' = [sub EXCEPT !.saw = "byte"]
      \/ 7 \in link.out /\ sub' = [sub EXCEPT !.saw = "room"]
  BY <1>1, BitsAre DEF SubLooks, FlagRead, Sound
<1>3. sub.saw = "" /\ UNCHANGED <<link, main, toSub, toMain>>
  BY DEF SubLooks
<1>4. sub' \in Subs /\ Seen(link, main, sub')
  BY <1>1, <1>2, <1>3 DEF Seen, Subs
<1> QED BY <1>1, <1>3, <1>4, SoundStep

LEMMA MainSendsOK == ASSUME LinkInv, NEW byte \in Codes, MainSends(byte) PROVE LinkInv'
<1>1. Sound(link) /\ Asked(link) /\ In(link, toSub) /\ Out(link, toMain) /\ Seen(link, main, sub) /\ sub \in Subs /\ main = "write"
  BY AsleepOrNot, NotAsleep DEF MainSends, LinkInv, LinkOK
<1> DEFINE p == [link EXCEPT !.read.A = byte]
           k == Pulsed(p, 4)
<1>2. Sound(p) /\ Asked(p) /\ p.read.A = byte /\ p.written = link.written /\ p.out = link.out /\ p.p2 = link.p2 /\ p.intr = link.intr
  <2> DEFINE read == [link.read EXCEPT !["A"] = byte]
  <2>1. read \in [Groups -> Bytes] /\ read["A"] = byte
    BY <1>1, BitsAre DEF Sound, LinkRecords, Bytes
  <2>2. p = [link EXCEPT !.read = read]
    OBVIOUS
  <2> HIDE DEF read, p
  <2> QED BY <1>1, <2>1, <2>2 DEF Sound, Knows, Asked, LinkRecords
<1>3. link' = k /\ main' = "" /\ toSub' = Append(toSub, byte) /\ UNCHANGED <<sub, toMain>>
  BY DEF MainSends, MainWrites
<1> HIDE DEF p
<1>4. Sound(k) /\ Asked(k) /\ Kept(p, k) /\ \A b \in {5, 7} : b \in k.out <=> b \in p.out \/ b = FlagOf(4)
  BY <1>2, PulsedIs
<1> HIDE DEF k
<1>5. 5 \in k.out /\ (7 \in k.out <=> 7 \in link.out) /\ k.read.A = byte /\ k.written = link.written
      /\ k.p2 = link.p2 /\ k.intr = link.intr
  BY <1>2, <1>4 DEF FlagOf, Kept
<1>6. toSub' = <<byte>>
  <2>1. toSub = <<>>
    BY <1>1 DEF In, Seen
  <2>2. Append(<<>>, byte) = <<byte>>
    OBVIOUS
  <2> QED BY <1>3, <2>1, <2>2
<1>7. In(k, toSub') /\ Out(k, toMain) /\ Seen(k, "", sub)
  BY <1>1, <1>5, <1>6 DEF In, Out, Seen
<1> QED BY <1>1, <1>3, <1>4, <1>7, SoundStep

LEMMA OneLess ==
  ASSUME NEW c PROVE SubSeq(<<c>>, 2, Len(<<c>>)) = <<>>
  OBVIOUS

\* A read of the main CPU's takes the byte that is there.
AsBefore(l) ==
  /\ l.out = link.out /\ l.written = link.written /\ l.read = link.read /\ l.p2 = link.p2
  /\ sub.asking => l.intr
  /\ 6 \in l.p2 => ~l.intr
Taking(l) ==
  /\ main' \in {"", "write"} /\ (main' = "write" => main = "write")
  /\ link' = Pulsed(l, 6) /\ toMain' = SubSeq(toMain, 2, Len(toMain)) /\ UNCHANGED <<sub, toSub>>
LEMMA TakenOK ==
  ASSUME LinkInv, Begun, 7 \notin link.out, NEW l, Sound(l), AsBefore(l), Taking(l)
  PROVE  LinkInv'
<1>1. In(link, toSub) /\ Out(link, toMain) /\ Seen(link, main, sub) /\ sub \in Subs
  BY AsleepOrNot DEF LinkInv, LinkOK
<1> DEFINE k == Pulsed(l, 6)
<1>2. Sound(k) /\ Asked(k) /\ Kept(l, k) /\ \A b \in {5, 7} : b \in k.out <=> b \in l.out \/ b = FlagOf(6)
  <2>1. FlagOf(6) \notin l.out
    BY DEF AsBefore, FlagOf
  <2> QED BY <2>1, PulsedIs
<1>3. link' = k
  BY DEF Taking
<1> HIDE DEF k
<1>4. 7 \in k.out /\ (5 \in k.out <=> 5 \in link.out) /\ k.read = link.read /\ k.p2 = link.p2 /\ k.intr = l.intr
      /\ k.written = link.written
  <2>1. FlagOf(6) = 7
    BY DEF FlagOf
  <2>2. 7 \in k.out /\ (5 \in k.out <=> 5 \in l.out)
    <3>1. \A b \in {5, 7} : b \in k.out <=> b \in l.out \/ b = 7
      BY <1>2, <2>1, Zenon
    <3> QED BY <3>1
  <2>3. k.read = l.read /\ k.p2 = l.p2 /\ k.intr = l.intr /\ k.written = l.written
    BY <1>2 DEF Kept
  <2>4. l.out = link.out /\ l.written = link.written /\ l.read = link.read /\ l.p2 = link.p2
    BY DEF AsBefore
  <2> QED BY <2>2, <2>3, <2>4
<1>5. toMain' = <<>>
  BY <1>1, OneLess DEF Out, Taking
<1>6. In(k, toSub) /\ Out(k, toMain') /\ Seen(k, main', sub)
  BY <1>1, <1>4, <1>5 DEF In, Out, Seen, AsBefore, Taking
<1>7. main' \in {"", "read", "write"} /\ sub' = sub /\ toSub' = toSub
  BY DEF Taking
<1> QED BY <1>1, <1>2, <1>3, <1>6, <1>7, SoundStep

LEMMA MainTakesOK == ASSUME LinkInv, MainTakes PROVE LinkInv'
<1>1. Begun /\ Sound(link) /\ Seen(link, main, sub) /\ main = "read"
  BY AsleepOrNot, NotAsleep DEF MainTakes
<1>2. 7 \notin link.out /\ AsBefore(link)
  BY <1>1 DEF Seen, AsBefore
<1>3. link' = Pulsed(link, 6) /\ main' = "" /\ toMain' = SubSeq(toMain, 2, Len(toMain)) /\ UNCHANGED <<sub, toSub>>
  BY DEF MainTakes, MainReads
<1>4. Taking(link)
  BY <1>3 DEF Taking
<1> QED BY <1>1, <1>2, <1>4, TakenOK

LEMMA InterruptOK == ASSUME LinkInv, Interrupt PROVE LinkInv'
<1>1. Begun /\ Sound(link) /\ Asked(link) /\ Seen(link, main, sub) /\ main \in {"", "write"}
  BY AsleepOrNot DEF Interrupt, LinkInv, LinkOK, Asleep
<1>2. 7 \notin link.out
  BY <1>1 DEF Interrupt, Asked, Sound, Knows
<1>3. ~sub.asking
  BY <1>1, <1>2 DEF Seen
<1> DEFINE l == [link EXCEPT !.intr = FALSE]
<1>4. /\ Sound(l) /\ l.out = link.out /\ l.written = link.written /\ l.read = link.read
      /\ l.p2 = link.p2 /\ l.intr = FALSE
  BY <1>1 DEF Sound, Knows, LinkRecords
<1>5. link' = Pulsed(l, 6) /\ main' = main /\ toMain' = SubSeq(toMain, 2, Len(toMain)) /\ UNCHANGED <<sub, toSub>>
  BY DEF Interrupt, Acknowledged, MainReads
<1> HIDE DEF l
<1>6. AsBefore(l)
  BY <1>3, <1>4 DEF AsBefore
<1>7. Taking(l)
  BY <1>1, <1>5 DEF Taking
<1> QED BY <1>1, <1>2, <1>4, <1>6, <1>7, TakenOK

\* Devices before this one take the enable away at any time, also before it begins.
LEMMA SetIeiOK == ASSUME LinkInv, SetIei PROVE LinkInv'
<1> DEFINE iei == ~link.iei
           p == [link EXCEPT !.iei = iei]
           k == UpdateIntr(p)
<1>1. /\ p \in LinkRecords /\ p.out = link.out /\ p.written = link.written /\ p.read = link.read
      /\ p.p2 = link.p2 /\ p.intr = link.intr /\ p.mode = link.mode /\ p.inputsC = link.inputsC
      /\ p.fresh = link.fresh /\ p.seen = link.seen /\ p.obf = link.obf
  <2>1. iei \in BOOLEAN /\ link \in LinkRecords
    BY DEF LinkInv, LinkOK
  <2> HIDE DEF iei
  <2> QED BY <2>1 DEF LinkRecords
<1>2. link' = k /\ UNCHANGED <<main, sub, toSub, toMain>>
  BY DEF SetIei
<1> HIDE DEF p
<1>3. /\ k \in LinkRecords /\ Kept(p, k) /\ Asked(k)
      /\ k.out = p.out /\ k.inp = p.inp /\ k.fresh = p.fresh /\ k.seen = p.seen /\ k.obf = p.obf
  BY <1>1, IntrIs
<1> HIDE DEF k
<1>4. main \in {"", "read", "write"} /\ sub \in Subs
  BY DEF LinkInv, LinkOK
<1>5. CASE Begun
  <2>1. Sound(link) /\ In(link, toSub) /\ Out(link, toMain) /\ Seen(link, main, sub)
    BY <1>5, AsleepOrNot
  <2>2. Sound(k) /\ In(k, toSub) /\ Out(k, toMain) /\ Seen(k, main, sub)
    BY <1>1, <1>3, <2>1 DEF Sound, Knows, Kept, In, Out, Seen
  <2> QED BY <1>2, <1>3, <1>4, <2>2, SoundStep
<1>6. CASE ~Begun
  <2>1. Asleep(link) /\ main = "" /\ sub = Idle /\ toSub = <<>> /\ toMain = <<>>
    BY <1>6, AsleepOrNot
  <2>2. Asleep(k)
    BY <1>1, <1>3, <2>1 DEF Asleep, Kept, Asked
  <2> QED BY <1>2, <1>3, <1>4, <2>1, <2>2 DEF LinkInv, LinkOK
<1> QED BY <1>5, <1>6

LEMMA SubTakesOK == ASSUME LinkInv, SubTakes PROVE LinkInv'
<1>1. /\ Sound(link) /\ Asked(link) /\ In(link, toSub) /\ Out(link, toMain) /\ Seen(link, main, sub)
      /\ sub \in Subs /\ main \in {"", "read", "write"} /\ sub.saw = "byte"
  BY AsleepOrNot, NotAsleep DEF SubTakes, LinkInv, LinkOK
<1> DEFINE bits == link.out \ ({5} \union (IF 4 \in link.out THEN {3} ELSE {}))
           k == PutC(link, bits)
<1>2. link' = k /\ sub' = [sub EXCEPT !.saw = ""] /\ toSub' = SubSeq(toSub, 2, Len(toSub))
      /\ UNCHANGED <<main, toMain>>
  <2>1. link.mode["A"] # 0
    <3>1. link.mode = BothWays
      BY <1>1, Zenon DEF Sound
    <3> QED BY <3>1 DEF BothWays
  <2>2. ReadPort(link, "A") = k
    BY <2>1 DEF ReadPort, Bit
  <2> QED BY <2>2 DEF SubTakes
<1>3. bits \in SUBSET (0..7) /\ 5 \notin bits /\ (7 \in bits <=> 7 \in link.out)
  <2>1. link.out \in SUBSET (0..7)
    BY <1>1 DEF Sound, LinkRecords
  <2> QED BY <2>1
<1> HIDE DEF bits
<1>4. Sound(k) /\ Kept(link, k) /\ k.out = bits /\ Asked(k)
  BY <1>1, <1>3, SoundPut
<1> HIDE DEF k
<1>5. toSub' = <<>>
  BY <1>1, <1>2, OneLess DEF In, Seen
<1>6. sub' \in Subs /\ sub'.saw = "" /\ sub'.asking = sub.asking /\ ~sub.asking
  BY <1>1, <1>2 DEF Subs, Seen
<1>7. In(k, toSub') /\ Out(k, toMain) /\ Seen(k, main, sub')
  BY <1>1, <1>3, <1>4, <1>5, <1>6 DEF In, Out, Seen, Kept
<1> QED BY <1>1, <1>2, <1>4, <1>6, <1>7, SoundStep

LEMMA SubPostsOK == ASSUME LinkInv, NEW byte \in Codes, SubPosts(byte) PROVE LinkInv'
<1>1. /\ Sound(link) /\ Asked(link) /\ In(link, toSub) /\ Out(link, toMain) /\ Seen(link, main, sub)
      /\ sub \in Subs /\ main \in {"", "read", "write"} /\ sub.saw = "room" /\ (sub.asking <=> 6 \notin link.p2)
  BY AsleepOrNot, NotAsleep DEF SubPosts, LinkInv, LinkOK
<1> DEFINE written == [link.written EXCEPT !["A"] = byte]
           silent == link.fresh \ {"A"}
           p == [link EXCEPT !.written = written, !.fresh = silent]
           bits == p.out \ ({7} \union (IF 6 \in p.out THEN {3} ELSE {}))
           k == PutC(p, bits)
           post == [byte |-> byte, ask |-> sub.asking]
<1>2. link' = k /\ sub' = Idle /\ toMain' = Append(toMain, post) /\ UNCHANGED <<main, toSub>>
  <2>1. link.mode["A"] # 0
    <3>1. link.mode = BothWays
      BY <1>1, Zenon DEF Sound
    <3> QED BY <3>1 DEF BothWays
  <2>2. WritePort(link, "A", byte) = k
    BY <2>1 DEF WritePort, Bit
  <2> QED BY <2>2 DEF SubPosts
<1>3. written \in [Groups -> Bytes] /\ written["A"] = byte /\ silent \in SUBSET {"A", "B", "C"} /\ "C" \notin silent
  BY <1>1, BitsAre DEF Sound, LinkRecords, Bytes
<1> HIDE DEF written, silent
<1>4. /\ Sound(p) /\ Asked(p) /\ p.written = written /\ p.read = link.read /\ p.out = link.out
      /\ p.p2 = link.p2 /\ p.intr = link.intr
  BY <1>1, <1>3 DEF Sound, Knows, Asked, LinkRecords
<1> HIDE DEF p
<1>5. bits \in SUBSET (0..7) /\ 7 \notin bits /\ (5 \in bits <=> 5 \in link.out)
  BY <1>4 DEF Sound, LinkRecords
<1> HIDE DEF bits
<1>6. Sound(k) /\ Kept(p, k) /\ k.out = bits /\ Asked(k)
  BY <1>4, <1>5, SoundPut
<1> HIDE DEF k
<1>7. toMain' = <<post>> /\ post \in Posts
  <2>1. toMain = <<>>
    BY <1>1 DEF Out, Seen
  <2>2. sub.asking \in BOOLEAN
    BY <1>1 DEF Subs
  <2>3. post \in Posts
    BY <2>2, Zenon DEF Posts
  <2> HIDE DEF post
  <2>4. Append(<<>>, post) = <<post>>
    OBVIOUS
  <2> QED BY <1>2, <2>1, <2>3, <2>4
<1>8. Idle \in Subs /\ Idle.saw = "" /\ Idle.asking = FALSE
  BY DEF Idle, Subs
<1>9. In(k, toSub) /\ Seen(k, main, Idle)
  <2>1. /\ k.read = link.read /\ k.p2 = link.p2 /\ k.intr = link.intr
        /\ (5 \in k.out <=> 5 \in link.out) /\ 7 \notin k.out
    BY <1>4, <1>5, <1>6 DEF Kept
  <2>2. In(k, toSub)
    BY <1>1, <2>1 DEF In
  <2>3. Seen(k, main, Idle)
    BY <1>1, <1>8, <2>1 DEF Seen
  <2> QED BY <2>2, <2>3
<1>10. Out(k, toMain')
  <2>1. post.byte = byte /\ post.ask = sub.asking
    OBVIOUS
  <2> HIDE DEF post
  <2>2. k.written.A = post.byte /\ k.p2 = link.p2 /\ k.intr = link.intr
    BY <1>3, <1>4, <1>6, <2>1 DEF Kept
  <2>3. (post.ask <=> 6 \notin k.p2) /\ (k.intr <=> 6 \notin k.p2)
    BY <1>1, <2>1, <2>2 DEF Seen, Subs
  <2> QED BY <1>5, <1>6, <1>7, <2>2, <2>3 DEF Out
<1> QED BY <1>1, <1>2, <1>6, <1>8, <1>9, <1>10, SoundStep

LEMMA WriteSubP2OK == ASSUME SubLinkAssumption, LinkInv, WriteSubP2 PROVE LinkInv'
<1>1. /\ Sound(link) /\ In(link, toSub) /\ Out(link, toMain) /\ Seen(link, main, sub)
      /\ sub \in Subs /\ main \in {"", "read", "write"}
  BY AsleepOrNot DEF WriteSubP2, LinkInv, LinkOK
<1>2. UNCHANGED <<main, toSub, toMain>>
  BY DEF WriteSubP2
\* What it makes of a value of P2 that its program writes.
<1> DEFINE Fits(p2, s) ==
      /\ p2 \in SUBSET (0..7) /\ s \in Subs /\ s.saw = sub.saw
      /\ s.asking => s.saw = "room" /\ 6 \notin p2
      /\ (6 \in p2 <=> 6 \in link.p2) \/ sub.saw = "room"
<1>3. ASSUME NEW p2, NEW s, Fits(p2, s), link' = WriteP2(link, p2), sub' = s PROVE LinkInv'
  <2> DEFINE k == WriteP2(link, p2)
  <2>1. /\ Sound(k) /\ Asked(k) /\ k.p2 = p2 /\ k.intr = (6 \notin p2)
        /\ k.out = link.out /\ k.written = link.written /\ k.read = link.read
    BY <1>1, <1>3, P2Is
  <2>2. link' = k
    BY <1>3
  <2> HIDE DEF k
  <2>3. In(k, toSub)
    BY <1>1, <2>1 DEF In
  <2>4. Out(k, toMain)
    <3>1. CASE 7 \in link.out
      BY <1>1, <2>1, <3>1 DEF Out
    <3>2. CASE 7 \notin link.out
      <4>1. sub.saw # "room"
        BY <1>1, <3>2 DEF Seen
      <4>2. 6 \in p2 <=> 6 \in link.p2
        BY <1>3, <4>1
      <4>3. PICK post \in Posts : /\ toMain = <<post>> /\ link.written.A = post.byte
                                  /\ (post.ask <=> 6 \notin link.p2) /\ (link.intr <=> 6 \notin link.p2)
        BY <1>1, <3>2 DEF Out
      <4>4. (post.ask <=> 6 \notin k.p2) /\ (k.intr <=> 6 \notin k.p2)
        BY <2>1, <4>2, <4>3
      <4> QED BY <2>1, <3>2, <4>3, <4>4 DEF Out
    <3> QED BY <3>1, <3>2
  <2>5. Seen(k, main, s)
    BY <1>1, <1>3, <2>1 DEF Seen
  <2> QED BY <1>1, <1>2, <1>3, <2>1, <2>2, <2>3, <2>4, <2>5, SoundStep
<1>4. link.p2 \in SUBSET (0..7) /\ DeckBits \subseteq 1..4
  BY <1>1 DEF Sound, LinkRecords, SubLinkAssumption
<1>5. CASE sub.saw = "room" /\ link' = WriteP2(link, link.p2 \ {6}) /\ sub' = [sub EXCEPT !.asking = TRUE]
  <2> DEFINE p2 == link.p2 \ {6}
             s == [sub EXCEPT !.asking = TRUE]
  <2>1. s \in Subs /\ s.saw = "room"
    BY <1>1, <1>5 DEF Subs
  <2>2. p2 \in SUBSET (0..7) /\ 6 \notin p2
    BY <1>4
  <2> HIDE DEF s, p2
  <2>3. Fits(p2, s)
    BY <1>5, <2>1, <2>2
  <2>4. link' = WriteP2(link, p2) /\ sub' = s
    BY <1>5 DEF p2, s
  <2> HIDE DEF Fits
  <2> QED BY <1>3, <2>3, <2>4
<1>6. CASE sub.saw = "room" /\ ~sub.asking /\ link' = WriteP2(link, link.p2 \union {6}) /\ UNCHANGED sub
  <2> DEFINE p2 == link.p2 \union {6}
  <2>1. p2 \in SUBSET (0..7)
    BY <1>4
  <2>2. link' = WriteP2(link, p2) /\ sub' = sub
    BY <1>6
  <2> HIDE DEF p2
  <2>3. Fits(p2, sub)
    BY <1>1, <1>6, <2>1
  <2> HIDE DEF Fits
  <2> QED BY <1>3, <2>2, <2>3
<1>7. ASSUME NEW n \in DeckBits, UNCHANGED sub,
             link' = WriteP2(link, IF n \in link.p2 THEN link.p2 \ {n} ELSE link.p2 \union {n})
      PROVE  LinkInv'
  <2> DEFINE p2 == IF n \in link.p2 THEN link.p2 \ {n} ELSE link.p2 \union {n}
  <2>1. p2 \in SUBSET (0..7) /\ (6 \in p2 <=> 6 \in link.p2)
    BY <1>4
  <2>2. link' = WriteP2(link, p2) /\ sub' = sub
    BY <1>7
  <2> HIDE DEF p2
  <2>3. Fits(p2, sub)
    BY <1>1, <2>1 DEF Seen
  <2> HIDE DEF Fits
  <2> QED BY <1>3, <2>2, <2>3
<1> QED BY <1>5, <1>6, <1>7 DEF WriteSubP2

LEMMA SubSetsBitOK ==
  ASSUME SubLinkAssumption, LinkInv, NEW on \in BOOLEAN, NEW n \in OwnBits, SubSetsBit(n, on) PROVE LinkInv'
<1>1. /\ Sound(link) /\ Asked(link) /\ In(link, toSub) /\ Out(link, toMain) /\ Seen(link, main, sub)
      /\ sub \in Subs /\ main \in {"", "read", "write"}
  BY AsleepOrNot DEF SubSetsBit, LinkInv, LinkOK
<1> DEFINE bits == IF on THEN link.out \union {n} ELSE link.out \ {n}
           k == PutC(link, bits)
<1>2. link' = k /\ UNCHANGED <<main, sub, toSub, toMain>>
  BY DEF SubSetsBit, SetBit
<1>3. bits \in SUBSET (0..7) /\ (5 \in bits <=> 5 \in link.out) /\ (7 \in bits <=> 7 \in link.out)
  <2>1. link.out \in SUBSET (0..7) /\ n \in {0, 1, 4, 6}
    BY <1>1 DEF Sound, LinkRecords, SubLinkAssumption
  <2> QED BY <2>1
<1> HIDE DEF bits
<1>4. Sound(k) /\ Asked(k) /\ Kept(link, k) /\ k.out = bits
  BY <1>1, <1>3, SoundPut
<1> HIDE DEF k
<1>5. In(k, toSub) /\ Out(k, toMain) /\ Seen(k, main, sub)
  <2>1. \A b \in {5, 7} : b \in k.out <=> b \in link.out
    BY <1>3, <1>4
  <2> QED BY <1>1, <1>4, <2>1, FlagsKept
<1> QED BY <1>1, <1>2, <1>4, <1>5, SoundStep

LEMMA SubBeginsOK == ASSUME LinkInv, SubBegins PROVE LinkInv'
<1>1. Asleep(link) /\ main = "" /\ sub = Idle /\ toSub = <<>> /\ toMain = <<>> /\ link \in LinkRecords
  BY AsleepOrNot DEF SubBegins, LinkInv, LinkOK
<1> DEFINE k == Command(link, [A |-> 2, B |-> 0], {"B"}, {})
<1>2. Sound(k) /\ Asked(k) /\ 5 \notin k.out /\ 7 \in k.out /\ k.p2 = 0..7 /\ k.intr = FALSE
  BY <1>1, BeginIs
<1>3. link' = k /\ main' = "" /\ sub' = Idle /\ toSub' = <<>> /\ toMain' = <<>>
  BY <1>1 DEF SubBegins
<1> HIDE DEF k
<1>4. Idle \in Subs /\ Idle.saw = "" /\ Idle.asking = FALSE
  BY DEF Idle, Subs
<1>5. In(k, <<>>) /\ Out(k, <<>>) /\ Seen(k, "", Idle)
  BY <1>2, <1>4 DEF In, Out, Seen
<1> QED BY <1>2, <1>3, <1>4, <1>5, SoundStep

\* Where nothing has begun.
LEMMA AsleepStep ==
  ASSUME NEW k \in LinkRecords, Asleep(k)
  PROVE  LinkOK(k, "", Idle, <<>>, <<>>)
<1>1. Idle \in Subs
  BY DEF Idle, Subs
<1> QED BY <1>1 DEF LinkOK

LEMMA LinkResetOK == ASSUME LinkInv, Reset PROVE LinkInv'
<1> DEFINE k == LinkAtReset(link)
<1>1. k \in LinkRecords /\ Asleep(k)
  BY ResetIs DEF LinkInv, LinkOK
<1>2. link' = k /\ main' = "" /\ sub' = Idle /\ toSub' = <<>> /\ toMain' = <<>>
  BY DEF Reset
<1> HIDE DEF k
<1> QED BY <1>1, <1>2, AsleepStep DEF LinkInv

LEMMA LinkInit == ASSUME SubLinkAssumption, Init PROVE LinkInv
<1>1. LinkOK(Built, "", Idle, <<>>, <<>>)
  BY BuiltIs, AsleepStep
<1> QED BY <1>1 DEF Init, LinkInv

LEMMA LinkNext == ASSUME SubLinkAssumption, LinkInv, [Next]_linkVars PROVE LinkInv'
<1>1. CASE UNCHANGED linkVars
  BY <1>1 DEF linkVars, LinkInv
<1>2. CASE Next
  <2>1. CASE SubBegins \/ MainLooks \/ MainTakes \/ Interrupt \/ SetIei
    BY <2>1, SubBeginsOK, MainLooksOK, MainTakesOK, InterruptOK, SetIeiOK
  <2>2. CASE SubLooks \/ SubTakes \/ WriteSubP2 \/ Reset
    BY <2>2, SubLooksOK, SubTakesOK, WriteSubP2OK, LinkResetOK
  <2>3. ASSUME NEW byte \in Codes, MainSends(byte) \/ SubPosts(byte) PROVE LinkInv'
    BY <2>3, MainSendsOK, SubPostsOK
  <2>4. ASSUME NEW on \in BOOLEAN, NEW n \in OwnBits, SubSetsBit(n, on) PROVE LinkInv'
    BY <2>4, SubSetsBitOK
  <2> QED BY <1>2, <2>1, <2>2, <2>3, <2>4 DEF Next
<1> QED BY <1>1, <1>2

(* What the invariant says of the bytes that are under way. *)
LEMMA LinkSafe == ASSUME LinkInv PROVE SubLinkIsSafe
<1>1. CASE ~Begun
  <2>1. Asleep(link) /\ main = "" /\ sub = Idle /\ toSub = <<>> /\ toMain = <<>>
    BY <1>1, AsleepOrNot
  <2>2. OneByteEachWay
    BY <1>1 DEF OneByteEachWay
  <2>3. NobodyIsLate
    BY <2>1 DEF NobodyIsLate, Idle
  <2>4. AskedForARequest
    BY <2>1 DEF AskedForARequest, Asleep
  <2> QED BY <2>2, <2>3, <2>4 DEF SubLinkIsSafe
<1>2. CASE Begun
  <2>1. Sound(link) /\ Asked(link) /\ In(link, toSub) /\ Out(link, toMain) /\ Seen(link, main, sub)
    BY <1>2, AsleepOrNot
  <2>2. Len(toSub) <= 1 /\ (5 \in link.out <=> toSub # <<>>) /\ (toSub # <<>> => link.read.A = toSub[1])
    <3>1. CASE 5 \in link.out
      <4>1. PICK byte \in Codes : toSub = <<byte>> /\ link.read.A = byte
        BY <2>1, <3>1 DEF In
      <4>2. Len(<<byte>>) = 1 /\ <<byte>> # <<>> /\ <<byte>>[1] = byte
        OBVIOUS
      <4> QED BY <3>1, <4>1, <4>2
    <3>2. CASE 5 \notin link.out
      <4>1. toSub = <<>>
        BY <2>1, <3>2 DEF In
      <4> QED BY <3>2, <4>1
    <3> QED BY <3>1, <3>2
  <2>3. /\ Len(toMain) <= 1 /\ (7 \notin link.out <=> toMain # <<>>)
        /\ toMain # <<>> => link.written.A = toMain[1].byte
    <3>1. CASE 7 \notin link.out
      <4>1. PICK post \in Posts : toMain = <<post>> /\ link.written.A = post.byte
        BY <2>1, <3>1 DEF Out
      <4>2. Len(<<post>>) = 1 /\ <<post>> # <<>> /\ <<post>>[1] = post
        OBVIOUS
      <4> QED BY <3>1, <4>1, <4>2
    <3>2. CASE 7 \in link.out
      <4>1. toMain = <<>>
        BY <2>1, <3>2 DEF Out
      <4> QED BY <3>2, <4>1
    <3> QED BY <3>1, <3>2
  <2>4. toMain # <<>> => (toMain[1].ask <=> link.intr)
    BY <2>1 DEF Out
  <2>5. (6 \in link.seen <=> 5 \in link.out) /\ (5 \in link.seen <=> 7 \in link.out) /\ link.obf = (7 \notin link.out)
    BY <2>1 DEF Sound, Knows, SeenOf
  <2>6. ByteRead(link, "A") = link.read["A"]
    <3>1. link.mode["A"] = 2
      BY <1>2 DEF Begun
    <3> QED BY <3>1 DEF ByteRead
  <2>7. OneByteEachWay
    BY <2>2, <2>3, <2>5, <2>6, BitsAre DEF OneByteEachWay
  <2>8. NobodyIsLate
    BY <2>1, <2>2, <2>3 DEF NobodyIsLate, Seen
  <2>9. AskedForARequest
    <3>1. link.line = (link.intr /\ link.obf /\ link.iei) /\ link.intr \in BOOLEAN /\ link.iei \in BOOLEAN
      BY <2>1 DEF Asked, Sound, LinkRecords
    <3>2. link.obf <=> toMain # <<>>
      BY <2>3, <2>5
    <3> QED BY <2>4, <3>1, <3>2, Zenon DEF AskedForARequest
  <2> QED BY <2>7, <2>8, <2>9 DEF SubLinkIsSafe
<1> QED BY <1>1, <1>2

LEMMA LinkTyped == ASSUME LinkInv PROVE TypeOK
<1>1. link \in LinkRecords /\ sub \in Subs /\ main \in {"", "read", "write"}
  BY DEF LinkInv, LinkOK
<1>2. link.out \subseteq 0..7 /\ link.inp \subseteq {4, 6} /\ link.seen \subseteq {0, 5, 6}
  BY <1>1 DEF LinkRecords
<1>3. \A g \in Groups : link.mode[g] \in 0..2 /\ link.written[g] \in Codes \union {0}
  BY <1>1 DEF LinkRecords, Bytes
<1>4. \A f \in {link.intr, link.obf, link.iei, link.line, link.remote, link.cassette} : f \in BOOLEAN
  BY <1>1 DEF LinkRecords
<1>5. sub.saw \in {"", "byte", "room"} /\ sub.asking \in BOOLEAN
  BY <1>1 DEF Subs
<1>6. toSub \in Seq(Codes)
  <2>1. CASE toSub = <<>>
    BY <2>1
  <2>2. CASE toSub # <<>>
    <3>1. PICK byte \in Codes : toSub = <<byte>>
      BY <2>2, AsleepOrNot DEF In
    <3> QED BY <3>1
  <2> QED BY <2>1, <2>2
<1> QED BY <1>1, <1>2, <1>3, <1>4, <1>5, <1>6 DEF TypeOK

-----------------------------------------------------------------------------
\* Whatever the programs do that look at a flag before they use the port, with a
\* reset at any time: no byte is lost or taken twice either way, the flags, the main
\* CPU's PIO and SUB say what is under way, and the CPU is asked for each request
\* while it waits (i8255.cpp, write_io8 to write_signal; x1/sub.cpp, write_signal).
THEOREM OneByteIsUnderWay == ASSUME SubLinkAssumption PROVE Spec => [](TypeOK /\ SubLinkIsSafe)
<1>1. Init => LinkInv
  BY LinkInit
<1>2. LinkInv /\ [Next]_linkVars => LinkInv'
  BY LinkNext
<1>3. LinkInv => TypeOK /\ SubLinkIsSafe
  BY LinkSafe, LinkTyped
<1> QED BY <1>1, <1>2, <1>3, PTL DEF Spec
===============================================================================

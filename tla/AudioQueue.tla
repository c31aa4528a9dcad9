------------------------------ MODULE AudioQueue ------------------------------
(***************************************************************************)
(* What the core promises the audio device: a bounded queue of stereo      *)
(* frames.  Chunks go in whole at the back; when there is no room the      *)
(* oldest frames are dropped; the device takes frames from the front, in   *)
(* order and each once; and the queue can be thrown away.                  *)
(***************************************************************************)
EXTENDS Naturals, Sequences

CONSTANTS Frames,     \* the values a stereo frame can have
          Capacity    \* frames the queue can hold

VARIABLES queue, dst  \* dst: the frames the last pull delivered

AqInit == queue = <<>> /\ dst = <<>>

\* The last n elements of a sequence.
Newest(s, n) == IF Len(s) <= n THEN s ELSE SubSeq(s, Len(s) - n + 1, Len(s))

Push(chunk) == /\ queue' = Newest(queue \o chunk, Capacity)
               /\ UNCHANGED dst

Pull(n) == /\ n <= Len(queue)
           /\ dst' = SubSeq(queue, 1, n)
           /\ queue' = SubSeq(queue, n + 1, Len(queue))

Clear == queue' = <<>> /\ UNCHANGED dst

\* A chunk is what the queue gained at its back.
AqNext ==
  \/ \E n \in 0..Len(queue) : Pull(n)
  \/ Clear
  \/ \E k \in 1..Capacity :
       Len(queue') >= k /\ Push(SubSeq(queue', Len(queue') - k + 1, Len(queue')))

AqSpec == AqInit /\ [][AqNext]_<<queue, dst>>
=============================================================================

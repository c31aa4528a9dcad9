------------------------------ MODULE EmuThreads ------------------------------
(***************************************************************************)
(* The two threads that share the machine: the application's own thread    *)
(* (event pump, menus, drawing) and the emulation thread (emulationLoop),  *)
(* with the audio device's thread as far as shutting down concerns it.     *)
(*                                                                         *)
(* The threads meet in the VM lock (a recursive, unfair mutex, counted by  *)
(* vm_lock_users) and in five atomic flags.  Every load, store, exchange   *)
(* or mutex operation that the other thread can observe is a step of its   *)
(* own.  What a frame computes is abstracted away: a call into the core is *)
(* "held", and all that a frame leaves behind is whether the sound ring    *)
(* has reached the pacing target (ringFull).                               *)
(*                                                                         *)
(* The flags are relaxed atomics.  With StoreBuffers the two stores of the *)
(* parking handshake go through a one-entry store buffer per thread, which *)
(* every x86 or ARM processor has: a subset of what relaxed order allows.  *)
(***************************************************************************)
EXTENDS Naturals

CONSTANTS
  FullSpeedGuard,   \* frames in one Full Speed pass (2000 in the code)
  PaceGuard,        \* frames in one pacing pass (1000 in the code)
  MaxBatch,         \* events one pass of the event pump delivers
  ParkMayTimeOut,   \* a park may wait ParkWaitMs in vain
  SleepHandsOver,   \* delay(1) outlasts the wake-up of a waiting thread
  StoreBuffers      \* the handshake's stores are delayed by store buffers

ASSUME EmuThreadsAssumption ==
  /\ FullSpeedGuard \in Nat /\ PaceGuard \in Nat /\ MaxBatch \in Nat
  /\ ParkMayTimeOut \in BOOLEAN
  /\ SleepHandsOver \in BOOLEAN
  /\ StoreBuffers \in BOOLEAN

VARIABLES
  appPc, emuPc,     \* where each thread is
  batch,            \* events delivered by this pass of the pump
  parkReason,       \* why the last wait for the park ended (history)
  stage,            \* how far each thread's bridge call has got
  holder,           \* owner of OSD::vm_mutex
  lockCount,        \* OSD::lock_count
  lockUsers,        \* vm_lock_users
  running, fullSpeed, drawPending,
  parkRequested, parked,
  reqBuf, ackBuf,   \* store buffers of parkRequested and of parked
  pass, guardCount, \* the pass emulationLoop is in, and its frames
  lateFrames,       \* frames begun since the park was requested (history)
  ringFull,         \* bx1GetBufferedAudioFrames() >= emuTargetFrames
  audio             \* the audio device's thread

appVars   == <<appPc, batch, parkReason>>
lockVars  == <<stage, holder, lockCount, lockUsers>>
parkVars  == <<parkRequested, parked, reqBuf, ackBuf>>
flagVars  == <<running, fullSpeed, drawPending>>
passVars  == <<pass, guardCount>>
soundVars == <<ringFull, audio>>
vars == <<appVars, emuPc, lockVars, parkVars, flagVars, passVars, lateFrames,
          soundVars>>

Threads == {"app", "emu"}
AppPcs  == {"check", "events", "call", "parkWait", "body", "bodyCall", "frame",
            "framed", "rest", "join", "save", "close", "destroy", "gone"}
EmuPcs  == {"top", "chk", "ack", "parked", "unpark", "mode", "full", "yield",
            "yielded", "pace", "run", "ran", "draw", "count", "end", "nap",
            "done"}
InCore  == {"held", "nested", "unnested"}
Stages  == {"out", "counted", "released"} \union InCore
Buffers == {"empty", "set", "clear"}

TypeOK ==
  /\ appPc \in AppPcs /\ emuPc \in EmuPcs
  /\ batch \in 0..MaxBatch
  /\ parkReason \in {"none", "acked", "timedOut", "quit"}
  /\ stage \in [Threads -> Stages]
  /\ holder \in Threads \union {"free"}
  /\ lockCount \in 0..2 /\ lockUsers \in 0..3
  /\ running \in BOOLEAN /\ fullSpeed \in BOOLEAN /\ drawPending \in BOOLEAN
  /\ parkRequested \in BOOLEAN /\ parked \in BOOLEAN
  /\ reqBuf \in Buffers /\ ackBuf \in Buffers
  /\ pass \in {"full", "pace"}
  /\ guardCount \in 0..(IF FullSpeedGuard > PaceGuard THEN FullSpeedGuard
                                                      ELSE PaceGuard)
  /\ lateFrames \in 0..2
  /\ ringFull \in BOOLEAN
  /\ audio \in {"idle", "pulling", "closed"}

(* The state createThread leaves: the audio device plays, a first picture  *)
(* is asked for, and the event loop is about to start.                     *)
Init ==
  /\ appPc = "check" /\ emuPc = "top"
  /\ batch = 0 /\ parkReason = "none"
  /\ stage = [t \in Threads |-> "out"]
  /\ holder = "free" /\ lockCount = 0 /\ lockUsers = 0
  /\ running = TRUE /\ fullSpeed \in BOOLEAN /\ drawPending = TRUE
  /\ parkRequested = FALSE /\ parked = FALSE
  /\ reqBuf = "empty" /\ ackBuf = "empty"
  /\ pass = "pace" /\ guardCount = 0 /\ lateFrames = 0
  /\ ringFull = FALSE /\ audio = "idle"

-----------------------------------------------------------------------------
(* The bridge's lock.  A thread is in a call while its pc is a call's.     *)

Calling(t) == IF t = "app" THEN appPc \in {"call", "bodyCall", "frame", "save"}
                           ELSE emuPc \in {"run", "draw"}

\* EMU::run() takes the lock again around vm->run(); drawFrame() calls
\* bx1_get_framebuffer(), which has a guard of its own, under bx1_lock().
Nests(t) == IF t = "app" THEN appPc = "frame" ELSE emuPc = "run"
NestedUser(t) == IF t = "app" THEN 1 ELSE 0

\* A locked or read-modify-write operation drains the thread's own buffer.
Fence(t) == IF t = "app" THEN reqBuf = "empty" ELSE ackBuf = "empty"

(* lateFrames counts the frames the emulation thread begins while a park   *)
(* request is visible to it; it is capped at 2.                            *)
CountLate(t) ==
  lateFrames' = IF t = "emu" /\ emuPc = "run" /\ parkRequested /\ lateFrames < 2
                THEN lateFrames + 1 ELSE lateFrames

CountUser(t) ==
  /\ Calling(t) /\ stage[t] = "out" /\ Fence(t)
  /\ stage' = [stage EXCEPT ![t] = "counted"]
  /\ lockUsers' = lockUsers + 1
  /\ CountLate(t)
  /\ UNCHANGED <<holder, lockCount, appVars, emuPc, parkVars, flagVars,
                 passVars, soundVars>>

\* Mutant: the mutex is not taken.
LockVmUnheld(t) ==
  /\ stage[t] = "counted"
  /\ stage' = [stage EXCEPT ![t] = "held"]
  /\ holder' = t
  /\ lockCount' = lockCount + 1
  /\ UNCHANGED <<lockUsers, appVars, emuPc, parkVars, flagVars, passVars,
                 lateFrames, soundVars>>

LockVm(t) ==
  /\ stage[t] = "counted" /\ holder = "free"
  /\ stage' = [stage EXCEPT ![t] = "held"]
  /\ holder' = t
  /\ lockCount' = lockCount + 1
  /\ UNCHANGED <<lockUsers, appVars, emuPc, parkVars, flagVars, passVars,
                 lateFrames, soundVars>>

NestedLock(t) ==
  /\ stage[t] = "held" /\ Nests(t) /\ holder = t
  /\ stage' = [stage EXCEPT ![t] = "nested"]
  /\ lockCount' = lockCount + 1
  /\ lockUsers' = lockUsers + NestedUser(t)
  /\ UNCHANGED <<holder, appVars, emuPc, parkVars, flagVars, passVars,
                 lateFrames, soundVars>>

\* Mutant: lock_count is never decremented.
UnlockedUncounted == lockCount

\* unlock_vm() clamps the count at zero before it releases the mutex.
Unlocked == IF lockCount <= 1 THEN 0 ELSE lockCount - 1

\* Mutant: the inner guard's destructor forgets vm_lock_users.
NestedUnlockForgets(t) ==
  /\ stage[t] = "nested"
  /\ stage' = [stage EXCEPT ![t] = "unnested"]
  /\ lockCount' = Unlocked
  /\ UNCHANGED <<lockUsers, holder, appVars, emuPc, parkVars, flagVars,
                 passVars, lateFrames, soundVars>>

NestedUnlock(t) ==
  /\ stage[t] = "nested"
  /\ stage' = [stage EXCEPT ![t] = "unnested"]
  /\ lockCount' = Unlocked
  /\ lockUsers' = lockUsers - NestedUser(t)
  /\ UNCHANGED <<holder, appVars, emuPc, parkVars, flagVars, passVars,
                 lateFrames, soundVars>>

(* What the finished call leaves in the sound ring: a frame may fill it, a *)
(* reset or a mute empties it, a state load does either.                   *)
RingAfterCall(t) ==
  \/ ringFull' = ringFull
  \/ ringFull' = TRUE /\ t = "emu" /\ emuPc = "run"
  \/ ringFull' = TRUE /\ t = "app" /\ appPc = "bodyCall"
  \/ ringFull' = FALSE /\ t = "app" /\ appPc \in {"call", "bodyCall"}

UnlockVm(t) ==
  /\ stage[t] = IF Nests(t) THEN "unnested" ELSE "held"
  /\ stage' = [stage EXCEPT ![t] = "released"]
  /\ lockCount' = Unlocked
  /\ holder' = "free"
  /\ RingAfterCall(t)
  /\ UNCHANGED <<lockUsers, appVars, emuPc, parkVars, flagVars, passVars,
                 lateFrames, audio>>

\* Where a caller goes on.
Return(t) ==
  \/ /\ t = "app" /\ UNCHANGED emuPc
     /\ \E to \in AppPcs :
          /\ <<appPc, to>> \in {<<"call", "events">>, <<"bodyCall", "body">>,
                               <<"frame", "framed">>, <<"save", "close">>}
          /\ appPc' = to
  \/ /\ t = "emu" /\ UNCHANGED appPc
     /\ \E to \in EmuPcs :
          /\ <<emuPc, to>> \in {<<"run", "ran">>, <<"draw", "count">>}
          /\ emuPc' = to

\* The guard's destructor ends, and the call returns.
UncountUser(t) ==
  /\ stage[t] = "released"
  /\ stage' = [stage EXCEPT ![t] = "out"]
  /\ lockUsers' = lockUsers - 1
  /\ Return(t)
  /\ UNCHANGED <<batch, parkReason, holder, lockCount, parkVars, flagVars,
                 passVars, lateFrames, soundVars>>

BridgeStep(t) == \/ CountUser(t) \/ LockVm(t) \/ NestedLock(t)
                 \/ NestedUnlock(t) \/ UnlockVm(t) \/ UncountUser(t)

-----------------------------------------------------------------------------
(* The application's thread.                                               *)

AppIdle == UNCHANGED <<emuPc, lockVars, passVars, soundVars>>

\* while running(): at the top of the main loop.
MainLoop ==
  /\ appPc = "check"
  /\ appPc' = IF running THEN "events" ELSE "join"
  /\ batch' = 0
  /\ UNCHANGED <<parkReason, parkVars, flagVars, lateFrames>> /\ AppIdle

\* Each event the pump delivers, QuitEvent included, goes on with the batch.
NextEvent == /\ appPc = "events" /\ batch < MaxBatch /\ batch' = batch + 1

QuitEvent ==
  /\ NextEvent /\ running /\ reqBuf = "empty"
  /\ running' = FALSE
  /\ UNCHANGED <<appPc, parkReason, parkVars, fullSpeed, drawPending,
                 lateFrames>> /\ AppIdle

ToggleFullSpeed ==
  /\ NextEvent /\ reqBuf = "empty"
  /\ fullSpeed' = ~fullSpeed
  /\ UNCHANGED <<appPc, parkReason, parkVars, running, drawPending,
                 lateFrames>> /\ AppIdle

\* A key, a joystick, a menu action: one bx1_* call.
BridgeCall ==
  /\ NextEvent
  /\ appPc' = "call"
  /\ UNCHANGED <<parkReason, parkVars, flagVars, lateFrames>> /\ AppIdle

Buffered(value) == IF value THEN "set" ELSE "clear"

StoreParkRequested(value) ==
  IF StoreBuffers
  THEN /\ reqBuf = "empty" /\ reqBuf' = Buffered(value)
       /\ UNCHANGED <<parkRequested, lateFrames>>
  ELSE /\ parkRequested' = value /\ lateFrames' = 0
       /\ UNCHANGED reqBuf

\* withMachineParked, from Save State or Load State.
RequestPark ==
  /\ NextEvent
  /\ StoreParkRequested(TRUE)
  /\ appPc' = "parkWait" /\ parkReason' = "none"
  /\ UNCHANGED <<parked, ackBuf, flagVars>> /\ AppIdle

EnterBody(reason) ==
  /\ appPc = "parkWait"
  /\ appPc' = "body" /\ parkReason' = reason
  /\ UNCHANGED <<batch, parkVars, flagVars, lateFrames>> /\ AppIdle

ParkAcked    == running /\ emuPc # "done" /\ parked /\ EnterBody("acked")
ParkQuit     == (~running \/ emuPc = "done") /\ EnterBody("quit")
ParkTimesOut == ParkMayTimeOut /\ running /\ ~parked /\ EnterBody("timedOut")

BodyCall ==
  /\ appPc = "body"
  /\ appPc' = "bodyCall"
  /\ UNCHANGED <<batch, parkReason, parkVars, flagVars, lateFrames>> /\ AppIdle

EndPark ==
  /\ appPc = "body"
  /\ StoreParkRequested(FALSE)
  /\ appPc' = "events" /\ parkReason' = "none"
  /\ UNCHANGED <<batch, parked, ackBuf, flagVars>> /\ AppIdle

\* The queue is empty: draw if the interval has passed, or wait for it.
EndBatch ==
  /\ appPc = "events"
  /\ appPc' \in {"frame", "rest"}
  /\ UNCHANGED <<batch, parkReason, parkVars, flagVars, lateFrames>> /\ AppIdle

AskForPicture ==
  /\ appPc = "framed" /\ reqBuf = "empty"
  /\ drawPending' = TRUE
  /\ appPc' = "check"
  /\ UNCHANGED <<batch, parkReason, parkVars, running, fullSpeed,
                 lateFrames>> /\ AppIdle

Rest ==
  /\ appPc = "rest"
  /\ appPc' = "check"
  /\ UNCHANGED <<batch, parkReason, parkVars, flagVars, lateFrames>> /\ AppIdle

\* Mutant: the emulation thread is not joined.
JoinThreadSkipped ==
  /\ appPc = "join"
  /\ appPc' = "save"
  /\ UNCHANGED <<batch, parkReason, parkVars, flagVars, lateFrames>> /\ AppIdle

JoinThread ==
  /\ appPc = "join" /\ emuPc = "done"
  /\ appPc' = "save"
  /\ UNCHANGED <<batch, parkReason, parkVars, flagVars, lateFrames>> /\ AppIdle

\* closeAudioDevice starts no more callbacks and waits for the last one.
CloseAudio ==
  /\ appPc = "close" /\ audio = "idle"
  /\ audio' = "closed" /\ appPc' = "destroy"
  /\ UNCHANGED <<batch, parkReason, emuPc, lockVars, parkVars, flagVars,
                 passVars, lateFrames, ringFull>>

Destroy ==
  /\ appPc = "destroy"
  /\ appPc' = "gone"
  /\ UNCHANGED <<batch, parkReason, parkVars, flagVars, lateFrames>> /\ AppIdle

AppMove ==
  \/ MainLoop \/ QuitEvent \/ ToggleFullSpeed \/ BridgeCall \/ RequestPark
  \/ ParkAcked \/ ParkQuit \/ ParkTimesOut \/ BodyCall \/ EndPark \/ EndBatch
  \/ AskForPicture \/ Rest \/ JoinThread \/ CloseAudio \/ Destroy

AppStep == AppMove \/ BridgeStep("app")

-----------------------------------------------------------------------------
(* The emulation thread: emulationLoop.                                    *)

EmuIdle == UNCHANGED <<appVars, lockVars, soundVars, running, fullSpeed,
                       parkRequested, reqBuf, lateFrames>>

EmuGo(from, to) == emuPc = from /\ emuPc' = to

\* Mutant: while true.
EmuLoopForever ==
  /\ EmuGo("top", "chk")
  /\ UNCHANGED <<parked, ackBuf, drawPending, passVars>> /\ EmuIdle

EmuLoop ==
  /\ EmuGo("top", IF running THEN "chk" ELSE "done")
  /\ UNCHANGED <<parked, ackBuf, drawPending, passVars>> /\ EmuIdle

CheckPark ==
  /\ EmuGo("chk", IF parkRequested THEN "ack" ELSE "mode")
  /\ UNCHANGED <<parked, ackBuf, drawPending, passVars>> /\ EmuIdle

StoreParked(value) ==
  IF StoreBuffers THEN ackBuf = "empty" /\ ackBuf' = Buffered(value) /\ UNCHANGED parked
                  ELSE parked' = value /\ UNCHANGED ackBuf

AckPark ==
  /\ EmuGo("ack", "parked")
  /\ StoreParked(TRUE)
  /\ UNCHANGED <<drawPending, passVars>> /\ EmuIdle

\* Mutant: the inner wait looks at running only.
LeaveWaitDeaf ==
  /\ EmuGo("parked", "unpark")
  /\ ~running
  /\ UNCHANGED <<parked, ackBuf, drawPending, passVars>> /\ EmuIdle

\* The inner wait ends; while the condition holds the thread only sleeps.
LeaveWait ==
  /\ EmuGo("parked", "unpark")
  /\ ~running \/ ~parkRequested
  /\ UNCHANGED <<parked, ackBuf, drawPending, passVars>> /\ EmuIdle

\* Mutant: the acknowledgement is left standing.
UnparkLeavesAck ==
  /\ EmuGo("unpark", "top")
  /\ UNCHANGED <<parked, ackBuf, drawPending, passVars>> /\ EmuIdle

Unpark ==
  /\ EmuGo("unpark", "top")
  /\ StoreParked(FALSE)
  /\ UNCHANGED <<drawPending, passVars>> /\ EmuIdle

ChoosePass ==
  /\ EmuGo("mode", IF fullSpeed THEN "full" ELSE "pace")
  /\ pass' = IF fullSpeed THEN "full" ELSE "pace"
  /\ guardCount' = 0
  /\ UNCHANGED <<parked, ackBuf, drawPending>> /\ EmuIdle

\* Mutant: the Full Speed pass does not look at parkRequested.
FullGoesOnUnasked ==
  /\ EmuGo("full", "yield")
  /\ UNCHANGED <<parked, ackBuf, drawPending, passVars>> /\ EmuIdle

\* The Full Speed pass is time-boxed and looks at parkRequested, not running.
FullGoesOn ==
  /\ EmuGo("full", "yield")
  /\ ~parkRequested
  /\ UNCHANGED <<parked, ackBuf, drawPending, passVars>> /\ EmuIdle

FullEnds ==
  /\ EmuGo("full", "end")
  /\ UNCHANGED <<parked, ackBuf, drawPending, passVars>> /\ EmuIdle

\* yieldToUi: sleeps a millisecond, and ends the pass, if anyone is counted.
YieldToUi ==
  /\ EmuGo("yield", "yielded")
  /\ lockUsers > 0
  /\ UNCHANGED <<parked, ackBuf, drawPending, passVars>> /\ EmuIdle

\* Mutant: the pass goes straight on to the next frame.
NobodyAsked ==
  /\ EmuGo("yield", "run")
  /\ UNCHANGED <<parked, ackBuf, drawPending, passVars>> /\ EmuIdle

NobodyWaits ==
  /\ EmuGo("yield", "run")
  /\ lockUsers = 0
  /\ UNCHANGED <<parked, ackBuf, drawPending, passVars>> /\ EmuIdle

PaceCheck ==
  /\ EmuGo("pace", IF running /\ ~parkRequested /\ ~ringFull THEN "run"
                                                             ELSE "end")
  /\ UNCHANGED <<parked, ackBuf, drawPending, passVars>> /\ EmuIdle

\* Mutant: only the application's thread draws.
TakeNoDraw ==
  /\ EmuGo("ran", "count")
  /\ UNCHANGED <<parked, ackBuf, drawPending, passVars>> /\ EmuIdle

\* bx1RunFrame returned a positive count: drawPending.exchange(false).
TakeDrawPending ==
  /\ EmuGo("ran", IF drawPending THEN "draw" ELSE "count")
  /\ ackBuf = "empty"
  /\ drawPending' = FALSE
  /\ UNCHANGED <<parked, ackBuf, passVars>> /\ EmuIdle

PassGuard == IF pass = "full" THEN FullSpeedGuard ELSE PaceGuard

CountFrame ==
  /\ EmuGo("count", IF guardCount >= PassGuard THEN "end" ELSE pass)
  /\ guardCount' = IF guardCount >= PassGuard THEN 0 ELSE guardCount + 1
  /\ UNCHANGED <<parked, ackBuf, drawPending, pass>> /\ EmuIdle

EndPass ==
  /\ EmuGo("end", IF fullSpeed THEN "top" ELSE "nap")
  /\ UNCHANGED <<parked, ackBuf, drawPending, passVars>> /\ EmuIdle

(* delay(1).  With SleepHandsOver a thread that can take the lock has it   *)
(* before this one wakes: "sleeping here rather than merely yielding is    *)
(* what actually hands the lock over".  After yieldToUi's own sleep the    *)
(* pass ends; after the pacing pass's the loop starts again.               *)
Wake ==
  /\ emuPc \in {"nap", "yielded"}
  /\ SleepHandsOver => ~(stage["app"] = "counted" /\ holder = "free")
  /\ emuPc' = IF emuPc = "nap" THEN "top" ELSE "end"
  /\ UNCHANGED <<parked, ackBuf, drawPending, passVars>> /\ EmuIdle

EmuMove ==
  \/ EmuLoop \/ CheckPark \/ AckPark \/ LeaveWait \/ Unpark \/ ChoosePass
  \/ FullGoesOn \/ FullEnds \/ YieldToUi \/ NobodyWaits \/ PaceCheck
  \/ TakeDrawPending \/ CountFrame \/ EndPass \/ Wake

EmuStep == EmuMove \/ BridgeStep("emu")

-----------------------------------------------------------------------------
(* The processor's store buffers and the audio device's thread.            *)

DrainRequest ==
  /\ reqBuf # "empty"
  /\ parkRequested' = (reqBuf = "set") /\ reqBuf' = "empty" /\ lateFrames' = 0
  /\ UNCHANGED <<appVars, emuPc, lockVars, parked, ackBuf, flagVars, passVars,
                 soundVars>>

DrainAck ==
  /\ ackBuf # "empty"
  /\ parked' = (ackBuf = "set") /\ ackBuf' = "empty"
  /\ UNCHANGED <<appVars, emuPc, lockVars, parkRequested, reqBuf, flagVars,
                 passVars, lateFrames, soundVars>>

AudioCallback ==
  /\ audio = "idle" /\ appPc # "close" /\ audio' = "pulling"
  /\ UNCHANGED <<appVars, emuPc, lockVars, parkVars, flagVars, passVars,
                 lateFrames, ringFull>>

AudioReturns(drained) ==
  /\ audio = "pulling" /\ audio' = "idle"
  /\ ringFull' = (ringFull /\ ~drained)
  /\ UNCHANGED <<appVars, emuPc, lockVars, parkVars, flagVars, passVars,
                 lateFrames>>

AudioStep == AudioCallback \/ \E drained \in BOOLEAN : AudioReturns(drained)

\* The process has ended.
Over == appPc = "gone" /\ UNCHANGED vars

Next == AppStep \/ EmuStep \/ DrainRequest \/ DrainAck \/ AudioStep \/ Over

Spec == Init /\ [][Next]_vars

(* Both threads are scheduled, and the device keeps asking for sound.  The *)
(* mutex is unfair, but the application's thread sleeps every iteration in *)
(* which it does not draw, so the emulation thread is not beaten to it for *)
(* ever, nor to the flag that ends its wait: strong fairness of EmuStep.   *)
(* A Full Speed pass is not always over before its first frame, the pulls  *)
(* do drain the ring, and a park's body is a finite list of calls.  A      *)
(* store becomes visible in finite time.                                   *)
Fairness ==
  /\ WF_vars(AppStep) /\ SF_vars(EmuStep) /\ WF_vars(AudioStep)
  /\ WF_vars(DrainRequest) /\ WF_vars(DrainAck)
  /\ SF_vars(FullGoesOn) /\ SF_vars(AudioReturns(TRUE)) /\ SF_vars(EndPark)

FairSpec == Spec /\ Fairness

-----------------------------------------------------------------------------
(* Safety.                                                                 *)

\* "The two threads are never inside the core at the same time"
\* (bubix1turboz.nim, the comment on the shared state).
OneThreadInCore == ~(stage["app"] \in InCore /\ stage["emu"] \in InCore)

\* yieldToUi reads the counter while its own thread holds nothing, so
\* "everyone bx1VmLockUsers counts is someone else": the count is positive
\* exactly when the application's thread is inside a call.
UsersAreSomeoneElse ==
  emuPc = "yield" => (lockUsers > 0 <=> stage["app"] # "out")

\* The lock keeps the threads apart, and its count tells the truth.
LockIsHonest == OneThreadInCore /\ UsersAreSomeoneElse

EmuDriving == stage["emu"] \in InCore

\* "Runs body as the only thread driving the machine": while the body of an
\* acknowledged park runs, the emulation thread is not inside the core.  A
\* body that goes ahead without the acknowledgement, after half a second or
\* because the application is quitting, has no such promise.
AckedBodyAlone == parkReason = "acked" => ~EmuDriving

\* A park takes effect within one frame: the emulation thread looks at the
\* request before every frame, so it begins at most one after the request.
AtMostOneLateFrame == lateFrames <= 1

\* What a caller of withMachineParked counts on.
ParkTakesEffect == AckedBodyAlone /\ AtMostOneLateFrame

\* bx1_destroy runs when nobody is left in the bridge or in the callback.
DestroyIsLast ==
  appPc = "gone" => /\ emuPc = "done" /\ audio = "closed"
                    /\ holder = "free" /\ lockUsers = 0

(* Liveness.                                                               *)

\* Every way of quitting unwinds both loops and ends in bx1_destroy.
QuitEndsInDestroy == ~running ~> appPc = "gone"

\* The application's thread is never kept waiting for the VM lock for ever,
\* Full Speed or not, although the mutex is unfair.
UiGetsTheLock == stage["app"] = "counted" ~> stage["app"] # "counted"

\* A picture asked for is drawn, unless the machine is parked or stopped or
\* a Full Speed pass stands aside for the application's thread first.
PictureIsDrawn ==
  drawPending ~> \/ ~drawPending \/ ~running
                 \/ parkRequested \/ emuPc = "yielded"
=============================================================================

------------------------------- MODULE EmuProofs -------------------------------
(***************************************************************************)
(* Proofs about the emulator's threads and about its tape, which share no  *)
(* state.                                                                  *)
(*                                                                         *)
(* What holds of the two threads for every bound.  The argument is one     *)
(* inductive invariant in four parts:                                      *)
(*   TypeOK      the types, and the bounds of the two lock counters        *)
(*   LockInv     who holds the mutex, and what each counter counts         *)
(*   QuitInv     how far the shutdown has got                              *)
(*   ParkInv     the parking handshake, when no store is delayed           *)
(*                                                                         *)
(* What the sub CPU knows of the recorder, for any tapes: TapeInv.  Fit is *)
(* what holds between two steps; Half, between the calls within one, where *)
(* the recorder has been closed or has another tape and the sub CPU has    *)
(* not been told.                                                          *)
(***************************************************************************)
EXTENDS EmuThreads, TapeDeck, SequenceTheorems, WellFoundedInduction, TLAPS

Depth(s) == IF s = "nested" THEN 2
            ELSE IF s \in {"held", "unnested"} THEN 1 ELSE 0

\* A thread's share of vm_lock_users.
Share(t) == IF stage[t] = "out" THEN 0
            ELSE IF stage[t] = "nested" THEN 1 + NestedUser(t) ELSE 1

LockInv ==
  /\ \A t \in Threads : /\ holder = t <=> stage[t] \in InCore
                        /\ stage[t] # "out" => Calling(t)
                        /\ stage[t] \in {"nested", "unnested"} => Nests(t)
  /\ lockCount = Depth(stage["app"]) + Depth(stage["emu"])
  /\ lockUsers = Share("app") + Share("emu")

QuitInv ==
  /\ appPc \in {"join", "save", "close", "destroy", "gone"} => ~running
  /\ appPc \in {"save", "close", "destroy", "gone"} => emuPc = "done"
  /\ appPc \in {"destroy", "gone"} => audio = "closed"

\* Once a park is acknowledged the emulation thread can only go round from
\* its wait to its wait again: also when it had already left the wait for
\* the previous park, because the request is back before it looks.
Waiting == {"parked", "unpark", "top", "chk", "ack", "done"}

ParkInv ==
  /\ reqBuf = "empty" /\ ackBuf = "empty"
  /\ parked <=> emuPc \in {"parked", "unpark"}
  /\ parkRequested <=> appPc \in {"parkWait", "body", "bodyCall"}
  /\ parkReason = "acked" => appPc \in {"body", "bodyCall"} /\ emuPc \in Waiting
  /\ lateFrames \in {0, 1}
  /\ lateFrames = 1 => /\ parkRequested /\ emuPc # "yield"
                       /\ emuPc = "run" => stage["emu"] # "out"

-----------------------------------------------------------------------------
\* The initial state satisfies every part.
LEMMA InitInv == Init => TypeOK /\ LockInv /\ QuitInv /\ ParkInv
<1> SUFFICES ASSUME Init PROVE TypeOK /\ LockInv /\ QuitInv /\ ParkInv
  OBVIOUS
<1>1. stage["app"] = "out" /\ stage["emu"] = "out"
  BY DEF Init, Threads
<1>2. TypeOK
  <2>1. stage \in [Threads -> Stages]
    BY DEF Init, Stages
  <2>2. guardCount \in 0..(IF FullSpeedGuard > PaceGuard THEN FullSpeedGuard
                                                        ELSE PaceGuard)
    BY EmuThreadsAssumption DEF Init
  <2>3. batch \in 0..MaxBatch
    BY EmuThreadsAssumption DEF Init
  <2>4. reqBuf \in Buffers /\ ackBuf \in Buffers
    BY DEF Init, Buffers
  <2>5. /\ running \in BOOLEAN /\ fullSpeed \in BOOLEAN /\ drawPending \in BOOLEAN
        /\ parkRequested \in BOOLEAN /\ parked \in BOOLEAN /\ ringFull \in BOOLEAN
    BY DEF Init
  <2> QED
    BY <2>1, <2>2, <2>3, <2>4, <2>5 DEF Init, TypeOK, AppPcs, EmuPcs
<1>3. LockInv
  BY <1>1 DEF Init, LockInv, Threads, InCore, Depth, Share
<1>4. QuitInv /\ ParkInv
  BY DEF Init, QuitInv, ParkInv
<1> QED BY <1>2, <1>3, <1>4

-----------------------------------------------------------------------------
\* The bridge calls of either thread keep the types and the lock's parts.
LEMMA BridgeLock ==
  ASSUME TypeOK, LockInv, NEW t \in Threads, BridgeStep(t)
  PROVE  TypeOK' /\ LockInv'
<1>1. CASE CountUser(t)
  <2>1. TypeOK'
    BY <1>1 DEF CountUser, CountLate, TypeOK, LockInv, Threads, Stages, InCore, Depth, Share, Calling,
         Nests, NestedUser,
         appVars, parkVars, flagVars, passVars, soundVars
  <2>2. LockInv'
    BY <1>1 DEF CountUser, CountLate, TypeOK, LockInv, Threads, Stages, InCore, Depth, Share, Calling,
         Nests, NestedUser,
         appVars, parkVars, flagVars, passVars, soundVars
  <2> QED BY <2>1, <2>2
<1>2. CASE LockVm(t)
  <2>1. TypeOK'
    BY <1>2 DEF LockVm, TypeOK, LockInv, Threads, Stages, InCore, Depth, Share, Calling,
         Nests, NestedUser,
         appVars, parkVars, flagVars, passVars, soundVars
  <2>2. LockInv'
    BY <1>2 DEF LockVm, TypeOK, LockInv, Threads, Stages, InCore, Depth, Share, Calling,
         Nests, NestedUser,
         appVars, parkVars, flagVars, passVars, soundVars
  <2> QED BY <2>1, <2>2
<1>3. CASE NestedLock(t)
  <2>1. TypeOK'
    BY <1>3 DEF NestedLock, TypeOK, LockInv, Threads, Stages, InCore, Depth, Share, Calling,
         Nests, NestedUser,
         appVars, parkVars, flagVars, passVars, soundVars
  <2>2. LockInv'
    BY <1>3 DEF NestedLock, TypeOK, LockInv, Threads, Stages, InCore, Depth, Share, Calling,
         Nests, NestedUser,
         appVars, parkVars, flagVars, passVars, soundVars
  <2> QED BY <2>1, <2>2
<1>4. CASE NestedUnlock(t)
  <2>1. TypeOK'
    BY <1>4 DEF NestedUnlock, Unlocked, TypeOK, LockInv, Threads, Stages, InCore, Depth, Share, Calling,
         Nests, NestedUser,
         appVars, parkVars, flagVars, passVars, soundVars
  <2>2. LockInv'
    BY <1>4 DEF NestedUnlock, Unlocked, TypeOK, LockInv, Threads, Stages, InCore, Depth, Share, Calling,
         Nests, NestedUser,
         appVars, parkVars, flagVars, passVars, soundVars
  <2> QED BY <2>1, <2>2
<1>5. CASE UnlockVm(t)
  <2>3. ringFull' \in BOOLEAN
    BY <1>5 DEF UnlockVm, RingAfterCall, TypeOK
  <2>4. lockCount' \in 0..2
    BY <1>5 DEF UnlockVm, Unlocked, TypeOK
  <2>1. TypeOK'
    BY <1>5, <2>3, <2>4 DEF UnlockVm, TypeOK, Threads, Stages,
         appVars, parkVars, flagVars, passVars, soundVars
  <2>2. LockInv'
    BY <1>5 DEF UnlockVm, Unlocked, RingAfterCall, TypeOK, LockInv, Threads, Stages, InCore, Depth, Share, Calling,
         Nests, NestedUser,
         appVars, parkVars, flagVars, passVars, soundVars
  <2> QED BY <2>1, <2>2
<1>6. CASE UncountUser(t)
  <2>1. TypeOK'
    BY <1>6 DEF UncountUser, Return, AppPcs, EmuPcs, TypeOK, LockInv, Threads, Stages, InCore, Depth, Share, Calling,
         Nests, NestedUser,
         appVars, parkVars, flagVars, passVars, soundVars
  <2>2. LockInv'
    BY <1>6 DEF UncountUser, Return, AppPcs, EmuPcs, TypeOK, LockInv, Threads, Stages, InCore, Depth, Share, Calling,
         Nests, NestedUser,
         appVars, parkVars, flagVars, passVars, soundVars
  <2> QED BY <2>1, <2>2
<1> QED BY <1>1, <1>2, <1>3, <1>4, <1>5, <1>6 DEF BridgeStep

-----------------------------------------------------------------------------
\* Outside a call a thread leaves the lock alone.
LEMMA AppOutside ==
  AppMove => ~Calling("app") /\ UNCHANGED <<emuPc, lockVars>>
  BY DEF AppMove, Calling, AppIdle, EnterBody, NextEvent, MainLoop, QuitEvent,
         ToggleFullSpeed, BridgeCall, RequestPark, ParkAcked, ParkQuit,
         ParkTimesOut, BodyCall, EndPark, EndBatch, AskForPicture, Rest,
         JoinThread, CloseAudio, Destroy

LEMMA EmuOutside ==
  EmuMove => ~Calling("emu") /\ UNCHANGED <<appVars, lockVars>>
  BY DEF EmuMove, Calling, EmuIdle, EmuGo, EmuLoop, CheckPark, AckPark,
         LeaveWait, Unpark, ChoosePass, FullGoesOn, FullEnds, YieldToUi,
         NobodyWaits, PaceCheck, TakeDrawPending, CountFrame, EndPass, Wake

\* So its part of the lock stays as it is.
LEMMA OutsideLock ==
  ASSUME LockInv, UNCHANGED lockVars, NEW t \in Threads, ~Calling(t),
         IF t = "app" THEN UNCHANGED emuPc ELSE UNCHANGED appPc
  PROVE  LockInv'
  BY DEF LockInv, lockVars, Threads, Calling, Nests, NestedUser, Share, Depth

\* A store leaves the flag or the buffer with a value it may have.
LEMMA StoreType ==
  ASSUME TypeOK, NEW value \in BOOLEAN, StoreParkRequested(value)
  PROVE  /\ parkRequested' \in BOOLEAN /\ reqBuf' \in Buffers
         /\ lateFrames' \in 0..2
<1>1. Buffered(value) \in Buffers
  BY DEF Buffered, Buffers
<1> QED BY <1>1 DEF StoreParkRequested, TypeOK

LEMMA AppType == ASSUME TypeOK, AppMove PROVE TypeOK'
<1> USE DEF TypeOK, AppPcs, AppIdle, lockVars, parkVars, flagVars, passVars,
            soundVars
<1>1. CASE MainLoop
  BY <1>1, EmuThreadsAssumption DEF MainLoop
<1>2. CASE NextEvent
  <2>1. batch' \in 0..MaxBatch
    BY <1>2, EmuThreadsAssumption DEF NextEvent
  <2>2. CASE QuitEvent
    BY <2>1, <2>2 DEF QuitEvent, NextEvent
  <2>3. CASE ToggleFullSpeed
    BY <2>1, <2>3 DEF ToggleFullSpeed, NextEvent
  <2>4. CASE BridgeCall
    BY <2>1, <2>4 DEF BridgeCall, NextEvent
  <2>5. CASE RequestPark
    <3>1. StoreParkRequested(TRUE)
      BY <2>5 DEF RequestPark
    <3> QED BY <2>1, <2>5, <3>1, StoreType DEF RequestPark, NextEvent
  <2> QED
    BY <1>2, <2>2, <2>3, <2>4, <2>5
    DEF AppMove, NextEvent, MainLoop, EnterBody, ParkAcked, ParkQuit,
        ParkTimesOut, BodyCall, EndPark, EndBatch, AskForPicture, Rest,
        JoinThread, CloseAudio, Destroy
<1>3. CASE ParkAcked \/ ParkQuit \/ ParkTimesOut
  BY <1>3 DEF ParkAcked, ParkQuit, ParkTimesOut, EnterBody
<1>4. CASE EndPark
  <2>1. StoreParkRequested(FALSE)
    BY <1>4 DEF EndPark
  <2> QED BY <1>4, <2>1, StoreType DEF EndPark
<1>5. CASE BodyCall \/ EndBatch \/ Rest \/ JoinThread \/ Destroy
  BY <1>5 DEF BodyCall, EndBatch, Rest, JoinThread, Destroy
<1>6. CASE AskForPicture
  BY <1>6 DEF AskForPicture
<1>7. CASE CloseAudio
  BY <1>7 DEF CloseAudio, appVars
<1> QED
  BY <1>1, <1>2, <1>3, <1>4, <1>5, <1>6, <1>7
  DEF AppMove, QuitEvent, ToggleFullSpeed, BridgeCall, RequestPark

LEMMA EmuType == ASSUME TypeOK, EmuMove PROVE TypeOK'
<1> USE DEF TypeOK, EmuPcs, EmuGo, EmuIdle, appVars, lockVars, passVars,
            soundVars
<1>1. CASE EmuLoop \/ CheckPark \/ LeaveWait \/ FullGoesOn \/ FullEnds
  BY <1>1 DEF EmuLoop, CheckPark, LeaveWait, FullGoesOn, FullEnds
<1>2. CASE YieldToUi \/ NobodyWaits \/ PaceCheck \/ EndPass \/ Wake
  BY <1>2 DEF YieldToUi, NobodyWaits, PaceCheck, EndPass, Wake
<1>3. CASE AckPark \/ Unpark
  <2>1. PICK value \in BOOLEAN : StoreParked(value)
    BY <1>3 DEF AckPark, Unpark
  <2>2. Buffered(value) \in Buffers
    BY DEF Buffered, Buffers
  <2>3. parked' \in BOOLEAN /\ ackBuf' \in Buffers
    BY <2>1, <2>2 DEF StoreParked
  <2>4. emuPc' \in {"parked", "top"} /\ UNCHANGED <<drawPending, passVars>> /\ EmuIdle
    BY <1>3 DEF AckPark, Unpark
  <2> HIDE <1>3
  <2> QED BY <2>3, <2>4
<1>4. CASE ChoosePass
  BY <1>4, EmuThreadsAssumption DEF ChoosePass
<1>5. CASE TakeDrawPending
  <2>1. emuPc' \in {"draw", "count"} /\ drawPending' \in BOOLEAN
    BY <1>5 DEF TakeDrawPending
  <2>2. UNCHANGED <<parked, ackBuf, passVars>> /\ EmuIdle
    BY <1>5 DEF TakeDrawPending
  <2> HIDE <1>5
  <2> QED BY <2>1, <2>2
<1>6. CASE CountFrame
  BY <1>6, EmuThreadsAssumption DEF CountFrame, PassGuard
<1> QED BY <1>1, <1>2, <1>3, <1>4, <1>5, <1>6 DEF EmuMove

\* The store buffers and the audio device touch neither lock nor thread.
LEMMA OtherType ==
  ASSUME TypeOK, LockInv,
         DrainRequest \/ DrainAck \/ AudioStep \/ UNCHANGED vars
  PROVE  TypeOK' /\ LockInv'
<1> USE DEF TypeOK, appVars, lockVars, parkVars, flagVars, passVars, soundVars
<1>1. TypeOK'
  <2>1. CASE DrainRequest
    BY <2>1 DEF DrainRequest, Buffers
  <2>2. CASE DrainAck
    BY <2>2 DEF DrainAck, Buffers
  <2>3. CASE AudioStep
    BY <2>3 DEF AudioStep, AudioCallback, AudioReturns
  <2>4. CASE UNCHANGED vars
    BY <2>4 DEF vars
  <2> QED BY <2>1, <2>2, <2>3, <2>4
<1>2. UNCHANGED <<lockVars, appPc, emuPc>>
  BY DEF DrainRequest, DrainAck, AudioStep, AudioCallback, AudioReturns, vars
<1>3. LockInv'
  BY <1>2 DEF LockInv, Threads, Calling, Nests, NestedUser, Share, Depth
<1> QED BY <1>1, <1>3

LEMMA LockStep ==
  ASSUME TypeOK, LockInv, [Next]_vars PROVE TypeOK' /\ LockInv'
<1>1. CASE AppMove
  BY <1>1, AppType, AppOutside, OutsideLock DEF Threads, lockVars
<1>2. CASE EmuMove
  BY <1>2, EmuType, EmuOutside, OutsideLock DEF Threads, lockVars, appVars
<1>3. CASE \E t \in Threads : BridgeStep(t)
  BY <1>3, BridgeLock
<1>4. CASE DrainRequest \/ DrainAck \/ AudioStep \/ UNCHANGED vars
  BY <1>4, OtherType
<1> QED
  BY <1>1, <1>2, <1>3, <1>4 DEF Next, AppStep, EmuStep, Over, Threads

-----------------------------------------------------------------------------
\* The shutdown only goes forward: once running is false it stays so, and
\* the emulation thread never leaves "done".
LEMMA QuitStep ==
  ASSUME TypeOK, LockInv, QuitInv, [Next]_vars PROVE QuitInv'
<1> USE DEF QuitInv, appVars, lockVars, parkVars, flagVars, passVars, soundVars
<1>1. CASE AppMove
  <2>1. CASE MainLoop \/ JoinThread \/ Destroy
    BY <2>1 DEF MainLoop, JoinThread, Destroy, AppIdle
  <2>2. CASE CloseAudio
    BY <2>2 DEF CloseAudio
  <2>3. CASE QuitEvent \/ ToggleFullSpeed \/ BridgeCall \/ RequestPark
    BY <2>3 DEF QuitEvent, ToggleFullSpeed, BridgeCall, RequestPark, NextEvent
  <2>4. CASE ParkAcked \/ ParkQuit \/ ParkTimesOut
    BY <2>4 DEF ParkAcked, ParkQuit, ParkTimesOut, EnterBody
  <2>5. CASE BodyCall \/ EndPark \/ EndBatch \/ AskForPicture \/ Rest
    BY <2>5 DEF BodyCall, EndPark, EndBatch, AskForPicture, Rest
  <2> QED BY <1>1, <2>1, <2>2, <2>3, <2>4, <2>5 DEF AppMove
<1>2. CASE EmuMove
  <2>1. emuPc # "done"
    BY <1>2 DEF EmuMove, EmuGo, EmuLoop, CheckPark, AckPark, LeaveWait, Unpark,
         ChoosePass, FullGoesOn, FullEnds, YieldToUi, NobodyWaits, PaceCheck,
         TakeDrawPending, CountFrame, EndPass, Wake
  <2>2. UNCHANGED <<appPc, running, audio>>
    BY <1>2 DEF EmuMove, EmuIdle, EmuLoop, CheckPark, AckPark, LeaveWait,
         Unpark, ChoosePass, FullGoesOn, FullEnds, YieldToUi, NobodyWaits,
         PaceCheck, TakeDrawPending, CountFrame, EndPass, Wake
  <2> QED BY <2>1, <2>2
<1>3. CASE \E t \in Threads : BridgeStep(t)
  <2>1. UNCHANGED <<running, audio>>
    BY <1>3 DEF BridgeStep, CountUser, LockVm, NestedLock, NestedUnlock,
         UnlockVm, UncountUser
  <2>2. \/ UNCHANGED <<appPc, emuPc>>
        \/ UNCHANGED emuPc /\ appPc \in {"call", "bodyCall", "frame"}
           /\ appPc' \in {"events", "body", "framed"}
        \/ UNCHANGED emuPc /\ appPc = "save" /\ appPc' = "close"
        \/ UNCHANGED appPc /\ emuPc \in {"run", "draw"}
    BY <1>3 DEF BridgeStep, CountUser, LockVm, NestedLock, NestedUnlock,
         UnlockVm, UncountUser, Return
  <2> QED BY <2>1, <2>2
<1>4. CASE DrainRequest \/ DrainAck \/ AudioStep \/ UNCHANGED vars
  BY <1>4 DEF DrainRequest, DrainAck, AudioStep, AudioCallback, AudioReturns,
       vars
<1> QED
  BY <1>1, <1>2, <1>3, <1>4 DEF Next, AppStep, EmuStep, Over, Threads

-----------------------------------------------------------------------------
\* The handshake.  parked is true exactly while the thread is between its two
\* stores, so the application's thread reads it only then.
LEMMA ParkStep ==
  ASSUME ~StoreBuffers, TypeOK, LockInv, ParkInv, [Next]_vars PROVE ParkInv'
<1> USE DEF ParkInv, Waiting, appVars, lockVars, parkVars, flagVars, passVars,
            soundVars
<1>1. CASE MainLoop \/ QuitEvent \/ ToggleFullSpeed \/ BridgeCall \/ EndBatch
  BY <1>1 DEF MainLoop, QuitEvent, ToggleFullSpeed, BridgeCall, EndBatch,
       NextEvent, AppIdle
<1>2. CASE RequestPark
  BY <1>2 DEF RequestPark, NextEvent, StoreParkRequested, AppIdle
<1>3. CASE ParkAcked \/ ParkQuit \/ ParkTimesOut
  BY <1>3 DEF ParkAcked, ParkQuit, ParkTimesOut, EnterBody, AppIdle
<1>4. CASE BodyCall \/ EndPark
  BY <1>4 DEF BodyCall, EndPark, StoreParkRequested, AppIdle
<1>5. CASE AskForPicture \/ Rest \/ JoinThread \/ CloseAudio \/ Destroy
  BY <1>5 DEF AskForPicture, Rest, JoinThread, CloseAudio, Destroy, AppIdle
<1>6. CASE EmuLoop \/ CheckPark \/ AckPark \/ LeaveWait \/ Unpark
  BY <1>6 DEF EmuLoop, CheckPark, AckPark, LeaveWait, Unpark, StoreParked,
       EmuGo, EmuIdle
<1>7. CASE ChoosePass \/ FullGoesOn \/ FullEnds \/ YieldToUi \/ NobodyWaits
  BY <1>7 DEF ChoosePass, FullGoesOn, FullEnds, YieldToUi, NobodyWaits, EmuGo,
       EmuIdle
<1>8. CASE PaceCheck \/ TakeDrawPending \/ CountFrame \/ EndPass \/ Wake
  <2>1. pass \in {"full", "pace"}
    BY DEF TypeOK
  <2> QED BY <1>8, <2>1 DEF PaceCheck, TakeDrawPending, CountFrame, EndPass,
          Wake, EmuGo, EmuIdle
<1>9. CASE \E t \in Threads : BridgeStep(t)
  <2> PICK t \in Threads : BridgeStep(t)
    BY <1>9
  <2>1. CASE CountUser(t)
    BY <2>1 DEF CountUser, CountLate, Calling, Threads, TypeOK
  <2>2. CASE LockVm(t)
    BY <2>2 DEF LockVm, Threads, TypeOK
  <2>3. CASE NestedLock(t) \/ NestedUnlock(t)
    BY <2>3 DEF NestedLock, NestedUnlock, Threads, TypeOK
  <2>4. CASE UnlockVm(t)
    BY <2>4 DEF UnlockVm, Threads, TypeOK
  <2>5. CASE UncountUser(t)
    BY <2>5 DEF UncountUser, Return, Threads, TypeOK
  <2> QED BY <2>1, <2>2, <2>3, <2>4, <2>5 DEF BridgeStep
<1>10. CASE DrainRequest \/ DrainAck \/ AudioStep \/ UNCHANGED vars
  BY <1>10 DEF DrainRequest, DrainAck, AudioStep, AudioCallback, AudioReturns,
       vars
<1> QED
  BY <1>1, <1>2, <1>3, <1>4, <1>5, <1>6, <1>7, <1>8, <1>9, <1>10
  DEF Next, AppStep, AppMove, EmuStep, EmuMove, Over, Threads

-----------------------------------------------------------------------------
\* The types hold in every state, whatever the bounds.
THEOREM TypeCorrect == Spec => []TypeOK
<1>1. Init => TypeOK /\ LockInv
  BY InitInv
<1>2. TypeOK /\ LockInv /\ [Next]_vars => (TypeOK /\ LockInv)'
  BY LockStep
<1> QED BY <1>1, <1>2, PTL DEF Spec

\* The two threads are never inside the core at the same time, and what the
\* emulation thread reads in vm_lock_users is the other thread's share.
THEOREM LockIsCounted == Spec => []LockIsHonest
<1>1. Init => TypeOK /\ LockInv
  BY InitInv
<1>2. TypeOK /\ LockInv /\ [Next]_vars => (TypeOK /\ LockInv)'
  BY LockStep
<1>3. TypeOK /\ LockInv => OneThreadInCore
  BY DEF LockInv, OneThreadInCore, Threads
<1>4. TypeOK /\ LockInv => UsersAreSomeoneElse
  BY DEF TypeOK, LockInv, UsersAreSomeoneElse, Threads, Share, Calling,
         NestedUser
<1> QED BY <1>1, <1>2, <1>3, <1>4, PTL DEF Spec, LockIsHonest

\* bx1_destroy comes after the emulation thread has ended, the audio device
\* has closed and the lock is free of holders and of users.
THEOREM ShutdownOrder == Spec => []DestroyIsLast
<1>1. Init => TypeOK /\ LockInv /\ QuitInv
  BY InitInv
<1>2. TypeOK /\ LockInv /\ QuitInv /\ [Next]_vars
        => (TypeOK /\ LockInv /\ QuitInv)'
  BY LockStep, QuitStep
<1>3. TypeOK /\ LockInv /\ QuitInv => DestroyIsLast
  BY DEF TypeOK, LockInv, QuitInv, DestroyIsLast, Threads, Share, Calling,
         InCore
<1> QED BY <1>1, <1>2, <1>3, PTL DEF Spec

\* When every store is visible at once, the body of an acknowledged park has
\* the machine to itself, and the emulation thread begins at most one frame
\* after it was asked to park.
THEOREM ParkingWorks ==
  ASSUME ~StoreBuffers
  PROVE  Spec => []ParkTakesEffect
<1>1. Init => TypeOK /\ LockInv /\ ParkInv
  BY InitInv
<1>2. TypeOK /\ LockInv /\ ParkInv /\ [Next]_vars
        => (TypeOK /\ LockInv /\ ParkInv)'
  BY LockStep, ParkStep
<1>3. LockInv /\ ParkInv => AckedBodyAlone
  BY DEF LockInv, ParkInv, Waiting, AckedBodyAlone, EmuDriving, Threads,
         Calling, InCore
<1>4. ParkInv => AtMostOneLateFrame
  BY DEF ParkInv, AtMostOneLateFrame
<1> QED BY <1>1, <1>2, <1>3, <1>4, PTL DEF Spec, ParkTakesEffect

-----------------------------------------------------------------------------
(* The tape. *)
DeckFields == {"play", "rec", "remote", "ff", "event", "in", "ptr", "reel", "buf", "apss"}
TellerFields == {"kind", "play", "rec", "eot", "apss", "status"}
\* A state of the right shape.
TapeShape(s) ==
  /\ DOMAIN s = {"deck", "teller", "tape"} /\ DOMAIN s.deck = DeckFields /\ DOMAIN s.teller = TellerFields
  /\ {s.deck.play, s.deck.rec, s.deck.remote, s.teller.play, s.teller.rec} \subseteq BOOLEAN

\* The recorder has a tape, moves it, and has the event that goes with that.
HasTape(d) == d.play \/ d.rec
TapeRuns(d) == d.remote /\ HasTape(d)
EventIs(d) == d.event = IF TapeRuns(d) THEN Rate(d) ELSE "none"

\* What holds also between the recorder's steps and the sub CPU's.
Half(s) ==
  /\ TapeShape(s) /\ EventIs(s.deck) /\ (~s.deck.play => ~s.deck.in)
  /\ s.teller.kind # "psub" => s.teller.status = "eject"
  /\ s.deck.reel \in Seq(BOOLEAN)

\* What the sub CPU knows.
Motions == {"play", "fwd", "rew", "rec"}
KnowsTape(s) == s.teller.play = s.deck.play /\ s.teller.rec = s.deck.rec
KnowsEnd(s) == HasTape(s.deck) => s.teller.eot = AtEnd(s.deck)
\* The state of the recorder and the sub CPU between two steps.
Fit(s) ==
  /\ Half(s) /\ KnowsTape(s) /\ KnowsEnd(s)
  /\ s.teller.status \in Motions => s.deck.event # "none"

\* The tape and who is told of it are the same.
SameTape(s, r) ==
  /\ r.deck.play = s.deck.play /\ r.deck.rec = s.deck.rec /\ r.deck.in = s.deck.in
  /\ r.deck.ptr = s.deck.ptr /\ r.deck.reel = s.deck.reel
  /\ r.teller.kind = s.teller.kind /\ r.teller.play = s.teller.play /\ r.teller.rec = s.teller.rec

\* The end is told, and a stop.
Updated(s, r) ==
  /\ TapeShape(r) /\ SameTape(s, r) /\ EventIs(r.deck)
  /\ r.deck.remote = s.deck.remote /\ r.deck.ff = s.deck.ff
  /\ r.teller.eot = AtEnd(r.deck)
  /\ r.teller.status = IF s.teller.kind = "psub" /\ ~s.deck.remote /\ (s.teller.play \/ s.teller.rec)
                       THEN "stop" ELSE s.teller.status

\* Told changes what it tells.
LEMMA ToldGives ==
  ASSUME NEW s, TapeShape(s)
  PROVE  /\ TapeShape(Told(s)) /\ Told(s).deck = s.deck /\ SameTape(s, Told(s))
         /\ Told(s).teller.eot = AtEnd(s.deck)
         /\ Told(s).teller.status = IF s.teller.kind = "psub" /\ ~s.deck.remote /\ (s.teller.play \/ s.teller.rec)
                                    THEN "stop" ELSE s.teller.status
<1> DEFINE end == AtEnd(s.deck)
           stop == IF ~s.deck.remote /\ (s.teller.play \/ s.teller.rec) THEN "stop" ELSE s.teller.status
<1>1. Told(s) = IF s.teller.kind = "psub" THEN [s EXCEPT !.teller.eot = end, !.teller.status = stop]
                ELSE [s EXCEPT !.teller.eot = end]
  BY DEF Told, TapeShape, TellerFields
<1>2. QED
  BY <1>1 DEF TapeShape, TellerFields, DeckFields, SameTape

\* update_event registers the event, and tells.
LEMMA UpdateGives ==
  ASSUME NEW s, TapeShape(s), s.deck.event \in {"none", Rate(s.deck)}
  PROVE  Updated(s, UpdateEvent(s))
<1> DEFINE e == IF ~(s.deck.remote /\ (s.deck.play \/ s.deck.rec)) THEN "none"
                ELSE IF s.deck.event # "none" THEN s.deck.event ELSE Rate(s.deck)
           m == [s EXCEPT !.deck.event = e]
<1>1. UpdateEvent(s) = Told(m)
  BY DEF UpdateEvent
<1>2. e = IF TapeRuns(s.deck) THEN Rate(s.deck) ELSE "none"
  BY DEF TapeRuns, HasTape
<1> HIDE DEF e
<1>3. /\ TapeShape(m) /\ SameTape(s, m) /\ m.deck.event = e
      /\ m.deck.remote = s.deck.remote /\ m.deck.ff = s.deck.ff /\ m.teller.status = s.teller.status
  BY DEF TapeShape, DeckFields, SameTape
<1> HIDE DEF m
<1>4. m.deck.event = IF TapeRuns(m.deck) THEN Rate(m.deck) ELSE "none"
  BY <1>2, <1>3 DEF TapeRuns, HasTape, Rate, SameTape
<1>5. QED
  BY <1>1, <1>3, <1>4, ToldGives DEF Updated, EventIs, SameTape

\* A step of the recorder that is told of.
LEMMA UpdateHalf ==
  ASSUME NEW s, TapeShape(s), s.deck.event \in {"none", Rate(s.deck)}, ~s.deck.play => ~s.deck.in,
         s.teller.kind # "psub" => s.teller.status = "eject", s.deck.reel \in Seq(BOOLEAN)
  PROVE  Half(UpdateEvent(s))
<1>1. Updated(s, UpdateEvent(s))
  BY UpdateGives
<1> DEFINE r == UpdateEvent(s)
<1> HIDE DEF r
<1>2. QED
  BY <1>1 DEF Updated, Half, SameTape, r

\* ... to one who knows the tape.
LEMMA UpdateFit ==
  ASSUME NEW s, TapeShape(s), s.deck.event \in {"none", Rate(s.deck)}, ~s.deck.play => ~s.deck.in,
         s.teller.kind # "psub" => s.teller.status = "eject", KnowsTape(s),
         s.deck.reel \in Seq(BOOLEAN), s.teller.status \in Motions => HasTape(s.deck)
  PROVE  Fit(UpdateEvent(s))
<1>1. Updated(s, UpdateEvent(s)) /\ Half(UpdateEvent(s))
  BY UpdateGives, UpdateHalf
<1> DEFINE r == UpdateEvent(s)
<1> HIDE DEF r
<1>2. KnowsTape(r) /\ KnowsEnd(r)
  BY <1>1 DEF Updated, SameTape, KnowsTape, KnowsEnd, r
<1>3. ASSUME r.teller.status \in Motions PROVE r.deck.event # "none"
  <2>1. s.teller.kind = "psub" /\ s.teller.status \in Motions
    BY <1>1, <1>3 DEF Updated, Motions, r
  <2>2. HasTape(s.deck) /\ s.deck.remote
    BY <1>1, <1>3, <2>1 DEF Updated, Motions, KnowsTape, HasTape, r
  <2>3. TapeRuns(r.deck)
    BY <1>1, <2>2 DEF Updated, SameTape, TapeRuns, HasTape, r
  <2>4. QED
    BY <1>1, <2>3 DEF Updated, EventIs, Rate, r
<1>4. QED
  BY <1>1, <1>2, <1>3 DEF Fit, r

\* What a signal to the recorder may change.
Signalled(s, r) ==
  /\ Half(r) /\ SameTape(s, r) /\ (Fit(s) => Fit(r))
  /\ r.teller.eot \in {s.teller.eot, AtEnd(r.deck)} /\ r.teller.status \in {s.teller.status, "stop"}

\* Signals add up.
LEMMA SignalledOn ==
  ASSUME NEW s, NEW m, NEW r, Signalled(s, m), Signalled(m, r)
  PROVE  Signalled(s, r)
BY DEF Signalled, SameTape, AtEnd

\* A signal is a change of the recorder that leaves the tape, and is told.
LEMMA UpdateSignals ==
  ASSUME NEW s, Half(s), NEW m, TapeShape(m), SameTape(s, m), m.deck.event \in {"none", Rate(m.deck)},
         m.teller.eot = s.teller.eot, m.teller.status = s.teller.status
  PROVE  Signalled(s, UpdateEvent(m)) /\ Updated(m, UpdateEvent(m))
<1> DEFINE r == UpdateEvent(m)
<1>1. Updated(m, r)
  BY UpdateGives
<1>2. Half(r)
  BY UpdateHalf DEF Half, SameTape
<1>3. ASSUME Fit(s) PROVE Fit(r)
  <2>1. m.teller.status \in Motions => HasTape(m.deck)
    BY <1>3 DEF Fit, Half, EventIs, TapeRuns, HasTape, SameTape
  <2>2. /\ KnowsTape(m) /\ (~m.deck.play => ~m.deck.in) /\ (m.teller.kind # "psub" => m.teller.status = "eject")
        /\ m.deck.reel \in Seq(BOOLEAN)
    BY <1>3 DEF Fit, Half, KnowsTape, SameTape
  <2>3. QED
    BY <2>1, <2>2, UpdateFit
<1> HIDE DEF r
<1>4. SameTape(s, r)
  BY <1>1 DEF Updated, SameTape
<1>5. r.teller.eot \in {s.teller.eot, AtEnd(r.deck)} /\ r.teller.status \in {s.teller.status, "stop"}
  BY <1>1 DEF Updated
<1>6. QED
  BY <1>1, <1>2, <1>3, <1>4, <1>5 DEF Signalled, r

\* So the event need not be another.
LEMMA HalfEvent ==
  ASSUME NEW s, Half(s)
  PROVE  s.deck.event \in {"none", Rate(s.deck)}
BY DEF Half, EventIs

\* A signal that says nothing new.
LEMMA StillSignals ==
  ASSUME NEW s, Half(s)
  PROVE  Signalled(s, s)
BY DEF Signalled, SameTape

\* REMOTE, fast motion, and the two together.
LEMMA RemoteSignals ==
  ASSUME NEW s, Half(s), NEW on \in BOOLEAN
  PROVE  /\ Signalled(s, SetRemote(s, on)) /\ SetRemote(s, on).deck.remote = on
         /\ SetRemote(s, on).deck.ff = s.deck.ff
<1> DEFINE m == [s EXCEPT !.deck.remote = on]
<1>1. SetRemote(s, on) = IF s.deck.remote = on THEN s ELSE UpdateEvent(m)
  BY DEF SetRemote
<1>2. /\ TapeShape(m) /\ SameTape(s, m) /\ m.deck.event = s.deck.event /\ m.deck.remote = on
      /\ m.deck.ff = s.deck.ff
      /\ m.teller.eot = s.teller.eot /\ m.teller.status = s.teller.status
  BY DEF Half, TapeShape, DeckFields, SameTape
<1> HIDE DEF m
<1>3. m.deck.event \in {"none", Rate(m.deck)}
  BY <1>2, HalfEvent DEF Rate
<1>4. Signalled(s, UpdateEvent(m)) /\ Updated(m, UpdateEvent(m)) /\ Signalled(s, s)
  BY <1>2, <1>3, UpdateSignals, StillSignals
<1>5. QED
  BY <1>1, <1>2, <1>4 DEF Updated

LEMMA FfRewSignals ==
  ASSUME NEW s, Half(s), NEW v
  PROVE  /\ Signalled(s, SetFfRew(s, v)) /\ SetFfRew(s, v).deck.remote = s.deck.remote
         /\ SetFfRew(s, v).deck.ff = v
<1> DEFINE m == [s EXCEPT !.deck.event = "none", !.deck.ff = v, !.deck.apss.signals = FALSE]
<1>1. SetFfRew(s, v) = IF s.deck.ff = v THEN s ELSE UpdateEvent(m)
  BY DEF SetFfRew
<1>2. /\ TapeShape(m) /\ SameTape(s, m) /\ m.deck.event = "none" /\ m.deck.remote = s.deck.remote
      /\ m.deck.ff = v
      /\ m.teller.eot = s.teller.eot /\ m.teller.status = s.teller.status
  BY DEF Half, TapeShape, DeckFields, SameTape
<1> HIDE DEF m
<1>3. Signalled(s, UpdateEvent(m)) /\ Updated(m, UpdateEvent(m)) /\ Signalled(s, s)
  BY <1>2, UpdateSignals, StillSignals
<1>4. QED
  BY <1>1, <1>2, <1>3 DEF Updated

LEMMA PushPlaySignals ==
  ASSUME NEW s, Half(s)
  PROVE  Signalled(s, PushPlay(s)) /\ PushPlay(s).deck.remote = TRUE
<1> DEFINE a == SetRemote(s, FALSE)
           b == SetFfRew(a, 0)
<1>1. Signalled(s, a)
  BY RemoteSignals
<1> HIDE DEF a
<1>2. Signalled(a, b)
  BY <1>1, FfRewSignals DEF Signalled
<1> HIDE DEF b
<1>3. Signalled(b, SetRemote(b, TRUE)) /\ SetRemote(b, TRUE).deck.remote = TRUE
  BY <1>2, RemoteSignals DEF Signalled
<1>4. QED
  BY <1>1, <1>2, <1>3, SignalledOn DEF PushPlay, a, b

\* The tape runs, at the speed v.
LEMMA GoesSignals ==
  ASSUME NEW s, Half(s), NEW v
  PROVE  /\ Signalled(s, SetRemote(SetFfRew(s, v), TRUE))
         /\ SetRemote(SetFfRew(s, v), TRUE).deck.remote = TRUE
<1> DEFINE a == SetFfRew(s, v)
<1>1. Signalled(s, a)
  BY FfRewSignals
<1> HIDE DEF a
<1>2. Signalled(a, SetRemote(a, TRUE)) /\ SetRemote(a, TRUE).deck.remote = TRUE
  BY <1>1, RemoteSignals DEF Signalled
<1>3. QED
  BY <1>1, <1>2, SignalledOn DEF a

\* The recorder and the sub CPU go on as they were: what Fit does not look at.
AsBefore(s, r) ==
  /\ TapeShape(r) /\ SameTape(s, r)
  /\ r.deck.event = s.deck.event /\ r.deck.remote = s.deck.remote /\ r.deck.ff = s.deck.ff
  /\ r.teller.eot = s.teller.eot /\ r.teller.status = s.teller.status

\* So it holds on.
LEMMA AsBeforeFits ==
  ASSUME NEW s, NEW r, AsBefore(s, r)
  PROVE  (Half(s) => Half(r)) /\ (Fit(s) => Fit(r))
<1>1. Half(s) => Half(r)
  BY DEF AsBefore, Half, SameTape, EventIs, TapeRuns, HasTape, Rate
<1>2. Fit(s) => Fit(r)
  BY <1>1 DEF AsBefore, Fit, SameTape, KnowsTape, KnowsEnd, AtEnd, HasTape
<1>3. QED
  BY <1>1, <1>2

\* What APSS keeps is its own, but for what it tells SUB.
LEMMA ApssKeeps ==
  ASSUME NEW s, TapeShape(s), NEW a, NEW on
  PROVE  /\ AsBefore(s, [s EXCEPT !.deck.apss = a])
         /\ AsBefore(s, ToldOfApss([s EXCEPT !.deck.apss = a], on))
<1> DEFINE m == [s EXCEPT !.deck.apss = a]
<1>1. AsBefore(s, m)
  BY DEF AsBefore, TapeShape, SameTape, DeckFields
<1> HIDE DEF m
<1>2. AsBefore(m, ToldOfApss(m, on))
  BY <1>1 DEF AsBefore, TapeShape, SameTape, TellerFields, ToldOfApss
<1>3. AsBefore(s, ToldOfApss(m, on))
  BY <1>1, <1>2 DEF AsBefore, SameTape
<1>4. QED
  BY <1>1, <1>3 DEF m

\* A look for the gap is such a change.
LEMMA ApssLooksKeeps ==
  ASSUME NEW s, TapeShape(s)
  PROVE  AsBefore(s, ApssLooks(s))
<1> DEFINE a == s.deck.apss
           i == a.ptr % Window
           heard == IF s.deck.in THEN a.heard \union {i} ELSE a.heard \ {i}
           ptr == IF a.ptr + 1 = 3 * Window THEN 2 * Window ELSE a.ptr + 1
           m == [s EXCEPT !.deck.apss.heard = heard, !.deck.apss.ptr = ptr]
           f == [m EXCEPT !.deck.apss.remain = Toward0(@), !.deck.apss.signals = FALSE]
           g == [m EXCEPT !.deck.apss.signals = TRUE]
<1>1. ApssLooks(s) \in {m, ToldOfApss(f, TRUE), ToldOfApss(g, FALSE)}
  BY DEF ApssLooks
<1> HIDE DEF heard, ptr
<1> DEFINE b == [[a EXCEPT !.heard = heard] EXCEPT !.ptr = ptr]
           c == [[b EXCEPT !.remain = Toward0(@)] EXCEPT !.signals = FALSE]
           d == [b EXCEPT !.signals = TRUE]
<1>2. m = [s EXCEPT !.deck.apss = b] /\ AsBefore(s, m)
  <2>1. m = [s EXCEPT !.deck.apss = b]
    BY DEF TapeShape, DeckFields
  <2>2. QED
    BY <2>1, ApssKeeps
<1>3. f = [m EXCEPT !.deck.apss = c] /\ g = [m EXCEPT !.deck.apss = d]
  <2>1. m.deck.apss = b /\ DOMAIN m = {"deck", "teller", "tape"} /\ DOMAIN m.deck = DeckFields
    <3> HIDE DEF b
    <3>1. QED
      BY <1>2 DEF TapeShape, DeckFields
  <2> HIDE DEF m, b
  <2>2. QED
    BY <2>1 DEF DeckFields
<1> HIDE DEF m, b, c, d, f, g
<1>4. TapeShape(m)
  BY <1>2 DEF AsBefore
<1>5. AsBefore(m, ToldOfApss(f, TRUE)) /\ AsBefore(m, ToldOfApss(g, FALSE))
  BY <1>3, <1>4, ApssKeeps
<1>6. QED
  BY <1>1, <1>2, <1>5 DEF AsBefore, SameTape

\* A tape that plays does so after its event, and it is the same.
Played(s, r) ==
  /\ Fit(r) /\ r.deck.play = TRUE /\ r.deck.rec = s.deck.rec /\ r.teller.kind = s.teller.kind

\* One event of a tape that plays.
LEMMA PlayTickPlays ==
  ASSUME NEW s, Fit(s), s.deck.play = TRUE
  PROVE  Played(s, PlayTick(s))
<1> DEFINE d == s.deck
           length == Len(d.reel)
           ptr == IF d.ff < 0 THEN (IF d.ptr > 0 THEN d.ptr - 1 ELSE 0)
                  ELSE (IF d.ptr < length THEN d.ptr + 1 ELSE length)
           stops == ptr = (IF d.ff < 0 THEN 0 ELSE length)
           level == ~stops /\ (IF d.ptr < length THEN d.reel[d.ptr + 1] ELSE d.in)
           m == [s EXCEPT !.deck.ptr = ptr]
           x == IF stops THEN SetRemote(m, FALSE) ELSE m
           n == UpdateEvent(x)
           k == [n EXCEPT !.deck.in = level]
<1>1. PlayTick(s) = ApssLooks(k)
  BY DEF PlayTick
<1> HIDE DEF ptr, stops, level
<1>2. /\ TapeShape(m) /\ Half(m) /\ KnowsTape(m) /\ m.deck.play = TRUE /\ m.deck.rec = s.deck.rec
      /\ m.teller.kind = s.teller.kind
  <2>1. /\ TapeShape(m) /\ m.deck.play = s.deck.play /\ m.deck.rec = s.deck.rec /\ m.deck.in = s.deck.in
        /\ m.deck.event = s.deck.event /\ m.deck.remote = s.deck.remote /\ m.deck.ff = s.deck.ff
        /\ m.teller = s.teller /\ m.deck.reel = s.deck.reel
    BY DEF Fit, Half, TapeShape, DeckFields
  <2> HIDE DEF m
  <2>2. QED
    BY <2>1 DEF Fit, Half, EventIs, TapeRuns, HasTape, Rate, KnowsTape
<1> HIDE DEF m
<1>3. /\ Half(x) /\ KnowsTape(x) /\ x.deck.play = TRUE /\ x.deck.rec = s.deck.rec
      /\ x.teller.kind = s.teller.kind
  <2>1. Signalled(m, SetRemote(m, FALSE)) /\ Signalled(m, m)
    BY <1>2, RemoteSignals, StillSignals
  <2>2. Signalled(m, x)
    BY <2>1
  <2> HIDE DEF x
  <2>3. QED
    BY <1>2, <2>2 DEF Signalled, SameTape, KnowsTape
<1> HIDE DEF x
<1>4. Fit(n) /\ Updated(x, n)
  <2>1. /\ TapeShape(x) /\ x.deck.event \in {"none", Rate(x.deck)} /\ (x.teller.kind # "psub" => x.teller.status = "eject")
        /\ x.deck.reel \in Seq(BOOLEAN)
    BY <1>3, HalfEvent DEF Half
  <2>2. HasTape(x.deck) /\ (~x.deck.play => ~x.deck.in)
    BY <1>3 DEF HasTape
  <2>3. QED
    BY <1>3, <2>1, <2>2, UpdateFit, UpdateGives
<1> HIDE DEF n
<1>5. Fit(k) /\ k.deck.play = TRUE /\ k.deck.rec = s.deck.rec /\ k.teller.kind = s.teller.kind
  <2>1. n.deck.play = TRUE /\ n.deck.rec = s.deck.rec /\ n.teller.kind = s.teller.kind /\ TapeShape(n)
    BY <1>3, <1>4 DEF Updated, SameTape
  <2>2. /\ TapeShape(k) /\ k.deck.play = TRUE /\ k.deck.rec = n.deck.rec
        /\ k.deck.ptr = n.deck.ptr /\ k.deck.reel = n.deck.reel
        /\ k.deck.event = n.deck.event /\ k.deck.remote = n.deck.remote /\ k.deck.ff = n.deck.ff
        /\ k.teller = n.teller
    BY <2>1 DEF TapeShape, DeckFields
  <2> HIDE DEF k
  <2>3. Half(k)
    BY <1>4, <2>1, <2>2 DEF Fit, Half, EventIs, TapeRuns, HasTape, Rate
  <2>4. KnowsTape(k) /\ KnowsEnd(k) /\ (k.teller.status \in Motions => k.deck.event # "none")
    BY <1>4, <2>1, <2>2 DEF Fit, KnowsTape, KnowsEnd, HasTape, AtEnd
  <2>5. QED
    BY <2>1, <2>2, <2>3, <2>4 DEF Fit
<1> HIDE DEF k
<1>6. AsBefore(k, ApssLooks(k))
  BY <1>5, ApssLooksKeeps DEF Fit, Half
<1>7. QED
  BY <1>1, <1>5, <1>6, AsBeforeFits DEF Played, AsBefore, SameTape

(* do_apss. *)
\* Induction over the events of one search, with a set in the place of a
\* predicate.
Below == {p \in Nat \X Nat : p[1] < p[2]}

LEMMA SearchInduction ==
  ASSUME NEW S, 0 \in S, \A n \in Nat : n \in S => n + 1 \in S
  PROVE  Nat \subseteq S
<1>1. SUFFICES ASSUME Nat \ S # {} PROVE FALSE
  OBVIOUS
<1>2. IsWellFoundedOn(Below, Nat)
  BY NatLessThanWellFounded DEF OpToRel, Below
<1>3. PICK x \in Nat \ S : \A y \in Nat \ S : ~(<<y, x>> \in Below)
  BY <1>1, <1>2, WFMin
<1>4. x # 0 /\ x - 1 \in Nat /\ x - 1 < x
  BY <1>3
<1>5. x - 1 \in S
  BY <1>3, <1>4 DEF Below
<1>6. QED
  BY <1>3, <1>4, <1>5

SearchRun(m, s, f) ==
  [i \in 0..m |->
     IF i = 0 THEN s
     ELSE LET p == f[i - 1]
          IN IF p.deck.apss.remain = 0 \/ ~p.deck.remote THEN p ELSE PlayTick(p)]

\* The search's turns are a function: one that begins as it should can be continued.
LEMMA SearchRuns ==
  ASSUME NEW m \in Nat, NEW s
  PROVE  \E f : f = SearchRun(m, s, f)
<1> DEFINE S == {i \in Nat : \E f : f = SearchRun(i, s, f)}
<1>1. 0 \in S
  <2> DEFINE f == [n \in 0..0 |-> s]
  <2>1. f = SearchRun(0, s, f)
    BY DEF SearchRun
  <2> QED BY <2>1
<1>2. ASSUME NEW i \in Nat, i \in S PROVE i + 1 \in S
  <2>1. PICK f : f = SearchRun(i, s, f)
    BY <1>2
  <2> DEFINE p == f[i]
             last == IF p.deck.apss.remain = 0 \/ ~p.deck.remote THEN p ELSE PlayTick(p)
             g == [k \in 0..(i + 1) |-> IF k = i + 1 THEN last ELSE f[k]]
  <2>2. g[i + 1] = last /\ \A k \in 0..i : g[k] = f[k]
    <3>1. i + 1 \in 0..(i + 1) /\ \A k \in 0..i : k \in 0..(i + 1) /\ k # i + 1
      OBVIOUS
    <3> HIDE DEF last
    <3> QED BY <3>1
  <2>3. \A k \in 0..i : f[k] = SearchRun(i, s, f)[k]
    BY <2>1
  <2>4. g = [k \in 0..(i + 1) |-> g[k]]
        /\ SearchRun(i + 1, s, g) = [k \in 0..(i + 1) |-> SearchRun(i + 1, s, g)[k]]
    BY DEF SearchRun
  <2> HIDE DEF g
  <2>5. ASSUME NEW k \in 0..(i + 1) PROVE g[k] = SearchRun(i + 1, s, g)[k]
    <3>1. CASE k = i + 1
      <4>1. k # 0 /\ k - 1 = i /\ i \in 0..i
        BY <3>1
      <4> QED BY <4>1, <3>1, <2>2 DEF SearchRun
    <3>2. CASE k # i + 1
      <4>1. k \in 0..i /\ (k # 0 => k - 1 \in 0..i)
        BY <3>2
      <4>2. g[k] = f[k] /\ (k # 0 => g[k - 1] = f[k - 1])
        BY <4>1, <2>2
      <4> QED BY <4>1, <4>2, <2>3 DEF SearchRun
    <3> QED BY <3>1, <3>2
  <2>6. g = SearchRun(i + 1, s, g)
    BY <2>4, <2>5
  <2> QED BY <2>6
<1> HIDE DEF S
<1>3. Nat \subseteq S
  BY <1>1, <1>2, SearchInduction
<1> QED BY <1>3 DEF S

\* Whatever it comes upon, a search leaves the sub CPU informed.
LEMMA SearchPlays ==
  ASSUME NEW s, Fit(s), s.deck.play = TRUE
  PROVE  Played(s, Search(s))
<1> DEFINE n == Len(s.deck.reel)
           f == CHOOSE g : g = SearchRun(n, s, g)
           S == {i \in Nat : i <= n => Played(s, f[i])}
<1>1. n \in Nat
  BY LenProperties DEF Fit, Half
<1> HIDE DEF n
<1>2. Search(s) = f[n]
  BY DEF Search, SearchRun, n
<1>3. f = SearchRun(n, s, f)
  BY <1>1, SearchRuns
<1> HIDE DEF f
<1>4. 0 \in S
  <2>1. f[0] = s
    BY <1>1, <1>3 DEF SearchRun
  <2>2. Played(s, s)
    BY DEF Played
  <2> QED BY <2>1, <2>2
<1>5. ASSUME NEW i \in Nat, i \in S PROVE i + 1 \in S
  <2>1. SUFFICES ASSUME i + 1 <= n PROVE Played(s, f[i + 1])
    OBVIOUS
  <2>2. i + 1 \in 0..n /\ i + 1 # 0 /\ (i + 1) - 1 = i /\ i <= n
    BY <1>1, <2>1
  <2>3. f[i + 1] = SearchRun(n, s, f)[i + 1]
    BY <1>3
  <2>4. f[i + 1] \in {f[i], PlayTick(f[i])}
    BY <2>2, <2>3 DEF SearchRun
  <2>5. Played(s, f[i])
    BY <1>5, <2>2
  <2>6. Played(f[i], PlayTick(f[i]))
    BY <2>5, PlayTickPlays DEF Played
  <2>7. Played(s, PlayTick(f[i]))
    BY <2>5, <2>6 DEF Played
  <2> QED BY <2>4, <2>5, <2>7
<1> HIDE DEF S
<1>6. n \in S
  BY <1>1, <1>4, <1>5, SearchInduction
<1> QED BY <1>1, <1>2, <1>6 DEF S

\* do_apss leaves a tape that stands.
LEMMA ApssSearches ==
  ASSUME NEW s, Fit(s), NEW v
  PROVE  LET r == DoApss(s, v)
         IN  /\ Fit(r) /\ r.deck.play = s.deck.play /\ r.deck.rec = s.deck.rec
             /\ r.teller.kind = s.teller.kind
<1> DEFINE a == SetFfRew(s, 0)
           b == SetRemote(a, TRUE)
           start == SetFfRew(b, v)
           c == [start EXCEPT !.deck.apss.remain = v]
           found == IF s.deck.play THEN Search(c) ELSE s
           e == [found EXCEPT !.deck.apss.remain = 0]
           g == SetRemote(e, FALSE)
<1>1. DoApss(s, v) = SetFfRew(g, 0)
  BY DEF DoApss
<1>2. Signalled(s, start)
  <2>1. Signalled(s, a)
    BY FfRewSignals DEF Fit
  <2> HIDE DEF a
  <2>2. Signalled(a, b)
    <3>1. Half(a)
      BY <2>1 DEF Signalled
    <3>2. QED
      BY <3>1, RemoteSignals
  <2> HIDE DEF b
  <2>3. Signalled(b, start)
    <3>1. Half(b)
      BY <2>2 DEF Signalled
    <3>2. QED
      BY <3>1, FfRewSignals
  <2>4. QED
    BY <2>1, <2>2, <2>3, SignalledOn
<1> HIDE DEF start
<1> DEFINE Same(r) == /\ Fit(r) /\ r.deck.play = s.deck.play /\ r.deck.rec = s.deck.rec
                      /\ r.teller.kind = s.teller.kind
<1>3. Same(start)
  BY <1>2 DEF Signalled, SameTape
<1>4. ASSUME NEW r, Same(r), NEW y PROVE Same([r EXCEPT !.deck.apss.remain = y])
  <2> DEFINE z == [r.deck.apss EXCEPT !.remain = y]
             q == [r EXCEPT !.deck.apss.remain = y]
  <2>1. TapeShape(r)
    BY <1>4 DEF Fit, Half
  <2>2. q = [r EXCEPT !.deck.apss = z]
    BY <2>1 DEF TapeShape, DeckFields
  <2> HIDE DEF z
  <2>3. AsBefore(r, q)
    BY <2>1, <2>2, ApssKeeps
  <2> HIDE DEF q
  <2>4. Fit(q)
    BY <1>4, <2>3, AsBeforeFits
  <2>5. Same(q)
    BY <1>4, <2>3, <2>4 DEF AsBefore, SameTape
  <2>6. QED
    BY <2>5 DEF q
<1>5. Same(c)
  BY <1>3, <1>4
<1> HIDE DEF c
<1>6. Same(found)
  <2>1. CASE s.deck.play
    <3>1. c.deck.play = TRUE
      BY <1>5, <2>1 DEF Fit, Half, TapeShape
    <3>2. Played(c, Search(c)) /\ found = Search(c)
      BY <1>5, <2>1, <3>1, SearchPlays
    <3>3. QED
      BY <1>5, <3>1, <3>2 DEF Played
  <2>2. CASE ~s.deck.play
    BY <2>2
  <2>3. QED
    BY <2>1, <2>2
<1> HIDE DEF found
<1>7. Same(e)
  BY <1>4, <1>6
<1> HIDE DEF e
<1>8. ASSUME NEW r, Same(r), NEW q, Signalled(r, q) PROVE Same(q)
  BY <1>8 DEF Signalled, SameTape
<1>9. Same(g)
  BY <1>7, <1>8, RemoteSignals DEF Fit
<1> HIDE DEF g
<1>10. Same(SetFfRew(g, 0))
  BY <1>8, <1>9, FfRewSignals DEF Fit
<1>11. QED
  BY <1>1, <1>10

(* Tapes that are put in and taken out. *)
\* The recorder is closed.
Closed(s, r) ==
  /\ Half(r) /\ r.deck.play = FALSE /\ r.deck.rec = FALSE /\ r.deck.remote = FALSE
  /\ r.deck.ptr = 0 /\ r.deck.reel = <<>>
  /\ r.teller.kind = s.teller.kind /\ r.teller.play = s.teller.play /\ r.teller.rec = s.teller.rec
  /\ r.teller.status \in {s.teller.status, "stop"}

\* A recording that is written out.
LEMMA CloseFileKeeps ==
  ASSUME NEW s, TapeShape(s)
  PROVE  AsBefore(s, CloseFile(s))
<1> DEFINE t == IF s.deck.rec THEN [s.tape EXCEPT !.file = Written(s.tape, s.deck.buf), !.open = FALSE]
                ELSE s.tape
<1>1. CloseFile(s) = [s EXCEPT !.tape = t, !.deck.buf = <<>>]
  BY DEF CloseFile, TapeShape
<1> HIDE DEF t
<1>2. QED
  BY <1>1 DEF AsBefore, TapeShape, SameTape, DeckFields

\* DATAREC::close_file.
LEMMA CloseDeckCloses ==
  ASSUME NEW s, Half(s)
  PROVE  Closed(s, CloseDeck(s))
<1> DEFINE f == CloseFile(s)
           m == SetRemote(f, FALSE)
           e == [m EXCEPT !.deck.play = FALSE, !.deck.rec = FALSE, !.deck.ptr = 0,
                          !.deck.reel = <<>>, !.deck.in = FALSE]
           r == UpdateEvent(e)
<1>1. CloseDeck(s) = r
  BY DEF CloseDeck
<1>2. AsBefore(s, f) /\ Half(f)
  <2>1. AsBefore(s, f)
    BY CloseFileKeeps DEF Half
  <2>2. QED
    BY <2>1, AsBeforeFits
<1> HIDE DEF f
<1>3. Signalled(f, m) /\ m.deck.remote = FALSE
  BY <1>2, RemoteSignals
<1> HIDE DEF m
<1>4. /\ Half(m) /\ m.teller.kind = s.teller.kind /\ m.teller.play = s.teller.play /\ m.teller.rec = s.teller.rec
      /\ m.teller.status \in {s.teller.status, "stop"} /\ m.deck.event = "none"
  BY <1>2, <1>3 DEF AsBefore, Signalled, SameTape, Half, EventIs, TapeRuns
<1>5. /\ TapeShape(e) /\ e.deck.play = FALSE /\ e.deck.rec = FALSE /\ e.deck.remote = FALSE
      /\ e.deck.ptr = 0 /\ e.deck.reel = <<>> /\ e.deck.in = FALSE /\ e.deck.event = "none"
      /\ e.teller = m.teller
  BY <1>3, <1>4 DEF Half, TapeShape, DeckFields
<1> HIDE DEF e
<1>6. <<>> \in Seq(BOOLEAN)
  BY EmptySeq
<1>7. Updated(e, r) /\ Half(r)
  <2>1. e.teller.kind # "psub" => e.teller.status = "eject"
    BY <1>4, <1>5 DEF Half
  <2>2. QED
    BY <1>5, <1>6, <2>1, UpdateGives, UpdateHalf
<1> HIDE DEF r
<1>8. QED
  BY <1>1, <1>4, <1>5, <1>7 DEF Closed, Updated, SameTape

\* A tape that was just put in is not at its end, and nobody says so.
Fresh(s) == Half(s) /\ (HasTape(s.deck) => ~AtEnd(s.deck) /\ s.teller.eot = FALSE)
SameTeller(s, r) ==
  /\ r.teller.kind = s.teller.kind /\ r.teller.play = s.teller.play /\ r.teller.rec = s.teller.rec

\* No tape is such a tape, and signals leave it so.
LEMMA ClosedIsFresh ==
  ASSUME NEW s, NEW r, Closed(s, r)
  PROVE  Fresh(r) /\ SameTeller(s, r)
BY DEF Closed, Fresh, HasTape, SameTeller

LEMMA SignalledIsFresh ==
  ASSUME NEW s, NEW r, Fresh(s), Signalled(s, r)
  PROVE  Fresh(r) /\ SameTeller(s, r)
BY DEF Signalled, Fresh, SameTape, SameTeller, HasTape, AtEnd

\* Its event is not registered yet.
LEMMA PutInIsFresh ==
  ASSUME NEW s, NEW m, TapeShape(m), m.deck.play # m.deck.rec,
         m.deck.event = "none", ~m.deck.play => ~m.deck.in, m.deck.reel \in Seq(BOOLEAN),
         m.deck.play => m.deck.ptr = 0 /\ m.deck.reel # <<>>,
         m.teller.kind # "psub" => m.teller.status = "eject", SameTeller(s, m)
  PROVE  Fresh(UpdateEvent(m)) /\ SameTeller(s, UpdateEvent(m))
<1> DEFINE r == UpdateEvent(m)
<1>1. Updated(m, r) /\ Half(r)
  BY UpdateGives, UpdateHalf
<1> HIDE DEF r
<1>2. m.deck.play => Len(m.deck.reel) # 0
  BY EmptySeq
<1>3. m.deck.play \in BOOLEAN /\ m.deck.rec \in BOOLEAN
  BY DEF TapeShape
<1>4. AtEnd(r.deck) = FALSE
  BY <1>1, <1>2, <1>3 DEF Updated, SameTape, AtEnd
<1>5. QED
  BY <1>1, <1>4 DEF Updated, SameTape, Fresh, SameTeller, r

\* DATAREC::play_tape, also of a file that cannot be opened, and rec_tape.
LEMMA PlayFileIsFresh ==
  ASSUME NEW s, Half(s), NEW reel \in Seq(BOOLEAN)
  PROVE  Fresh(PlayFile(s, reel)) /\ SameTeller(s, PlayFile(s, reel))
<1> DEFINE m == CloseDeck(s)
           e == [m EXCEPT !.deck.play = TRUE, !.deck.reel = reel, !.deck.in = Head(reel),
                          !.deck.apss = NoApss, !.tape = NoTape]
           f == ToldOfApss(e, FALSE)
<1>1. PlayFile(s, reel) = IF reel = <<>> THEN m ELSE UpdateEvent(f)
  BY DEF PlayFile
<1>2. Closed(s, m)
  BY CloseDeckCloses
<1> HIDE DEF m
<1>3. /\ TapeShape(e) /\ e.deck.play = TRUE /\ e.deck.reel = reel /\ e.deck.rec = FALSE /\ e.deck.ptr = 0
      /\ e.deck.event = "none" /\ e.teller = m.teller
  BY <1>2 DEF Closed, Half, EventIs, TapeRuns, TapeShape, DeckFields
<1> HIDE DEF e
<1>4. TapeShape(f) /\ f.deck = e.deck /\ SameTeller(e, f) /\ f.teller.status = e.teller.status
  BY <1>3 DEF ToldOfApss, TapeShape, TellerFields, SameTeller
<1> HIDE DEF f
<1>5. (f.teller.kind # "psub" => f.teller.status = "eject") /\ SameTeller(s, f)
  BY <1>2, <1>3, <1>4 DEF Closed, Half, SameTeller
<1>6. ASSUME reel # <<>> PROVE Fresh(UpdateEvent(f)) /\ SameTeller(s, UpdateEvent(f))
  BY <1>3, <1>4, <1>5, <1>6, PutInIsFresh
<1>7. QED
  BY <1>1, <1>2, <1>6, ClosedIsFresh

LEMMA RecFileIsFresh ==
  ASSUME NEW s, Half(s), NEW format, NEW out
  PROVE  Fresh(RecFile(s, format, out)) /\ SameTeller(s, RecFile(s, format, out))
<1> DEFINE m == CloseDeck(s)
           buf == IF Runs(format) THEN <<[level |-> out, count |-> 0]>> ELSE <<>>
           e == [m EXCEPT !.deck.rec = TRUE, !.deck.buf = buf,
                          !.tape = [format |-> format, file |-> <<>>, taken |-> <<>>, open |-> TRUE]]
<1>1. RecFile(s, format, out) = UpdateEvent(e)
  BY DEF RecFile
<1>2. Closed(s, m)
  BY CloseDeckCloses
<1> HIDE DEF m, buf
<1>3. /\ TapeShape(e) /\ e.deck.play = FALSE /\ e.deck.reel = <<>> /\ e.deck.rec = TRUE
      /\ e.deck.event = "none" /\ e.deck.in = m.deck.in /\ e.teller = m.teller
  BY <1>2 DEF Closed, Half, EventIs, TapeRuns, TapeShape, DeckFields
<1> HIDE DEF e
<1>4. /\ (e.teller.kind # "psub" => e.teller.status = "eject") /\ SameTeller(s, e)
      /\ ~e.deck.in /\ e.deck.reel \in Seq(BOOLEAN)
  BY <1>2, <1>3, EmptySeq DEF Closed, Half, SameTeller
<1>5. Fresh(UpdateEvent(e)) /\ SameTeller(s, UpdateEvent(e))
  BY <1>3, <1>4, PutInIsFresh
<1>6. QED
  BY <1>1, <1>5

\* PSUB and SUB forget a tape.
LEMMA TellerForgets ==
  ASSUME NEW s, Fresh(s)
  PROVE  LET r == TellerCloses(s)
         IN  /\ Fresh(r) /\ r.deck.play = s.deck.play /\ r.deck.rec = s.deck.rec
             /\ r.teller.play = FALSE /\ r.teller.rec = FALSE /\ r.teller.kind = s.teller.kind
             /\ r.teller.status \in {"eject", "stop", s.teller.status}
             /\ s.teller.play \/ s.teller.rec => r.teller.status \in {"eject", "stop"}
<1> DEFINE a == [s EXCEPT !.teller.play = FALSE, !.teller.rec = FALSE, !.teller.eot = FALSE, !.teller.apss = FALSE]
           b == [s EXCEPT !.teller.status = "eject", !.teller.play = FALSE, !.teller.rec = FALSE]
           c == SetRemote(b, FALSE)
<1>1. TellerCloses(s) = IF s.teller.kind # "psub" THEN a ELSE IF s.teller.play \/ s.teller.rec THEN c ELSE s
  BY DEF TellerCloses
<1>2. /\ TapeShape(a) /\ a.deck = s.deck /\ a.teller.play = FALSE /\ a.teller.rec = FALSE
      /\ a.teller.eot = FALSE /\ a.teller.kind = s.teller.kind /\ a.teller.status = s.teller.status
  BY DEF Fresh, Half, TapeShape, TellerFields
<1>3. /\ TapeShape(b) /\ b.deck = s.deck /\ b.teller.play = FALSE /\ b.teller.rec = FALSE
      /\ b.teller.eot = s.teller.eot /\ b.teller.kind = s.teller.kind /\ b.teller.status = "eject"
  BY DEF Fresh, Half, TapeShape, TellerFields
<1> HIDE DEF a, b
<1>4. Fresh(a) /\ Fresh(b)
  BY <1>2, <1>3 DEF Fresh, Half
<1>5. Signalled(b, c)
  BY <1>4, RemoteSignals DEF Fresh
<1> HIDE DEF c
<1>6. /\ Fresh(c) /\ c.deck.play = s.deck.play /\ c.deck.rec = s.deck.rec
      /\ c.teller.play = FALSE /\ c.teller.rec = FALSE /\ c.teller.kind = s.teller.kind
      /\ c.teller.status \in {"eject", "stop"}
  BY <1>3, <1>4, <1>5, SignalledIsFresh DEF Signalled, SameTape
<1>7. CASE s.teller.kind # "psub"
  BY <1>1, <1>2, <1>4, <1>7 DEF Fresh, Half
<1>8. CASE s.teller.kind = "psub" /\ (s.teller.play \/ s.teller.rec)
  BY <1>1, <1>6, <1>8
<1>9. CASE s.teller.kind = "psub" /\ ~(s.teller.play \/ s.teller.rec)
  BY <1>1, <1>9 DEF Fresh, Half, TapeShape
<1>10. QED
  BY <1>7, <1>8, <1>9

\* They have another.
LEMMA TellerHasFits ==
  ASSUME NEW s, Fresh(s)
  PROVE  Fit(TellerHas(s, s.deck.play, s.deck.rec))
<1> DEFINE p == s.deck.play
           q == s.deck.rec
           m == [s EXCEPT !.teller.play = p, !.teller.rec = q]
           a == [m EXCEPT !.teller.eot = FALSE, !.teller.apss = FALSE]
           x == IF p \/ q THEN "stop" ELSE "eject"
           b == [m EXCEPT !.teller.status = x]
           c == SetRemote(b, FALSE)
<1>1. TellerHas(s, p, q) = IF s.teller.kind # "psub" THEN a ELSE c
  <2>1. m.teller.kind = s.teller.kind
    BY DEF Fresh, Half, TapeShape, TellerFields
  <2>2. TellerHas(s, p, q) = IF s.teller.kind # "psub" THEN a ELSE c
    BY <2>1 DEF TellerHas
  <2>3. QED
    BY <2>2
<1>2. /\ TapeShape(m) /\ m.deck = s.deck /\ m.teller.play = p /\ m.teller.rec = q
      /\ m.teller.eot = s.teller.eot /\ m.teller.kind = s.teller.kind /\ m.teller.status = s.teller.status
  BY DEF Fresh, Half, TapeShape, TellerFields
<1> HIDE DEF m, x
<1>3. /\ TapeShape(a) /\ a.deck = s.deck /\ a.teller.play = p /\ a.teller.rec = q
      /\ a.teller.eot = FALSE /\ a.teller.kind = s.teller.kind /\ a.teller.status = s.teller.status
  BY <1>2 DEF TapeShape, TellerFields
<1>4. /\ TapeShape(b) /\ b.deck = s.deck /\ b.teller.play = p /\ b.teller.rec = q
      /\ b.teller.eot = s.teller.eot /\ b.teller.kind = s.teller.kind /\ b.teller.status = x
  BY <1>2 DEF TapeShape, TellerFields
<1> HIDE DEF a, b
<1>5. CASE s.teller.kind # "psub"
  <2>1. Half(a) /\ a.teller.status = "eject"
    BY <1>3, <1>5 DEF Fresh, Half
  <2>2. KnowsTape(a) /\ KnowsEnd(a)
    BY <1>3 DEF Fresh, KnowsTape, KnowsEnd, HasTape, AtEnd
  <2>3. Fit(a)
    BY <2>1, <2>2 DEF Fit, Motions
  <2>4. QED
    BY <1>1, <1>5, <2>3
<1>6. CASE s.teller.kind = "psub"
  <2>1. Half(b) /\ b.teller.status \in {"stop", "eject"}
    BY <1>4, <1>6 DEF Fresh, Half, x
  <2>2. KnowsTape(b) /\ KnowsEnd(b)
    BY <1>4 DEF Fresh, KnowsTape, KnowsEnd, HasTape, AtEnd
  <2>3. Fit(b)
    BY <2>1, <2>2 DEF Fit, Motions
  <2>4. Fit(c)
    BY <2>1, <2>3, RemoteSignals DEF Signalled
  <2>5. QED
    BY <1>1, <1>6, <2>4
<1>7. QED
  BY <1>5, <1>6

\* VM::play_tape and rec_tape.
LEMMA ChangedFits ==
  ASSUME NEW s, NEW m, Fresh(m)
  PROVE  Fit(Changed(s, m))
<1> DEFINE a == IF (m.deck.play \/ m.deck.rec) /\ s.deck.remote THEN PushPlay(m) ELSE m
           b == TellerCloses(a)
<1>1. Changed(s, m) = TellerHas(b, m.deck.play, m.deck.rec)
  BY DEF Changed
<1>2. Fresh(a) /\ a.deck.play = m.deck.play /\ a.deck.rec = m.deck.rec
  <2>1. Signalled(m, PushPlay(m))
    BY PushPlaySignals DEF Fresh
  <2>2. QED
    BY <2>1, SignalledIsFresh DEF Signalled, SameTape
<1> HIDE DEF a
<1>3. Fresh(b) /\ b.deck.play = m.deck.play /\ b.deck.rec = m.deck.rec
  BY <1>2, TellerForgets
<1> HIDE DEF b
<1>4. QED
  BY <1>1, <1>3, TellerHasFits

\* VM::close_tape.
LEMMA VmCloseFits ==
  ASSUME NEW s, Fit(s)
  PROVE  Fit(VmClose(s)) /\ VmClose(s).deck.play = FALSE /\ VmClose(s).deck.rec = FALSE
<1> DEFINE a == CloseDeck(s)
           b == SetRemote(a, FALSE)
           r == TellerCloses(b)
<1>1. VmClose(s) = r
  BY DEF VmClose
<1>2. Closed(s, a)
  BY CloseDeckCloses DEF Fit
<1> HIDE DEF a
<1>3. Signalled(a, b) /\ Fresh(a)
  BY <1>2, RemoteSignals, ClosedIsFresh DEF Closed
<1> HIDE DEF b
<1>4. /\ Fresh(b) /\ b.deck.play = FALSE /\ b.deck.rec = FALSE
      /\ b.teller.play = s.teller.play /\ b.teller.rec = s.teller.rec
      /\ b.teller.status \in {s.teller.status, "stop"}
  BY <1>2, <1>3, SignalledIsFresh DEF Closed, Signalled, SameTape
<1>5. /\ Fresh(r) /\ r.deck.play = FALSE /\ r.deck.rec = FALSE
      /\ r.teller.play = FALSE /\ r.teller.rec = FALSE
      /\ r.teller.status \in {"eject", "stop", b.teller.status}
      /\ b.teller.play \/ b.teller.rec => r.teller.status \in {"eject", "stop"}
  BY <1>4, TellerForgets
<1> HIDE DEF r
<1>6. ASSUME r.teller.status \in Motions PROVE FALSE
  <2>1. ~(b.teller.play \/ b.teller.rec) /\ r.teller.status = s.teller.status
    BY <1>4, <1>5, <1>6 DEF Motions
  <2>2. s.deck.event # "none"
    BY <1>6, <2>1 DEF Fit
  <2>3. s.teller.play \/ s.teller.rec
    BY <2>2 DEF Fit, Half, EventIs, TapeRuns, HasTape, KnowsTape
  <2>4. QED
    BY <1>4, <2>1, <2>3
<1>7. KnowsTape(r) /\ KnowsEnd(r)
  BY <1>5 DEF KnowsTape, KnowsEnd, HasTape
<1>8. QED
  BY <1>1, <1>5, <1>6, <1>7 DEF Fit, Fresh

(* The steps. *)
\* What EMU keeps of the tape.
MediaFields == {"what", "reel", "wait"}
MediaOK(m) == DOMAIN m = MediaFields /\ m.reel \in Seq(BOOLEAN)
SavedState == [deck |-> saved.deck, teller |-> saved.teller, tape |-> saved.tape]

\* The inductive invariant.
TapeInv ==
  /\ Fit(State) /\ MediaOK(media)
  /\ saved # NoState => Fit(SavedState) /\ MediaOK(saved.media)

\* The parts of the state.
LEMMA StateIs ==
  State.deck = deck /\ State.teller = teller /\ State.tape = tape
BY DEF State

\* What a step becomes is the next state.
LEMMA TapeBecame ==
  ASSUME NEW r, Fit(r), Becomes(r)
  PROVE  Fit(State')
<1>1. State'.deck = r.deck /\ State'.teller = r.teller /\ DOMAIN State' = {"deck", "teller", "tape"}
  BY DEF State, Becomes
<1>2. TapeShape(State')
  BY <1>1 DEF Fit, Half, TapeShape
<1> DEFINE q == State'
<1> HIDE DEF q
<1>3. QED
  BY <1>1, <1>2 DEF Fit, Half, KnowsTape, KnowsEnd, q

\* A command that moves the tape.
LEMMA MovingFits ==
  ASSUME NEW s, Fit(s), NEW cmd
  PROVE  LET r == Moving(s, cmd)
         IN  /\ Fit(r) /\ r.deck.play = s.deck.play /\ r.deck.rec = s.deck.rec
             /\ r.teller.kind = s.teller.kind
             /\ cmd \in Motions => r.deck.remote = TRUE
<1> DEFINE r == Moving(s, cmd)
           g(v) == SetRemote(SetFfRew(s, v), TRUE)
           x == IF cmd = "apss+" THEN 1 ELSE -1
<1>1. /\ cmd \in {"play", "rec"} => r = g(0)
      /\ cmd = "fwd" => r = g(1)
      /\ cmd = "rew" => r = g(-1)
      /\ cmd \notin Motions => r = DoApss(s, x)
  BY DEF Moving, Motions
<1> HIDE DEF r, x
<1>2. ASSUME NEW v PROVE Signalled(s, g(v)) /\ g(v).deck.remote = TRUE
  BY GoesSignals DEF Fit
<1> HIDE DEF g
<1>3. CASE cmd \in Motions
  <2>1. PICK v \in {0, 1, -1} : r = g(v)
    BY <1>1, <1>3 DEF Motions
  <2>2. Signalled(s, r) /\ r.deck.remote = TRUE
    BY <1>2, <2>1
  <2>3. QED
    BY <2>2 DEF Signalled, SameTape, r
<1>4. CASE cmd \notin Motions
  <2>1. /\ Fit(DoApss(s, x)) /\ DoApss(s, x).deck.play = s.deck.play /\ DoApss(s, x).deck.rec = s.deck.rec
        /\ DoApss(s, x).teller.kind = s.teller.kind
    BY ApssSearches
  <2>2. QED
    BY <1>1, <1>4, <2>1 DEF r
<1>5. QED
  BY <1>3, <1>4

\* What PSUB says after its command.
LEMMA SaysFits ==
  ASSUME NEW s, Fit(s), NEW x, s.teller.kind = "psub" \/ x = "eject", x \in Motions => s.deck.event # "none"
  PROVE  Fit([s EXCEPT !.teller.status = x])
<1> DEFINE r == [s EXCEPT !.teller.status = x]
<1>1. /\ TapeShape(r) /\ r.deck = s.deck /\ r.teller.kind = s.teller.kind /\ r.teller.play = s.teller.play
      /\ r.teller.rec = s.teller.rec /\ r.teller.eot = s.teller.eot /\ r.teller.status = x
  BY DEF Fit, Half, TapeShape, TellerFields
<1> HIDE DEF r
<1>2. Half(r) /\ KnowsTape(r) /\ KnowsEnd(r)
  BY <1>1 DEF Fit, Half, KnowsTape, KnowsEnd
<1>3. QED
  BY <1>1, <1>2 DEF Fit, r

\* The program's commands and the window's buttons.
LEMMA CmtStep ==
  ASSUME Fit(State), NEW cmd, Cmt(cmd)
  PROVE  Fit(State')
<1> DEFINE fits == IF cmd = "rec" THEN ~teller.play /\ teller.rec ELSE teller.play
           s == IF cmd = "eject" THEN VmClose(State)
                ELSE IF cmd = "stop" THEN SetRemote(State, FALSE)
                ELSE IF fits THEN Moving(State, cmd) ELSE State
           status == IF cmd \in {"eject", "stop"} THEN cmd
                     ELSE IF fits THEN (IF cmd \in {"apss+", "apss-"} THEN "stop" ELSE cmd)
                     ELSE IF teller.play \/ teller.rec THEN "stop" ELSE "eject"
           r == [s EXCEPT !.teller.status = status]
<1>1. teller.kind = "psub" /\ Becomes(r)
  BY DEF Cmt
<1>2. /\ Fit(SetRemote(State, FALSE)) /\ SetRemote(State, FALSE).teller.kind = "psub"
  BY <1>1, StateIs, RemoteSignals DEF Fit, Signalled, SameTape
<1>3. Fit(VmClose(State))
  BY VmCloseFits
<1>4. /\ Fit(Moving(State, cmd)) /\ Moving(State, cmd).deck.play = deck.play /\ Moving(State, cmd).deck.rec = deck.rec
      /\ Moving(State, cmd).teller.kind = "psub"
      /\ cmd \in Motions => Moving(State, cmd).deck.remote = TRUE
  BY <1>1, StateIs, MovingFits
<1>5. /\ Fit(s) /\ (s.teller.kind = "psub" \/ cmd = "eject")
  BY <1>1, <1>2, <1>3, <1>4, StateIs
<1>6. cmd = "eject" => status = "eject"
  OBVIOUS
<1>7. ASSUME status \in Motions PROVE s.deck.event # "none"
  <2>1. cmd \notin {"eject", "stop"} /\ fits /\ status = cmd
    BY <1>7 DEF Motions
  <2>2. s = Moving(State, cmd) /\ cmd \in Motions
    BY <1>7, <2>1
  <2>3. deck.play \/ deck.rec
    BY <2>1, StateIs DEF Fit, KnowsTape
  <2> HIDE DEF s
  <2>4. TapeRuns(s.deck)
    BY <1>4, <2>2, <2>3 DEF TapeRuns, HasTape
  <2>5. QED
    BY <1>5, <2>4 DEF Fit, Half, EventIs, Rate
<1> HIDE DEF s, status, fits
<1>8. Fit(r)
  BY <1>5, <1>6, <1>7, SaysFits
<1>9. QED
  BY <1>1, <1>8, TapeBecame

LEMMA PinStep ==
  ASSUME Fit(State), NEW cmd, Pin(cmd)
  PROVE  Fit(State')
<1> DEFINE r == IF cmd = "eject" THEN VmClose(State)
                ELSE IF cmd = "stop" THEN SetRemote(State, FALSE)
                ELSE IF cmd = "playOff"
                THEN (IF teller.kind = "sub262" THEN SetRemote(State, FALSE) ELSE State)
                ELSE Moving(State, cmd)
<1>1. Becomes(r)
  BY DEF Pin
<1>2. Fit(SetRemote(State, FALSE))
  BY RemoteSignals DEF Fit, Signalled
<1>3. Fit(VmClose(State)) /\ Fit(Moving(State, cmd))
  BY VmCloseFits, MovingFits
<1>4. Fit(r)
  BY <1>2, <1>3
<1> HIDE DEF r
<1>5. QED
  BY <1>1, <1>4, TapeBecame

LEMMA PushStep ==
  ASSUME Fit(State), NEW button \in Commands \ {"eject", "rec"}, Push(button)
  PROVE  Fit(State')
<1> DEFINE off == SetRemote(State, FALSE)
           g(v) == SetRemote(SetFfRew(off, v), TRUE)
           x == IF button = "apss+" THEN 1 ELSE -1
           r == CASE button = "play" -> PushPlay(State)
                  [] button = "stop" -> off
                  [] button = "fwd" -> g(1)
                  [] button = "rew" -> g(-1)
                  [] OTHER -> DoApss(State, x)
<1>1. Becomes(r)
  BY DEF Push
<1> HIDE DEF x
<1>2. Fit(off)
  BY RemoteSignals DEF Fit, Signalled
<1> HIDE DEF off
<1>3. Fit(g(1)) /\ Fit(g(-1))
  BY <1>2, GoesSignals DEF Fit, Signalled
<1>4. Fit(PushPlay(State)) /\ Fit(DoApss(State, x))
  BY PushPlaySignals, ApssSearches DEF Fit, Signalled
<1> HIDE DEF g
<1>5. Fit(r)
  BY <1>2, <1>3, <1>4 DEF Commands
<1> HIDE DEF r
<1>6. QED
  BY <1>1, <1>5, TapeBecame

\* A tape is put in, to play or to record.
LEMMA VmFits ==
  ASSUME NEW s, Fit(s), NEW m, m.reel \in Seq(BOOLEAN), NEW out
  PROVE  Fit(Vm(s, m, out))
<1>1. Fresh(PlayFile(s, m.reel)) /\ Fresh(RecFile(s, m.what, out))
  BY PlayFileIsFresh, RecFileIsFresh DEF Fit
<1>2. Fit(VmPlay(s, m.reel)) /\ Fit(VmRec(s, m.what, out))
  BY <1>1, ChangedFits DEF VmPlay, VmRec
<1>3. QED
  BY <1>2 DEF Vm

\* A sample is recorded.
LEMMA RecordKeeps ==
  ASSUME NEW s, TapeShape(s), NEW level, NEW taken
  PROVE  AsBefore(s, Put([s EXCEPT !.tape.taken = taken], level))
<1> DEFINE m == [s EXCEPT !.tape.taken = taken]
           b == m.deck.buf
           next == [level |-> level, count |-> 1]
           longer == [b EXCEPT ![Len(b)].count = @ + 1]
           whole == Append(b, level)
           more == Append(b, next)
           file == Written(m.tape, b)
           file2 == Written(m.tape, whole)
<1>1. AsBefore(s, m) /\ TapeShape(m)
  BY DEF AsBefore, TapeShape, SameTape
<1>2. ASSUME NEW x, NEW y
      PROVE  /\ AsBefore(m, [m EXCEPT !.deck.buf = x])
             /\ AsBefore(m, [m EXCEPT !.tape.file = y, !.deck.buf = x])
  <2> HIDE DEF m
  <2>1. QED
    BY <1>1 DEF AsBefore, TapeShape, SameTape, DeckFields
<1>3. Put(m, level) \in {m, [m EXCEPT !.deck.buf = longer], [m EXCEPT !.deck.buf = whole],
        [m EXCEPT !.deck.buf = more], [m EXCEPT !.tape.file = file, !.deck.buf = <<next>>],
        [m EXCEPT !.tape.file = file2, !.deck.buf = <<>>]}
  <2> HIDE DEF m, longer, file, file2
  <2>1. QED
    BY DEF Put, longer, file, file2
<1> HIDE DEF longer, whole, more, file, file2, next
<1> HIDE DEF m
<1>4. AsBefore(m, Put(m, level)) \/ Put(m, level) = m
  <2>1. AsBefore(m, [m EXCEPT !.deck.buf = longer])
    BY <1>2
  <2>2. AsBefore(m, [m EXCEPT !.deck.buf = whole])
    BY <1>2
  <2>3. AsBefore(m, [m EXCEPT !.deck.buf = more])
    BY <1>2
  <2>4. AsBefore(m, [m EXCEPT !.tape.file = file, !.deck.buf = <<next>>])
    BY <1>2
  <2>5. AsBefore(m, [m EXCEPT !.tape.file = file2, !.deck.buf = <<>>])
    BY <1>2
  <2>6. QED
    BY <1>3, <2>1, <2>2, <2>3, <2>4, <2>5
<1>5. AsBefore(s, Put(m, level))
  BY <1>1, <1>4 DEF AsBefore, SameTape
<1>6. QED
  BY <1>5 DEF m

\* A reset closes the recorder and forgets the tape.
LEMMA ResetFits ==
  ASSUME Fit(State)
  PROVE  Fit([CloseDeck(State) EXCEPT !.teller = NewTeller(teller.kind)])
<1> DEFINE a == CloseDeck(State)
           t == NewTeller(teller.kind)
           r == [a EXCEPT !.teller = t]
<1>1. Closed(State, a)
  BY CloseDeckCloses DEF Fit
<1> HIDE DEF a
<1>2. /\ DOMAIN t = TellerFields /\ t.play = FALSE /\ t.rec = FALSE /\ t.status = "eject"
  BY DEF NewTeller, TellerFields
<1> HIDE DEF t
<1>3. TapeShape(r) /\ r.deck = a.deck /\ r.teller = t
  BY <1>1, <1>2 DEF Closed, Half, TapeShape
<1> HIDE DEF r
<1>4. QED
  BY <1>1, <1>2, <1>3 DEF Closed, Half, Fit, KnowsTape, KnowsEnd, HasTape, Motions, r, a, t

\* Every step.
LEMMA TapeStep ==
  ASSUME TapeDeckAssumption, TapeInv, [TapeNext]_tapeVars
  PROVE  TapeInv'
<1> USE DEF TapeInv
<1>1. Fit(State) /\ MediaOK(media) /\ Half(State)
  BY DEF Fit
<1>2. ASSUME Fit(State'), media' = media \/ MediaOK(media'), saved' = saved PROVE TapeInv'
  <2>1. MediaOK(media')
    BY <1>1, <1>2
  <2>2. SavedState' = SavedState
    BY <1>2 DEF SavedState
  <2>3. QED
    BY <1>2, <2>1, <2>2
<1>3. MediaOK(NoMedia)
  BY EmptySeq DEF MediaOK, NoMedia, MediaFields
<1>4. ASSUME UNCHANGED <<deck, teller, tape>> PROVE Fit(State')
  BY <1>1, <1>4 DEF State
<1>5. CASE Play
  <2>1. Fit(PlayTick(State)) /\ Becomes(PlayTick(State)) /\ UNCHANGED <<media, saved>>
    BY <1>1, <1>5, StateIs, PlayTickPlays DEF Play, Played, Half, TapeShape
  <2>2. QED
    BY <1>2, <2>1, TapeBecame
<1>6. ASSUME NEW level \in BOOLEAN, Record(level) PROVE TapeInv'
  <2> DEFINE taken == Append(tape.taken, level)
             r == Put([State EXCEPT !.tape.taken = taken], level)
  <2>1. Becomes(r) /\ UNCHANGED <<media, saved>>
    <3>1. [State EXCEPT !.tape.taken = Append(@, level)] = [State EXCEPT !.tape.taken = taken]
      BY DEF State
    <3>2. QED
      BY <1>6, <3>1 DEF Record
  <2> HIDE DEF taken
  <2>2. AsBefore(State, r)
    BY <1>1, RecordKeeps DEF Half
  <2> HIDE DEF r
  <2>3. Fit(r)
    BY <1>1, <2>2, AsBeforeFits
  <2>4. QED
    BY <1>2, <2>1, <2>3, TapeBecame
<1>7. ASSUME NEW cmd, Cmt(cmd) \/ Pin(cmd) PROVE TapeInv'
  <2>1. saved' = saved /\ media' \in {media, NoMedia}
    BY <1>7 DEF Cmt, Pin
  <2>2. QED
    BY <1>1, <1>2, <1>3, <1>7, <2>1, CmtStep, PinStep
<1>8. ASSUME NEW button \in Commands \ {"eject", "rec"}, Push(button) PROVE TapeInv'
  BY <1>1, <1>2, <1>8, PushStep DEF Push
<1>9. ASSUME NEW what, NEW reel \in Seq(BOOLEAN), Change(what, reel) PROVE TapeInv'
  <2> DEFINE wait == IF deck.play \/ deck.rec THEN Wait ELSE media.wait
             m == [what |-> what, reel |-> reel, wait |-> wait]
  <2>1. media' = m /\ saved' = saved
    BY <1>9 DEF Change
  <2>2. \E out \in BOOLEAN :
          Becomes(IF deck.play \/ deck.rec THEN VmClose(State)
                  ELSE IF media.wait = 0 THEN Vm(State, m, out) ELSE State)
    BY <1>9 DEF Change
  <2> HIDE DEF wait
  <2>3. MediaOK(m) /\ m.reel \in Seq(BOOLEAN)
    BY DEF MediaOK, MediaFields
  <2> HIDE DEF m
  <2>4. Fit(VmClose(State)) /\ \A out : Fit(Vm(State, m, out))
    BY <1>1, <2>3, VmCloseFits, VmFits
  <2>5. Fit(State')
    BY <1>1, <2>2, <2>4, TapeBecame
  <2>6. QED
    BY <1>2, <2>1, <2>3, <2>5
<1>10. CASE CloseTape
  BY <1>1, <1>2, <1>3, <1>10, VmCloseFits, TapeBecame DEF CloseTape
<1>11. CASE UpdateMedia
  <2>1. media' = [media EXCEPT !.wait = @ - 1] /\ saved' = saved
    BY <1>11 DEF UpdateMedia
  <2>2. MediaOK(media')
    BY <1>1, <2>1 DEF MediaOK, MediaFields
  <2>3. Fit(State')
    <3>1. \A out : Fit(Vm(State, media, out))
      BY <1>1, VmFits DEF MediaOK
    <3>2. (\E out \in BOOLEAN : Becomes(Vm(State, media, out))) \/ UNCHANGED <<deck, teller, tape>>
      BY <1>11 DEF UpdateMedia
    <3>3. QED
      BY <1>4, <3>1, <3>2, TapeBecame
  <2>4. QED
    BY <1>2, <2>1, <2>2, <2>3
<1>12. CASE Reset
  BY <1>1, <1>2, <1>12, ResetFits, TapeBecame DEF Reset
<1>13. CASE Save
  <2>1. /\ saved' = [deck |-> deck, teller |-> teller, tape |-> tape, media |-> media]
        /\ UNCHANGED <<deck, teller, tape, media>>
    BY <1>13 DEF Save
  <2>2. SavedState' = State /\ saved'.media = media
    BY <2>1 DEF SavedState, State
  <2>3. Fit(State') /\ MediaOK(media')
    BY <1>1, <1>4, <2>1
  <2>4. QED
    BY <1>1, <2>2, <2>3
<1>14. CASE Load
  <2>1. saved # NoState /\ Becomes(SavedState) /\ saved' = saved
    BY <1>14 DEF Load, SavedState
  <2>2. media' \in {saved.media, [saved.media EXCEPT !.what = "none"]}
    BY <1>14 DEF Load
  <2>3. Fit(SavedState) /\ MediaOK(saved.media)
    BY <2>1
  <2>4. MediaOK([saved.media EXCEPT !.what = "none"])
    BY <2>3 DEF MediaOK, MediaFields
  <2>5. QED
    BY <1>2, <2>1, <2>2, <2>3, <2>4, TapeBecame
<1>15. CASE UNCHANGED tapeVars
  BY <1>1, <1>2, <1>4, <1>15 DEF tapeVars
<1>16. Reels \subseteq Seq(BOOLEAN) /\ <<>> \in Seq(BOOLEAN)
  BY EmptySeq DEF TapeDeckAssumption
<1>17. QED
  BY <1>5, <1>6, <1>7, <1>8, <1>9, <1>10, <1>11, <1>12, <1>13, <1>14, <1>15, <1>16 DEF TapeNext

LEMMA TapeInitInv ==
  ASSUME TapeInit
  PROVE  TapeInv
<1>1. PICK kind \in SubCpus : teller = NewTeller(kind)
  BY DEF TapeInit
<1>2. deck = NewDeck /\ media = NoMedia /\ saved = NoState
  BY DEF TapeInit
<1>3. TapeShape(State)
  BY <1>1, <1>2 DEF State, TapeShape, NewDeck, NewTeller, DeckFields, TellerFields
<1>4. State.deck = NewDeck /\ State.teller = NewTeller(kind)
  BY <1>1, <1>2, StateIs
<1> DEFINE s == State
<1> HIDE DEF s
<1>5. Fit(s)
  BY <1>3, <1>4, EmptySeq DEF s, Fit, Half, EventIs, TapeRuns, HasTape, KnowsTape, KnowsEnd, NewDeck, NewTeller, Motions
<1>6. QED
  BY <1>2, <1>5, EmptySeq DEF TapeInv, MediaOK, MediaFields, NoMedia, s

LEMMA TapeInvGives ==
  ASSUME TapeInv
  PROVE  Followed
BY StateIs DEF TapeInv, Fit, Half, EventIs, TapeRuns, HasTape, KnowsTape, KnowsEnd, Motions, Followed

\* For any tapes, lengths, formats and order of the program's commands, the
\* window's buttons, tapes that are changed, searches, resets and saved states: the
\* recorder's event is registered exactly while its tape moves, at its speed
\* (DATAREC::update_event), and PSUB or SUB knows the tape, says truly whether it is at
\* its end, and says that it moves only when it does (psub.cpp, write_signal).
THEOREM TapeIsFollowed ==
  ASSUME TapeDeckAssumption
  PROVE  TapeSpec => []Followed
<1>1. TapeInit => TapeInv
  BY TapeInitInv
<1>2. TapeInv /\ [TapeNext]_tapeVars => TapeInv'
  BY TapeStep
<1>3. TapeInv => Followed
  BY TapeInvGives
<1>4. QED
  BY <1>1, <1>2, <1>3, PTL DEF TapeSpec
================================================================================

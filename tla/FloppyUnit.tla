------------------------------ MODULE FloppyUnit ------------------------------
(***************************************************************************)
(* The controller in its drive interface (core/vm/x1/floppy.cpp): port     *)
(* 0FFCh selects the drive and turns the motor, which is at speed 560 ms   *)
(* after it starts and stops 1.5 s after its bit falls.  The two times are *)
(* one event slot, and the controller hears of the motor only from them.   *)
(***************************************************************************)
EXTENDS Mb8877

VARIABLES prev,        \* bit 7 of the last write to 0FFCh
          unitMotor,   \* FLOPPY::motor_on
          motorTimer   \* register_id: "up", "down" or Off

motorVars == <<prev, unitMotor, motorTimer>>
uvars == <<vars, motorVars>>

UnitTypeOK ==
  TypeOK /\ prev \in BOOLEAN /\ unitMotor \in BOOLEAN /\ motorTimer \in {"up", "down", Off}

UnitInit == Init /\ prev = FALSE /\ unitMotor = FALSE /\ motorTimer = Off

\* write_io8: an edge cancels what the edge before it had begun.
WriteDriveReg(on, d) ==
  /\ SelectDrive(d) /\ UNCHANGED motorOn
  /\ prev' = on
  /\ \/ /\ ~prev /\ on
        /\ unitMotor' = TRUE
        /\ motorTimer' = IF unitMotor THEN Off ELSE "up"
     \/ prev /\ ~on /\ motorTimer' = "down" /\ UNCHANGED unitMotor
     \/ prev = on /\ UNCHANGED <<unitMotor, motorTimer>>

SpindleUp ==
  /\ motorTimer = "up" /\ motorTimer' = Off
  /\ SetMotor(TRUE) /\ UNCHANGED <<drvreg, prev, unitMotor>>

MotorOff ==
  /\ motorTimer = "down" /\ motorTimer' = Off
  /\ SetMotor(FALSE) /\ unitMotor' = FALSE /\ UNCHANGED <<drvreg, prev>>

\* reset leaves all but the event, which the event manager took.
UnitReset == Reset /\ motorTimer' = Off /\ UNCHANGED <<prev, unitMotor>>

UnitNext ==
  \/ /\ Processor \/ Event \/ \E d \in Drives : Eject(d) \/ Insert(d) \/ Protect(d)
     /\ UNCHANGED motorVars
  \/ UnitReset
  \/ \E on \in BOOLEAN, d \in Drives : WriteDriveReg(on, d)
  \/ SpindleUp
  \/ MotorOff

\* The event manager fires what is in line.
UnitSpec ==
  /\ UnitInit /\ [][UnitNext]_uvars
  /\ WF_uvars(Event /\ UNCHANGED motorVars) /\ WF_uvars(SpindleUp \/ MotorOff)
  /\ WF_uvars(ReadStatus /\ UNCHANGED motorVars)

\* The byte's time has passed while the motor stood.
ByteWaits == {"drq", "lost"} \subseteq status /\ timer["lost"] = Off

\* Every command comes to an end without the processor's help, type 1 with a
\* look at the status: all but those whose disk was ejected under them and
\* those whose byte nobody could move.
CommandsEnd == <>[](~Busy \/ cmdtype = "none" \/ ByteWaits)
================================================================================

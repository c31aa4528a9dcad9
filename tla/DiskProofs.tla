------------------------------ MODULE DiskProofs ------------------------------
(***************************************************************************)
(* Proofs about the floppy disks in the drives and the hard disks on their *)
(* bus, for any number of drives and disks, images and commands.           *)
(*                                                                         *)
(* In the drives, for any deferral no longer than the guard: the menus and *)
(* EMU agree, a load leaves no insert to land later and the right disks in *)
(* the drives, and the guest sees every swap.                              *)
(*                                                                         *)
(* On the bus, unless it is reset in the middle of data: one target has it *)
(* at a time, the one the program chose, and it is never stuck.            *)
(***************************************************************************)
EXTENDS FloppyMedia, ScsiBus, TLAPS

\* While a load waits, an insert that is pending has an empty drive, a menu
\* that names its disk, and enough of the guard left to land in.
LandsInTime ==
  stage = "mounted" =>
    \A d \in Drives : wait[d] > 0 =>
      drive[d] = NoDisk /\ menu[d] # NoDisk /\ wait[d] + guard <= Wait

\* A disk in a drive is the one EMU has for it, if EMU has one.
Agree(m, v) == \A d \in Drives : m[d] # NoDisk /\ v[d] # NoDisk => v[d] = m[d]

\* So it is in the drives, in the blob being written, and in the state saved.
DisksAgree ==
  /\ Agree(path, drive)
  /\ stage = "captured" => Agree(menu, captured)
  /\ \A s \in saved : Agree(s.menu, s.drive)

\* While a load waits, a menu names the saved disk or none.
MenusFromState ==
  stage = "mounted" =>
    /\ saved # {}
    /\ \A s \in saved, d \in Drives : menu[d] # NoDisk => menu[d] = s.menu[d]

IInv ==
  /\ TypeOK /\ MenuIsPath /\ LandsInTime /\ NothingLandsLater
  /\ DisksAgree /\ MenusFromState

-----------------------------------------------------------------------------
\* DISK::open leaves the disk it was asked for, or none.
LEMMA OpenGives ==
  ASSUME TypeOK, NEW x \in Disks \union {NoDisk}, NEW was
  PROVE  Open(x, was) \in {x, NoDisk}
BY FloppyMediaAssumption DEF Open, TypeOK

\* A drive after an insert: the disk is in, or its drive is empty and waits.
LEMMA InsertedGives ==
  ASSUME TypeOK, NEW d \in Drives, NEW x \in Disks
  PROVE  /\ Inserted(x, d).path = x
         /\ Inserted(x, d).wait \in 0..Wait
         /\ Inserted(x, d).drive \in {x, NoDisk}
         /\ Inserted(x, d).wait > 0 => Inserted(x, d).drive = NoDisk
         /\ drive[d] # NoDisk => Inserted(x, d).drive = NoDisk
<1>1. Open(x, NoDisk) \in {x, NoDisk}
  BY OpenGives
<1>2. wait[d] \in 0..Wait /\ Wait \in Nat /\ Wait > 0
  BY FloppyMediaAssumption DEF TypeOK
<1>3. CASE drive[d] # NoDisk
  BY <1>2, <1>3 DEF Inserted
<1>4. CASE drive[d] = NoDisk /\ wait[d] = 0
  BY <1>1, <1>2, <1>4 DEF Inserted
<1>5. CASE drive[d] = NoDisk /\ wait[d] # 0
  BY <1>2, <1>5 DEF Inserted
<1>6. QED
  BY <1>3, <1>4, <1>5

\* A drive after a frame: one frame less to wait, and in at the last of them.
LEMMA FrameGives ==
  ASSUME TypeOK, NEW d \in Drives
  PROVE  /\ MediaAfterFrame[d].path = path[d]
         /\ MediaAfterFrame[d].wait \in 0..Wait
         /\ MediaAfterFrame[d].wait = IF wait[d] = 0 THEN 0 ELSE wait[d] - 1
         /\ MediaAfterFrame[d].drive \in {path[d], drive[d], NoDisk}
         /\ MediaAfterFrame[d].drive # drive[d] => wait[d] = 1
<1>1. wait[d] \in 0..Wait /\ Wait \in Nat
  BY FloppyMediaAssumption DEF TypeOK
<1>2. path[d] \in Disks \union {NoDisk}
  BY DEF TypeOK, InDrives
<1>3. Open(path[d], drive[d]) \in {path[d], NoDisk}
  BY <1>2, OpenGives
<1>4. QED
  BY <1>1, <1>3 DEF MediaAfterFrame

\* Setting the drives sets what each of them is given.
LEMMA SetDrivesSets ==
  ASSUME NEW new, SetDrives(new),
         \A d \in Drives : /\ new[d].path \in Disks \union {NoDisk}
                           /\ new[d].wait \in 0..Wait
                           /\ new[d].drive \in Disks \union {NoDisk}
  PROVE  /\ path' \in InDrives /\ wait' \in [Drives -> 0..Wait] /\ drive' \in InDrives
         /\ \A d \in Drives : /\ path'[d] = new[d].path
                              /\ wait'[d] = new[d].wait
                              /\ drive'[d] = new[d].drive
BY DEF SetDrives, InDrives

-----------------------------------------------------------------------------
\* "So the guest notices the swap", of one step.
SwapStep ==
  \A d \in Drives : drive[d] # NoDisk /\ drive'[d] # NoDisk /\ stage # "mounted"
                      => drive'[d] = drive[d]

\* The machine's drives and menus only matter to a load while it is going on.
LEMMA IdleStep ==
  ASSUME IInv, stage \in {"idle", "captured"}, UNCHANGED stateVars,
         files' \subseteq Disks,
         menu' \in InDrives, path' = menu', wait' \in [Drives -> 0..Wait],
         drive' \in InDrives, Agree(path', drive'),
         stage = "captured" => menu' = menu
  PROVE  IInv'
<1>1. TypeOK'
  BY DEF IInv, TypeOK, stateVars
<1>2. MenuIsPath' /\ LandsInTime' /\ NothingLandsLater' /\ MenusFromState'
  BY DEF MenuIsPath, LandsInTime, NothingLandsLater, MenusFromState, stateVars
<1>3. stage' = "captured" => Agree(menu', captured')
  BY DEF IInv, DisksAgree, stateVars
<1>4. \A s \in saved' : Agree(s.menu, s.drive)
  BY DEF IInv, DisksAgree, stateVars
<1>5. DisksAgree'
  BY <1>3, <1>4 DEF DisksAgree, Agree
<1>6. QED
  BY <1>1, <1>2, <1>5 DEF IInv

\* mountAt puts the disk in the menu and in EMU, and empties a full drive.
LEMMA MountStep ==
  ASSUME IInv, NEW d \in Drives, NEW x \in Disks, MountAt(d, x)
  PROVE  IInv' /\ SwapStep
<1> DEFINE new == [Now EXCEPT ![d] = Inserted(x, d)]
<1>1. TypeOK /\ menu = path /\ stage = "idle" /\ SetDrives(new)
  BY DEF IInv, MenuIsPath, MountAt
<1>2. /\ new[d].path = x /\ new[d].wait \in 0..Wait
      /\ new[d].drive \in {x, NoDisk}
      /\ drive[d] # NoDisk => new[d].drive = NoDisk
  BY <1>1, InsertedGives DEF Now
<1>3. \A e \in Drives \ {d} : /\ new[e].path = path[e]
                              /\ new[e].wait = wait[e]
                              /\ new[e].drive = drive[e]
  BY DEF Now
<1> HIDE DEF new
<1>4. \A e \in Drives : /\ path[e] \in Disks \union {NoDisk}
                        /\ wait[e] \in 0..Wait
                        /\ drive[e] \in Disks \union {NoDisk}
  BY <1>1 DEF TypeOK, InDrives
<1>5. \A e \in Drives : /\ new[e].path \in Disks \union {NoDisk}
                        /\ new[e].wait \in 0..Wait
                        /\ new[e].drive \in Disks \union {NoDisk}
  BY <1>2, <1>3, <1>4
<1>6. /\ path' \in InDrives /\ wait' \in [Drives -> 0..Wait] /\ drive' \in InDrives
      /\ \A e \in Drives : /\ path'[e] = new[e].path
                           /\ wait'[e] = new[e].wait
                           /\ drive'[e] = new[e].drive
  BY <1>1, <1>5, SetDrivesSets
<1>7. menu' \in InDrives /\ \A e \in Drives : menu'[e] = path'[e]
  BY <1>1, <1>2, <1>3, <1>6 DEF MountAt, TypeOK, InDrives
<1>8. path' = menu'
  BY <1>6, <1>7 DEF InDrives
<1>9. Agree(path', drive')
  BY <1>2, <1>3, <1>6 DEF Agree, IInv, DisksAgree
<1>10. IInv'
  BY <1>1, <1>6, <1>7, <1>8, <1>9, IdleStep DEF MountAt, TypeOK
<1>11. SwapStep
  BY <1>2, <1>3, <1>6 DEF SwapStep
<1>12. QED
  BY <1>10, <1>11

LEMMA EjectStep ==
  ASSUME IInv, NEW d \in Drives, EjectFloppy(d)
  PROVE  IInv' /\ SwapStep
<1> DEFINE new == [Now EXCEPT ![d] = Ejected]
<1>1. TypeOK /\ menu = path /\ stage = "idle" /\ SetDrives(new) /\ Wait \in Nat
  BY FloppyMediaAssumption DEF IInv, MenuIsPath, EjectFloppy
<1>2. /\ new[d].path = NoDisk /\ new[d].wait = 0 /\ new[d].drive = NoDisk
      /\ 0 \in 0..Wait
  <2>1. new[d] = Ejected
    BY DEF Now
  <2>2. Ejected.path = NoDisk /\ Ejected.wait = 0 /\ Ejected.drive = NoDisk
    BY DEF Ejected
  <2>3. QED
    BY <1>1, <2>1, <2>2
<1>3. \A e \in Drives \ {d} : /\ new[e].path = path[e]
                              /\ new[e].wait = wait[e]
                              /\ new[e].drive = drive[e]
  BY DEF Now
<1> HIDE DEF new
<1>4. \A e \in Drives : /\ path[e] \in Disks \union {NoDisk}
                        /\ wait[e] \in 0..Wait
                        /\ drive[e] \in Disks \union {NoDisk}
  BY <1>1 DEF TypeOK, InDrives
<1>5. \A e \in Drives : /\ new[e].path \in Disks \union {NoDisk}
                        /\ new[e].wait \in 0..Wait
                        /\ new[e].drive \in Disks \union {NoDisk}
  BY <1>2, <1>3, <1>4
<1>6. /\ path' \in InDrives /\ wait' \in [Drives -> 0..Wait] /\ drive' \in InDrives
      /\ \A e \in Drives : /\ path'[e] = new[e].path
                           /\ wait'[e] = new[e].wait
                           /\ drive'[e] = new[e].drive
  BY <1>1, <1>5, SetDrivesSets
<1>7. menu' \in InDrives /\ \A e \in Drives : menu'[e] = path'[e]
  BY <1>1, <1>2, <1>3, <1>6 DEF EjectFloppy, TypeOK, InDrives
<1>8. path' = menu'
  BY <1>6, <1>7 DEF InDrives
<1>9. Agree(path', drive')
  BY <1>2, <1>3, <1>6 DEF Agree, IInv, DisksAgree
<1>10. IInv'
  BY <1>1, <1>6, <1>7, <1>8, <1>9, IdleStep DEF EjectFloppy, TypeOK
<1>11. SwapStep
  BY <1>2, <1>3, <1>6 DEF SwapStep
<1>12. QED
  BY <1>10, <1>11

\* A rebuild opens what EMU has a path for: the disk that was in, if any was.
LEMMA RebuildStep ==
  ASSUME IInv, RebuildVm PROVE IInv' /\ SwapStep
<1>1. TypeOK /\ menu = path /\ stage = "idle" /\ UNCHANGED <<files, menu, path, wait>>
  BY DEF IInv, MenuIsPath, RebuildVm
<1>2. \A d \in Drives : path[d] \in Disks \union {NoDisk}
  BY <1>1 DEF TypeOK, InDrives
<1>3. \A d \in Drives : Open(path[d], NoDisk) \in {path[d], NoDisk}
  BY <1>1, <1>2, OpenGives
<1>4. drive' \in InDrives /\ \A d \in Drives : drive'[d] \in {path[d], NoDisk}
  BY <1>2, <1>3 DEF RebuildVm, InDrives
<1>5. Agree(path', drive')
  BY <1>1, <1>4 DEF Agree
<1>6. IInv'
  BY <1>1, <1>4, <1>5, IdleStep DEF RebuildVm, TypeOK
<1>7. SwapStep
  BY <1>2, <1>4 DEF SwapStep, IInv, DisksAgree, Agree
<1>8. QED
  BY <1>6, <1>7

\* What a frame does to the drives, in and out of a load.
LEMMA DrivesAfterFrame ==
  ASSUME IInv, SetDrives(MediaAfterFrame)
  PROVE  /\ path' = path /\ wait' \in [Drives -> 0..Wait] /\ drive' \in InDrives
         /\ Agree(path', drive')
         /\ \A d \in Drives :
              /\ wait'[d] = IF wait[d] = 0 THEN 0 ELSE wait[d] - 1
              /\ drive'[d] # drive[d] => wait[d] = 1
              /\ drive'[d] \in {path[d], drive[d], NoDisk}
<1>1. TypeOK
  BY DEF IInv
<1>2. \A d \in Drives : /\ path[d] \in Disks \union {NoDisk}
                        /\ drive[d] \in Disks \union {NoDisk}
  BY <1>1 DEF TypeOK, InDrives
<1>3. \A d \in Drives :
        /\ MediaAfterFrame[d].path \in Disks \union {NoDisk}
        /\ MediaAfterFrame[d].wait \in 0..Wait
        /\ MediaAfterFrame[d].drive \in Disks \union {NoDisk}
  BY <1>1, <1>2, FrameGives
<1>4. /\ path' \in InDrives /\ wait' \in [Drives -> 0..Wait] /\ drive' \in InDrives
      /\ \A d \in Drives : /\ path'[d] = MediaAfterFrame[d].path
                           /\ wait'[d] = MediaAfterFrame[d].wait
                           /\ drive'[d] = MediaAfterFrame[d].drive
  BY <1>3, SetDrivesSets
<1>5. \A d \in Drives :
        /\ path'[d] = path[d]
        /\ wait'[d] = IF wait[d] = 0 THEN 0 ELSE wait[d] - 1
        /\ drive'[d] # drive[d] => wait[d] = 1
        /\ drive'[d] \in {path[d], drive[d], NoDisk}
  BY <1>1, <1>4, FrameGives
<1>6. path' = path
  BY <1>1, <1>4, <1>5 DEF TypeOK, InDrives
<1>7. Agree(path', drive')
  BY <1>5, <1>6 DEF Agree, IInv, DisksAgree
<1>8. QED
  BY <1>4, <1>5, <1>6, <1>7

LEMMA FrameStep ==
  ASSUME IInv, RunFrame PROVE IInv' /\ SwapStep
<1>1. SetDrives(MediaAfterFrame) /\ TypeOK /\ menu = path
  BY DEF IInv, MenuIsPath, RunFrame
<1>2. /\ path' = path /\ wait' \in [Drives -> 0..Wait] /\ drive' \in InDrives
      /\ Agree(path', drive')
      /\ \A d \in Drives : drive'[d] \in {path[d], drive[d], NoDisk}
  BY <1>1, DrivesAfterFrame
<1>3. IInv'
  BY <1>1, <1>2, IdleStep DEF RunFrame, TypeOK
<1>4. SwapStep
  BY <1>2 DEF SwapStep, IInv, DisksAgree, Agree
<1>5. QED
  BY <1>3, <1>4

\* A lost file changes no drive and no menu.
LEMMA LoseStep ==
  ASSUME IInv, NEW x \in Disks, LoseFile(x) PROVE IInv' /\ SwapStep
<1>1. UNCHANGED <<menu, path, wait, drive, stage, guard, captured, saved>>
      /\ files' \subseteq Disks
  BY DEF LoseFile, mediaVars, stateVars, IInv, TypeOK
<1>2. TypeOK'
  BY <1>1 DEF IInv, TypeOK
<1>3. /\ MenuIsPath' /\ LandsInTime' /\ NothingLandsLater'
      /\ DisksAgree' /\ MenusFromState'
  BY <1>1 DEF IInv, MenuIsPath, LandsInTime, NothingLandsLater,
              DisksAgree, MenusFromState, Agree
<1>4. QED
  BY <1>1, <1>2, <1>3 DEF IInv, SwapStep

\* The blob holds the drives as they are, the state the menus as they still are.
LEMMA SaveStep ==
  ASSUME IInv, Capture \/ AddMeta PROVE IInv' /\ SwapStep
<1>1. TypeOK /\ menu = path
  BY DEF IInv, MenuIsPath
<1>2. UNCHANGED <<files, menu, path, wait, drive, guard>>
  BY DEF Capture, AddMeta, mediaVars
<1>3. CASE Capture
  <2>1. stage' = "captured" /\ captured' = drive /\ saved' = saved
    BY <1>3 DEF Capture
  <2>2. TypeOK'
    BY <1>1, <1>2, <2>1 DEF TypeOK
  <2>3. DisksAgree'
    BY <1>1, <1>2, <2>1 DEF IInv, DisksAgree, Agree
  <2>4. QED
    BY <1>1, <1>2, <2>1, <2>2, <2>3
       DEF IInv, MenuIsPath, LandsInTime, NothingLandsLater, MenusFromState, SwapStep
<1>4. CASE AddMeta
  <2>1. /\ stage = "captured" /\ stage' = "idle"
        /\ saved' = {[menu |-> menu, drive |-> captured]}
        /\ captured' = Empty
    BY <1>4 DEF AddMeta
  <2>2. captured' \in InDrives
    BY <2>1 DEF Empty, InDrives
  <2>3. \E m, v \in InDrives : saved' = {[menu |-> m, drive |-> v]}
    BY <1>1, <2>1 DEF TypeOK
  <2>4. TypeOK'
    BY <1>1, <1>2, <2>1, <2>2, <2>3 DEF TypeOK
  <2>5. Agree(menu, captured)
    BY <2>1 DEF IInv, DisksAgree
  <2>6. \A s \in saved' : Agree(s.menu, s.drive)
    BY <2>1, <2>5
  <2>7. DisksAgree'
    BY <1>2, <2>1, <2>6 DEF IInv, DisksAgree, Agree
  <2>8. QED
    BY <1>1, <1>2, <2>1, <2>4, <2>7
       DEF IInv, MenuIsPath, LandsInTime, NothingLandsLater, MenusFromState, SwapStep
<1>5. QED
  BY <1>3, <1>4

\* A load that begins leaves each drive with its disk, or empty and waiting.
LEMMA MountSavedStep ==
  ASSUME IInv, MountSaved PROVE IInv' /\ SwapStep
<1>1. TypeOK /\ stage = "idle" /\ saved # {} /\ Wait \in Nat /\ NoDisk \notin Disks
  BY FloppyMediaAssumption DEF IInv, MountSaved
<1>2. PICK s \in saved :
        /\ menu' = [d \in Drives |-> Wanted(s, d)]
        /\ SetDrives([d \in Drives |-> IF Wanted(s, d) = NoDisk THEN Ejected
                                       ELSE Inserted(Wanted(s, d), d)])
  BY DEF MountSaved
<1>3. PICK m, v \in InDrives : saved = {[menu |-> m, drive |-> v]}
  BY <1>1 DEF TypeOK
<1>4. s.menu = m /\ s.drive = v
  BY <1>3
<1> DEFINE new == [d \in Drives |-> IF Wanted(s, d) = NoDisk THEN Ejected
                                    ELSE Inserted(Wanted(s, d), d)]
<1>5. \A d \in Drives : /\ Wanted(s, d) \in Disks \union {NoDisk}
                        /\ Wanted(s, d) # NoDisk => Wanted(s, d) = s.menu[d]
  BY <1>1, <1>4 DEF Wanted, TypeOK, InDrives
<1>6. \A d \in Drives :
        /\ new[d].path = Wanted(s, d)
        /\ new[d].wait \in 0..Wait
        /\ new[d].drive \in {Wanted(s, d), NoDisk}
        /\ new[d].wait > 0 => new[d].drive = NoDisk /\ Wanted(s, d) # NoDisk
  <2> SUFFICES ASSUME NEW d \in Drives
               PROVE  /\ new[d].path = Wanted(s, d)
                      /\ new[d].wait \in 0..Wait
                      /\ new[d].drive \in {Wanted(s, d), NoDisk}
                      /\ new[d].wait > 0 =>
                           new[d].drive = NoDisk /\ Wanted(s, d) # NoDisk
    OBVIOUS
  <2>1. CASE Wanted(s, d) = NoDisk
    BY <1>1, <2>1 DEF Ejected
  <2>2. CASE Wanted(s, d) # NoDisk
    <3>1. Wanted(s, d) \in Disks /\ new[d] = Inserted(Wanted(s, d), d)
      BY <1>5, <2>2
    <3>2. QED
      BY <1>1, <2>2, <3>1, InsertedGives
  <2>3. QED
    BY <2>1, <2>2
<1>7. SetDrives(new)
  BY <1>2
<1> HIDE DEF new
<1>8. /\ path' \in InDrives /\ wait' \in [Drives -> 0..Wait] /\ drive' \in InDrives
      /\ \A d \in Drives : /\ path'[d] = new[d].path
                           /\ wait'[d] = new[d].wait
                           /\ drive'[d] = new[d].drive
  <2>1. \A d \in Drives : /\ new[d].path \in Disks \union {NoDisk}
                          /\ new[d].wait \in 0..Wait
                          /\ new[d].drive \in Disks \union {NoDisk}
    BY <1>5, <1>6
  <2>2. QED
    BY <1>7, <2>1, SetDrivesSets
<1>9. /\ stage' = "mounted" /\ guard' = 0
      /\ UNCHANGED <<files, captured, saved>>
  BY DEF MountSaved
<1>10. menu' \in InDrives /\ \A d \in Drives : menu'[d] = Wanted(s, d)
  BY <1>2, <1>5 DEF InDrives
<1>11. MenuIsPath'
  BY <1>6, <1>8, <1>10 DEF MenuIsPath, InDrives
<1>12. TypeOK'
  <2>1. guard' \in 0..Guard
    BY <1>9, FloppyMediaAssumption
  <2>2. QED
    BY <1>1, <1>8, <1>9, <1>10, <2>1 DEF TypeOK
<1>13. LandsInTime'
  <2> SUFFICES ASSUME NEW d \in Drives, wait'[d] > 0
               PROVE  drive'[d] = NoDisk /\ menu'[d] # NoDisk
                      /\ wait'[d] + guard' <= Wait
    BY DEF LandsInTime
  <2>1. wait'[d] = new[d].wait /\ wait'[d] \in 0..Wait
    BY <1>8
  <2>2. drive'[d] = NoDisk /\ menu'[d] # NoDisk
    BY <1>6, <1>8, <1>10, <2>1
  <2>3. QED
    BY <1>1, <1>9, <2>1, <2>2
<1>14. NothingLandsLater'
  BY <1>9 DEF NothingLandsLater
<1>15. DisksAgree'
  <2>1. Agree(path', drive')
    BY <1>6, <1>8 DEF Agree
  <2>2. QED
    BY <1>9, <2>1 DEF IInv, DisksAgree, Agree
<1>16. MenusFromState'
  <2>1. \A t \in saved : t = s
    BY <1>3
  <2>2. QED
    BY <1>1, <1>5, <1>9, <1>10, <2>1 DEF MenusFromState
<1>17. SwapStep
  <2>1. \A d \in Drives : drive[d] # NoDisk => drive'[d] = NoDisk
    <3> SUFFICES ASSUME NEW d \in Drives, drive[d] # NoDisk
                 PROVE  new[d].drive = NoDisk
      BY <1>8
    <3>1. CASE Wanted(s, d) = NoDisk
      BY <3>1 DEF new, Ejected
    <3>2. CASE Wanted(s, d) # NoDisk
      BY <1>1, <1>5, <3>2, InsertedGives DEF new
    <3>3. QED
      BY <3>1, <3>2
  <2>2. QED
    BY <2>1 DEF SwapStep
<1>18. QED
  BY <1>11, <1>12, <1>13, <1>14, <1>15, <1>16, <1>17 DEF IInv

\* A frame of the wait takes one from the guard and one from each deferral.
LEMMA AwaitStep ==
  ASSUME IInv, AwaitInserts PROVE IInv' /\ SwapStep
<1>1. /\ TypeOK /\ menu = path /\ stage = "mounted" /\ guard < Guard
      /\ SetDrives(MediaAfterFrame) /\ guard' = guard + 1
      /\ UNCHANGED <<files, menu, stage, captured, saved>>
  BY DEF IInv, MenuIsPath, AwaitInserts
<1>2. /\ path' = path /\ wait' \in [Drives -> 0..Wait] /\ drive' \in InDrives
      /\ Agree(path', drive')
      /\ \A d \in Drives :
           /\ wait'[d] = IF wait[d] = 0 THEN 0 ELSE wait[d] - 1
           /\ drive'[d] # drive[d] => wait[d] = 1
  BY <1>1, DrivesAfterFrame
<1>3. guard' \in 0..Guard /\ guard \in Nat /\ Wait \in Nat
  BY <1>1, FloppyMediaAssumption DEF TypeOK
<1>4. TypeOK'
  BY <1>1, <1>2, <1>3 DEF TypeOK
<1>5. LandsInTime'
  <2> SUFFICES ASSUME NEW d \in Drives, wait'[d] > 0
               PROVE  drive'[d] = NoDisk /\ menu'[d] # NoDisk
                      /\ wait'[d] + guard' <= Wait
    BY DEF LandsInTime
  <2>1. wait[d] \in Nat
    BY <1>1 DEF TypeOK
  <2>2. wait[d] > 1 /\ wait'[d] = wait[d] - 1 /\ drive'[d] = drive[d]
    BY <1>2, <2>1
  <2>3. drive[d] = NoDisk /\ menu[d] # NoDisk /\ wait[d] + guard <= Wait
    BY <1>1, <2>1, <2>2 DEF IInv, LandsInTime
  <2>4. QED
    BY <1>1, <1>3, <2>1, <2>2, <2>3
<1>6. NothingLandsLater' /\ MenuIsPath' /\ MenusFromState'
  BY <1>1, <1>2 DEF NothingLandsLater, MenuIsPath, MenusFromState, IInv
<1>7. DisksAgree'
  BY <1>1, <1>2 DEF IInv, DisksAgree, Agree
<1>8. QED
  BY <1>1, <1>4, <1>5, <1>6, <1>7 DEF IInv, SwapStep

\* When the wait is over nothing is pending: the disks are in, or the guard,
\* which is no shorter than the deferral, has run out.
LEMMA ApplyStep ==
  ASSUME IInv, NEW good \in BOOLEAN, ApplyState(good) PROVE IInv' /\ SwapStep
<1>1. /\ TypeOK /\ menu = path /\ stage = "mounted" /\ stage' = "applied"
      /\ guard' = 0 /\ UNCHANGED <<files, menu, path, wait, captured, saved>>
      /\ ~(InsertsPending /\ guard < Guard)
  BY DEF IInv, MenuIsPath, ApplyState
<1>2. Guard \in Nat /\ Wait \in Nat /\ Guard >= Wait /\ guard \in 0..Guard
  BY <1>1, FloppyMediaAssumption DEF TypeOK
<1>3. saved # {} /\ \A s \in saved, d \in Drives : menu[d] # NoDisk => menu[d] = s.menu[d]
  BY <1>1 DEF IInv, MenusFromState
<1>4. PICK m, v \in InDrives : saved = {[menu |-> m, drive |-> v]}
  BY <1>1, <1>3 DEF TypeOK
<1>5. \A s \in saved : s.drive = v
  BY <1>4
<1>6. drive' \in {v, drive}
  BY <1>5 DEF ApplyState
<1>7. TypeOK'
  BY <1>1, <1>2, <1>4, <1>6 DEF TypeOK
<1>8. \A d \in Drives : wait[d] = 0
  <2> SUFFICES ASSUME NEW d \in Drives, wait[d] # 0 PROVE FALSE
    OBVIOUS
  <2>1. wait[d] \in Nat /\ wait[d] > 0
    BY <1>1 DEF TypeOK
  <2>2. drive[d] = NoDisk /\ menu[d] # NoDisk /\ wait[d] + guard <= Wait
    BY <1>1, <2>1 DEF IInv, LandsInTime
  <2>3. InsertsPending
    BY <2>2 DEF InsertsPending
  <2>4. guard = Guard
    BY <1>1, <1>2, <2>3
  <2>5. QED
    BY <1>2, <2>1, <2>2, <2>4
<1>9. Agree(path', drive')
  <2>1. Agree(m, v)
    BY <1>4 DEF IInv, DisksAgree
  <2>2. \A d \in Drives : menu[d] # NoDisk => menu[d] = m[d]
    BY <1>3, <1>4
  <2>3. Agree(menu, v) /\ Agree(menu, drive)
    BY <1>1, <2>1, <2>2 DEF Agree, IInv, DisksAgree
  <2>4. QED
    BY <1>1, <1>6, <2>3 DEF Agree
<1>10. DisksAgree'
  BY <1>1, <1>9 DEF IInv, DisksAgree, Agree
<1>11. MenuIsPath' /\ LandsInTime' /\ NothingLandsLater' /\ MenusFromState'
  BY <1>1, <1>8 DEF MenuIsPath, LandsInTime, NothingLandsLater, MenusFromState
<1>12. QED
  BY <1>1, <1>7, <1>10, <1>11 DEF IInv, SwapStep

LEMMA LoadEndsStep ==
  ASSUME IInv, LoadEnds PROVE IInv' /\ SwapStep
<1>1. /\ stage = "applied" /\ stage' = "idle"
      /\ UNCHANGED <<files, menu, path, wait, drive, guard, captured, saved>>
  BY DEF LoadEnds, mediaVars
<1>2. TypeOK'
  BY <1>1 DEF IInv, TypeOK
<1>3. QED
  BY <1>1, <1>2 DEF IInv, MenuIsPath, LandsInTime, NothingLandsLater,
                    DisksAgree, MenusFromState, Agree, SwapStep

\* Nothing is in a drive, in a menu or on its way at the start.
LEMMA InitStep == ASSUME Init PROVE IInv
<1>1. TypeOK
  BY FloppyMediaAssumption DEF Init, TypeOK, Empty, InDrives
<1>2. QED
  BY <1>1 DEF Init, IInv, MenuIsPath, LandsInTime, NothingLandsLater,
              DisksAgree, MenusFromState, Agree, Empty

\* Every step keeps the invariant and shows the guest a swap.
LEMMA NextStep == ASSUME IInv, [Next]_vars PROVE IInv' /\ (SwapStep \/ UNCHANGED vars)
<1>1. CASE UNCHANGED vars
  <2>1. UNCHANGED <<files, menu, path, wait, drive, stage, guard, captured, saved>>
    BY <1>1 DEF vars, mediaVars, stateVars
  <2>2. TypeOK'
    BY <2>1 DEF IInv, TypeOK
  <2>3. QED
    BY <1>1, <2>1, <2>2 DEF IInv, MenuIsPath, LandsInTime, NothingLandsLater,
                       DisksAgree, MenusFromState, Agree
<1>2. CASE Next
  BY <1>2, MountStep, EjectStep, RebuildStep, FrameStep, SaveStep, MountSavedStep,
     AwaitStep, ApplyStep, LoadEndsStep, LoseStep DEF Next, Loading
<1>3. QED
  BY <1>1, <1>2

-----------------------------------------------------------------------------
\* A drive holds the disk named for it, where that disk's image exists.
InPlace(m, v) == \A d \in Drives : m[d] \in files => v[d] = m[d]

\* With nothing pending a disk EMU has a path for is in its drive; so it is in
\* the blob being written and in the state saved, when saves wait for that.
Restored ==
  SavesSettled =>
    /\ \A d \in Drives : wait[d] = 0 /\ path[d] \in files => drive[d] = path[d]
    /\ stage = "captured" => InPlace(menu, captured)
    /\ \A s \in saved : InPlace(s.menu, s.drive)

\* A step that touches no save keeps the rest, if it loads what lands.
LEMMA RestoredStep ==
  ASSUME Restored, UNCHANGED <<captured, saved>>, files' \subseteq files,
         stage' = "captured" => stage = "captured" /\ menu' = menu,
         SavesSettled =>
           \A d \in Drives :
             wait'[d] = 0 /\ path'[d] \in files' => drive'[d] = path'[d]
  PROVE  Restored'
BY DEF Restored, InPlace

\* A disk inserted at once is opened; any other waits.
LEMMA InsertedLands ==
  ASSUME NEW d \in Drives, NEW x \in files, Inserted(x, d).wait = 0
  PROVE  Inserted(x, d).drive = x
<1>1. Wait # 0
  BY FloppyMediaAssumption
<1>2. drive[d] = NoDisk /\ wait[d] = 0
  BY <1>1 DEF Inserted
<1>3. QED
  BY <1>2 DEF Inserted, Open

LEMMA ChangeRestored ==
  ASSUME IInv, Restored, NEW d \in Drives,
         EjectFloppy(d) \/ \E x \in Disks : MountAt(d, x)
  PROVE  Restored'
<1>1. /\ TypeOK /\ NoDisk \notin files /\ stage = "idle"
      /\ UNCHANGED <<files, stage, captured, saved>>
  BY FloppyMediaAssumption DEF IInv, TypeOK, EjectFloppy, MountAt, stateVars
<1>2. CASE EjectFloppy(d)
  <2> DEFINE new == [Now EXCEPT ![d] = Ejected]
  <2>1. SetDrives(new)
    BY <1>2 DEF EjectFloppy
  <2>2. \A e \in Drives : path'[e] = new[e].path /\ wait'[e] = new[e].wait
                          /\ drive'[e] = new[e].drive
    BY <2>1 DEF SetDrives
  <2>3. path'[d] = NoDisk
    BY <2>2 DEF Now, Ejected
  <2>4. \A e \in Drives \ {d} : path'[e] = path[e] /\ wait'[e] = wait[e]
                                /\ drive'[e] = drive[e]
    BY <2>2 DEF Now
  <2>5. QED
    BY <1>1, <2>3, <2>4, RestoredStep DEF Restored
<1>3. ASSUME NEW x \in Disks, MountAt(d, x) PROVE Restored'
  <2> DEFINE new == [Now EXCEPT ![d] = Inserted(x, d)]
  <2>1. SetDrives(new) /\ x \in files
    BY <1>3 DEF MountAt
  <2>2. \A e \in Drives : path'[e] = new[e].path /\ wait'[e] = new[e].wait
                          /\ drive'[e] = new[e].drive
    BY <2>1 DEF SetDrives
  <2>3. new[d] = Inserted(x, d) /\ Inserted(x, d).path = x
    BY DEF Now, Inserted
  <2>4. wait'[d] = 0 => drive'[d] = path'[d]
    BY <2>1, <2>2, <2>3, InsertedLands
  <2>5. \A e \in Drives \ {d} : path'[e] = path[e] /\ wait'[e] = wait[e]
                                /\ drive'[e] = drive[e]
    BY <2>2 DEF Now
  <2>6. QED
    BY <1>1, <2>4, <2>5, RestoredStep DEF Restored
<1>4. QED
  BY <1>2, <1>3

LEMMA FrameRestored ==
  ASSUME IInv, Restored, RunFrame \/ AwaitInserts PROVE Restored'
<1>1. /\ TypeOK /\ SetDrives(MediaAfterFrame)
      /\ UNCHANGED <<files, menu, stage, captured, saved>>
  BY DEF IInv, RunFrame, AwaitInserts, stateVars
<1>2. \A d \in Drives : /\ path'[d] = path[d]
                        /\ wait'[d] = IF wait[d] = 0 THEN 0 ELSE wait[d] - 1
                        /\ drive'[d] = IF wait[d] = 1 THEN Open(path[d], drive[d])
                                       ELSE drive[d]
  BY <1>1 DEF SetDrives, MediaAfterFrame
<1>3. \A d \in Drives : path[d] \in files => Open(path[d], drive[d]) = path[d]
  BY DEF Open
<1>4. \A d \in Drives : wait[d] \in Nat
  BY <1>1 DEF TypeOK
<1>5. ASSUME SavesSettled, NEW d \in Drives, wait'[d] = 0, path'[d] \in files
      PROVE  drive'[d] = path'[d]
  <2>1. CASE wait[d] = 0
    BY <1>2, <1>5, <2>1 DEF Restored
  <2>2. CASE wait[d] # 0
    <3>1. wait[d] = 1
      BY <1>2, <1>4, <1>5, <2>2
    <3>2. QED
      BY <1>2, <1>3, <1>5, <3>1
  <2>3. QED
    BY <2>1, <2>2
<1>6. QED
  BY <1>1, <1>5, RestoredStep

LEMMA RebuildRestored ==
  ASSUME IInv, Restored, RebuildVm PROVE Restored'
<1>1. TypeOK /\ NoDisk \notin files /\ stage = "idle"
      /\ UNCHANGED <<files, menu, path, wait, stage, captured, saved>>
  BY FloppyMediaAssumption DEF IInv, TypeOK, RebuildVm, stateVars
<1>2. \A d \in Drives : path[d] \in files => drive'[d] = path[d]
  BY <1>1 DEF RebuildVm, Open
<1>3. QED
  BY <1>1, <1>2, RestoredStep

LEMMA SaveRestored ==
  ASSUME IInv, Restored, Capture \/ AddMeta PROVE Restored'
<1>1. menu = path /\ UNCHANGED <<files, menu, path, wait, drive>>
  BY DEF IInv, MenuIsPath, Capture, AddMeta, mediaVars
<1>2. CASE Capture
  <2>1. /\ captured' = drive /\ saved' = saved
        /\ SavesSettled => \A d \in Drives : wait[d] = 0
    BY <1>2 DEF Capture
  <2>2. SavesSettled => InPlace(menu, drive)
    BY <1>1, <2>1 DEF Restored, InPlace
  <2>3. QED
    BY <1>1, <2>1, <2>2 DEF Restored, InPlace
<1>3. CASE AddMeta
  <2>1. /\ stage = "captured" /\ stage' = "idle"
        /\ saved' = {[menu |-> menu, drive |-> captured]}
    BY <1>3 DEF AddMeta
  <2>2. \A s \in saved' : s.menu = menu /\ s.drive = captured
    BY <2>1
  <2>3. QED
    BY <1>1, <2>1, <2>2 DEF Restored, InPlace
<1>4. QED
  BY <1>2, <1>3

LEMMA MountSavedRestored ==
  ASSUME IInv, Restored, MountSaved PROVE Restored'
<1>1. /\ NoDisk \notin files /\ stage' = "mounted"
      /\ UNCHANGED <<files, captured, saved>>
  BY FloppyMediaAssumption DEF IInv, TypeOK, MountSaved
<1>2. PICK s \in saved :
        SetDrives([d \in Drives |-> IF Wanted(s, d) = NoDisk THEN Ejected
                                    ELSE Inserted(Wanted(s, d), d)])
  BY DEF MountSaved
<1>3. ASSUME NEW d \in Drives, wait'[d] = 0, path'[d] \in files
      PROVE  drive'[d] = path'[d]
  <2>1. CASE Wanted(s, d) = NoDisk
    <3>1. path'[d] = NoDisk
      BY <1>2, <2>1 DEF SetDrives, Ejected
    <3>2. QED
      BY <1>1, <1>3, <3>1
  <2>2. CASE Wanted(s, d) # NoDisk
    <3>1. /\ path'[d] = Inserted(Wanted(s, d), d).path
          /\ wait'[d] = Inserted(Wanted(s, d), d).wait
          /\ drive'[d] = Inserted(Wanted(s, d), d).drive
      BY <1>2, <2>2 DEF SetDrives
    <3>2. Wanted(s, d) \in files
      BY <2>2 DEF Wanted
    <3>3. path'[d] = Wanted(s, d)
      BY <3>1 DEF Inserted
    <3>4. QED
      BY <1>3, <3>1, <3>2, <3>3, InsertedLands
  <2>3. QED
    BY <2>1, <2>2
<1>4. QED
  BY <1>1, <1>3, RestoredStep

\* The blob's disks are the ones the menus name, for the menus are its own.
LEMMA ApplyRestored ==
  ASSUME IInv, Restored, NEW good \in BOOLEAN, ApplyState(good) PROVE Restored'
<1>1. /\ TypeOK /\ NoDisk \notin files /\ menu = path
      /\ stage = "mounted" /\ stage' = "applied"
      /\ UNCHANGED <<files, menu, path, wait, captured, saved>>
  BY FloppyMediaAssumption DEF IInv, TypeOK, MenuIsPath, ApplyState
<1>2. PICK s \in saved : drive' = IF good THEN s.drive ELSE drive
  BY DEF ApplyState
<1>3. ASSUME SavesSettled, NEW d \in Drives, wait[d] = 0, path[d] \in files
      PROVE  drive'[d] = path[d]
  <2>1. drive[d] = path[d]
    BY <1>3 DEF Restored
  <2>2. menu[d] = s.menu[d]
    BY <1>1, <1>3 DEF IInv, MenusFromState
  <2>3. s.drive[d] = s.menu[d]
    BY <1>1, <1>3, <2>2 DEF Restored, InPlace
  <2>4. QED
    BY <1>1, <1>2, <2>1, <2>2, <2>3
<1>4. QED
  BY <1>1, <1>3, RestoredStep

LEMMA RestoredNext == ASSUME IInv, Restored, [Next]_vars PROVE Restored'
<1>1. CASE UNCHANGED vars
  BY <1>1 DEF vars, mediaVars, stateVars, Restored, InPlace
<1>2. CASE LoadEnds
  <2>1. /\ stage = "applied" /\ stage' = "idle"
        /\ UNCHANGED <<files, menu, path, wait, drive, captured, saved>>
    BY <1>2 DEF LoadEnds, mediaVars
  <2>2. QED
    BY <2>1 DEF Restored, InPlace
<1>3. ASSUME NEW x \in Disks, LoseFile(x) PROVE Restored'
  <2>1. /\ files' \subseteq files
        /\ UNCHANGED <<menu, path, wait, drive, stage, captured, saved>>
    BY <1>3 DEF LoseFile, mediaVars, stateVars
  <2>2. QED
    BY <2>1, RestoredStep DEF Restored
<1>4. QED
  BY <1>1, <1>2, <1>3, ChangeRestored, FrameRestored, RebuildRestored, SaveRestored,
     MountSavedRestored, ApplyRestored DEF Next, Loading

-----------------------------------------------------------------------------
\* The state keeps its types, a drive's menu always names what EMU would put
\* back in that drive, and when a state has been applied no insert is pending
\* that would overwrite the restored disks half a second later.
THEOREM LoadsAreSettled == Spec => [](TypeOK /\ MenuIsPath /\ NothingLandsLater)
<1>1. Init => IInv
  BY InitStep
<1>2. IInv /\ [Next]_vars => IInv'
  BY NextStep
<1>3. IInv => TypeOK /\ MenuIsPath /\ NothingLandsLater
  BY DEF IInv
<1>4. QED
  BY <1>1, <1>2, <1>3, PTL DEF Spec

\* Outside a load, no step puts one disk in a drive where another one was:
\* the guest always sees the drive empty between them.
THEOREM SwapsAreSeen == Spec => SwapIsSeen
<1>1. Init => IInv
  BY InitStep
<1>2. IInv /\ [Next]_vars => IInv'
  BY NextStep
<1>3. IInv /\ [Next]_vars => [\A d \in Drives :
          drive[d] # NoDisk /\ drive'[d] # NoDisk /\ stage # "mounted"
            => drive'[d] = drive[d]]_vars
  BY NextStep DEF SwapStep
<1>4. QED
  BY <1>1, <1>2, <1>3, PTL DEF Spec, SwapIsSeen

\* "Puts the disks the state was taken with back in the drives": when states
\* are saved with no insert pending, a load that is over leaves every drive
\* whose menu names an existing image with that disk in it.
THEOREM DisksAreRestored == Spec => [](SavesSettled => DrivesRestored)
<1>1. Init => IInv /\ Restored
  <2>1. Init => Restored
    BY FloppyMediaAssumption DEF Init, Restored, InPlace, Empty
  <2>2. QED
    BY <2>1, InitStep
<1>2. IInv /\ Restored /\ [Next]_vars => (IInv /\ Restored)'
  BY NextStep, RestoredNext
<1>3. IInv /\ Restored => (SavesSettled => DrivesRestored)
  BY DEF IInv, MenuIsPath, NothingLandsLater, Restored, DrivesRestored
<1>4. QED
  BY <1>1, <1>2, <1>3, PTL DEF Spec

-----------------------------------------------------------------------------
(* The SCSI bus: the fields of a state, which the proofs rest on. *)
DevFields == {"phase", "command", "buffer", "position", "remain", "sense", "ack", "selected",
              "eventSel", "eventPhase", "eventReq"}
HostFields == {"bus", "data", "req", "bsy", "io", "cd", "msg", "ready"}
\* A state of the right shape.
Shape(s) ==
  /\ DOMAIN s = {"target", "host", "image"} /\ DOMAIN s.host = HostFields
  /\ DOMAIN s.target = Targets /\ \A t \in Targets : DOMAIN s.target[t] = DevFields

\* What of a target is not its data, and not its two events.
SameLines(s, r) ==
  /\ r.host.req = s.host.req /\ r.host.bsy = s.host.bsy
  /\ r.host.ready = s.host.ready /\ r.host.bus = s.host.bus
SameDev(d, e) ==
  /\ e.phase = d.phase /\ e.ack = d.ack /\ e.selected = d.selected /\ e.eventSel = d.eventSel

\* Target t went on with its data: of the rest, only its events are other, and they
\* are p and q.
Worked(s, r, t, p, q) ==
  /\ Shape(r) /\ SameLines(s, r) /\ SameDev(s.target[t], r.target[t])
  /\ r.target[t].eventPhase = p /\ r.target[t].eventReq = q
  /\ \A u \in Targets \ {t} : r.target[u] = s.target[u]

\* Work adds up.
LEMMA WorkedOn ==
  ASSUME NEW s, NEW m, NEW r, NEW t \in Targets, NEW p, NEW q, NEW p2, NEW q2,
         Worked(s, m, t, p, q), Worked(m, r, t, p2, q2)
  PROVE  Worked(s, r, t, p2, q2)
BY DEF Worked, SameLines, SameDev

\* What a target does to itself, a field at a time, is work.
LEMMA Steps ==
  ASSUME NEW s, Shape(s), NEW t \in Targets, NEW x,
         NEW p, p = s.target[t].eventPhase, NEW q, q = s.target[t].eventReq
  PROVE  /\ Worked(s, s, t, p, q)
         /\ Worked(s, EventReq(s, t, x), t, p, x)
         /\ Worked(s, EventPhase(s, t, x), t, x, q)
         /\ Worked(s, SetDat(s, x), t, p, q)
<1>1. Worked(s, s, t, p, q)
  BY DEF Worked, SameLines, SameDev
<1>2. Worked(s, EventReq(s, t, x), t, p, x)
  BY DEF Worked, SameLines, SameDev, Shape, EventReq, DevFields, HostFields
<1>3. Worked(s, EventPhase(s, t, x), t, x, q)
  BY DEF Worked, SameLines, SameDev, Shape, EventPhase, DevFields, HostFields
<1>4. Worked(s, SetDat(s, x), t, p, q)
  BY DEF Worked, SameLines, SameDev, Shape, SetDat, DevFields, HostFields
<1>5. QED
  BY <1>1, <1>2, <1>3, <1>4

\* So is what it does to its data.
LEMMA DataSteps ==
  ASSUME NEW s, Shape(s), NEW t \in Targets, NEW x, NEW y, NEW z,
         NEW p, p = s.target[t].eventPhase, NEW q, q = s.target[t].eventReq
  PROVE  /\ Worked(s, [s EXCEPT !.target[t].buffer = x], t, p, q)
         /\ Worked(s, [s EXCEPT !.target[t].remain = x], t, p, q)
         /\ Worked(s, [s EXCEPT !.target[t].sense = x], t, p, q)
         /\ Worked(s, [s EXCEPT !.target[t].command = x], t, p, q)
         /\ Worked(s, [s EXCEPT !.image[x] = y, !.target[t].position = z], t, p, q)
<1> USE DEF Worked, SameLines, SameDev, Shape, DevFields, HostFields
<1>1. Worked(s, [s EXCEPT !.target[t].buffer = x], t, p, q)
  OBVIOUS
<1>2. Worked(s, [s EXCEPT !.target[t].remain = x], t, p, q)
  OBVIOUS
<1>3. Worked(s, [s EXCEPT !.target[t].sense = x], t, p, q)
  OBVIOUS
<1>4. Worked(s, [s EXCEPT !.target[t].command = x], t, p, q)
  OBVIOUS
<1>5. Worked(s, [s EXCEPT !.image[x] = y, !.target[t].position = z], t, p, q)
  OBVIOUS
<1>6. QED
  BY <1>1, <1>2, <1>3, <1>4, <1>5

(* The stages of an exchange: the bus is free; a target has answered SEL; or it
   has the bus, and turns to its next phase, raises REQ, waits for ACK, or lets
   REQ fall. *)
AcksDown(s) == \A t \in Targets : s.target[t].ack = FALSE
Off(s, t) == /\ s.target[t].phase = "free" /\ s.target[t].selected = FALSE
             /\ s.target[t].eventPhase = "none" /\ s.target[t].eventReq = "none"
BusFree(s) ==
  /\ Shape(s) /\ AcksDown(s) /\ s.host.req = {} /\ s.host.bsy = {} /\ s.host.ready = FALSE
  /\ \A t \in Targets : Off(s, t)

\* Target a has the bus, alone: REQ is up as req says, its events are p and q.
HasBus(s, a, req, p, q) ==
  /\ Shape(s) /\ s.host.bsy = {a} /\ s.target[a].selected = TRUE
  /\ s.host.req = req /\ s.host.ready = (req # {})
  /\ s.target[a].eventPhase = p /\ s.target[a].eventReq = q
  /\ \A t \in Targets \ {a} : Off(s, t)

Chosen(s, a) == HasBus(s, a, {}, "none", "none") /\ AcksDown(s) /\ s.target[a].phase = "free"

\* The phases that may come next.
Follows == [free |-> {"command"}, command |-> {"dataOut", "dataIn", "status"}, dataOut |-> {"status"},
            dataIn |-> {"status"}, status |-> {"messageIn"}, messageIn |-> {"free"}]
Busy == {"command", "dataOut", "dataIn", "status", "messageIn"}
Data == {"dataOut", "dataIn"}
\* In the four stages, both targets may see ACK up only where the next edge of
\* REQ is one that lets it fall.
Turning(s, a) ==
  /\ s.target[a].phase \in DOMAIN Follows /\ s.target[a].ack = FALSE
  /\ \E p \in Follows[s.target[a].phase] : HasBus(s, a, {}, p, "none")
  /\ s.target[a].phase \notin Data => AcksDown(s)
Rising(s, a) ==
  /\ HasBus(s, a, {}, "none", "high") /\ s.target[a].phase \in Busy /\ s.target[a].ack = FALSE
  /\ s.target[a].phase \in {"command", "messageIn"} => AcksDown(s)
Waiting(s, a) ==
  /\ HasBus(s, a, {a}, "none", "none") /\ s.target[a].phase \in Busy /\ s.target[a].ack = FALSE
  /\ s.target[a].phase \in {"command", "messageIn"} => AcksDown(s)
Falling(s, a) ==
  /\ HasBus(s, a, {a}, "none", "low") /\ s.target[a].phase \in Busy \ Data /\ s.target[a].ack = TRUE

Moves(s, a) == Turning(s, a) \/ Rising(s, a) \/ Waiting(s, a) \/ Falling(s, a)
DriverFields == {"at", "to", "cmd", "sent", "moved", "got", "status", "commands", "upsets"}
Stage(s, d) ==
  \/ d.at = "idle" /\ BusFree(s)
  \/ d.at = "select" /\ (BusFree(s) \/ Chosen(s, d.to))
  \/ d.at \in {"run", "done"} /\ (BusFree(s) \/ Moves(s, d.to))
BusInv(s, d) ==
  /\ DOMAIN d = DriverFields /\ d.to \in Targets
  /\ \A t \in Targets : s.target[t].eventSel => d.at = "select" /\ s.host.bus = <<"id", d.to>>
  /\ Stage(s, d)
\* The inductive invariant.
ScsiInv == BusInv(State, driver)

\* A command that ends, well or not, goes to its status.
LEMMA CheckedWorks ==
  ASSUME NEW s, Shape(s), NEW t \in Targets, NEW x, NEW q, q = s.target[t].eventReq
  PROVE  Worked(s, Checked(s, t, x), t, "status", q) /\ Worked(s, Good(s, t), t, "status", q)
BY DEF Worked, SameLines, SameDev, Shape, DevFields, HostFields, Checked, Good, EventPhase, SetDat

\* read_buffer and write_buffer leave a target's events, unless they fail.
LEMMA ReadBufferWorks ==
  ASSUME NEW s, Shape(s), NEW t \in Targets, NEW p, p = s.target[t].eventPhase,
         NEW q, q = s.target[t].eventReq
  PROVE  Worked(s, ReadBuffer(s, t), t, p, q) \/ Worked(s, ReadBuffer(s, t), t, "status", q)
<1> DEFINE d == s.target[t]
           n == IF d.remain > Room THEN Room ELSE d.remain
           zeros == d.buffer \o [i \in 1..n |-> 0]
           bytes == d.buffer \o SubSeq(s.image[Unit(s, t)], d.position + 1, d.position + n)
           end == d.position + n
           a == [s EXCEPT !.target[t].buffer = zeros]
           b == [s EXCEPT !.target[t].buffer = bytes, !.target[t].position = end, !.target[t].sense = "none"]
           c == Checked(s, t, IF IsReady(s, t) THEN "address" ELSE "notReady")
<1>1. ReadBuffer(s, t) \in {a, b, c}
  BY DEF ReadBuffer
<1> HIDE DEF zeros, bytes, end
<1>2. Worked(s, a, t, p, q)
  BY DataSteps
<1> HIDE DEF a
<1>5. Worked(s, b, t, p, q)
  BY DEF Worked, SameLines, SameDev, Shape, DevFields, HostFields
<1> HIDE DEF b
<1>3. Worked(s, c, t, "status", q)
  BY CheckedWorks
<1> HIDE DEF c
<1>4. QED
  BY <1>1, <1>2, <1>3, <1>5

LEMMA WriteBufferWorks ==
  ASSUME NEW s, Shape(s), NEW t \in Targets, NEW p, p = s.target[t].eventPhase,
         NEW q, q = s.target[t].eventReq
  PROVE  Worked(s, WriteBuffer(s, t), t, p, q) \/ Worked(s, WriteBuffer(s, t), t, "status", q)
<1> DEFINE d == s.target[t]
           old == s.image[Unit(s, t)]
           end == d.position + Len(d.buffer)
           size == IF end > Len(old) THEN end ELSE Len(old)
           new == [i \in 1..size |-> IF i \in (d.position + 1)..end THEN d.buffer[i - d.position]
                                     ELSE IF i <= Len(old) THEN old[i] ELSE 0]
           u == Unit(s, t)
           a == [s EXCEPT !.target[t].buffer = <<>>]
           b == [a EXCEPT !.image[u] = new, !.target[t].position = end]
           c == Checked(a, t, "notReady")
<1>1. WriteBuffer(s, t) \in {a, b, c}
  BY DEF WriteBuffer
<1> HIDE DEF new, end, u
<1>2. Worked(s, a, t, p, q)
  BY DataSteps
<1> HIDE DEF a
<1>3. Shape(a) /\ p = a.target[t].eventPhase /\ q = a.target[t].eventReq
  BY <1>2 DEF Worked
<1>4. Worked(a, b, t, p, q)
  BY <1>3, DataSteps
<1>5. Worked(a, c, t, "status", q)
  BY <1>3, CheckedWorks
<1> HIDE DEF b, c
<1>6. QED
  BY <1>1, <1>2, <1>4, <1>5, WorkedOn

\* An answer goes out: its first byte, and the phase it comes in.
LEMMA SentWorks ==
  ASSUME NEW s, Shape(s), NEW t \in Targets, NEW bytes, NEW next, NEW q, q = s.target[t].eventReq
  PROVE  Worked(s, Sent(s, t, bytes, next), t, next, q)
<1> DEFINE a == SetDat(s, Head(bytes))
           b == EventPhase(a, t, next)
           x == Tail(bytes)
<1>1. Worked(s, a, t, s.target[t].eventPhase, q)
  BY Steps
<1> HIDE DEF a
<1>2. Shape(a) /\ a.target[t].eventReq = q
  BY <1>1 DEF Worked
<1>3. Worked(a, b, t, next, q)
  BY <1>2, Steps
<1> HIDE DEF b
<1>4. Shape(b) /\ b.target[t].eventPhase = next /\ b.target[t].eventReq = q
  BY <1>3 DEF Worked
<1> HIDE DEF x
<1>5. Worked(b, [b EXCEPT !.target[t].buffer = x], t, next, q)
  BY <1>4, DataSteps
<1>6. Sent(s, t, bytes, next) = [b EXCEPT !.target[t].buffer = x]
  BY DEF Sent, a, b, x
<1>7. QED
  BY <1>1, <1>3, <1>5, <1>6, WorkedOn

\* A command leads to its data, or to its status.
LEMMA StartCommandWorks ==
  ASSUME NEW s, Shape(s), NEW t \in Targets, s.target[t].eventPhase = "none",
         NEW q, q = s.target[t].eventReq
  PROVE  \E p \in {"dataOut", "dataIn", "status"} : Worked(s, StartCommand(s, t), t, p, q)
<1> DEFINE op == Cmd(s, t).op
           none == "none"
           start == Start(s, t)
           length == Length(s, t)
           m == [s EXCEPT !.target[t].position = start, !.target[t].remain = length]
           c == [m EXCEPT !.target[t].buffer = <<>>]
           r == ReadBuffer(c, t)
           bytes == Answer(s, t)
           len == Len(bytes)
           a == [s EXCEPT !.target[t].remain = len]
           b == Sent(a, t, bytes, "dataIn")
           sense == IF op = "sense" THEN "none" ELSE b.target[t].sense
           l == OtherLength[op]
           e == [s EXCEPT !.target[t].remain = l, !.target[t].buffer = <<>>]
           f == [s EXCEPT !.target[t].remain = 4]
<1> HIDE DEF start, length, len, bytes, l
<1>1. Worked(s, c, t, "none", q)
  <2>1. Worked(s, m, t, "none", q)
    BY DEF Worked, SameLines, SameDev, Shape, DevFields, HostFields
  <2> HIDE DEF m
  <2>2. Shape(m) /\ m.target[t].eventPhase = "none" /\ m.target[t].eventReq = q
    BY <2>1 DEF Worked
  <2>3. Worked(m, c, t, "none", q)
    BY <2>2, DataSteps
  <2> HIDE DEF c
  <2>4. QED
    BY <2>1, <2>3, WorkedOn
<1>2. Worked(s, a, t, "none", q) /\ Worked(s, e, t, "none", q) /\ Worked(s, f, t, "none", q)
  <2>1. Worked(s, a, t, "none", q) /\ Worked(s, f, t, "none", q)
    BY DataSteps
  <2>2. Worked(s, e, t, "none", q)
    BY DEF Worked, SameLines, SameDev, Shape, DevFields, HostFields
  <2>3. QED
    BY <2>1, <2>2
<1> HIDE DEF m, c, a, e, f
<1>3. /\ Shape(c) /\ c.target[t].eventPhase = "none" /\ c.target[t].eventReq = q
      /\ Shape(a) /\ a.target[t].eventPhase = "none" /\ a.target[t].eventReq = q
      /\ Shape(e) /\ e.target[t].eventPhase = "none" /\ e.target[t].eventReq = q
      /\ Shape(f) /\ f.target[t].eventPhase = "none" /\ f.target[t].eventReq = q
  BY <1>1, <1>2 DEF Worked
<1>4. CASE op \in {"sense", "inquiry", "capacity", "defect"}
  <2>1. Worked(a, b, t, "dataIn", q)
    BY <1>3, SentWorks
  <2> HIDE DEF b
  <2>2. Shape(b) /\ b.target[t].eventPhase = "dataIn" /\ b.target[t].eventReq = q
    BY <2>1 DEF Worked
  <2> HIDE DEF sense
  <2>3. Worked(b, [b EXCEPT !.target[t].sense = sense], t, "dataIn", q)
    BY <2>2, DataSteps
  <2>4. StartCommand(s, t) = [b EXCEPT !.target[t].sense = sense]
    <3>1. DOMAIN b.target[t] = DevFields /\ DOMAIN b.target = Targets /\ DOMAIN b = {"target", "host", "image"}
      BY <2>2 DEF Shape
    <3>2. StartCommand(s, t) = [b EXCEPT !.target[t].sense = IF op = "sense" THEN "none" ELSE @]
      BY <1>4 DEF StartCommand, b, a, bytes, len
    <3>3. QED
      BY <3>1, <3>2 DEF sense, DevFields
  <2>5. QED
    BY <1>2, <2>1, <2>3, <2>4, WorkedOn
<1>5. CASE op \in Reads /\ length > 0
  <2>1. StartCommand(s, t) = IF Failed(r, t) THEN r ELSE Sent(r, t, r.target[t].buffer, "dataIn")
    BY <1>5 DEF StartCommand, Reads, m, c, length, start
  <2>2. Worked(c, r, t, "none", q) \/ Worked(c, r, t, "status", q)
    BY <1>3, ReadBufferWorks
  <2> HIDE DEF r
  <2>3. CASE Worked(c, r, t, "status", q)
    BY <1>1, <2>1, <2>3, WorkedOn DEF Failed, Worked
  <2>4. CASE Worked(c, r, t, "none", q)
    <3>1. Shape(r) /\ r.target[t].eventPhase = "none" /\ r.target[t].eventReq = q /\ ~Failed(r, t)
      BY <2>4 DEF Worked, Failed
    <3>2. Worked(r, Sent(r, t, r.target[t].buffer, "dataIn"), t, "dataIn", q)
      BY <3>1, SentWorks
    <3>3. QED
      BY <1>1, <2>1, <2>4, <3>1, <3>2, WorkedOn
  <2>5. QED
    BY <2>2, <2>3, <2>4
<1>6. CASE op \in Writes \union {"writeVerify"} /\ length > 0
  <2>1. StartCommand(s, t) = EventPhase(c, t, "dataOut")
    BY <1>6 DEF StartCommand, Reads, Writes, m, c, length, start
  <2>2. Worked(c, EventPhase(c, t, "dataOut"), t, "dataOut", q)
    BY <1>3, Steps
  <2>3. QED
    BY <1>1, <2>1, <2>2, WorkedOn
<1>7. CASE op = "specify"
  <2>1. StartCommand(s, t) = EventPhase(e, t, "dataOut")
    BY <1>7 DEF StartCommand, Reads, Writes, e, l
  <2>2. Worked(e, EventPhase(e, t, "dataOut"), t, "dataOut", q)
    BY <1>3, Steps
  <2>3. QED
    BY <1>2, <2>1, <2>2, WorkedOn
<1>8. CASE op = "formatList"
  <2>1. StartCommand(s, t) = EventPhase(f, t, "dataOut")
    BY <1>8 DEF StartCommand, Reads, Writes, f
  <2>2. Worked(f, EventPhase(f, t, "dataOut"), t, "dataOut", q)
    BY <1>3, Steps
  <2>3. QED
    BY <1>2, <2>1, <2>2, WorkedOn
<1>9. CASE op \in {"format", "unknown"}
  <2> DEFINE good == SetDat(s, "good")
  <2>1. StartCommand(s, t) = EventPhase(good, t, "status")
    BY <1>9 DEF StartCommand, Reads, Writes
  <2>2. Worked(s, good, t, "none", q)
    BY Steps
  <2> HIDE DEF good
  <2>3. Shape(good) /\ good.target[t].eventReq = q
    BY <2>2 DEF Worked
  <2>4. Worked(good, EventPhase(good, t, "status"), t, "status", q)
    BY <2>3, Steps
  <2>5. QED
    BY <2>1, <2>2, <2>4, WorkedOn
<1>10. CASE /\ op \notin {"sense", "inquiry", "capacity", "defect", "specify", "formatList", "format", "unknown"}
            /\ ~(op \in Reads /\ length > 0) /\ ~(op \in Writes \union {"writeVerify"} /\ length > 0)
  <2>1. StartCommand(s, t) = Good(s, t)
    BY <1>10 DEF StartCommand, length
  <2>2. QED
    BY <2>1, CheckedWorks
<1>11. QED
  BY <1>4, <1>5, <1>6, <1>7, <1>8, <1>9, <1>10

\* A target goes on: it wants REQ up for another byte, or its next phase.
LEMMA GoOnWorks ==
  ASSUME NEW s, Shape(s), NEW t \in Targets, s.target[t].eventPhase = "none",
         NEW q, q = s.target[t].eventReq, NEW phase, phase = s.target[t].phase, phase \in Busy
  PROVE  \/ /\ phase \in {"command"} \union Data
            /\ Worked(s, GoOn(s, t), t, "none", "high")
         \/ \E p \in Follows[phase] : Worked(s, GoOn(s, t), t, p, q)
<1> DEFINE d == s.target[t]
           left == d.remain - 1
           less == [s EXCEPT !.target[t].remain = left]
<1>0. DOMAIN s = {"target", "host", "image"} /\ DOMAIN s.target = Targets /\ DOMAIN d = DevFields
  BY DEF Shape
<1>00. [s EXCEPT !.target[t].remain = @ - 1] = less
  BY <1>0 DEF DevFields
<1> HIDE DEF left
<1>1. Worked(s, less, t, "none", q)
  BY DataSteps
<1> HIDE DEF less
<1>2. Shape(less) /\ less.target[t].eventPhase = "none" /\ less.target[t].eventReq = q
  BY <1>1 DEF Worked
<1>3. CASE phase = "command"
  <2>1. CASE Len(d.command) < CommandLength(Cmd(s, t).op)
    <3>1. GoOn(s, t) = EventReq(s, t, "high")
      BY <1>3, <2>1 DEF GoOn
    <3>2. QED
      BY <1>3, <3>1, Steps
  <2>2. CASE ~(Len(d.command) < CommandLength(Cmd(s, t).op))
    <3>1. GoOn(s, t) = StartCommand(s, t)
      BY <1>3, <2>2 DEF GoOn
    <3>2. QED
      BY <1>3, <3>1, StartCommandWorks DEF Follows
  <2>3. QED
    BY <2>1, <2>2
<1>4. CASE phase = "dataOut"
  <2> DEFINE w == WriteBuffer(less, t)
             v == IF d.buffer = <<>> THEN less ELSE w
  <2>1. GoOn(s, t) = IF d.remain > 1 /\ Len(d.buffer) < Room THEN EventReq(less, t, "high")
                     ELSE IF d.remain > 1 THEN (IF Failed(w, t) THEN w ELSE EventReq(w, t, "high"))
                     ELSE IF Failed(v, t) THEN v ELSE Good(v, t)
    BY <1>00, <1>4 DEF GoOn
  <2>2. Worked(less, w, t, "none", q) \/ Worked(less, w, t, "status", q)
    BY <1>2, WriteBufferWorks
  <2>3. Worked(less, less, t, "none", q)
    BY <1>2, Steps
  <2> HIDE DEF w
  <2>4. Worked(s, w, t, "none", q) \/ Worked(s, w, t, "status", q)
    BY <1>1, <2>2, WorkedOn
  <2>5. \A x : Worked(s, x, t, "none", q) =>
                 /\ ~Failed(x, t) /\ Worked(s, EventReq(x, t, "high"), t, "none", "high")
                 /\ Worked(s, Good(x, t), t, "status", q)
    <3> SUFFICES ASSUME NEW x, Worked(s, x, t, "none", q)
                 PROVE  /\ ~Failed(x, t) /\ Worked(s, EventReq(x, t, "high"), t, "none", "high")
                        /\ Worked(s, Good(x, t), t, "status", q)
      OBVIOUS
    <3>1. Shape(x) /\ x.target[t].eventPhase = "none" /\ x.target[t].eventReq = q
      BY DEF Worked
    <3>2. Worked(x, EventReq(x, t, "high"), t, "none", "high") /\ Worked(x, Good(x, t), t, "status", q)
      BY <3>1, Steps, CheckedWorks
    <3>3. QED
      BY <3>1, <3>2, WorkedOn DEF Failed
  <2>6. "status" \in Follows[phase] /\ phase \in Data
    BY <1>4 DEF Follows, Data
  <2>7. CASE d.remain > 1 /\ Len(d.buffer) < Room
    BY <1>1, <2>1, <2>5, <2>6, <2>7
  <2>8. CASE d.remain > 1 /\ ~(Len(d.buffer) < Room)
    <3>1. CASE Worked(s, w, t, "none", q)
      BY <2>1, <2>5, <2>6, <2>8, <3>1
    <3>2. CASE Worked(s, w, t, "status", q)
      BY <2>1, <2>6, <2>8, <3>2 DEF Failed, Worked
    <3>3. QED
      BY <2>4, <3>1, <3>2
  <2>9. CASE ~(d.remain > 1)
    <3>1. GoOn(s, t) = IF Failed(v, t) THEN v ELSE Good(v, t)
      BY <2>1, <2>9
    <3>2. CASE Worked(s, v, t, "none", q)
      BY <2>5, <2>6, <3>1, <3>2
    <3>3. CASE Worked(s, v, t, "status", q)
      BY <2>6, <3>1, <3>3 DEF Failed, Worked
    <3>4. QED
      BY <1>1, <2>4, <3>2, <3>3
  <2>10. QED
    BY <2>7, <2>8, <2>9
<1>5. CASE phase = "dataIn"
  <2> DEFINE r == IF d.buffer = <<>> THEN ReadBuffer(less, t) ELSE less
             a == SetDat(r, Head(r.target[t].buffer))
             x == Tail(a.target[t].buffer)
             b == [a EXCEPT !.target[t].buffer = x]
  <2>0. "status" \in Follows[phase] /\ phase \in Data
    BY <1>5 DEF Follows, Data
  <2>1. CASE ~(d.remain > 1)
    <3>1. GoOn(s, t) = Good(less, t)
      BY <1>00, <1>5, <2>1 DEF GoOn
    <3>2. Worked(less, Good(less, t), t, "status", q)
      BY <1>2, CheckedWorks
    <3>3. QED
      BY <1>1, <2>0, <3>1, <3>2, WorkedOn
  <2>2. CASE d.remain > 1
    <3>1. GoOn(s, t) = IF Failed(r, t) THEN r
                       ELSE EventReq([a EXCEPT !.target[t].buffer = Tail(@)], t, "high")
      <4> DEFINE Give(y) == EventReq([SetDat(y, Head(y.target[t].buffer)) EXCEPT
                                        !.target[t].buffer = Tail(@)], t, "high")
                 old == [s EXCEPT !.target[t].remain = @ - 1]
                 z == IF d.buffer = <<>> THEN ReadBuffer(old, t) ELSE old
      <4>1. GoOn(s, t) = IF Failed(z, t) THEN z ELSE Give(z)
        BY <1>5, <2>2 DEF GoOn
      <4>2. z = r
        BY <1>00
      <4> HIDE DEF Give, z, r
      <4>3. GoOn(s, t) = IF Failed(r, t) THEN r ELSE Give(r)
        BY <4>1, <4>2
      <4>4. QED
        BY <4>3 DEF Give
    <3>2. Worked(less, r, t, "none", q) \/ Worked(less, r, t, "status", q)
      BY <1>2, ReadBufferWorks, Steps
    <3>3. CASE Worked(less, r, t, "status", q)
      <4>1. Failed(r, t)
        BY <3>3 DEF Failed, Worked
      <4> HIDE DEF r
      <4>2. QED
        BY <1>1, <2>0, <3>1, <3>3, <4>1, WorkedOn
    <3>4. CASE Worked(less, r, t, "none", q)
      <4> HIDE DEF r
      <4>1. Shape(r) /\ r.target[t].eventPhase = "none" /\ r.target[t].eventReq = q /\ ~Failed(r, t)
        BY <3>4 DEF Worked, Failed
      <4>2. Worked(r, a, t, "none", q)
        BY <4>1, Steps
      <4> HIDE DEF a
      <4>3. Shape(a) /\ a.target[t].eventPhase = "none" /\ a.target[t].eventReq = q
        BY <4>2 DEF Worked
      <4>4. [a EXCEPT !.target[t].buffer = Tail(@)] = b
        BY <4>3 DEF Shape, DevFields
      <4> HIDE DEF x
      <4>5. Worked(a, b, t, "none", q)
        BY <4>3, DataSteps
      <4> HIDE DEF b
      <4>6. Shape(b) /\ b.target[t].eventPhase = "none" /\ b.target[t].eventReq = q
        BY <4>5 DEF Worked
      <4>7. Worked(b, EventReq(b, t, "high"), t, "none", "high")
        BY <4>6, Steps
      <4>8. Worked(s, EventReq(b, t, "high"), t, "none", "high")
        BY <1>1, <3>4, <4>2, <4>5, <4>7, WorkedOn
      <4>9. QED
        BY <2>0, <3>1, <4>1, <4>4, <4>8
    <3>5. QED
      BY <3>2, <3>3, <3>4
  <2>3. QED
    BY <2>1, <2>2
<1>6. CASE phase = "status"
  <2> DEFINE b == Sent(s, t, <<"complete">>, "messageIn")
             one == 1
  <2>1. GoOn(s, t) = [b EXCEPT !.target[t].remain = one]
    BY <1>6 DEF GoOn
  <2>2. Worked(s, b, t, "messageIn", q)
    BY SentWorks
  <2> HIDE DEF b, one
  <2>3. Shape(b) /\ b.target[t].eventPhase = "messageIn" /\ b.target[t].eventReq = q
    BY <2>2 DEF Worked
  <2>4. Worked(b, [b EXCEPT !.target[t].remain = one], t, "messageIn", q)
    BY <2>3, DataSteps
  <2>5. Worked(s, GoOn(s, t), t, "messageIn", q)
    BY <2>1, <2>2, <2>4, WorkedOn
  <2>6. QED
    BY <1>6, <2>5 DEF Follows
<1>7. CASE phase = "messageIn"
  <2>1. GoOn(s, t) = EventPhase(less, t, "free")
    BY <1>00, <1>7 DEF GoOn
  <2>2. Worked(less, EventPhase(less, t, "free"), t, "free", q)
    BY <1>2, Steps
  <2>3. Worked(s, GoOn(s, t), t, "free", q)
    BY <1>1, <2>1, <2>2, WorkedOn
  <2>4. QED
    BY <1>7, <2>3 DEF Follows
<1>8. QED
  BY <1>3, <1>4, <1>5, <1>6, <1>7 DEF Busy

\* Nothing is other than the ACK that target u has seen.
Acked(s, r, u, on) ==
  /\ Shape(r) /\ SameLines(s, r) /\ r.target[u].ack = on
  /\ r.target[u].phase = s.target[u].phase /\ r.target[u].selected = s.target[u].selected
  /\ r.target[u].eventSel = s.target[u].eventSel
  /\ r.target[u].eventPhase = s.target[u].eventPhase /\ r.target[u].eventReq = s.target[u].eventReq
  /\ \A t \in Targets \ {u} : r.target[t] = s.target[t]

\* No selection came or went.
Heard(s, r) ==
  /\ r.host.bus = s.host.bus
  /\ \A t \in Targets : r.target[t].eventSel = s.target[t].eventSel

\* Target a has gone on from a phase, and waits for one of its events.
Went(s, a, phase) ==
  /\ s.target[a].phase = phase /\ s.target[a].ack = FALSE
  /\ \/ phase \in {"command"} \union Data /\ HasBus(s, a, {}, "none", "high")
     \/ \E p \in Follows[phase] : HasBus(s, a, {}, p, "none")

\* A target sees ACK, and keeps the rest.
LEMMA AckSets ==
  ASSUME NEW s, Shape(s), NEW u \in Targets, NEW on
  PROVE  Acked(s, [s EXCEPT !.target[u].ack = on], u, on)
BY DEF Acked, SameLines, Shape, DevFields, HostFields

LEMMA AckKeepsBus ==
  ASSUME NEW s, NEW r, NEW a \in Targets, NEW u \in Targets \ {a}, NEW on, Acked(s, r, u, on)
  PROVE  /\ Heard(s, r) /\ r.target[a] = s.target[a]
         /\ \A req, p, q : HasBus(s, a, req, p, q) => HasBus(r, a, req, p, q)
         /\ \A phase : Went(s, a, phase) => Went(r, a, phase)
<1>1. Heard(s, r) /\ r.target[a] = s.target[a]
  BY DEF Acked, Heard, SameLines
<1>2. \A t \in Targets \ {a} : Off(s, t) => Off(r, t)
  BY DEF Acked, Off
<1>3. \A req, p, q : HasBus(s, a, req, p, q) => HasBus(r, a, req, p, q)
  BY <1>1, <1>2 DEF HasBus, Acked, SameLines
<1>4. QED
  BY <1>1, <1>3 DEF Went

\* ACK falls: the target that has the bus goes on.
LEMMA BusFalls ==
  ASSUME NEW s, NEW a \in Targets, HasBus(s, a, {}, "none", "none"),
         NEW phase, phase = s.target[a].phase, phase \in Busy, s.target[a].ack = TRUE
  PROVE  /\ Went(Fall(s, a), a, phase) /\ Heard(s, Fall(s, a))
         /\ \A t \in Targets \ {a} : Fall(s, a).target[t] = s.target[t]
<1> DEFINE m == [s EXCEPT !.target[a].ack = FALSE]
           r == GoOn(m, a)
<1>1. Fall(s, a) = r
  BY DEF Fall, Busy
<1>2. Shape(s)
  BY DEF HasBus
<1>3. Acked(s, m, a, FALSE)
  BY <1>2, AckSets
<1> HIDE DEF m
<1>4. Shape(m) /\ m.target[a].eventPhase = "none" /\ m.target[a].eventReq = "none" /\ m.target[a].phase = phase
  BY <1>3 DEF Acked, HasBus
<1>5. \/ phase \in {"command"} \union Data /\ Worked(m, r, a, "none", "high")
      \/ \E p \in Follows[phase] : Worked(m, r, a, p, "none")
  BY <1>4, GoOnWorks
<1> HIDE DEF r
<1>6. ASSUME NEW p, NEW q, Worked(m, r, a, p, q)
      PROVE  /\ HasBus(r, a, {}, p, q) /\ r.target[a].phase = phase /\ r.target[a].ack = FALSE
             /\ Heard(s, r) /\ \A t \in Targets \ {a} : r.target[t] = s.target[t]
  <2>1. \A t \in Targets \ {a} : r.target[t] = s.target[t]
    BY <1>3, <1>6 DEF Worked, Acked
  <2>2. r.target[a].phase = phase /\ r.target[a].ack = FALSE /\ Heard(s, r)
    BY <1>3, <1>4, <1>6, <2>1 DEF Worked, Acked, SameLines, SameDev, Heard
  <2>3. HasBus(r, a, {}, p, q)
    BY <1>3, <1>6, <2>1 DEF Worked, Acked, SameLines, SameDev, HasBus, Off
  <2>4. QED
    BY <2>1, <2>2, <2>3
<1>7. QED
  BY <1>1, <1>5, <1>6 DEF Went

\* A target that is not on the bus only sees ACK fall.
LEMMA OffFalls ==
  ASSUME NEW s, Shape(s), NEW u \in Targets, s.target[u].phase = "free"
  PROVE  Acked(s, Fall(s, u), u, FALSE)
BY AckSets DEF Fall

\* After it, no target sees ACK, and the one that has the bus has gone on.
LEMMA ReqFalls ==
  ASSUME NEW s, NEW a \in Targets, NEW q, HasBus(s, a, {a}, "none", q),
         NEW phase, phase = s.target[a].phase, phase \in Busy, s.target[a].ack = TRUE
  PROVE  Went(SetReq(s, a, FALSE), a, phase) /\ AcksDown(SetReq(s, a, FALSE)) /\ Heard(s, SetReq(s, a, FALSE))
<1> DEFINE e == EventReq(s, a, "none")
           m == [e EXCEPT !.host.req = {}]
           n == [m EXCEPT !.host.ready = FALSE]
           r == Fall(Fall(n, 0), 1)
<1>1. Shape(s) /\ s.host.req = {a} /\ {a} # {} /\ {a} \ {a} = {}
  BY DEF HasBus
<1>2. SetReq(s, a, FALSE) = r
  BY <1>1 DEF SetReq, DrivenBy
<1>3. Worked(s, e, a, "none", "none")
  BY <1>1, Steps DEF HasBus
<1> HIDE DEF e
<1>4. /\ Shape(n) /\ n.host.req = {} /\ n.host.ready = FALSE /\ n.host.bsy = e.host.bsy /\ n.host.bus = e.host.bus
      /\ n.target = e.target
  BY <1>3 DEF Worked, Shape, HostFields
<1> HIDE DEF n
<1>5. HasBus(n, a, {}, "none", "none")
  <2>1. n.host.bsy = {a} /\ n.target[a].selected = TRUE
    BY <1>3, <1>4 DEF Worked, SameLines, SameDev, HasBus
  <2>2. n.target[a].eventPhase = "none" /\ n.target[a].eventReq = "none"
    BY <1>3, <1>4 DEF Worked
  <2>3. \A t \in Targets \ {a} : Off(n, t)
    BY <1>3, <1>4 DEF Worked, HasBus, Off
  <2>4. QED
    BY <1>4, <2>1, <2>2, <2>3 DEF HasBus
<1>6. n.target[a].phase = phase /\ n.target[a].ack = TRUE /\ Heard(s, n)
  BY <1>3, <1>4 DEF Worked, SameLines, SameDev, Heard
<1>7. CASE a = 0
  <2> DEFINE f == Fall(n, 0)
  <2>1. Went(f, 0, phase) /\ Heard(n, f) /\ \A t \in Targets \ {0} : f.target[t] = n.target[t]
    BY <1>5, <1>6, <1>7, BusFalls
  <2> HIDE DEF f
  <2>2. Shape(f) /\ f.target[1].phase = "free" /\ 1 \in Targets \ {0} /\ 0 \in Targets
    BY <1>7, <2>1 DEF Went, HasBus, Off, Targets
  <2>3. Acked(f, Fall(f, 1), 1, FALSE)
    BY <2>2, OffFalls
  <2>4. Went(Fall(f, 1), 0, phase) /\ Heard(f, Fall(f, 1))
    BY <2>1, <2>2, <2>3, AckKeepsBus
  <2>5. r = Fall(f, 1)
    BY DEF f
  <2>6. AcksDown(r) /\ Heard(s, r)
    BY <1>6, <2>1, <2>3, <2>4, <2>5 DEF AcksDown, Acked, Went, Targets, Heard
  <2>7. QED
    BY <1>2, <1>7, <2>4, <2>5, <2>6
<1>8. CASE a = 1
  <2> DEFINE f == Fall(n, 0)
             g == Fall(f, 1)
  <2>0. 0 \in Targets \ {1} /\ 1 \in Targets
    BY DEF Targets
  <2>1. Acked(n, f, 0, FALSE)
    BY <1>5, <1>8, <2>0, OffFalls DEF HasBus, Off
  <2> HIDE DEF f
  <2>7. HasBus(n, 1, {}, "none", "none")
    BY <1>5, <1>8
  <2>8. /\ Heard(n, f) /\ f.target[1] = n.target[1]
        /\ \A req, p, e2 : HasBus(n, 1, req, p, e2) => HasBus(f, 1, req, p, e2)
    <3>1. /\ Heard(n, f) /\ f.target[1] = n.target[1]
      BY <2>0, <2>1 DEF Acked, Heard, SameLines, Targets
    <3>2. ASSUME NEW req, NEW p, NEW e2, HasBus(n, 1, req, p, e2) PROVE HasBus(f, 1, req, p, e2)
      BY <2>0, <2>1, <3>2, AckKeepsBus
    <3>3. QED
      BY <3>1, <3>2
  <2>2. HasBus(f, 1, {}, "none", "none") /\ Heard(n, f) /\ f.target[1] = n.target[1]
    BY <2>7, <2>8
  <2>9. phase = f.target[1].phase /\ f.target[1].ack = TRUE
    BY <1>6, <1>8, <2>2
  <2>3. Went(g, 1, phase) /\ Heard(f, g) /\ \A t \in Targets \ {1} : g.target[t] = f.target[t]
    BY <2>0, <2>2, <2>9, BusFalls
  <2>4. r = g
    BY DEF f
  <2> HIDE DEF g
  <2>5. AcksDown(r) /\ Heard(s, r)
    BY <1>6, <2>0, <2>1, <2>2, <2>3, <2>4 DEF AcksDown, Acked, Went, Targets, Heard
  <2>6. QED
    BY <1>2, <1>8, <2>3, <2>4, <2>5
<1>9. QED
  BY <1>7, <1>8 DEF Targets

\* Once it has gone on, it moves.
LEMMA WentMoves ==
  ASSUME NEW s, NEW a \in Targets, NEW phase \in Busy, Went(s, a, phase), AcksDown(s)
  PROVE  Moves(s, a)
BY DEF Went, Moves, Turning, Rising, Follows, Busy, Data

\* A target that is not on the bus only sees ACK rise.
LEMMA OffRises ==
  ASSUME NEW s, Shape(s), NEW u \in Targets, s.target[u].phase = "free"
  PROVE  Acked(s, Rise(s, u), u, TRUE)
BY AckSets DEF Rise

\* ACK comes up: a target that moves data goes on at once, another lets REQ fall.
LEMMA BusRises ==
  ASSUME NEW s, NEW a \in Targets, HasBus(s, a, {a}, "none", "none"),
         NEW phase, phase = s.target[a].phase, phase \in Busy, s.target[a].ack = FALSE
  PROVE  LET r == Rise(s, a)
         IN  /\ Heard(s, r)
             /\ phase \in Data => Went(r, a, phase) /\ AcksDown(r)
             /\ phase \notin Data => /\ HasBus(r, a, {a}, "none", "low")
                                     /\ r.target[a].phase = phase /\ r.target[a].ack = TRUE
<1> DEFINE r == Rise(s, a)
           m == [s EXCEPT !.target[a].ack = TRUE]
           byte == s.host.bus[2]
           x == IF Len(m.target[a].buffer) < Room THEN Append(m.target[a].buffer, byte) ELSE m.target[a].buffer
           b == [m EXCEPT !.target[a].buffer = x]
           list == b.target[a].buffer
           y == b.target[a].remain + list[3] * 256 + list[4]
           z == [b EXCEPT !.target[a].remain = y]
           w == Append(m.target[a].command, s.host.bus)
           c == [m EXCEPT !.target[a].command = w]
<1> DEFINE Same(n) == /\ HasBus(n, a, {a}, "none", "none") /\ Heard(s, n)
                      /\ n.target[a].phase = phase /\ n.target[a].ack = TRUE
<1>1. Acked(s, m, a, TRUE)
  BY AckSets DEF HasBus
<1> HIDE DEF m
<1>2. Same(m)
  BY <1>1 DEF Acked, SameLines, HasBus, Heard, Off
<1>3. ASSUME NEW n, NEW o, NEW p, NEW q, Same(n), Worked(n, o, a, p, q)
      PROVE  HasBus(o, a, {a}, p, q) /\ Heard(s, o) /\ o.target[a].phase = phase /\ o.target[a].ack = TRUE
  <2>1. \A t \in Targets \ {a} : Off(o, t)
    BY <1>3 DEF Worked, HasBus, Off
  <2>2. HasBus(o, a, {a}, p, q)
    BY <1>3, <2>1 DEF Worked, SameLines, SameDev, HasBus
  <2>3. QED
    BY <1>3, <2>2 DEF Worked, SameLines, SameDev, Heard
<1>4. ASSUME NEW n, Same(n)
      PROVE  /\ Shape(n) /\ n.target[a].eventPhase = "none" /\ n.target[a].eventReq = "none"
             /\ DOMAIN n = {"target", "host", "image"} /\ DOMAIN n.target = Targets
             /\ DOMAIN n.target[a] = DevFields
  BY <1>4 DEF HasBus, Shape
<1>5. Same(c)
  <2> HIDE DEF w
  <2>1. Worked(m, c, a, "none", "none")
    BY <1>2, <1>4, DataSteps
  <2> HIDE DEF c
  <2>2. QED
    BY <1>2, <1>3, <2>1
<1>6. Same(b) /\ Same(z)
  <2> HIDE DEF x
  <2>1. Worked(m, b, a, "none", "none")
    BY <1>2, <1>4, DataSteps
  <2> HIDE DEF b
  <2>2. Same(b)
    BY <1>2, <1>3, <2>1
  <2> HIDE DEF y
  <2>3. Worked(b, z, a, "none", "none")
    BY <2>2, <1>4, DataSteps
  <2> HIDE DEF z
  <2>4. Same(z)
    BY <2>2, <1>3, <2>3
  <2>5. QED
    BY <2>2, <2>4
<1>7. ASSUME NEW n, Same(n), phase \in Data
      PROVE  LET o == SetReq(n, a, FALSE) IN Went(o, a, phase) /\ AcksDown(o) /\ Heard(s, o)
  <2>1. Went(SetReq(n, a, FALSE), a, phase) /\ AcksDown(SetReq(n, a, FALSE)) /\ Heard(n, SetReq(n, a, FALSE))
    BY <1>7, ReqFalls
  <2>2. QED
    BY <1>7, <2>1 DEF Heard
<1>8. ASSUME NEW n, Same(n), phase \notin Data
      PROVE  LET o == EventReq(n, a, "low")
             IN  /\ HasBus(o, a, {a}, "none", "low") /\ Heard(s, o)
                 /\ o.target[a].phase = phase /\ o.target[a].ack = TRUE
  <2>1. Worked(n, EventReq(n, a, "low"), a, "none", "low")
    BY <1>4, <1>8, Steps
  <2>2. QED
    BY <1>3, <1>8, <2>1
<1>9. phase # "free" /\ ~s.target[a].ack
  BY DEF Busy
<1>10. [m EXCEPT !.target[a].command = Append(@, s.host.bus)] = c
  BY <1>2, <1>4 DEF DevFields
<1>11. [m EXCEPT !.target[a].buffer = IF Len(@) < Room THEN Append(@, byte) ELSE @] = b
  BY <1>2, <1>4 DEF DevFields
<1>12. [b EXCEPT !.target[a].remain = @ + list[3] * 256 + list[4]] = z
  BY <1>4, <1>6 DEF DevFields
<1>13. CASE phase \in {"status", "messageIn"}
  <2>1. phase \notin Data
    BY <1>13 DEF Data
  <2>2. r = EventReq(m, a, "low")
    BY <1>9, <1>13 DEF Rise, m
  <2>3. QED
    BY <1>2, <1>8, <2>1, <2>2
<1>17. CASE phase = "command"
  <2>1. phase \notin Data
    BY <1>17 DEF Data
  <2>2. r = EventReq(c, a, "low")
    BY <1>9, <1>10, <1>17 DEF Rise, m
  <2>3. QED
    BY <1>5, <1>8, <2>1, <2>2
<1>14. CASE phase = "dataIn"
  <2>1. r = SetReq(m, a, FALSE) /\ phase \in Data
    BY <1>9, <1>14 DEF Rise, m, Data
  <2>2. QED
    BY <1>2, <1>7, <2>1
<1>15. CASE phase = "dataOut"
  <2>1. phase \in Data
    BY <1>15 DEF Data
  <2>2. r \in {SetReq(b, a, FALSE), SetReq(z, a, FALSE)}
    <3> DEFINE long == Cmd(s, a).op = "formatList" /\ Len(list) = 4
    <3>1. r = SetReq(IF long THEN z ELSE b, a, FALSE)
      BY <1>9, <1>11, <1>12, <1>15 DEF Rise, m
    <3> HIDE DEF long, b, z
    <3>2. QED
      BY <3>1
  <2>3. QED
    BY <1>6, <1>7, <2>1, <2>2
<1>16. QED
  BY <1>13, <1>14, <1>15, <1>17 DEF Busy, Data

\* What a phase that ends, or RST, leaves of target u before its REQ falls.
LetGo(s, u) ==
  LET e == EventPhase(s, u, "none")
      m == [e EXCEPT !.host.io = DrivenBy("io", u, "io" \in Phases["free"], @),
                     !.host.cd = DrivenBy("cd", u, "cd" \in Phases["free"], @),
                     !.host.msg = DrivenBy("msg", u, "msg" \in Phases["free"], @)]
  IN [m EXCEPT !.host.bsy = @ \ {u}, !.target[u].selected = FALSE]
Gone(s, off, u) ==
  /\ Shape(off) /\ off.host.req = s.host.req /\ off.host.ready = s.host.ready
  /\ off.host.bus = s.host.bus /\ off.host.bsy = s.host.bsy \ {u}
  /\ off.target[u].selected = FALSE /\ off.target[u].eventPhase = "none"
  /\ off.target[u].phase = s.target[u].phase /\ off.target[u].ack = s.target[u].ack
  /\ off.target[u].eventSel = s.target[u].eventSel /\ off.target[u].eventReq = s.target[u].eventReq
  /\ \A t \in Targets \ {u} : off.target[t] = s.target[t]

\* The bus of a target that lets go is free once its REQ falls.
LEMMA BusFreed ==
  ASSUME NEW s, Shape(s), NEW u \in Targets
  PROVE  /\ SetPhase(s, u, "free") = [SetReq(LetGo(s, u), u, FALSE) EXCEPT !.target[u].phase = "free"]
         /\ Gone(s, LetGo(s, u), u)
<1> DEFINE e == EventPhase(s, u, "none")
           io == DrivenBy("io", u, "io" \in Phases["free"], e.host.io)
           cd == DrivenBy("cd", u, "cd" \in Phases["free"], e.host.cd)
           msg == DrivenBy("msg", u, "msg" \in Phases["free"], e.host.msg)
           m == [e EXCEPT !.host.io = io, !.host.cd = cd, !.host.msg = msg]
           off == [m EXCEPT !.host.bsy = @ \ {u}, !.target[u].selected = FALSE]
<1>1. Worked(s, e, u, "none", s.target[u].eventReq)
  BY Steps
<1> HIDE DEF e, io, cd, msg
<1>2. Shape(m) /\ SameLines(e, m) /\ m.target = e.target
  BY <1>1 DEF Worked, Shape, SameLines, HostFields
<1>3. LetGo(s, u) = off
  BY <1>1 DEF LetGo, e, io, cd, msg, Worked, Shape, HostFields
<1>7. SetPhase(s, u, "free") = [SetReq(LetGo(s, u), u, FALSE) EXCEPT !.target[u].phase = "free"]
  BY DEF SetPhase, LetGo
<1> HIDE DEF m
<1>4. Worked(s, m, u, "none", s.target[u].eventReq)
  BY <1>1, <1>2 DEF Worked, SameLines
<1>5. /\ Shape(off) /\ off.host.req = m.host.req /\ off.host.ready = m.host.ready
      /\ off.host.bus = m.host.bus /\ off.host.bsy = m.host.bsy \ {u}
      /\ off.target[u].selected = FALSE /\ off.target[u].eventPhase = m.target[u].eventPhase
      /\ off.target[u].phase = m.target[u].phase /\ off.target[u].ack = m.target[u].ack
      /\ off.target[u].eventSel = m.target[u].eventSel /\ off.target[u].eventReq = m.target[u].eventReq
      /\ \A t \in Targets \ {u} : off.target[t] = m.target[t]
  BY <1>4 DEF Worked, Shape, HostFields, DevFields
<1> HIDE DEF off
<1>6. Gone(s, off, u)
  BY <1>4, <1>5 DEF Gone, Worked, SameLines, SameDev
<1>8. QED
  BY <1>3, <1>6, <1>7

\* Once its REQ has fallen too, a target is off the bus.
LEMMA PhaseFree ==
  ASSUME NEW s, Shape(s), NEW u \in Targets
  PROVE  LET r == [s EXCEPT !.target[u].phase = "free"]
         IN  /\ Shape(r) /\ r.host = s.host /\ \A t \in Targets \ {u} : r.target[t] = s.target[t]
             /\ r.target[u].phase = "free" /\ r.target[u].ack = s.target[u].ack
             /\ r.target[u].selected = s.target[u].selected /\ r.target[u].eventSel = s.target[u].eventSel
             /\ r.target[u].eventPhase = s.target[u].eventPhase /\ r.target[u].eventReq = s.target[u].eventReq
BY DEF Shape, DevFields

\* A target lets go of REQ while another has it, or none: nobody sees ACK fall.
LEMMA ReqStays ==
  ASSUME NEW s, Shape(s), NEW u \in Targets, s.host.req = {} \/ s.host.req \ {u} # {}
  PROVE  LET r == SetReq(s, u, FALSE)
         IN  /\ Shape(r) /\ r.host.req = s.host.req \ {u} /\ r.host.bsy = s.host.bsy
             /\ r.host.ready = s.host.ready /\ r.host.bus = s.host.bus
             /\ SameDev(s.target[u], r.target[u]) /\ r.target[u].eventReq = "none"
             /\ r.target[u].eventPhase = s.target[u].eventPhase
             /\ \A t \in Targets \ {u} : r.target[t] = s.target[t]
<1> DEFINE n == EventReq(s, u, "none")
           req == s.host.req \ {u}
           r == [n EXCEPT !.host.req = req]
<1>1. SetReq(s, u, FALSE) = r
  BY DEF SetReq, DrivenBy
<1>2. Worked(s, n, u, s.target[u].eventPhase, "none")
  BY Steps
<1> HIDE DEF n
<1> HIDE DEF req
<1>3. Shape(r) /\ r.target = n.target /\ r.host.req = req /\ r.host.bsy = n.host.bsy
      /\ r.host.ready = n.host.ready /\ r.host.bus = n.host.bus
  BY <1>2 DEF Worked, Shape, HostFields
<1> HIDE DEF r
<1>4. QED
  BY <1>1, <1>2, <1>3 DEF Worked, SameLines, req

\* Both targets hear ACK; the one that has the bus moves on.
LEMMA RaiseAckMoves ==
  ASSUME NEW s, NEW a \in Targets, Waiting(s, a)
  PROVE  Moves(RaiseAck(s), a) /\ Heard(s, RaiseAck(s))
<1> DEFINE phase == s.target[a].phase
           f == Rise(s, 0)
           r == Rise(f, 1)
<1>1. RaiseAck(s) = r
  BY DEF RaiseAck
<1>2. /\ HasBus(s, a, {a}, "none", "none") /\ phase \in Busy /\ s.target[a].ack = FALSE
      /\ Shape(s) /\ 0 \in Targets /\ 1 \in Targets
  BY DEF Waiting, HasBus, Targets
<1>3. CASE a = 0
  <2>1. /\ Heard(s, f)
        /\ phase \in Data => Went(f, 0, phase)
        /\ phase \notin Data => /\ HasBus(f, 0, {0}, "none", "low")
                                /\ f.target[0].phase = phase /\ f.target[0].ack = TRUE
    BY <1>2, <1>3, BusRises
  <2> HIDE DEF f
  <2>2. Shape(f) /\ Off(f, 1)
    BY <1>3, <2>1 DEF Went, HasBus, Targets
  <2>3. Acked(f, r, 1, TRUE) /\ 1 \in Targets \ {0}
    <3>1. f.target[1].phase = "free" /\ 1 \in Targets \ {0}
      BY <1>2, <2>2 DEF Off
    <3>2. QED
      BY <1>2, <2>2, <3>1, OffRises
  <2> HIDE DEF r
  <2>4. Heard(f, r) /\ r.target[0] = f.target[0]
    BY <1>2, <2>3, AckKeepsBus
  <2>5. CASE phase \in Data
    <3>1. Went(f, 0, phase)
      BY <2>1, <2>5
    <3>2. Went(r, 0, phase)
      BY <1>2, <2>3, <3>1, AckKeepsBus
    <3>3. Moves(r, 0)
      BY <2>5, <3>2 DEF Went, Moves, Turning, Rising, Follows, Busy, Data
    <3>4. QED
      BY <1>1, <1>3, <2>1, <2>4, <3>3 DEF Heard
  <2>6. CASE phase \notin Data
    <3>1. HasBus(f, 0, {0}, "none", "low")
      BY <2>1, <2>6
    <3>2. HasBus(r, 0, {0}, "none", "low")
      BY <1>2, <2>3, <3>1, AckKeepsBus
    <3>3. Falling(r, 0)
      BY <1>2, <2>1, <2>4, <2>6, <3>2 DEF Falling
    <3>4. QED
      BY <1>1, <1>3, <2>1, <2>4, <3>3 DEF Heard, Moves
  <2>7. QED
    BY <2>5, <2>6
<1>4. CASE a = 1
  <2>1. 0 \in Targets \ {1} /\ HasBus(s, 1, {1}, "none", "none") /\ s.target[1].phase = phase
    BY <1>2, <1>4
  <2>2. Acked(s, f, 0, TRUE)
    BY <1>2, <2>1, OffRises DEF HasBus, Off
  <2> HIDE DEF f
  <2>3. HasBus(f, 1, {1}, "none", "none")
    BY <1>2, <2>1, <2>2, AckKeepsBus
  <2>4. Heard(s, f) /\ f.target[1] = s.target[1]
    BY <2>1, <2>2 DEF Acked, Heard, SameLines, Targets
  <2>5. f.target[1].phase = phase /\ f.target[1].ack = FALSE
    BY <1>2, <1>4, <2>4
  <2>6. /\ Heard(f, r)
        /\ phase \in Data => Went(r, 1, phase) /\ AcksDown(r)
        /\ phase \notin Data => /\ HasBus(r, 1, {1}, "none", "low")
                                /\ r.target[1].phase = phase /\ r.target[1].ack = TRUE
    BY <1>2, <2>3, <2>5, BusRises
  <2> HIDE DEF r
  <2>7. CASE phase \in Data
    BY <1>1, <1>2, <1>4, <2>4, <2>6, <2>7, WentMoves DEF Heard
  <2>8. CASE phase \notin Data
    BY <1>1, <1>2, <1>4, <2>4, <2>6, <2>8 DEF Heard, Moves, Falling
  <2>9. QED
    BY <2>7, <2>8
<1>5. QED
  BY <1>3, <1>4 DEF Targets

\* The next phase has come.
LEMMA PhaseMoves ==
  ASSUME NEW s, NEW a \in Targets, Turning(s, a), NEW p, p = s.target[a].eventPhase
  PROVE  LET r == SetPhase(s, a, p)
         IN Heard(s, r) /\ IF p = "free" THEN BusFree(r) ELSE Moves(r, a)
<1> DEFINE e == EventPhase(s, a, "none")
           io == DrivenBy("io", a, "io" \in Phases[p], e.host.io)
           cd == DrivenBy("cd", a, "cd" \in Phases[p], e.host.cd)
           msg == DrivenBy("msg", a, "msg" \in Phases[p], e.host.msg)
           m == [e EXCEPT !.host.io = io, !.host.cd = cd, !.host.msg = msg]
           up == EventReq(m, a, "high")
           phase == s.target[a].phase
<1>1. /\ HasBus(s, a, {}, p, "none") /\ p \in Follows[phase] /\ phase \in DOMAIN Follows
      /\ s.target[a].ack = FALSE
      /\ phase \notin Data => AcksDown(s)
  BY DEF Turning, HasBus
<1>2. Shape(s) /\ s.target[a].eventReq = "none"
  BY <1>1 DEF HasBus
<1>3. Worked(s, e, a, "none", "none")
  BY <1>2, Steps
<1> HIDE DEF e, io, cd, msg
<1>4. /\ Shape(m) /\ SameLines(e, m) /\ m.target = e.target
  BY <1>3 DEF Worked, Shape, SameLines, HostFields
<1>5. p # "free" => SetPhase(s, a, p) = [up EXCEPT !.target[a].phase = p]
  <2>1. m = [e EXCEPT !.host.io = DrivenBy("io", a, "io" \in Phases[p], @),
                      !.host.cd = DrivenBy("cd", a, "cd" \in Phases[p], @),
                      !.host.msg = DrivenBy("msg", a, "msg" \in Phases[p], @)]
    BY <1>3 DEF io, cd, msg, Worked, Shape, HostFields
  <2> HIDE DEF m
  <2>2. QED
    BY <2>1 DEF SetPhase, e
<1> HIDE DEF m
<1>6. Worked(s, m, a, "none", "none")
  BY <1>3, <1>4 DEF Worked, SameLines
<1>7. CASE p # "free"
  <2> DEFINE r == [up EXCEPT !.target[a].phase = p]
  <2>1. Worked(m, up, a, "none", "high")
    BY <1>6, Steps DEF Worked
  <2>2. Worked(s, up, a, "none", "high")
    BY <1>6, <2>1, WorkedOn
  <2> HIDE DEF up
  <2>3. /\ Shape(r) /\ r.host = up.host /\ \A t \in Targets \ {a} : r.target[t] = up.target[t]
        /\ r.target[a].phase = p /\ r.target[a].ack = up.target[a].ack
        /\ r.target[a].selected = up.target[a].selected /\ r.target[a].eventSel = up.target[a].eventSel
        /\ r.target[a].eventPhase = "none" /\ r.target[a].eventReq = "high"
    BY <2>2 DEF Worked, Shape, DevFields
  <2> HIDE DEF r
  <2>4. Heard(s, r)
    BY <2>2, <2>3 DEF Worked, SameLines, SameDev, Heard
  <2>5. HasBus(r, a, {}, "none", "high")
    BY <1>1, <2>2, <2>3 DEF Worked, SameLines, SameDev, HasBus, Off
  <2>6. r.target[a].ack = FALSE /\ (AcksDown(s) => AcksDown(r))
    BY <1>1, <2>2, <2>3 DEF Worked, SameDev, AcksDown
  <2>7. p \in Busy /\ (p \in {"command", "messageIn"} => phase \notin Data)
    BY <1>1, <1>7 DEF Follows, Busy, Data
  <2>8. Rising(r, a)
    BY <1>1, <2>3, <2>5, <2>6, <2>7 DEF Rising
  <2>9. QED
    BY <1>5, <1>7, <2>4, <2>8 DEF Moves, r
<1>8. CASE p = "free"
  <2> DEFINE off == LetGo(s, a)
             down == SetReq(off, a, FALSE)
             r == [down EXCEPT !.target[a].phase = "free"]
  <2>1. SetPhase(s, a, p) = r /\ Gone(s, off, a)
    BY <1>2, <1>8, BusFreed
  <2> HIDE DEF off
  <2>2. Shape(off) /\ off.host.req = {} /\ off.host.req \ {a} = {} /\ off.host.bsy = {} /\ off.host.ready = FALSE
    BY <1>1, <2>1 DEF HasBus, Gone
  <2>3. /\ Shape(down) /\ down.host.req = {} /\ down.host.bsy = {}
        /\ down.host.ready = FALSE /\ down.host.bus = off.host.bus
        /\ SameDev(off.target[a], down.target[a]) /\ down.target[a].eventReq = "none"
        /\ down.target[a].eventPhase = off.target[a].eventPhase
        /\ \A t \in Targets \ {a} : down.target[t] = off.target[t]
    BY <2>2, ReqStays
  <2> HIDE DEF down
  <2>4. /\ Shape(r) /\ r.host = down.host /\ \A t \in Targets \ {a} : r.target[t] = down.target[t]
        /\ r.target[a].phase = "free" /\ r.target[a].ack = down.target[a].ack
        /\ r.target[a].selected = down.target[a].selected /\ r.target[a].eventSel = down.target[a].eventSel
        /\ r.target[a].eventPhase = down.target[a].eventPhase /\ r.target[a].eventReq = down.target[a].eventReq
    BY <2>3, PhaseFree
  <2> HIDE DEF r
  <2>5. Heard(s, r)
    BY <2>1, <2>3, <2>4 DEF Gone, SameDev, Heard
  <2>6. Off(r, a) /\ \A t \in Targets \ {a} : Off(r, t)
    BY <1>1, <2>1, <2>3, <2>4 DEF Gone, SameDev, Off, HasBus
  <2>7. phase \notin Data
    BY <1>1, <1>8 DEF Follows, Data
  <2>8. AcksDown(r)
    BY <1>1, <2>1, <2>3, <2>4, <2>7 DEF Gone, SameDev, AcksDown
  <2>9. BusFree(r)
    BY <2>3, <2>4, <2>6, <2>8 DEF BusFree
  <2>10. QED
    BY <1>8, <2>1, <2>5, <2>9
<1>9. QED
  BY <1>7, <1>8

\* RST at a target that is not on the bus, when the other waits for ACK, or when
\* the bus is free.
LEMMA RstOff ==
  ASSUME NEW s, Shape(s), NEW u \in Targets, Off(s, u)
  PROVE  /\ BusFree(s) => BusFree(Rst(s, u)) /\ Heard(s, Rst(s, u))
         /\ \A a \in Targets \ {u} : Waiting(s, a) => Waiting(Rst(s, u), a) /\ Heard(s, Rst(s, u))
<1> DEFINE r == Rst(s, u)
<1> DEFINE off == LetGo(s, u)
<1>1. r = [SetReq(off, u, FALSE) EXCEPT !.target[u].phase = "free"] /\ Gone(s, off, u)
  BY BusFreed DEF Rst
<1> HIDE DEF off
<1> DEFINE down == SetReq(off, u, FALSE)
           req == off.host.req \ {u}
<1>2. ASSUME off.host.req = {} \/ req # {}
      PROVE  /\ Shape(r) /\ r.host.req = req /\ r.host.bsy = s.host.bsy \ {u} /\ r.host.ready = s.host.ready
             /\ r.target[u].ack = s.target[u].ack /\ Off(r, u) /\ Heard(s, r)
             /\ \A t \in Targets \ {u} : r.target[t] = s.target[t]
  <2>1. /\ Shape(down) /\ down.host.req = req /\ down.host.bsy = off.host.bsy
        /\ down.host.ready = off.host.ready /\ down.host.bus = off.host.bus
        /\ SameDev(off.target[u], down.target[u]) /\ down.target[u].eventReq = "none"
        /\ down.target[u].eventPhase = off.target[u].eventPhase
        /\ \A t \in Targets \ {u} : down.target[t] = off.target[t]
    BY <1>1, <1>2, ReqStays DEF Gone
  <2> HIDE DEF down
  <2>2. /\ Shape(r) /\ r.host = down.host /\ \A t \in Targets \ {u} : r.target[t] = down.target[t]
        /\ r.target[u].phase = "free" /\ r.target[u].ack = down.target[u].ack
        /\ r.target[u].selected = down.target[u].selected /\ r.target[u].eventSel = down.target[u].eventSel
        /\ r.target[u].eventPhase = down.target[u].eventPhase /\ r.target[u].eventReq = down.target[u].eventReq
    <3>1. r = [down EXCEPT !.target[u].phase = "free"]
      BY <1>1 DEF down
    <3> HIDE DEF r
    <3>2. QED
      BY <2>1, <3>1, PhaseFree
  <2> HIDE DEF r, req
  <2>3. Off(r, u) /\ r.target[u].ack = s.target[u].ack /\ r.target[u].eventSel = s.target[u].eventSel
    BY <1>1, <2>1, <2>2 DEF Gone, SameDev, Off
  <2>4. /\ Shape(r) /\ r.host.req = req /\ r.host.bsy = s.host.bsy \ {u} /\ r.host.ready = s.host.ready
        /\ r.host.bus = s.host.bus /\ \A t \in Targets \ {u} : r.target[t] = s.target[t]
    BY <1>1, <2>1, <2>2 DEF Gone
  <2>5. Heard(s, r)
    BY <2>3, <2>4 DEF Heard
  <2>6. QED
    BY <2>3, <2>4, <2>5
<1>3. ASSUME BusFree(s) PROVE BusFree(r) /\ Heard(s, r)
  <2>1. off.host.req = {} /\ req = {} /\ s.host.bsy \ {u} = {}
    BY <1>1, <1>3 DEF BusFree, Gone
  <2> HIDE DEF r
  <2>2. QED
    BY <1>2, <1>3, <2>1 DEF BusFree, AcksDown, Off
<1>4. ASSUME NEW a \in Targets \ {u}, Waiting(s, a) PROVE Waiting(r, a) /\ Heard(s, r)
  <2>1. req = {a} /\ s.host.bsy \ {u} = {a}
    BY <1>1, <1>4 DEF Waiting, HasBus, Gone
  <2> HIDE DEF r
  <2>2. \A t \in Targets \ {a} : Off(r, t)
    BY <1>2, <1>4, <2>1 DEF Waiting, HasBus, Off
  <2>3. HasBus(r, a, {a}, "none", "none")
    BY <1>2, <1>4, <2>1, <2>2 DEF Waiting, HasBus
  <2>4. QED
    BY <1>2, <1>4, <2>1, <2>3 DEF Waiting, AcksDown
<1>5. QED
  BY <1>3, <1>4

\* RST at the target that waits for ACK: REQ falls, and no target goes on.
LEMMA RstBus ==
  ASSUME NEW s, NEW a \in Targets, Waiting(s, a)
  PROVE  BusFree(Rst(s, a)) /\ Heard(s, Rst(s, a))
<1> DEFINE r == Rst(s, a)
<1>0. /\ HasBus(s, a, {a}, "none", "none") /\ Shape(s) /\ s.target[a].ack = FALSE
      /\ s.target[a].phase \in Busy
  BY DEF Waiting, HasBus
<1> DEFINE off == LetGo(s, a)
<1>1. r = [SetReq(off, a, FALSE) EXCEPT !.target[a].phase = "free"] /\ Gone(s, off, a)
  BY <1>0, BusFreed DEF Rst
<1> HIDE DEF off
<1> DEFINE n == EventReq(off, a, "none")
           m == [n EXCEPT !.host.req = {}]
           w == [m EXCEPT !.host.ready = FALSE]
           f == Fall(w, 0)
           g == Fall(f, 1)
<1>2. SetReq(off, a, FALSE) = g
  <2>1. off.host.req = {a} /\ {a} # {} /\ {a} \ {a} = {}
    BY <1>0, <1>1 DEF HasBus, Gone
  <2>2. QED
    BY <2>1 DEF SetReq, DrivenBy
<1>3. Worked(off, n, a, "none", "none")
  BY <1>1, Steps DEF Gone
<1> HIDE DEF n
<1>4. /\ Shape(w) /\ w.host.req = {} /\ w.host.ready = FALSE /\ w.host.bsy = n.host.bsy /\ w.host.bus = n.host.bus
      /\ w.target = n.target
  BY <1>3 DEF Worked, Shape, HostFields
<1> HIDE DEF w
<1>5. /\ w.host.bsy = {} /\ w.host.bus = s.host.bus /\ w.target[a].ack = FALSE
      /\ w.target[a].selected = FALSE /\ w.target[a].eventPhase = "none" /\ w.target[a].eventReq = "none"
      /\ w.target[a].eventSel = s.target[a].eventSel
      /\ \A t \in Targets \ {a} : w.target[t] = s.target[t] /\ Off(s, t)
  BY <1>0, <1>1, <1>3, <1>4 DEF Gone, Worked, SameLines, SameDev, HasBus

\* A target to which ACK does not matter only loses it.
<1>6. ASSUME NEW x, Shape(x), NEW u \in Targets, x.target[u].phase = "free" \/ x.target[u].ack = FALSE
      PROVE  Acked(x, Fall(x, u), u, FALSE)
  BY <1>6, AckSets DEF Fall
<1>7. 0 \in Targets /\ 1 \in Targets
  BY DEF Targets
<1>8. Acked(w, f, 0, FALSE)
  BY <1>4, <1>5, <1>6, <1>7 DEF Off
<1> HIDE DEF f
<1>9. Acked(f, g, 1, FALSE)
  <2>1. f.target[1] = w.target[1] /\ Shape(f)
    BY <1>7, <1>8 DEF Acked
  <2>2. w.target[1].phase = "free" \/ w.target[1].ack = FALSE
    BY <1>5, <1>7 DEF Off
  <2>3. QED
    BY <1>6, <1>7, <2>1, <2>2
<1> HIDE DEF g
<1>10. /\ Shape(g) /\ SameLines(w, g) /\ AcksDown(g)
       /\ \A t \in Targets : /\ g.target[t].phase = w.target[t].phase
                             /\ g.target[t].selected = w.target[t].selected
                             /\ g.target[t].eventSel = w.target[t].eventSel
                             /\ g.target[t].eventPhase = w.target[t].eventPhase
                             /\ g.target[t].eventReq = w.target[t].eventReq
  BY <1>8, <1>9 DEF Acked, SameLines, AcksDown, Targets
<1>11. /\ Shape(r) /\ r.host = g.host /\ \A t \in Targets \ {a} : r.target[t] = g.target[t]
       /\ r.target[a].phase = "free" /\ r.target[a].ack = g.target[a].ack
       /\ r.target[a].selected = g.target[a].selected /\ r.target[a].eventSel = g.target[a].eventSel
       /\ r.target[a].eventPhase = g.target[a].eventPhase /\ r.target[a].eventReq = g.target[a].eventReq
  <2>1. r = [g EXCEPT !.target[a].phase = "free"]
    BY <1>1, <1>2
  <2> HIDE DEF r
  <2>2. QED
    BY <1>10, <2>1, PhaseFree
<1> HIDE DEF r
<1>12. \A t \in Targets : Off(r, t)
  BY <1>5, <1>10, <1>11 DEF Off
<1>13. AcksDown(r)
  BY <1>10, <1>11 DEF AcksDown
<1>14. BusFree(r)
  BY <1>4, <1>5, <1>10, <1>11, <1>12, <1>13 DEF BusFree, SameLines
<1>15. Heard(s, r)
  BY <1>5, <1>10, <1>11 DEF Heard, SameLines
<1>16. QED
  BY <1>14, <1>15 DEF r

\* A stage is one of the targets and of the lines.
LEMMA SameStage ==
  ASSUME NEW s, NEW r, Shape(s), DOMAIN r = {"target", "host", "image"}, r.target = s.target, r.host = s.host,
         NEW d, BusInv(s, d)
  PROVE  BusInv(r, d)
<1>1. Shape(r)
  BY DEF Shape
<1>2. \A t \in Targets : Off(s, t) => Off(r, t)
  BY DEF Off
<1>3. BusFree(s) => BusFree(r)
  BY <1>1, <1>2 DEF BusFree, AcksDown
<1>4. ASSUME NEW a, NEW req, NEW p, NEW q, HasBus(s, a, req, p, q) PROVE HasBus(r, a, req, p, q)
  BY <1>1, <1>2, <1>4 DEF HasBus
<1>5. \A a : Chosen(s, a) => Chosen(r, a)
  BY <1>4 DEF Chosen, AcksDown
<1>6. \A a : Moves(s, a) => Moves(r, a)
  BY <1>4 DEF Moves, Turning, Rising, Waiting, Falling, AcksDown
<1>7. QED
  BY <1>3, <1>5, <1>6 DEF BusInv, Stage

\* What the invariant says of the shapes.
LEMMA StateShape ==
  ASSUME ScsiInv
  PROVE  Shape(State) /\ driver.to \in Targets /\ DOMAIN driver = DriverFields
BY DEF ScsiInv, BusInv, Stage, BusFree, Chosen, Moves, Turning, Rising, Waiting, Falling, HasBus

\* The invariant of what a step becomes is that of the next state.
LEMMA Became ==
  ASSUME NEW s, Shape(s), Becomes(s), BusInv(s, driver')
  PROVE  ScsiInv'
<1>1. /\ DOMAIN State' = {"target", "host", "image"} /\ State'.target = s.target /\ State'.host = s.host
  BY DEF State, Becomes
<1>2. BusInv(State', driver')
  BY <1>1, SameStage
<1>3. QED
  BY <1>2 DEF ScsiInv

\* What the program may be at while the bus is in use.
LEMMA NotChosen ==
  ASSUME ScsiInv, NEW t \in Targets, target[t].eventPhase # "none" \/ target[t].eventReq # "none" \/ host.req # {}
  PROVE  /\ driver.at \in {"run", "done"} /\ Moves(State, driver.to)
         /\ \A u \in Targets : ~State.target[u].eventSel
<1>1. State.target = target /\ State.host = host
  BY DEF State
<1>2. ~BusFree(State)
  BY <1>1 DEF BusFree, Off
<1>3. ~Chosen(State, driver.to)
  BY <1>1 DEF Chosen, HasBus, Off
<1>4. QED
  BY <1>2, <1>3 DEF ScsiInv, BusInv, Stage

\* SEL and the bus are as they were.
LEMMA HeardInv ==
  ASSUME ScsiInv, NEW r, Heard(State, r), \A u \in Targets : ~State.target[u].eventSel,
         DOMAIN driver' = DriverFields, driver'.to = driver.to, Stage(r, driver')
  PROVE  BusInv(r, driver')
BY StateShape DEF Heard, BusInv

(* One lemma for each step. *)
LEMMA PhaseStep ==
  ASSUME ScsiInv, NEW t \in Targets, PhaseChanges(t)
  PROVE  ScsiInv'
<1> DEFINE a == driver.to
           r == SetPhase(State, t, target[t].eventPhase)
<1>1. State.target = target /\ State.host = host
  BY DEF State
<1>2. driver.at \in {"run", "done"} /\ Moves(State, a) /\ \A u \in Targets : ~State.target[u].eventSel
  BY NotChosen DEF PhaseChanges
<1>3. t = a /\ Turning(State, a)
  BY <1>1, <1>2 DEF PhaseChanges, Moves, Turning, Rising, Waiting, Falling, HasBus, Off
<1>4. Heard(State, r) /\ (BusFree(r) \/ Moves(r, a))
  BY <1>1, <1>3, StateShape, PhaseMoves
<1>5. Becomes(r) /\ driver' = driver
  BY DEF PhaseChanges
<1> HIDE DEF r
<1>6. BusInv(r, driver')
  BY <1>2, <1>4, <1>5, StateShape, HeardInv DEF Stage
<1>7. Shape(r)
  BY <1>4 DEF BusFree, Moves, Turning, Rising, Waiting, Falling, HasBus
<1>8. QED
  BY <1>5, <1>6, <1>7, Became

\* REQ comes up for the target that has the bus.
LEMMA ReqRises ==
  ASSUME NEW s, NEW a \in Targets, Rising(s, a)
  PROVE  Waiting(SetReq(s, a, TRUE), a) /\ Heard(s, SetReq(s, a, TRUE))
<1> DEFINE n == EventReq(s, a, "none")
           m == [n EXCEPT !.host.req = {a}]
           r == [m EXCEPT !.host.ready = TRUE]
<1>1. HasBus(s, a, {}, "none", "high") /\ Shape(s) /\ s.host.req = {} /\ {} \union {a} = {a} /\ {a} # {}
  BY DEF Rising, HasBus
<1>2. SetReq(s, a, TRUE) = r
  BY <1>1 DEF SetReq, DrivenBy
<1>3. Worked(s, n, a, "none", "none")
  BY <1>1, Steps DEF HasBus
<1> HIDE DEF n
<1>4. Shape(r) /\ r.target = n.target /\ r.host.req = {a} /\ r.host.ready = TRUE /\ r.host.bsy = n.host.bsy
      /\ r.host.bus = n.host.bus
  BY <1>3 DEF Worked, Shape, HostFields
<1> HIDE DEF r
<1>5. \A t \in Targets \ {a} : Off(r, t)
  BY <1>1, <1>3, <1>4 DEF Worked, HasBus, Off
<1>6. HasBus(r, a, {a}, "none", "none")
  BY <1>1, <1>3, <1>4, <1>5 DEF Worked, SameLines, SameDev, HasBus
<1>7. AcksDown(s) => AcksDown(r)
  BY <1>3, <1>4 DEF Worked, SameDev, AcksDown
<1>8. Waiting(r, a)
  BY <1>3, <1>4, <1>6, <1>7 DEF Rising, Waiting, Worked, SameDev
<1>9. Heard(s, r)
  BY <1>3, <1>4 DEF Worked, SameLines, SameDev, Heard
<1>10. QED
  BY <1>2, <1>8, <1>9

LEMMA ReqStep ==
  ASSUME ScsiInv, NEW t \in Targets, ReqChanges(t)
  PROVE  ScsiInv'
<1> DEFINE a == driver.to
           r == SetReq(State, t, target[t].eventReq = "high")
<1>1. State.target = target /\ State.host = host
  BY DEF State
<1>2. driver.at \in {"run", "done"} /\ Moves(State, a) /\ \A u \in Targets : ~State.target[u].eventSel
  BY NotChosen DEF ReqChanges
<1>3. t = a /\ (Rising(State, a) \/ Falling(State, a))
  BY <1>1, <1>2 DEF ReqChanges, Moves, Turning, Rising, Waiting, Falling, HasBus, Off
<1>4. Becomes(r) /\ driver' = driver
  BY DEF ReqChanges
<1>5. Moves(r, a) /\ Heard(State, r)
  <2>1. CASE Rising(State, a)
    <3>1. (target[t].eventReq = "high") = TRUE
      BY <1>1, <1>3, <2>1 DEF Rising, HasBus
    <3>2. QED
      BY <1>3, <2>1, <3>1, StateShape, ReqRises DEF Moves
  <2>2. CASE Falling(State, a)
    <3>1. (target[t].eventReq = "high") = FALSE
      BY <1>1, <1>3, <2>2 DEF Falling, HasBus
    <3> DEFINE phase == State.target[a].phase
               f == SetReq(State, a, FALSE)
    <3>2. HasBus(State, a, {a}, "none", "low") /\ phase \in Busy /\ State.target[a].ack = TRUE
      BY <2>2 DEF Falling
    <3>3. Went(f, a, phase) /\ AcksDown(f) /\ Heard(State, f)
      BY <3>2, StateShape, ReqFalls
    <3>4. r = f
      BY <1>3, <3>1
    <3> HIDE DEF f, r
    <3>5. QED
      BY <3>2, <3>3, <3>4, StateShape, WentMoves
  <2>3. QED
    BY <1>3, <2>1, <2>2
<1> HIDE DEF r
<1>6. BusInv(r, driver')
  BY <1>2, <1>4, <1>5, StateShape, HeardInv DEF Stage
<1>7. Shape(r)
  BY <1>5 DEF Moves, Turning, Rising, Waiting, Falling, HasBus
<1>8. QED
  BY <1>4, <1>6, <1>7, Became

LEMMA PortStep ==
  ASSUME ScsiInv, WritePort \/ ReadPort
  PROVE  ScsiInv'
<1> DEFINE a == driver.to
<1>1. State.target = target /\ State.host = host
  BY DEF State
<1>2. driver.at = "run" /\ InTime /\ host.req # {}
  BY DEF WritePort, ReadPort
<1>3. Moves(State, a) /\ \A u \in Targets : ~State.target[u].eventSel
  BY <1>2, NotChosen DEF Targets
<1>4. Waiting(State, a)
  BY <1>1, <1>2, <1>3, StateShape DEF InTime, Moves, Turning, Rising, Falling, HasBus
<1>5. DOMAIN driver' = DriverFields /\ driver'.to = a /\ driver'.at \in {"run", "done"}
  BY <1>2, StateShape DEF WritePort, ReadPort, DriverFields
<1>7. ASSUME NEW s, Becomes(RaiseAck(s)), Waiting(s, a), s.target = target
      PROVE  ScsiInv'
  <2>1. Moves(RaiseAck(s), a) /\ Heard(s, RaiseAck(s))
    BY <1>7, StateShape, RaiseAckMoves
  <2>2. \A u \in Targets : ~RaiseAck(s).target[u].eventSel
    BY <1>1, <1>3, <1>7, <2>1 DEF Heard
  <2>3. BusInv(RaiseAck(s), driver')
    BY <1>5, <2>1, <2>2, StateShape DEF BusInv, Stage
  <2>4. Shape(RaiseAck(s))
    BY <2>1 DEF Moves, Turning, Rising, Waiting, Falling, HasBus
  <2>5. QED
    BY <1>7, <2>3, <2>4, Became
<1>8. CASE ReadPort
  BY <1>1, <1>4, <1>7, <1>8 DEF ReadPort
<1>9. CASE WritePort
  <2> DEFINE s == [State EXCEPT !.host.bus = Byte]
  <2>1. Shape(s) /\ s.target = target /\ s.host.req = host.req /\ s.host.bsy = host.bsy /\ s.host.ready = host.ready
    BY <1>1, StateShape DEF Shape, HostFields
  <2>2. Becomes(RaiseAck(s))
    BY <1>9 DEF WritePort
  <2> HIDE DEF s
  <2>3. Waiting(s, a)
    <3>1. \A t \in Targets : Off(State, t) => Off(s, t)
      BY <1>1, <2>1 DEF Off
    <3>2. QED
      BY <1>1, <1>4, <2>1, <3>1 DEF Waiting, HasBus, AcksDown
  <2>4. QED
    BY <1>7, <2>1, <2>2, <2>3
<1>10. QED
  BY <1>8, <1>9

\* What SEL does to a target: only its event, and the phase it leads to.
SelSet(s, r, t, on) ==
  /\ Shape(r) /\ r.host = s.host /\ r.target[t].eventSel = on
  /\ \A u \in Targets \ {t} : r.target[u] = s.target[u]
  /\ BusFree(s) => BusFree(r)
  /\ \A a \in Targets : Chosen(s, a) => Chosen(r, a)

\* SEL at a target changes only whether it has seen it.
LEMMA SelKeeps ==
  ASSUME NEW s, Shape(s), NEW t \in Targets, NEW on, NEW r, r = [s EXCEPT !.target[t].eventSel = on]
  PROVE  SelSet(s, r, t, on)
<1>1. /\ Shape(r) /\ r.host = s.host /\ r.target[t].eventSel = on
      /\ r.target[t].phase = s.target[t].phase /\ r.target[t].ack = s.target[t].ack
      /\ r.target[t].selected = s.target[t].selected /\ r.target[t].eventPhase = s.target[t].eventPhase
      /\ r.target[t].eventReq = s.target[t].eventReq
      /\ \A u \in Targets \ {t} : r.target[u] = s.target[u]
  BY DEF Shape, DevFields
<1>2. \A u \in Targets : Off(s, u) => Off(r, u)
  BY <1>1 DEF Off
<1>3. AcksDown(s) => AcksDown(r)
  BY <1>1 DEF AcksDown
<1>4. BusFree(s) => BusFree(r)
  BY <1>1, <1>2, <1>3 DEF BusFree
<1>5. ASSUME NEW a \in Targets, Chosen(s, a) PROVE Chosen(r, a)
  <2>1. HasBus(r, a, {}, "none", "none")
    BY <1>1, <1>2, <1>5 DEF Chosen, HasBus
  <2>2. QED
    BY <1>1, <1>3, <1>5, <2>1 DEF Chosen
<1>6. QED
  BY <1>1, <1>4, <1>5 DEF SelSet

LEMMA SelectedStep ==
  ASSUME ScsiInv, NEW t \in Targets, EventSelected(t)
  PROVE  ScsiInv'
<1> DEFINE m == [State EXCEPT !.target[t].eventSel = FALSE]
           bsy == m.host.bsy \union {t}
           r == [m EXCEPT !.host.bsy = bsy, !.target[t].selected = TRUE]
<1>1. State.target = target /\ State.host = host
  BY DEF State
<1>2. driver.at = "select" /\ host.bus = <<"id", driver.to>> /\ (BusFree(State) \/ Chosen(State, driver.to))
  BY <1>1 DEF EventSelected, ScsiInv, BusInv, Stage
<1>3. /\ Shape(m) /\ m.host = State.host /\ m.target[t].eventSel = FALSE
      /\ \A u \in Targets : u # t => m.target[u].eventSel = State.target[u].eventSel
      /\ BusFree(State) => BusFree(m)
      /\ \A a \in Targets : Chosen(State, a) => Chosen(m, a)
  <2>1. SelSet(State, m, t, FALSE)
    BY StateShape, SelKeeps
  <2> HIDE DEF m
  <2>2. QED
    BY <2>1 DEF SelSet
<1>4. driver' = driver /\ (Becomes(m) \/ (host.bus = <<"id", t>> /\ Becomes(r)))
  <2>1. [m EXCEPT !.host.bsy = @ \union {t}, !.target[t].selected = TRUE] = r
    BY <1>3 DEF Shape, HostFields
  <2>2. QED
    BY <2>1 DEF EventSelected
<1> HIDE DEF m
<1>5. BusInv(m, driver)
  BY <1>1, <1>2, <1>3, StateShape DEF ScsiInv, BusInv, Stage
<1>6. CASE Becomes(m)
  BY <1>3, <1>4, <1>5, <1>6, Became
<1>7. CASE host.bus = <<"id", t>> /\ Becomes(r)
  <2> DEFINE a == driver.to
  <2>1. t = a
    BY <1>2, <1>7
  <2> HIDE DEF bsy
  <2>2. /\ Shape(r) /\ r.host.bsy = bsy /\ r.host.req = m.host.req /\ r.host.ready = m.host.ready
        /\ r.host.bus = m.host.bus /\ r.target[t].selected = TRUE
        /\ r.target[t].phase = m.target[t].phase /\ r.target[t].ack = m.target[t].ack
        /\ r.target[t].eventSel = m.target[t].eventSel /\ r.target[t].eventPhase = m.target[t].eventPhase
        /\ r.target[t].eventReq = m.target[t].eventReq
        /\ \A u \in Targets \ {t} : r.target[u] = m.target[u]
    BY <1>3 DEF Shape, HostFields, DevFields
  <2> HIDE DEF r
  <2>3. /\ bsy = {a} /\ m.host.req = {} /\ m.host.ready = FALSE /\ AcksDown(m)
        /\ m.target[t].phase = "free" /\ m.target[t].eventPhase = "none" /\ m.target[t].eventReq = "none"
        /\ \A u \in Targets \ {a} : Off(m, u)
    <3>1. BusFree(m) \/ Chosen(m, a)
      BY <1>2, <1>3, StateShape
    <3>2. CASE BusFree(m)
      BY <2>1, <3>2 DEF BusFree, Off, bsy
    <3>3. CASE Chosen(m, a)
      BY <2>1, <3>3 DEF Chosen, HasBus, bsy
    <3>4. QED
      BY <3>1, <3>2, <3>3
  <2>4. \A u \in Targets \ {a} : Off(r, u)
    BY <2>1, <2>2, <2>3 DEF Off
  <2>5. HasBus(r, a, {}, "none", "none")
    BY <2>1, <2>2, <2>3, <2>4 DEF HasBus
  <2>6. Chosen(r, a)
    BY <2>1, <2>2, <2>3, <2>5 DEF Chosen, AcksDown
  <2>7. \A u \in Targets : r.target[u].eventSel = m.target[u].eventSel
    BY <2>2
  <2>8. BusInv(r, driver')
    BY <1>2, <1>4, <1>5, <2>2, <2>6, <2>7 DEF BusInv, Stage
  <2>9. QED
    BY <1>7, <2>2, <2>8, Became
<1>8. QED
  BY <1>4, <1>6, <1>7

LEMMA SelectStep ==
  ASSUME ScsiInv, NEW t \in Targets, NEW c \in Commands, Select(t, c)
  PROVE  ScsiInv'
<1> DEFINE s == [State EXCEPT !.host.bus = <<"id", t>>]
           f == SelUp(s, 0)
           r == SelUp(f, 1)
<1>1. State.target = target /\ State.host = host /\ 0 \in Targets /\ 1 \in Targets
  BY DEF State, Targets
<1>2. BusFree(State)
  BY DEF Select, ScsiInv, BusInv, Stage
<1>3. Shape(s) /\ s.target = target /\ s.host.req = host.req /\ s.host.bsy = host.bsy /\ s.host.ready = host.ready
      /\ s.host.bus = <<"id", t>>
  BY <1>1, StateShape DEF Shape, HostFields
<1> HIDE DEF s
<1>4. BusFree(s)
  <2>1. \A u \in Targets : Off(s, u)
    BY <1>1, <1>2, <1>3 DEF BusFree, Off
  <2>2. QED
    BY <1>1, <1>2, <1>3, <2>1 DEF BusFree, AcksDown
<1>5. BusFree(f) /\ Shape(f) /\ f.host = s.host
  BY <1>1, <1>3, <1>4, SelKeeps DEF SelUp, SelSet
<1> HIDE DEF f
<1>6. BusFree(r) /\ Shape(r) /\ r.host = s.host
  BY <1>1, <1>5, SelKeeps DEF SelUp, SelSet
<1>7. Becomes(r)
  BY DEF Select, s, f
<1> HIDE DEF r
<1>8. DOMAIN driver' = DriverFields /\ driver'.to = t /\ driver'.at = "select"
  BY StateShape DEF Select, Restarted, DriverFields
<1>9. BusInv(r, driver')
  BY <1>3, <1>6, <1>8 DEF BusInv, Stage
<1>10. QED
  BY <1>6, <1>7, <1>9, Became

\* SEL goes down: the target that answered takes the command.
LEMMA SelDownGives ==
  ASSUME NEW s, Shape(s), NEW t \in Targets, NEW a \in Targets
  PROVE  LET r == SelDown(s, t)
         IN  /\ Shape(r) /\ r.host = s.host /\ r.target[t].eventSel = FALSE
             /\ \A u \in Targets \ {t} : r.target[u] = s.target[u]
             /\ BusFree(s) => BusFree(r)
             /\ Chosen(s, a) => IF t = a THEN Turning(r, a) ELSE Chosen(r, a)
             /\ t # a /\ Turning(s, a) => Turning(r, a)
<1> DEFINE m == [s EXCEPT !.target[t].eventSel = FALSE]
           n == [m EXCEPT !.target[t].command = <<>>]
           e == EventPhase(n, t, "command")
           r == SelDown(s, t)
           chosen == s.target[t].phase = "free" /\ s.target[t].selected
<1>1. r = IF chosen THEN e ELSE m
  BY DEF SelDown
<1>2. /\ Shape(m) /\ m.host = s.host /\ m.target[t].eventSel = FALSE
      /\ BusFree(s) => BusFree(m)
      /\ Chosen(s, a) => Chosen(m, a)
  <2>1. SelSet(s, m, t, FALSE)
    BY SelKeeps
  <2> HIDE DEF m
  <2>2. QED
    BY <2>1 DEF SelSet
<1>3. /\ m.target[t].phase = s.target[t].phase /\ m.target[t].ack = s.target[t].ack
      /\ m.target[t].selected = s.target[t].selected /\ m.target[t].eventPhase = s.target[t].eventPhase
      /\ m.target[t].eventReq = s.target[t].eventReq
      /\ \A u \in Targets \ {t} : m.target[u] = s.target[u]
  BY DEF Shape, DevFields
<1> HIDE DEF m
<1>4. Worked(m, e, t, "command", m.target[t].eventReq)
  <2>1. Worked(m, n, t, m.target[t].eventPhase, m.target[t].eventReq)
    BY <1>2, DataSteps
  <2> HIDE DEF n
  <2>2. Shape(n) /\ n.target[t].eventReq = m.target[t].eventReq
    BY <2>1 DEF Worked
  <2>3. Worked(n, e, t, "command", m.target[t].eventReq)
    BY <2>2, Steps
  <2> HIDE DEF e
  <2>4. QED
    BY <2>1, <2>3, WorkedOn
<1>5. e.host = m.host
  BY <1>2 DEF EventPhase, Shape
<1> HIDE DEF e, r
<1>6. /\ Shape(r) /\ r.host = s.host /\ r.target[t].eventSel = FALSE
      /\ \A u \in Targets \ {t} : r.target[u] = s.target[u]
  <2>1. CASE chosen
    BY <1>1, <1>2, <1>3, <1>4, <1>5, <2>1 DEF Worked, SameDev
  <2>2. CASE ~chosen
    BY <1>1, <1>2, <1>3, <2>2
  <2>3. QED
    BY <2>1, <2>2
<1>7. BusFree(s) => BusFree(r)
  BY <1>1, <1>2 DEF BusFree, Off
<1>8. ASSUME Chosen(s, a), t # a PROVE Chosen(r, a)
  <2>1. ~chosen
    BY <1>8 DEF Chosen, HasBus, Off
  <2>2. QED
    BY <1>1, <1>2, <1>8, <2>1
<1>9. ASSUME Chosen(s, a), t = a PROVE Turning(r, a)
  <2>1. chosen /\ r = e
    BY <1>1, <1>9 DEF Chosen, HasBus
  <2>2. HasBus(m, a, {}, "none", "none") /\ AcksDown(m) /\ m.target[a].phase = "free"
    BY <1>2, <1>9 DEF Chosen
  <2>3. \A u \in Targets \ {a} : Off(e, u)
    BY <1>4, <1>9, <2>2 DEF Worked, HasBus, Off
  <2>4. HasBus(e, a, {}, "command", "none")
    BY <1>4, <1>9, <2>2, <2>3 DEF Worked, SameLines, SameDev, HasBus
  <2>5. AcksDown(e) /\ e.target[a].phase = "free"
    BY <1>4, <1>9, <2>2 DEF Worked, SameDev, AcksDown
  <2>6. QED
    BY <2>1, <2>4, <2>5 DEF Turning, Follows, AcksDown
<1>10. ASSUME Turning(s, a), t # a PROVE Turning(r, a)
  <2>1. ~chosen /\ r = m
    BY <1>1, <1>10 DEF Turning, HasBus, Off
  <2>2. \A u \in Targets : Off(s, u) => Off(m, u)
    BY <1>3 DEF Off
  <2>3. ASSUME NEW p, HasBus(s, a, {}, p, "none") PROVE HasBus(m, a, {}, p, "none")
    BY <1>2, <1>3, <1>10, <2>2, <2>3 DEF HasBus
  <2>4. AcksDown(s) => AcksDown(m)
    BY <1>3 DEF AcksDown
  <2>5. QED
    BY <1>3, <1>10, <2>1, <2>3, <2>4 DEF Turning
<1>11. QED
  BY <1>6, <1>7, <1>8, <1>9, <1>10 DEF r

LEMMA DeselectStep ==
  ASSUME ScsiInv, Deselect
  PROVE  ScsiInv'
<1> DEFINE a == driver.to
           f == SelDown(State, 0)
           r == SelDown(f, 1)
<1>1. State.target = target /\ State.host = host /\ 0 \in Targets /\ 1 \in Targets
  BY DEF State, Targets
<1>2. a \in Targets /\ Shape(State) /\ (BusFree(State) \/ Chosen(State, a))
  BY StateShape DEF Deselect, ScsiInv, BusInv, Stage
<1>3. Becomes(r) /\ DOMAIN driver' = DriverFields /\ driver'.to = a
      /\ driver'.at = IF host.bsy = {} THEN "idle" ELSE "run"
  BY StateShape DEF Deselect, DriverFields
<1>4. /\ Shape(f) /\ f.host = host /\ f.target[0].eventSel = FALSE
      /\ BusFree(State) => BusFree(f)
      /\ Chosen(State, a) => IF 0 = a THEN Turning(f, a) ELSE Chosen(f, a)
  BY <1>1, <1>2, SelDownGives
<1> HIDE DEF f
<1>5. /\ Shape(r) /\ r.host = host /\ r.target[1].eventSel = FALSE /\ r.target[0].eventSel = FALSE
      /\ BusFree(f) => BusFree(r)
      /\ Chosen(f, a) => IF 1 = a THEN Turning(r, a) ELSE Chosen(r, a)
      /\ 1 # a /\ Turning(f, a) => Turning(r, a)
  <2>1. /\ Shape(r) /\ r.host = f.host /\ r.target[1].eventSel = FALSE
        /\ \A u \in Targets \ {1} : r.target[u] = f.target[u]
        /\ BusFree(f) => BusFree(r)
        /\ Chosen(f, a) => IF 1 = a THEN Turning(r, a) ELSE Chosen(r, a)
        /\ 1 # a /\ Turning(f, a) => Turning(r, a)
    BY <1>1, <1>2, <1>4, SelDownGives
  <2> HIDE DEF r
  <2>2. 0 \in Targets \ {1}
    BY <1>1
  <2>3. QED
    BY <1>4, <2>1, <2>2
<1> HIDE DEF r
<1>6. CASE BusFree(State)
  <2>1. host.bsy = {} /\ BusFree(r)
    BY <1>1, <1>4, <1>5, <1>6 DEF BusFree
  <2>2. BusInv(r, driver')
    BY <1>2, <1>3, <1>5, <2>1 DEF BusInv, Stage, Targets
  <2>3. QED
    BY <1>3, <1>5, <2>2, Became
<1>7. CASE Chosen(State, a)
  <2>1. host.bsy # {}
    BY <1>1, <1>7 DEF Chosen, HasBus
  <2>2. Turning(r, a)
    BY <1>2, <1>4, <1>5, <1>7 DEF Targets
  <2>3. BusInv(r, driver')
    BY <1>2, <1>3, <1>5, <2>1, <2>2 DEF BusInv, Stage, Targets, Moves
  <2>4. QED
    BY <1>3, <1>5, <2>3, Became
<1>8. QED
  BY <1>2, <1>6, <1>7

LEMMA RstStep ==
  ASSUME ScsiInv, ~Abrupt, RstPort
  PROVE  ScsiInv'
<1> DEFINE a == driver.to
           f == Rst(State, 0)
           r == Rst(f, 1)
<1>1. State.target = target /\ State.host = host /\ 0 \in Targets /\ 1 \in Targets
  BY DEF State, Targets
<1>2. driver.at = "run" /\ InTime /\ host.req # {} /\ Becomes(r)
  BY DEF RstPort
<1>3. Moves(State, a) /\ \A u \in Targets : ~State.target[u].eventSel
  BY <1>1, <1>2, NotChosen
<1>4. Waiting(State, a) /\ a \in Targets /\ Shape(State)
  BY <1>1, <1>2, <1>3, StateShape DEF InTime, Moves, Turning, Rising, Falling, HasBus
<1>5. DOMAIN driver' = DriverFields /\ driver'.to = a /\ driver'.at = "idle"
  BY StateShape DEF RstPort, UpsetAndIdle, Restarted, DriverFields
<1>6. BusFree(r) /\ Heard(State, r)
  <2>1. CASE a = 0
    <3>1. BusFree(f) /\ Heard(State, f)
      BY <1>4, <2>1, RstBus
    <3> HIDE DEF f
    <3>2. Shape(f) /\ Off(f, 1)
      BY <1>1, <3>1 DEF BusFree
    <3>3. BusFree(r) /\ Heard(f, r)
      BY <1>1, <3>1, <3>2, RstOff
    <3>4. QED
      BY <3>1, <3>3 DEF Heard
  <2>2. CASE a = 1
    <3>1. Off(State, 0) /\ 1 \in Targets \ {0}
      BY <1>1, <1>4, <2>2 DEF Waiting, HasBus
    <3>2. Waiting(State, 1)
      BY <1>4, <2>2
    <3>3. Waiting(f, 1) /\ Heard(State, f)
      BY <1>1, <1>4, <3>1, <3>2, RstOff
    <3> HIDE DEF f
    <3>4. BusFree(r) /\ Heard(f, r)
      BY <1>1, <3>3, RstBus
    <3>5. QED
      BY <3>3, <3>4 DEF Heard
  <2>3. QED
    BY <1>4, <2>1, <2>2 DEF Targets
<1> HIDE DEF r
<1>7. BusInv(r, driver')
  BY <1>3, <1>4, <1>5, <1>6 DEF BusInv, Stage, Heard
<1>8. QED
  BY <1>2, <1>6, <1>7, Became DEF BusFree

LEMMA AtResetFree ==
  ASSUME NEW s, DOMAIN s = {"target", "host", "image"}, s.host = HostAtReset, DOMAIN s.target = Targets,
         NEW buffers, \A t \in Targets : s.target[t] = [AtReset EXCEPT !.buffer = buffers[t]]
  PROVE  BusFree(s) /\ \A t \in Targets : ~s.target[t].eventSel
<1>1. ASSUME NEW t \in Targets
      PROVE  /\ DOMAIN s.target[t] = DevFields
             /\ s.target[t].ack = FALSE /\ Off(s, t) /\ ~s.target[t].eventSel
  <2> DEFINE buffer == buffers[t]
  <2>1. s.target[t] = [AtReset EXCEPT !.buffer = buffer]
    OBVIOUS
  <2> HIDE DEF buffer
  <2>2. QED
    BY <2>1 DEF AtReset, DevFields, Off
<1>2. Shape(s)
  BY <1>1 DEF Shape, HostAtReset, HostFields
<1>3. /\ s.host.req = {} /\ s.host.bsy = {} /\ s.host.ready = FALSE
  BY DEF HostAtReset
<1>4. BusFree(s)
  BY <1>1, <1>2, <1>3 DEF BusFree, AcksDown
<1>5. QED
  BY <1>1, <1>4

LEMMA ScsiInitInv ==
  ASSUME ScsiInit
  PROVE  ScsiInv
<1>1. AtReset = [AtReset EXCEPT !.buffer = <<>>]
  BY DEF AtReset
<1> DEFINE buffers == [t \in Targets |-> <<>>]
<1>2. \A t \in Targets : State.target[t] = [AtReset EXCEPT !.buffer = buffers[t]]
  BY <1>1 DEF ScsiInit, State
<1> HIDE DEF buffers
<1>3. BusFree(State) /\ \A t \in Targets : ~State.target[t].eventSel
  BY <1>2, AtResetFree DEF ScsiInit, State
<1>4. driver.at = "idle" /\ driver.to \in Targets /\ DOMAIN driver = DriverFields
  BY DEF ScsiInit, Idle, Targets, DriverFields
<1>5. QED
  BY <1>3, <1>4 DEF ScsiInv, BusInv, Stage

LEMMA ResetStep ==
  ASSUME ScsiInv, Reset
  PROVE  ScsiInv'
<1> DEFINE s == [target |-> target', host |-> host', image |-> image']
           buffers == [t \in Targets |-> target[t].buffer]
<1>1. /\ \A t \in Targets : s.target[t] = [AtReset EXCEPT !.buffer = buffers[t]]
      /\ DOMAIN s.target = Targets /\ s.host = HostAtReset /\ DOMAIN s = {"target", "host", "image"}
  BY DEF Reset
<1> HIDE DEF buffers
<1>2. State' = s
  BY DEF State
<1> HIDE DEF s
<1>3. BusFree(s) /\ \A t \in Targets : ~s.target[t].eventSel
  BY <1>1, AtResetFree
<1>4. driver'.at = "idle" /\ driver'.to \in Targets /\ DOMAIN driver' = DriverFields
  BY StateShape DEF Reset, UpsetAndIdle, Restarted, DriverFields
<1>5. BusInv(s, driver')
  BY <1>3, <1>4 DEF BusInv, Stage
<1>6. QED
  BY <1>2, <1>5 DEF ScsiInv

\* What leaves the bus as it is.
LEMMA QuietStep ==
  ASSUME ScsiInv, UNCHANGED <<target, host>>, DOMAIN driver' = DriverFields, driver'.to = driver.to,
         driver'.at = driver.at \/ (driver'.at = "idle" /\ driver.at = "done" /\ host.bsy = {})
  PROVE  ScsiInv'
<1>1. State.target = target /\ State.host = host
  BY DEF State
<1>2. BusInv(State, driver')
  <2>1. CASE driver'.at = driver.at
    BY <2>1 DEF ScsiInv, BusInv, Stage
  <2>2. CASE driver'.at = "idle" /\ driver.at = "done" /\ host.bsy = {}
    <3>1. ~Moves(State, driver.to)
      BY <1>1, <2>2 DEF Moves, Turning, Rising, Waiting, Falling, HasBus
    <3>2. QED
      BY <2>2, <3>1 DEF ScsiInv, BusInv, Stage
  <2>3. QED
    BY <2>1, <2>2
<1>3. /\ DOMAIN State' = {"target", "host", "image"} /\ State'.target = State.target /\ State'.host = State.host
  BY DEF State
<1>4. BusInv(State', driver')
  BY <1>2, <1>3, StateShape, SameStage
<1>5. QED
  BY <1>4 DEF ScsiInv

LEMMA ScsiStep ==
  ASSUME ScsiInv, ~Abrupt, [ScsiNext]_scsiVars
  PROVE  ScsiInv'
<1>1. ASSUME NEW t \in Targets, EventSelected(t) PROVE ScsiInv'
  BY <1>1, SelectedStep
<1>2. ASSUME NEW t \in Targets, PhaseChanges(t) PROVE ScsiInv'
  BY <1>2, PhaseStep
<1>3. ASSUME NEW t \in Targets, ReqChanges(t) PROVE ScsiInv'
  BY <1>3, ReqStep
<1>4. ASSUME NEW t \in Targets, NEW c \in Commands, Select(t, c) PROVE ScsiInv'
  BY <1>4, SelectStep
<1>5. CASE Deselect
  BY <1>5, DeselectStep
<1>6. CASE WritePort \/ ReadPort
  BY <1>6, PortStep
<1>7. CASE Done
  BY <1>7, StateShape, QuietStep DEF Done, Restarted, DriverFields
<1>8. CASE RstPort
  BY <1>8, RstStep
<1>9. CASE Reset
  BY <1>9, ResetStep
<1>10. ASSUME NEW u \in Units, Insert(u) \/ Eject(u) PROVE ScsiInv'
  BY <1>10, StateShape, QuietStep DEF Insert, Eject, Upset, DriverFields
<1>11. CASE UNCHANGED scsiVars
  BY <1>11, StateShape, QuietStep DEF scsiVars
<1>12. QED
  BY <1>1, <1>2, <1>3, <1>4, <1>5, <1>6, <1>7, <1>8, <1>9, <1>10, <1>11 DEF ScsiNext

LEMMA ScsiInvGives ==
  ASSUME ScsiInv
  PROVE  NeverStuck /\ (driver.at = "run" => \A t \in host.bsy : t = driver.to)
<1>1. State.target = target /\ State.host = host
  BY DEF State
<1>2. CASE BusFree(State)
  BY <1>1, <1>2 DEF NeverStuck, BusFree, Off
<1>3. CASE Chosen(State, driver.to) /\ driver.at = "select"
  BY <1>1, <1>3 DEF NeverStuck, Chosen, HasBus, Off
<1>4. CASE Moves(State, driver.to)
  BY <1>1, <1>4 DEF NeverStuck, Moves, Turning, Rising, Waiting, Falling, Follows, HasBus, Off
<1>5. QED
  BY <1>2, <1>3, <1>4 DEF ScsiInv, BusInv, Stage

\* For any images, commands, buffer room and order of the events, of the program's
\* steps and of the units' inserts and ejects: a target that has BSY or a phase
\* has an event of its own to come, or REQ up and will see the program's ACK, so
\* the exchange goes on (SCSI_DEV::event_callback and write_signal); READY of the
\* DMA is REQ (SCSI_HOST::write_signal); and while a program is at its command only the
\* target it chose is on the bus. A reset in the middle of data is left out: it
\* leaves ACK up at a target, which the next command's first byte does not see.
THEOREM BusIsNeverStuck ==
  ASSUME ScsiBusAssumption, ~Abrupt
  PROVE  ScsiSpec => [](NeverStuck /\ (driver.at = "run" => \A t \in host.bsy : t = driver.to))
<1>1. ScsiInit => ScsiInv
  BY ScsiInitInv
<1>2. ScsiInv /\ [ScsiNext]_scsiVars => ScsiInv'
  BY ScsiStep
<1>3. ScsiInv => NeverStuck /\ (driver.at = "run" => \A t \in host.bsy : t = driver.to)
  BY ScsiInvGives
<1>4. QED
  BY <1>1, <1>2, <1>3, PTL DEF ScsiSpec
===============================================================================

------------------------------ MODULE FloppyMedia -----------------------------
(***************************************************************************)
(* The disks in the drives, as four parts of the program see them: the     *)
(* drive menus (driveSet and driveIndex), EMU's floppy_disk_status with    *)
(* its deferred insert, the drive of the machine (DISK), and a saved state.*)
(*                                                                         *)
(* A disk is an image file and a bank of it.  Menu actions, saving and     *)
(* loading run on the application's thread; frames on the emulation thread *)
(* between them, except while a load has the machine parked (module        *)
(* EmuThreads).  A file may disappear at any time.                         *)
(***************************************************************************)
EXTENDS Naturals

CONSTANTS
  Drives, Disks,
  NoDisk,
  Wait,         \* frames an insert is deferred by: half a second
  Guard,        \* frames restoreDrives runs at most (300 in the code)
  SavesSettled  \* states are saved only while no insert is pending

ASSUME FloppyMediaAssumption ==
  /\ Wait \in Nat \ {0} /\ Guard \in Nat /\ Guard >= Wait
  /\ NoDisk \notin Disks /\ SavesSettled \in BOOLEAN

VARIABLES
  files,     \* the disks whose image file exists
  menu,      \* the disk the drive's menu names
  path,      \* floppy_disk_status[drv].path
  wait,      \* floppy_disk_status[drv].wait_count
  drive,     \* the disk in the machine's drive
  stage,     \* what the application's thread is doing
  guard,     \* frames restoreDrives has run
  captured,  \* the drives in the blob a save is writing
  saved      \* a state: the menus' disks and the drives', or none

mediaVars == <<menu, path, wait, drive>>
stateVars == <<stage, guard, captured, saved>>
vars == <<files, mediaVars, stateVars>>

InDrives == [Drives -> Disks \union {NoDisk}]
Empty    == [d \in Drives |-> NoDisk]

TypeOK ==
  /\ files \subseteq Disks
  /\ menu \in InDrives /\ path \in InDrives /\ drive \in InDrives
  /\ wait \in [Drives -> 0..Wait]
  /\ stage \in {"idle", "captured", "mounted", "applied"}
  /\ guard \in 0..Guard
  /\ captured \in InDrives
  /\ saved = {} \/ \E m, v \in InDrives : saved = {[menu |-> m, drive |-> v]}

Init ==
  /\ files = Disks
  /\ menu = Empty /\ path = Empty /\ drive = Empty /\ wait = [d \in Drives |-> 0]
  /\ stage = "idle" /\ guard = 0 /\ captured = Empty /\ saved = {}

-----------------------------------------------------------------------------
\* Mutant: opening a disk adds to what is there instead of replacing it.
OpenKeeps(x, was) == IF was # NoDisk THEN was ELSE IF x \in files THEN x ELSE NoDisk

\* DISK::open: the same disk stays as it is, another is closed first.
Open(x, was) == IF was = x \/ x \in files THEN x ELSE NoDisk

\* Mutant: the disk in the drive is replaced at once.
InsertedAtOnce(want, d) ==
  [path |-> want, wait |-> 0, drive |-> Open(want, NoDisk)]

\* Mutant: every further insert waits on top of the one pending.
InsertedWaitsMore(want, d) ==
  [path  |-> want,
   wait  |-> IF drive[d] = NoDisk /\ wait[d] = 0 THEN 0 ELSE wait[d] + Wait,
   drive |-> IF drive[d] = NoDisk /\ wait[d] = 0 THEN Open(want, NoDisk)
                                                 ELSE NoDisk]

\* Mutant: an insert that is pending is not to be changed.
InsertedFirstWins(want, d) ==
  [path  |-> IF wait[d] > 0 THEN path[d] ELSE want,
   wait  |-> IF drive[d] # NoDisk THEN Wait ELSE wait[d],
   drive |-> IF drive[d] = NoDisk /\ wait[d] = 0 THEN Open(want, NoDisk)
                                                 ELSE NoDisk]

(* EMU::open_floppy_disk: a disk in the drive is ejected and the insert    *)
(* deferred; with an insert pending only its path changes.                 *)
Inserted(want, d) ==
  [path  |-> want,
   wait  |-> IF drive[d] # NoDisk THEN Wait ELSE wait[d],
   drive |-> IF drive[d] = NoDisk /\ wait[d] = 0 THEN Open(want, NoDisk)
                                                 ELSE NoDisk]

\* EMU::close_floppy_disk.
Ejected == [path |-> NoDisk, wait |-> 0, drive |-> NoDisk]

SetDrives(new) ==
  /\ path'  = [d \in Drives |-> new[d].path]
  /\ wait'  = [d \in Drives |-> new[d].wait]
  /\ drive' = [d \in Drives |-> new[d].drive]

Now == [d \in Drives |-> [path |-> path[d], wait |-> wait[d], drive |-> drive[d]]]

\* mountAt, from a drive menu or loadMedia; an image that is gone is refused.
MountAt(d, x) ==
  /\ stage = "idle" /\ x \in files
  /\ menu' = [menu EXCEPT ![d] = x]
  /\ SetDrives([Now EXCEPT ![d] = Inserted(x, d)])
  /\ UNCHANGED <<files, stateVars>>

EjectFloppy(d) ==
  /\ stage = "idle"
  /\ menu' = [menu EXCEPT ![d] = NoDisk]
  /\ SetDrives([Now EXCEPT ![d] = Ejected])
  /\ UNCHANGED <<files, stateVars>>

\* EMU::reset with a changed setting: a new VM, and restore_media, which
\* inserts what EMU has a path for whether or not an insert is pending.
RebuildVm ==
  /\ stage = "idle"
  /\ drive' = [d \in Drives |-> IF path[d] = NoDisk THEN NoDisk
                                ELSE Open(path[d], NoDisk)]
  /\ UNCHANGED <<files, menu, path, wait, stateVars>>

\* Mutant: the pending insert is forgotten one frame early.
MediaAfterFrameLost ==
  [d \in Drives |->
     [path  |-> path[d],
      wait  |-> IF wait[d] <= 1 THEN 0 ELSE wait[d] - 1,
      drive |-> drive[d]]]

\* EMU::update_media, at the start of every frame.
MediaAfterFrame ==
  [d \in Drives |->
     [path  |-> path[d],
      wait  |-> IF wait[d] = 0 THEN 0 ELSE wait[d] - 1,
      drive |-> IF wait[d] = 1 THEN Open(path[d], drive[d]) ELSE drive[d]]]

RunFrame ==
  /\ stage \in {"idle", "captured"}
  /\ SetDrives(MediaAfterFrame)
  /\ UNCHANGED <<files, menu, stateVars>>

\* A file is deleted or its volume goes away.
LoseFile(x) ==
  /\ x \in files /\ files' = files \ {x}
  /\ UNCHANGED <<mediaVars, stateVars>>

-----------------------------------------------------------------------------
(* saveStateTo: the machine is captured while it is parked, and what the   *)
(* menus say is added once it runs again.                                  *)
Capture ==
  /\ stage = "idle"
  /\ SavesSettled => \A d \in Drives : wait[d] = 0
  /\ stage' = "captured" /\ captured' = drive
  /\ UNCHANGED <<files, mediaVars, guard, saved>>

AddMeta ==
  /\ stage = "captured" /\ stage' = "idle"
  /\ saved' = {[menu |-> menu, drive |-> captured]}
  /\ captured' = Empty
  /\ UNCHANGED <<files, mediaVars, guard>>

\* restoreDrives, with the machine parked: the disk each drive is to get.
Wanted(s, d) == IF s.menu[d] \in files THEN s.menu[d] ELSE NoDisk

MountSaved ==
  /\ stage = "idle" /\ saved # {}
  /\ \E s \in saved :
       /\ menu' = [d \in Drives |-> Wanted(s, d)]
       /\ SetDrives([d \in Drives |-> IF Wanted(s, d) = NoDisk THEN Ejected
                                      ELSE Inserted(Wanted(s, d), d)])
  /\ stage' = "mounted" /\ guard' = 0
  /\ UNCHANGED <<files, captured, saved>>

\* Mutant: the state is applied at once.
NotYetInserted == FALSE

InsertsPending == \E d \in Drives : menu[d] # NoDisk /\ drive[d] = NoDisk

\* It runs frames until every insert has landed, or the guard is up.
AwaitInserts ==
  /\ stage = "mounted" /\ InsertsPending /\ guard < Guard
  /\ SetDrives(MediaAfterFrame)
  /\ guard' = guard + 1
  /\ UNCHANGED <<files, menu, stage, captured, saved>>

\* bx1_vm_state_load: the blob, or the machine as it was when it is bad.
ApplyState(good) ==
  /\ stage = "mounted" /\ ~(InsertsPending /\ guard < Guard)
  /\ stage' = "applied" /\ guard' = 0
  /\ \E s \in saved : drive' = IF good THEN s.drive ELSE drive
  /\ UNCHANGED <<files, menu, path, wait, captured, saved>>

LoadEnds ==
  /\ stage = "applied" /\ stage' = "idle"
  /\ UNCHANGED <<files, mediaVars, guard, captured, saved>>

Loading == AwaitInserts \/ (\E good \in BOOLEAN : ApplyState(good)) \/ LoadEnds

Next ==
  \/ \E d \in Drives : EjectFloppy(d) \/ \E x \in Disks : MountAt(d, x)
  \/ RebuildVm \/ RunFrame \/ Capture \/ AddMeta \/ MountSaved \/ Loading
  \/ \E x \in Disks : LoseFile(x)

Spec == Init /\ [][Next]_vars

\* The emulation thread runs frames, and what the application's thread has
\* begun it finishes.
FairSpec == Spec /\ WF_vars(RunFrame) /\ WF_vars(AddMeta) /\ WF_vars(Loading)

-----------------------------------------------------------------------------
\* What a drive's menu names is what EMU would put back in that drive.
MenuIsPath == menu = path

\* "Puts the disks the state was taken with back in the drives": when a load
\* is over, a drive whose menu names a disk that exists holds it.
DrivesRestored ==
  stage = "applied" =>
    \A d \in Drives : menu[d] \in files => drive[d] = menu[d]

\* "Let every insert land first, then apply the state on top": nothing is
\* left that would overwrite the restored disks later.
NothingLandsLater == stage = "applied" => \A d \in Drives : wait[d] = 0

\* "So the guest notices the swap": but for a state that is being loaded,
\* a drive is empty between two disks.
SwapIsSeen ==
  [][\A d \in Drives : drive[d] # NoDisk /\ drive'[d] # NoDisk /\ stage # "mounted"
                         => drive'[d] = drive[d]]_vars

\* A disk a menu names gets into the drive.
DiskArrives ==
  \A d \in Drives, x \in Disks :
    menu[d] = x ~> drive[d] = x \/ menu[d] # x \/ x \notin files
=============================================================================

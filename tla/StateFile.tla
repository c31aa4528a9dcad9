------------------------------ MODULE StateFile ------------------------------
(***************************************************************************)
(* One save-state slot: savestate.nim writes the container beside the slot *)
(* and moves it over it, bubix1_api.cpp dumps and applies the devices.     *)
(*                                                                         *)
(* A file is its sections and how many of its parts (the header with its   *)
(* table, then the sections in order) are written.  The blob is what the   *)
(* devices wrote one after the other, and the end marker; a device's state *)
(* is the moment it was taken at.  The program may die at any step, which  *)
(* leaves any prefix of a file being written.                              *)
(***************************************************************************)
EXTENDS Naturals, Sequences

CONSTANTS NumDevices,  \* devices of the machine, in the order of the stream
          MaxMoment,   \* bound on the moments the machine goes through
          DiskFills    \* writes of the core may fall short, which it ignores

StateFileAssumption ==
  NumDevices \in Nat \ {0} /\ MaxMoment \in Nat /\ DiskFills \in BOOLEAN

VARIABLES machine,   \* the state of every device
          slot, tmp, \* the slot's file and the one beside it
          blob,      \* the scratch file of a save
          saving,    \* where saveStateTo is
          kept,      \* the slot when the last save began (history)
          outcome    \* of the load just made

fileVars == <<machine, slot, tmp, blob, saving, kept, outcome>>

Devices == 1..NumDevices
Moments == 0..MaxMoment
Spoilt  == MaxMoment + 1         \* a device that read zeros past the end
States  == [Devices -> 0..Spoilt]

\* What a file of another build leads to: device "refused" does not know it.
Blobs == [body : UNION {[1..n -> 0..Spoilt] : n \in 0..NumDevices},
          end : BOOLEAN, refused : {0} \cup Devices]
NoBlob == [body |-> <<>>, end |-> FALSE, refused |-> 0]

NoFile == [parts |-> 0, sections |-> <<>>, blob |-> NoBlob]
Sections == {<<"vm", "meta">>, <<"vm", "meta", "thumb">>}
Files == {NoFile} \cup [parts : 0..4, sections : Sections, blob : Blobs]

Whole(f) == f # NoFile /\ f.parts = 1 + Len(f.sections)

FileTypeOK ==
  /\ machine \in States /\ slot \in Files /\ tmp \in Files /\ kept \in Files
  /\ blob \in Blobs /\ saving \in {"no", "captured", "writing", "closed"}
  /\ outcome \in {"none", "refused", "failed", "applied"}

Foreign(k) == [body |-> [d \in Devices |-> 0], end |-> TRUE, refused |-> k]

\* The slot is empty, or holds what another build with these devices saved.
FileInit ==
  /\ machine = [d \in Devices |-> 0]
  /\ slot \in {NoFile} \cup
       {[parts |-> 3, sections |-> <<"vm", "meta">>, blob |-> Foreign(k)] : k \in Devices}
  /\ tmp = NoFile /\ blob = NoBlob /\ saving = "no" /\ kept = slot /\ outcome = "none"

RunFrame ==
  /\ saving = "no" /\ \A d \in Devices : machine[d] < MaxMoment
  /\ machine' = [d \in Devices |-> machine[1] + 1]
  /\ outcome' = "none"
  /\ UNCHANGED <<slot, tmp, blob, saving, kept>>

(* -------------------------- the device stream -------------------------- *)
Complete(m) == [body |-> m, end |-> TRUE, refused |-> 0]
Short(m) == {[body |-> SubSeq(m, 1, n), end |-> FALSE, refused |-> 0] : n \in 0..NumDevices}

\* dump_vm_state, whose writes are not looked at.
Dumps(m) == {Complete(m)} \cup (IF DiskFills THEN Short(m) ELSE {})

Accepted(b) == b.end /\ b.refused = 0

\* Devices that take their state before one refuses, or the stream ends.
Taken(b) == IF b.refused > 0 THEN b.refused - 1 ELSE Len(b.body)

\* apply_vm_state: the end marker is looked at when all devices have read.
Applied(b, m) ==
  LET upTo(spoils) == [d \in Devices |->
        IF d <= Taken(b) THEN b.body[d]
        ELSE IF spoils /\ b.refused = 0 /\ d = Taken(b) + 1 THEN Spoilt ELSE m[d]]
  IN {upTo(spoils) : spoils \in BOOLEAN}

(* ------------------------------ saving --------------------------------- *)
\* withMachineParked: the blob and the picture are of one moment.
Capture ==
  /\ saving = "no" /\ saving' = "captured"
  /\ blob' \in Dumps(machine)
  /\ kept' = slot /\ outcome' = "none"
  /\ UNCHANGED <<machine, slot, tmp>>

\* Mutant: the container is written where it belongs at once.
OpenSlot ==
  /\ saving = "captured" /\ saving' = "writing"
  /\ \E s \in Sections : slot' = [parts |-> 0, sections |-> s, blob |-> blob] /\ tmp' = slot'
  /\ UNCHANGED <<machine, blob, kept, outcome>>

\* A state without a picture is a state.
OpenTmp ==
  /\ saving = "captured" /\ saving' = "writing"
  /\ \E s \in Sections : tmp' = [parts |-> 0, sections |-> s, blob |-> blob]
  /\ UNCHANGED <<machine, slot, blob, kept, outcome>>

WritePart ==
  /\ saving = "writing"
  /\ IF Whole(tmp) THEN saving' = "closed" /\ UNCHANGED tmp
                   ELSE tmp' = [tmp EXCEPT !.parts = @ + 1] /\ UNCHANGED saving
  /\ UNCHANGED <<machine, slot, blob, kept, outcome>>

\* moveFile; the scratch file is removed.
Move ==
  /\ saving = "closed" /\ saving' = "no"
  /\ slot' = tmp /\ tmp' = NoFile /\ blob' = NoBlob
  /\ UNCHANGED <<machine, kept, outcome>>

\* Any of these raises: a message, and the rest is not done.
SaveFails ==
  /\ saving \in {"captured", "writing", "closed"} /\ saving' = "no"
  /\ blob' = NoBlob
  /\ UNCHANGED <<machine, slot, tmp, kept, outcome>>

(* ------------------------------ loading -------------------------------- *)
\* readInfo and extractVm: the header, the metadata and the machine's section.
Readable(f) == f.parts >= 3

\* Mutant: the machine is left as far as the load got.
RolledBackNot(m) == {m}

\* bx1_vm_state_load, when a device refused or the marker is not there.
RolledBack(m) == UNION {Applied(back, m) : back \in Dumps(machine)}

Load ==
  /\ saving = "no" /\ slot # NoFile
  /\ IF ~Readable(slot) THEN outcome' = "refused" /\ UNCHANGED machine
     ELSE \/ outcome' = "failed" /\ UNCHANGED machine   \* no rollback file
          \/ \E m \in Applied(slot.blob, machine) :
               IF Accepted(slot.blob)
               THEN outcome' = "applied" /\ machine' = m
               ELSE outcome' = "failed" /\ machine' \in RolledBack(m)
  /\ UNCHANGED <<slot, tmp, blob, saving, kept>>

\* The program dies and is started again.
Crash ==
  /\ machine' = [d \in Devices |-> 0]
  /\ \E n \in 0..4 :
       IF saving = "writing" THEN n <= tmp.parts /\ tmp' = [tmp EXCEPT !.parts = n]
       ELSE n = 0 /\ UNCHANGED tmp
  /\ saving' = "no" /\ blob' = NoBlob /\ outcome' = "none"
  /\ UNCHANGED <<slot, kept>>

FileNext == RunFrame \/ Capture \/ OpenTmp \/ WritePart \/ Move \/ SaveFails \/ Load \/ Crash

FileSpec == FileInit /\ [][FileNext]_fileVars

(* ----------------------------- properties ------------------------------ *)
\* "A crash midway cannot leave a half-written slot where a working one used
\* to be" (savestate.nim): the slot is what it was when the last save began,
\* or a whole file with a machine of one moment in it.
CrashKeepsAState ==
  \/ slot = kept
  \/ /\ Whole(slot) /\ Accepted(slot.blob)
     /\ \A d \in Devices : slot.blob.body[d] = slot.blob.body[1]

\* A load gives the machine the slot's state or leaves it as it is: what a
\* device refused after others had taken theirs is taken back.
AllOrNothing ==
  /\ outcome' \in {"refused", "failed"} => machine' = machine
  /\ outcome' = "applied" => machine' = slot.blob.body

LoadIsAllOrNothing == [][AllOrNothing]_fileVars
==============================================================================

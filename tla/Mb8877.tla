-------------------------------- MODULE Mb8877 --------------------------------
(***************************************************************************)
(* The floppy disk controller (core/vm/mb8877.cpp) on its event manager.   *)
(*                                                                         *)
(* A command is a chain of events: SEEK ... SEEKEND for the head, SEARCH   *)
(* for the sector, then DRQ and LOST in turn for every byte, MULTI1 and    *)
(* MULTI2 between the sectors of one command.  Each event carries the      *)
(* command type it was registered under (timer); how long it takes is left *)
(* out, so any event in line may be the next, MULTI1 before MULTI2.        *)
(*                                                                         *)
(* A disk is, for every track, the sequence of its sectors' kinds, sector  *)
(* number r at place r; ids name their own track, and a disk has one side. *)
(* Bytes, deleted marks, timing, special disks and noise are left out, and *)
(* so are the two status bits that are made anew at every read (NOTREADY,  *)
(* WRITEP).  Status bits that share a bit of the register share a name:    *)
(* drq is the index hole, lost is track 0, nf the seek error and fault the *)
(* engaged head of a type 1 command.                                       *)
(***************************************************************************)
EXTENDS Naturals, Sequences

CONSTANTS Drives,       \* MAX_DRIVE of them
          MaxTrack,     \* tracks are 0..MaxTrack: get_max_tracks() - 1
          Size,         \* bytes of a sector
          AddrSize,     \* bytes of an id field, 6
          TrackSize,    \* bytes of a track, get_track_size()
          Blank,        \* the sectors of every track of a disk put in
          Program,      \* the command bytes the program writes
          Overlaps,     \* a program may start over what is not finished
          MaxCommands,  \* bound on register writes that start a command
          MaxUpsets     \* bound on what a user and other devices do to it

Tracks == 0..MaxTrack
Kinds  == {"good", "badData", "badId", "noMark"}

Reads     == {"rdSec", "rdMsec", "rdAddr", "rdTrk"}
WrSectors == {"wrSec", "wrMsec"}
Writes    == WrSectors \cup {"wrTrk"}
SecTypes  == {"rdSec", "rdMsec"} \cup WrSectors
Transfers == Reads \cup Writes
CmdTypes  == {"none", "type1"} \cup Transfers
Events    == {"seek", "seekEnd", "search", "drq", "multi1", "multi2", "lost"}
Off       == "off"
Bits      == {"busy", "drq", "lost", "crc", "nf", "fault"}
Secs      == 0..(TrackSize + 1)
\* Bytes of a track: F7, a data mark (F8, FB), any other but F5 and F6.
Bytes     == {"crc", "mark", "data"}

\* A command byte: its group, bit 4, and bit 2 (a force interrupt: any low bit).
Ops == {"restore", "seek", "step", "stepIn", "stepOut", "rd", "wr",
        "rdAddr", "rdTrk", "wrTrk", "forceInt", "unknown"}
CmdBytes == [op : Ops, bit4 : BOOLEAN, bit2 : BOOLEAN]
Nothing  == [op |-> "restore", bit4 |-> FALSE, bit2 |-> FALSE]

ASSUME Mb8877Assumption ==
  /\ Drives # {} /\ MaxTrack \in Nat
  /\ Size \in Nat \ {0} /\ AddrSize \in Nat \ {0} /\ TrackSize \in Nat \ {0}
  /\ Blank \in [Tracks -> Seq(Kinds)]
  /\ Program \subseteq CmdBytes
  /\ Overlaps \in BOOLEAN /\ MaxCommands \in Nat /\ MaxUpsets \in Nat

VARIABLES
  cmdreg, cmdtype, status, statusTmp, trkreg, secreg,
  seektrk, seekOut,          \* seektrk, seekvct
  drvreg, motorOn,
  nowSearch, nowSeek, sectorChanged,
  timer,                     \* register_id[], with the type in the event id
  irq, drq,                  \* the output lines
  head, index,               \* fdc[].track, fdc[].index
  cur,                       \* the sector the disk's pointer is at
  form,                      \* id_written, sector_found, sector_index
  inserted, protected, sectors,  \* disk[]
  moved,                     \* bytes moved since the search ended (history)
  commands, upsets           \* bounds

cmdVars   == <<cmdreg, cmdtype, status, statusTmp>>
regVars   == <<trkreg, secreg>>
seekVars  == <<seektrk, seekOut, nowSeek>>
lineVars  == <<irq, drq>>
diskVars  == <<inserted, protected, sectors>>
xferVars  == <<nowSearch, index, cur, form, sectorChanged, moved>>
boundVars == <<commands, upsets>>
vars == <<cmdVars, regVars, seekVars, drvreg, motorOn, timer, lineVars, head,
          diskVars, xferVars, boundVars>>

Busy == "busy" \in status
NoForm == [written |-> FALSE, found |-> FALSE, at |-> 0]
NoTimers == [e \in Events |-> Off]

TypeOK ==
  /\ cmdreg \in CmdBytes /\ cmdtype \in CmdTypes
  /\ status \in SUBSET Bits /\ statusTmp \in SUBSET Bits
  /\ trkreg \in Nat /\ secreg \in Nat
  /\ seektrk \in Tracks /\ seekOut \in BOOLEAN
  /\ drvreg \in Drives /\ motorOn \in BOOLEAN
  /\ nowSearch \in BOOLEAN /\ nowSeek \in BOOLEAN /\ sectorChanged \in BOOLEAN
  /\ timer \in [Events -> CmdTypes \cup {Off}]
  /\ irq \in BOOLEAN /\ drq \in BOOLEAN
  /\ head \in [Drives -> Tracks] /\ index \in [Drives -> Nat] /\ cur \in Nat
  /\ form \in [written : BOOLEAN, found : BOOLEAN, at : Nat]
  /\ inserted \in [Drives -> BOOLEAN] /\ protected \in [Drives -> BOOLEAN]
  /\ sectors \in [Drives -> [Tracks -> Seq(Kinds)]]
  /\ moved \in Nat /\ commands \in Nat /\ upsets \in Nat

\* initialize, reset: a disk in every drive, the motor at rest.
Init ==
  /\ cmdreg = Nothing /\ cmdtype = "none" /\ status = {} /\ statusTmp = {}
  /\ trkreg = 0 /\ secreg = 0 /\ seektrk = 0 /\ seekOut = FALSE
  /\ drvreg \in Drives /\ motorOn = FALSE
  /\ nowSearch = FALSE /\ nowSeek = FALSE /\ sectorChanged = FALSE
  /\ timer = NoTimers /\ irq = FALSE /\ drq = FALSE
  /\ head = [d \in Drives |-> 0] /\ index = [d \in Drives |-> 0] /\ cur = 0
  /\ form = NoForm
  /\ inserted = [d \in Drives |-> TRUE] /\ protected = [d \in Drives |-> FALSE]
  /\ sectors = [d \in Drives |-> Blank]
  /\ moved = 0 /\ commands = 0 /\ upsets = 0

(* ------------------------------ the disk ------------------------------- *)
Here == sectors[drvreg][head[drvreg]]
HereWith(s) == [sectors EXCEPT ![drvreg][head[drvreg]] = s]
WithLast(s, kind) == IF s = <<>> THEN s ELSE [s EXCEPT ![Len(s)] = kind]

\* search_sector: the sector of both registers, whatever its id's check says.
HasSector(trk, sec) ==
  /\ inserted[drvreg] /\ trk = head[drvreg]
  /\ sec \in DOMAIN Here /\ Here[sec] # "noMark"

SectorFound(trk, sec) == HasSector(trk, sec) /\ Here[sec] # "badId"

SearchSector(type, trk, sec) ==
  IF type \in WrSectors /\ protected[drvreg] THEN {"fault"}
  ELSE IF ~HasSector(trk, sec) THEN {"nf"}
  ELSE IF Here[sec] = "badId" THEN {"nf", "crc"} ELSE {}

\* search_track: any id of the track with a good check will do.
SearchTrack(t, trk) ==
  LET track == sectors[drvreg][t] IN
  IF ~inserted[drvreg] \/ track = <<>> \/ trk # t THEN {"nf"}
  ELSE IF \A r \in DOMAIN track : track[r] = "badId" THEN {"nf", "crc"} ELSE {}

\* Aborting a write of a sector that was changed clears its data check.
SectorAbort ==
  IF sectorChanged /\ cur \in DOMAIN Here /\ Here[cur] = "badData"
  THEN HereWith([Here EXCEPT ![cur] = "good"]) ELSE sectors

\* Aborting a write of a track whose last sector has no data mark yet.
TrackAbort ==
  IF ~protected[drvreg] /\ form.written /\ ~form.found
  THEN HereWith(WithLast(Here, "noMark")) ELSE sectors

\* What a reset or a force interrupt does to the disk being written.
Aborted == IF cmdtype \in WrSectors THEN SectorAbort
           ELSE IF cmdtype = "wrTrk" THEN TrackAbort ELSE sectors

(* ---------------------------- the commands ----------------------------- *)
Clip(t) == IF t > MaxTrack THEN MaxTrack ELSE t
Stepped == LET t == head[drvreg] IN
           IF seektrk > t THEN t + 1 ELSE IF seektrk < t THEN t - 1 ELSE t
\* Type 1 commands that keep the track register with the head.
Updates(c) == c.bit4 \/ c.op = "restore"

SectorType(c) == IF c.op = "rd" THEN IF c.bit4 THEN "rdMsec" ELSE "rdSec"
                                ELSE IF c.bit4 THEN "wrMsec" ELSE "wrSec"

\* The type a command gives cmdtype; "none" where it leaves it alone.
TypeOf(c) ==
  IF c.op \in {"restore", "seek", "step", "stepIn", "stepOut"} THEN "type1"
  ELSE IF c.op \in {"rd", "wr"} THEN SectorType(c)
  ELSE IF c.op \in {"rdAddr", "rdTrk", "wrTrk"} THEN c.op ELSE "none"

\* Events of a type that starting the type again does not take away.
Unfinished(type) == \E e \in {"seekEnd", "drq", "multi1", "multi2"} : timer[e] = type

\* The end of every type 1 command but the target: register_seek_event.
StartSeek(target, out, trk, flags) ==
  /\ cmdtype' = "type1" /\ status' = {"busy", "fault"} \cup flags
  /\ trkreg' = trk /\ seektrk' = target /\ seekOut' = out /\ nowSeek' = TRUE
  /\ timer' = [timer EXCEPT !["seek"] = "type1"]
  /\ UNCHANGED <<statusTmp, secreg, head, sectors, xferVars>>

Mismatch(c) == IF c.bit2 /\ trkreg # head[drvreg] THEN {"nf"} ELSE {}

Restore == StartSeek(0, TRUE, MaxTrack + 1, {})

\* The data register holds the target.
Seek(c) == \E data \in 0..(MaxTrack + 1) :
  StartSeek(Clip(data), ~(Clip(data) > head[drvreg]),
            IF c.bit2 THEN head[drvreg] ELSE trkreg, Mismatch(c))

StepIn(c)  == StartSeek(Clip(head[drvreg] + 1), FALSE, trkreg, Mismatch(c))
StepOut(c) == StartSeek(IF head[drvreg] = 0 THEN 0 ELSE head[drvreg] - 1,
                        TRUE, trkreg, Mismatch(c))

\* What every transfer begins with.  A DRQ of the command before stays.
StartSearch(tm, type, tmp) ==
  /\ cmdtype' = type /\ status' = {"busy"} /\ statusTmp' = tmp
  /\ nowSearch' = TRUE
  /\ timer' = [tm EXCEPT !["search"] = type, !["lost"] = Off]

\* cmd_readdata, cmd_writedata: the registers may just have been written.
SectorCommand(tm, type, trk, sec) ==
  LET tmp == SearchSector(type, trk, sec) IN
  /\ StartSearch(tm, type, tmp)
  /\ IF tmp = {} THEN index' = [index EXCEPT ![drvreg] = 0] /\ cur' = sec
                 ELSE UNCHANGED <<index, cur>>
  /\ sectorChanged' = (sectorChanged /\ type \notin WrSectors)
  /\ UNCHANGED <<seekVars, head, sectors, form, moved>>

\* The next id to pass under the head, good or bad.
ReadAddr ==
  /\ IF inserted[drvreg] /\ Here # <<>>
     THEN /\ StartSearch(timer, "rdAddr", {})
          /\ index' = [index EXCEPT ![drvreg] = 0]
          /\ cur' \in DOMAIN Here /\ secreg' = head[drvreg]
     ELSE StartSearch(timer, "rdAddr", {"nf"}) /\ UNCHANGED <<index, cur, secreg>>
  /\ UNCHANGED <<trkreg, seekVars, head, sectors, form, sectorChanged, moved>>

ReadTrack ==
  /\ StartSearch(timer, "rdTrk", {})
  /\ index' = [index EXCEPT ![drvreg] = 0]
  /\ UNCHANGED <<regVars, seekVars, head, sectors, cur, form, sectorChanged, moved>>

WriteTrack ==
  /\ StartSearch(timer, "wrTrk", IF protected[drvreg] THEN {"fault"} ELSE {})
  /\ index' = [index EXCEPT ![drvreg] = 0]
  /\ form' = [form EXCEPT !.written = FALSE]
  /\ UNCHANGED <<regVars, seekVars, head, sectors, cur, sectorChanged, moved>>

\* A seek is let finish the step it is at, by the rules of its own command.
ForceInt(c) ==
  /\ IF cmdtype = "type1" /\ nowSeek
     THEN /\ head' = [head EXCEPT ![drvreg] = Stepped]
          /\ trkreg' = IF Updates(cmdreg) THEN Stepped ELSE trkreg
     ELSE UNCHANGED <<head, trkreg>>
  /\ sectors' = Aborted
  /\ nowSearch' = FALSE /\ nowSeek' = FALSE /\ sectorChanged' = FALSE
  /\ IF cmdtype = "none" \/ ~Busy THEN cmdtype' = "type1" /\ status' = {"fault"}
     ELSE status' = status \ {"busy"} /\ UNCHANGED cmdtype
  /\ irq' = c.bit2 /\ timer' = NoTimers
  /\ UNCHANGED <<statusTmp, secreg, seektrk, seekOut, index, cur, form, moved>>

\* process_cmd: both lines fall, and the command of the register starts.
ProcessCmd(c, trk, sec) ==
  /\ drq' = FALSE
  /\ c.op # "forceInt" => irq' = FALSE
  /\ \/ c.op = "restore" /\ Restore
     \/ c.op = "seek" /\ Seek(c)
     \/ (c.op = "stepIn" \/ (c.op = "step" /\ ~seekOut)) /\ StepIn(c)
     \/ (c.op = "stepOut" \/ (c.op = "step" /\ seekOut)) /\ StepOut(c)
     \/ c.op \in {"rd", "wr"} /\ SectorCommand(timer, SectorType(c), trk, sec)
                              /\ trkreg' = trk /\ secreg' = sec
     \/ c.op = "rdAddr" /\ ReadAddr
     \/ c.op = "rdTrk" /\ ReadTrack
     \/ c.op = "wrTrk" /\ WriteTrack
     \/ c.op = "forceInt" /\ ForceInt(c)
     \/ /\ c.op = "unknown"
        /\ trkreg' = trk /\ secreg' = sec
        /\ UNCHANGED <<cmdtype, status, statusTmp, seekVars, timer, head,
                       sectors, xferVars>>

(* ------------------------ the data register ---------------------------- *)
\* Mutant: an access after the byte's time finds it once more.
ReadyLate == ~nowSearch /\ motorOn

Ready == "drq" \in status /\ ~nowSearch /\ motorOn

Length(type) == IF type = "rdAddr" THEN AddrSize
                ELSE IF type \in {"rdTrk", "wrTrk"} THEN TrackSize ELSE Size
AtLast == index[drvreg] + 1 >= Length(cmdtype)

\* The bad check that ends a read of a sector, or is told of an id.
BadCheck == /\ cur \in DOMAIN Here
            /\ \/ cmdtype \in SecTypes /\ Here[cur] = "badData"
               \/ cmdtype = "rdAddr" /\ Here[cur] = "badId"

\* DRQ falls and with it LOST, and the byte is counted.
Continue(tm, told) ==
  /\ drq' = FALSE /\ moved' = moved + 1
  /\ timer' = [tm EXCEPT !["drq"] = cmdtype, !["lost"] = Off]
  /\ status' = (status \ {"drq"}) \cup told
  /\ UNCHANGED <<cmdtype, irq>>

NextSector(tm, told) ==
  /\ drq' = FALSE /\ moved' = moved + 1
  /\ timer' = [tm EXCEPT !["multi1"] = cmdtype, !["multi2"] = cmdtype, !["lost"] = Off]
  /\ status' = (status \ {"drq"}) \cup told
  /\ UNCHANGED <<cmdtype, irq>>

Finish(tm, told) ==
  /\ drq' = FALSE /\ moved' = 0
  /\ timer' = [tm EXCEPT !["lost"] = Off]
  /\ status' = (status \ {"drq", "busy"}) \cup told
  /\ cmdtype' = "none" /\ irq' = TRUE

\* read_io8(3) where it is ready; "told" is what the LOST event adds.
ReadByte(tm, told) ==
  /\ Ready /\ cmdtype \in Reads
  /\ IF ~AtLast THEN Continue(tm, told)
     ELSE IF cmdtype = "rdMsec" /\ ~BadCheck
     THEN NextSector(tm, told)
     ELSE Finish(tm, told \cup (IF BadCheck THEN {"crc"} ELSE {})
                          \cup (IF cmdtype = "rdTrk" THEN {"lost"} ELSE {}))
  /\ UNCHANGED <<sectorChanged, sectors, form, cur>>

\* write_io8(3) in a sector.  Protected now: it faults, and goes on as if of
\* no type.
WriteSectorByte(tm, told) ==
  /\ Ready /\ cmdtype \in WrSectors
  /\ IF ~protected[drvreg]
     THEN /\ sectorChanged' \in IF AtLast THEN {FALSE} ELSE {TRUE, sectorChanged}
          /\ IF ~AtLast THEN Continue(tm, told)
             ELSE IF cmdtype = "wrMsec"
             THEN NextSector(tm, told)
             ELSE Finish(tm, told)
     ELSE /\ drq' = FALSE /\ moved' = 0
          /\ cmdtype' = "none" /\ irq' = TRUE
          /\ status' = (status \ {"drq", "busy"}) \cup {"fault"} \cup told
          /\ sectorChanged' = (sectorChanged /\ ~AtLast)
          /\ timer' = IF AtLast
                      THEN [tm EXCEPT !["multi1"] = "none", !["multi2"] = "none", !["lost"] = Off]
                      ELSE [tm EXCEPT !["drq"] = "none", !["lost"] = Off]
  /\ UNCHANGED <<sectors, form, cur>>

\* One byte of a track being formatted: the sectors and the state of the form.
Formatted(byte) ==
  LET first   == index[drvreg] = 0
      written == form.written /\ ~first
      track   == IF first THEN <<>> ELSE Here
      begun   == [written |-> TRUE, found |-> FALSE, at |-> 0]
  IN IF byte = "crc"
     THEN IF ~written THEN <<Append(track, "badData"), begun>>
          ELSE IF form.found
          THEN <<IF form.at = Size THEN WithLast(track, "good") ELSE track,
                 [form EXCEPT !.written = FALSE]>>
          ELSE <<Append(WithLast(track, "noMark"), "badData"), begun>>
     ELSE IF written /\ form.found
     THEN <<track, [form EXCEPT !.at = @ + 1]>>
     ELSE IF written /\ byte = "mark" THEN <<track, [form EXCEPT !.found = TRUE]>>
     ELSE <<track, [form EXCEPT !.written = written]>>

\* write_io8(3) of a track.
WriteTrackByte(tm, byte, told) ==
  /\ Ready /\ cmdtype = "wrTrk"
  /\ IF protected[drvreg]
     THEN Finish(tm, told \cup {"fault"}) /\ UNCHANGED <<sectors, form>>
     ELSE LET f == Formatted(byte) IN
          /\ form' = f[2]
          /\ sectors' = HereWith(IF AtLast /\ f[2].written /\ ~f[2].found
                                 THEN WithLast(f[1], "noMark") ELSE f[1])
          /\ IF AtLast THEN Finish(tm, told) ELSE Continue(tm, told)
  /\ cur' = Len(sectors'[drvreg][head[drvreg]])
  /\ UNCHANGED sectorChanged

WriteByte(tm, byte, told) ==
  WriteSectorByte(tm, told) \/ WriteTrackByte(tm, byte, told)

(* ------------------------ the processor's calls ------------------------ *)
\* Without Overlaps a program starts no type of command of which an event is
\* still in line, leaves the drive alone while the controller is busy, and the
\* data register once it is not: a byte that waited when a command was
\* interrupted can still be moved, and moves a command of many sectors on.
MayStart(c) == Overlaps \/ (~Unfinished(TypeOf(c)) /\ (c.op = "unknown" => ~Busy))
MayMove == Overlaps \/ Busy

Count == commands < MaxCommands /\ commands' = commands + 1

WriteCommand(c) ==
  /\ Count /\ MayStart(c)
  /\ cmdreg' = c
  /\ ProcessCmd(c, trkreg, secreg)
  /\ UNCHANGED <<drvreg, motorOn, inserted, protected, upsets>>

\* The registers restart a sector command that has moved no byte yet.
Restarts == Busy /\ index[drvreg] = 0 /\ cmdtype \in SecTypes

WriteRegisters(trk, sec) ==
  /\ Count
  /\ trk = trkreg \/ sec = secreg
  /\ IF Restarts
     THEN /\ MayStart(cmdreg)
          /\ ProcessCmd(cmdreg, trk, sec)
          /\ UNCHANGED <<cmdreg, drvreg, motorOn, inserted, protected, upsets>>
     ELSE /\ trkreg' = trk /\ secreg' = sec
          /\ UNCHANGED <<cmdVars, seekVars, drvreg, motorOn, timer, lineVars, head,
                         diskVars, xferVars, upsets>>

WriteData(byte) ==
  /\ MayMove
  /\ WriteByte(timer, byte, {})
  /\ UNCHANGED <<cmdreg, statusTmp, regVars, seekVars, drvreg, motorOn, head,
                 inserted, protected, nowSearch, index, boundVars>>

ReadData ==
  /\ MayMove
  /\ ReadByte(timer, {})
  /\ UNCHANGED <<cmdreg, statusTmp, regVars, seekVars, drvreg, motorOn, head,
                 inserted, protected, nowSearch, index, boundVars>>

\* Reading the status of a type 1 command tells of track 0 and the index
\* hole, which passes when it likes, and ends its busy bit.
ReadStatus ==
  /\ IF nowSearch \/ cmdtype # "type1" THEN UNCHANGED status
     ELSE \E hole \in SUBSET {"drq"} :
          /\ hole # {} => inserted[drvreg] /\ motorOn
          /\ status' = (status \ ({"drq", "lost"} \cup (IF nowSeek THEN {} ELSE {"busy"})))
                       \cup hole \cup (IF head[drvreg] = 0 THEN {"lost"} ELSE {})
  /\ drq' = (drq /\ "drq" \in status')
  /\ irq' = (irq /\ "busy" \in status')
  /\ UNCHANGED <<cmdreg, cmdtype, statusTmp, regVars, seekVars, drvreg, motorOn,
                 timer, head, diskVars, xferVars, boundVars>>

(* ------------------------------ the events ----------------------------- *)
\* What no event of the controller touches.
Outside == <<cmdreg, drvreg, motorOn, inserted, protected, boundVars>>

Fired(e) == [timer EXCEPT ![e] = Off]

\* Mutant: an event acts for whatever command there is now.
InLineAny(e) == timer[e] # Off

InLine(e) == timer[e] # Off /\ timer[e] = cmdtype

\* The command is finished or another is executed.
StaleEvent(e) ==
  /\ timer[e] # Off /\ timer[e] # cmdtype
  /\ timer' = Fired(e)
  /\ nowSeek' = (nowSeek /\ e \notin {"seek", "seekEnd"})
  /\ nowSearch' = (nowSearch /\ e # "search")
  /\ UNCHANGED <<Outside, cmdtype, status, statusTmp, regVars, seektrk, seekOut,
                 lineVars, head, sectors, index, cur, form, sectorChanged, moved>>

SeekEnd(tmp) == nowSeek' = FALSE /\ status' = tmp /\ irq' = TRUE

\* Mutant: the last step is taken for done.
ArrivedNearby == seektrk <= Stepped + 1

\* The head's new track is the target.
Arrived == seektrk = Stepped

SeekEvent ==
  /\ InLine("seek")
  /\ head' = [head EXCEPT ![drvreg] = Stepped]
  /\ trkreg' = IF Updates(cmdreg) THEN Stepped ELSE trkreg
  /\ IF ~Arrived
     THEN /\ timer' = [timer EXCEPT !["seek"] = cmdtype] /\ nowSeek' = TRUE
          /\ UNCHANGED <<status, statusTmp, irq>>
     ELSE IF cmdreg.bit2
     THEN /\ timer' = [Fired("seek") EXCEPT !["seekEnd"] = cmdtype]
          /\ statusTmp' = status \cup SearchTrack(Stepped, trkreg')
          /\ UNCHANGED <<status, irq, nowSeek>>
     ELSE timer' = Fired("seek") /\ statusTmp' = status /\ SeekEnd(status)
  /\ UNCHANGED <<Outside, cmdtype, secreg, seektrk, seekOut, drq, sectors, xferVars>>

SeekEndEvent ==
  /\ InLine("seekEnd")
  /\ timer' = Fired("seekEnd") /\ SeekEnd(statusTmp)
  /\ UNCHANGED <<Outside, cmdtype, statusTmp, regVars, seektrk, seekOut, drq, head,
                 sectors, xferVars>>

SearchEvent ==
  /\ InLine("search")
  /\ nowSearch' = FALSE
  /\ IF statusTmp \cap {"nf", "fault"} # {}
     THEN /\ status' = statusTmp \ {"busy", "drq"} /\ timer' = Fired("search")
          /\ cmdtype' = "none" /\ irq' = TRUE
          /\ UNCHANGED <<drq, moved>>
     ELSE /\ status' = statusTmp \cup {"busy", "drq"}
          /\ timer' = [Fired("search") EXCEPT !["lost"] = cmdtype]
          /\ drq' = TRUE /\ moved' = 0
          /\ UNCHANGED <<cmdtype, irq>>
  /\ UNCHANGED <<Outside, statusTmp, regVars, seekVars, head, sectors, index, cur,
                 form, sectorChanged>>

DrqEvent ==
  /\ InLine("drq")
  /\ IF Busy
     THEN /\ status' = status \cup {"drq"} /\ drq' = TRUE
          /\ timer' = [Fired("drq") EXCEPT !["lost"] = cmdtype]
          /\ index' = IF cmdtype \in Transfers
                      THEN [index EXCEPT ![drvreg] = @ + 1] ELSE index
     ELSE timer' = Fired("drq") /\ UNCHANGED <<status, drq, index>>
  /\ UNCHANGED <<Outside, cmdtype, statusTmp, regVars, seekVars, irq, head, sectors,
                 nowSearch, cur, form, sectorChanged, moved>>

\* Mutant: the command goes over its first sector again and again.
Multi1Again ==
  /\ InLine("multi1")
  /\ timer' = Fired("multi1")
  /\ UNCHANGED <<Outside, cmdtype, status, statusTmp, regVars, seekVars, lineVars, head,
                 sectors, xferVars>>

Multi1Event ==
  /\ InLine("multi1")
  /\ timer' = Fired("multi1")
  /\ secreg' = IF secreg \in Secs THEN secreg + 1 ELSE secreg
  /\ UNCHANGED <<Outside, cmdtype, status, statusTmp, trkreg, seekVars, lineVars, head,
                 sectors, xferVars>>

Multi2Event ==
  /\ InLine("multi2") /\ timer["multi1"] = Off
  /\ IF cmdtype \in {"rdMsec", "wrMsec"}
     THEN SectorCommand(Fired("multi2"),
                        SectorType([cmdreg EXCEPT !.op = IF cmdtype = "rdMsec" THEN "rd" ELSE "wr"]),
                        trkreg, secreg)
     ELSE /\ timer' = Fired("multi2")
          /\ UNCHANGED <<cmdtype, status, statusTmp, seekVars, head, sectors, xferVars>>
  /\ UNCHANGED <<Outside, regVars, lineVars>>

\* Nobody came for the byte: the event moves it itself, a zero when writing,
\* or gives up a write that has not begun.
LostEvent ==
  /\ InLine("lost")
  /\ IF ~Busy
     THEN /\ timer' = Fired("lost")
          /\ UNCHANGED <<cmdtype, status, lineVars, sectors, cur, form, sectorChanged, moved>>
     ELSE IF cmdtype \in Writes /\ index[drvreg] = 0
     THEN /\ timer' = Fired("lost")
          /\ status' = (status \ {"busy"}) \cup {"lost"}
          /\ cmdtype' = "none" /\ irq' = TRUE
          /\ UNCHANGED <<drq, sectors, cur, form, sectorChanged, moved>>
     ELSE IF Ready /\ cmdtype \in Transfers
     THEN ReadByte(Fired("lost"), {"lost"}) \/ WriteByte(Fired("lost"), "data", {"lost"})
     ELSE /\ timer' = Fired("lost") /\ status' = status \cup {"lost"}
          /\ UNCHANGED <<cmdtype, lineVars, sectors, cur, form, sectorChanged, moved>>
  /\ UNCHANGED <<Outside, statusTmp, regVars, seekVars, head, nowSearch, index>>

Event == SeekEvent \/ SeekEndEvent \/ SearchEvent \/ DrqEvent \/ Multi1Event
         \/ Multi2Event \/ LostEvent \/ \E e \in Events : StaleEvent(e)

(* -------------------- the rest of the machine -------------------------- *)
\* write_signal: the drive register and the motor.
SelectDrive(d) ==
  /\ Overlaps \/ ~Busy
  /\ drvreg' = d
  /\ UNCHANGED <<cmdVars, regVars, seekVars, timer, lineVars, head, diskVars,
                 xferVars, boundVars>>

SetMotor(on) ==
  /\ motorOn' = on
  /\ UNCHANGED <<cmdVars, regVars, seekVars, timer, lineVars, head, diskVars,
                 xferVars, boundVars>>

Upset == upsets < MaxUpsets /\ upsets' = upsets + 1

\* The user: close_disk, open_disk, the protect menu.
Eject(d) ==
  /\ Upset /\ inserted[d]
  /\ inserted' = [inserted EXCEPT ![d] = FALSE]
  /\ protected' = [protected EXCEPT ![d] = FALSE]
  /\ cmdtype' = IF d = drvreg THEN "none" ELSE cmdtype
  /\ UNCHANGED <<cmdreg, status, statusTmp, regVars, seekVars, drvreg, motorOn, timer,
                 lineVars, head, sectors, xferVars, commands>>

Insert(d) ==
  /\ ~inserted[d]
  /\ inserted' = [inserted EXCEPT ![d] = TRUE]
  /\ sectors' = [sectors EXCEPT ![d] = Blank]
  /\ UNCHANGED <<cmdVars, regVars, seekVars, drvreg, motorOn, timer, lineVars, head,
                 protected, xferVars, boundVars>>

Protect(d) ==
  /\ Upset /\ inserted[d]
  /\ protected' = [protected EXCEPT ![d] = ~@]
  /\ UNCHANGED <<cmdVars, regVars, seekVars, drvreg, motorOn, timer, lineVars, head,
                 inserted, sectors, xferVars, commands>>

\* reset: the event manager has taken the events away; the lines, the motor
\* and the drive register stay as they are.
Reset ==
  /\ Upset
  /\ sectors' = Aborted
  /\ timer' = NoTimers
  /\ head' = [d \in Drives |-> 0] /\ index' = [d \in Drives |-> 0]
  /\ form' = NoForm
  /\ cmdreg' = Nothing /\ cmdtype' = "none" /\ status' = {} /\ statusTmp' = {}
  /\ trkreg' = 0 /\ secreg' = 0 /\ seektrk' = 0 /\ seekOut' = FALSE
  /\ nowSearch' = FALSE /\ nowSeek' = FALSE /\ sectorChanged' = FALSE
  /\ UNCHANGED <<drvreg, motorOn, lineVars, inserted, protected, cur, moved, commands>>

Processor ==
  \/ \E c \in Program : WriteCommand(c)
  \/ \E trk \in Tracks, sec \in 1..Len(Blank[0]) : WriteRegisters(trk, sec)
  \/ \E byte \in Bytes : WriteData(byte)
  \/ ReadData
  \/ ReadStatus

User == Reset \/ \E d \in Drives : Eject(d) \/ Insert(d) \/ Protect(d)

Next ==
  \/ Processor
  \/ Event
  \/ User
  \/ \E d \in Drives : SelectDrive(d) /\ UNCHANGED motorOn
  \/ \E on \in BOOLEAN : SetMotor(on) /\ UNCHANGED drvreg

Spec == Init /\ [][Next]_vars

(* ----------------------------- properties ------------------------------ *)
\* A busy command is never left to itself: the event that will move it on is
\* in line under its own type, or its byte waits, past its time, for a
\* processor whose motor stood still (event_callback, process_cmd).
CommandHasItsEvent ==
  Busy /\ cmdtype \in Transfers =>
    IF nowSearch THEN timer["search"] = cmdtype
    ELSE IF "drq" \in status THEN timer["lost"] = cmdtype \/ "lost" \in status
    ELSE timer["drq"] = cmdtype \/ timer["multi2"] = cmdtype

\* The flags that hide the status and hold the head go down with an event.
FlagsHaveTheirEvent ==
  /\ nowSearch => timer["search"] # Off
  /\ nowSeek => timer["seek"] # Off \/ timer["seekEnd"] # Off

\* The interrupt line never tells of the end of a transfer still busy.
BusyHasAnEvent ==
  /\ CommandHasItsEvent
  /\ FlagsHaveTheirEvent
  /\ irq /\ Busy => cmdtype \notin Transfers

\* While a command asks for a byte, its index is the number of bytes the data
\* register has moved since the search ended, by the processor or by the LOST
\* event: none is skipped and none moves twice.
EveryByteOnce ==
  Busy /\ "drq" \in status /\ ~nowSearch /\ cmdtype \in Transfers
    => index[drvreg] = moved

\* A type 1 command interrupts with the head at its target, whatever was
\* replaced, aborted, reset or written to the registers before it.
HeadArrives ==
  [][cmdtype = "type1" /\ cmdtype' = "type1" /\ ~irq /\ irq' /\ Busy /\ Busy'
       => head'[drvreg] = seektrk]_vars

================================================================================

----------------------------- MODULE Mb8877Proofs -----------------------------
(***************************************************************************)
(* Proofs about Mb8877 and FloppyUnit: which events may be in line in      *)
(* which phase of a command, for programs that wait for what they started. *)
(***************************************************************************)
EXTENDS FloppyUnit, TLAPS

\* The events each kind of command leaves in line.
TimerInv ==
  /\ timer["seek"] \in {"type1", Off} /\ timer["seekEnd"] \in {"type1", Off}
  /\ \A e \in {"search", "drq", "lost"} : timer[e] \in Transfers \cup {"none", Off}
  /\ \A e \in {"multi1", "multi2"} : timer[e] \in {"rdMsec", "wrMsec", "none", Off}

FlagInv ==
  /\ nowSearch <=> timer["search"] # Off
  /\ nowSeek => timer["seek"] # Off \/ timer["seekEnd"] # Off
  /\ timer["seekEnd"] # Off => timer["seek"] = Off

\* No event of this type is in line that would move its transfer on.
Quiet(tm, type) == tm["drq"] # type /\ tm["multi1"] # type /\ tm["multi2"] # type

Searching == /\ timer["search"] = cmdtype
             /\ Quiet(timer, cmdtype)
             /\ "nf" \in statusTmp \/ "fault" \in statusTmp \/ index[drvreg] = 0
Asked     == /\ timer["lost"] = cmdtype \/ "lost" \in status
             /\ Quiet(timer, cmdtype)
             /\ index[drvreg] = moved
Moving    == \/ /\ timer["drq"] = cmdtype
                /\ timer["multi1"] # cmdtype /\ timer["multi2"] # cmdtype
                /\ index[drvreg] + 1 = moved
             \/ timer["multi2"] = cmdtype /\ timer["drq"] # cmdtype

XferInv ==
  cmdtype \in Transfers /\ Busy =>
    IF nowSearch THEN Searching ELSE IF "drq" \in status THEN Asked ELSE Moving

\* An interrupted command has no event left, and a busy one no interrupt.
IdleInv == cmdtype \in Transfers /\ ~Busy => \A e \in Events : timer[e] # cmdtype
IrqInv  == irq /\ Busy => cmdtype \notin Transfers

\* The head waits where it arrived.
SeekInv == timer["seekEnd"] = "type1" /\ cmdtype = "type1" /\ Busy
             => head[drvreg] = seektrk

\* The register still says that there are more sectors.
CmdInv == Busy /\ cmdtype \in {"rdMsec", "wrMsec"} => cmdreg.bit4

EventInv == TimerInv /\ FlagInv /\ XferInv /\ IdleInv /\ IrqInv /\ SeekInv /\ CmdInv
IInv == TypeOK /\ EventInv

Disks == [Drives -> [Tracks -> Seq(Kinds)]]

LEMMA DiskTypes ==
  ASSUME TypeOK
  PROVE  /\ Here \in Seq(Kinds)
         /\ \A s \in Seq(Kinds) : HereWith(s) \in Disks
         /\ Stepped \in Tracks
<1>1. Here \in Seq(Kinds) BY DEF TypeOK, Here
<1>2. ASSUME NEW s \in Seq(Kinds) PROVE HereWith(s) \in Disks
  <2> DEFINE disk == sectors[drvreg]
  <2>1. sectors \in Disks /\ drvreg \in Drives /\ head[drvreg] \in Tracks
    BY DEF TypeOK, Disks
  <2>2. disk \in [Tracks -> Seq(Kinds)] BY <2>1 DEF Disks
  <2>3. [disk EXCEPT ![head[drvreg]] = s] \in [Tracks -> Seq(Kinds)] BY <2>2
  <2>4. HereWith(s) = [sectors EXCEPT ![drvreg] = [disk EXCEPT ![head[drvreg]] = s]]
    BY DEF HereWith
  <2> HIDE DEF disk
  <2>5. \A g \in [Tracks -> Seq(Kinds)] : [sectors EXCEPT ![drvreg] = g] \in Disks
    BY <2>1 DEF Disks
  <2> QED BY <2>3, <2>4, <2>5
<1>3. Stepped \in Tracks
  <2>1. head[drvreg] \in Tracks /\ seektrk \in Tracks BY DEF TypeOK
  <2>2. MaxTrack \in Nat BY Mb8877Assumption
  <2>3. \A t, u \in Tracks : /\ u > t => t + 1 \in Tracks
                             /\ u < t => t - 1 \in Tracks
    BY <2>2 DEF Tracks
  <2> QED BY <2>1, <2>3 DEF Stepped
<1> QED BY <1>1, <1>2, <1>3

LEMMA WithLastType ==
  ASSUME NEW s \in Seq(Kinds), NEW k \in Kinds
  PROVE  WithLast(s, k) \in Seq(Kinds)
BY DEF WithLast

LEMMA AbortType == ASSUME TypeOK PROVE Aborted \in Disks
<1> USE DiskTypes
<1>1. SectorAbort \in Disks
  <2>1. CASE sectorChanged /\ cur \in DOMAIN Here /\ Here[cur] = "badData"
    <3>1. [Here EXCEPT ![cur] = "good"] \in Seq(Kinds) BY <2>1 DEF Kinds
    <3> QED BY <3>1, <2>1 DEF SectorAbort
  <2>2. CASE ~(sectorChanged /\ cur \in DOMAIN Here /\ Here[cur] = "badData")
    BY <2>2 DEF SectorAbort, TypeOK, Disks
  <2> QED BY <2>1, <2>2
<1>2. TrackAbort \in Disks
  <2>1. WithLast(Here, "noMark") \in Seq(Kinds) BY WithLastType DEF Kinds
  <2> QED BY <2>1 DEF TrackAbort, TypeOK, Disks
<1> QED BY <1>1, <1>2 DEF Aborted, TypeOK, Disks

LEMMA FormattedType ==
  ASSUME TypeOK, NEW byte
  PROVE  /\ Formatted(byte)[1] \in Seq(Kinds)
         /\ Formatted(byte)[2] \in [written : BOOLEAN, found : BOOLEAN, at : Nat]
<1> DEFINE first   == index[drvreg] = 0
           written == form.written /\ ~first
           track   == IF first THEN <<>> ELSE Here
           begun   == [written |-> TRUE, found |-> FALSE, at |-> 0]
           Form    == [written : BOOLEAN, found : BOOLEAN, at : Nat]
<1>0. <<>> \in Seq(Kinds) OBVIOUS
<1>1. track \in Seq(Kinds) BY DiskTypes, <1>0
<1>2. Append(track, "badData") \in Seq(Kinds) BY <1>1 DEF Kinds
<1>3. WithLast(track, "good") \in Seq(Kinds) /\ WithLast(track, "noMark") \in Seq(Kinds)
  BY <1>1, WithLastType DEF Kinds
<1>4. Append(WithLast(track, "noMark"), "badData") \in Seq(Kinds) BY <1>3 DEF Kinds
<1>5. form \in Form /\ begun \in Form /\ written \in BOOLEAN BY DEF TypeOK
<1>6. /\ [form EXCEPT !.written = FALSE] \in Form
      /\ [form EXCEPT !.written = written] \in Form
      /\ [form EXCEPT !.found = TRUE] \in Form
      /\ [form EXCEPT !.at = @ + 1] \in Form
  <2> HIDE DEF written
  <2>1. [form EXCEPT !.written = FALSE] \in Form BY <1>5
  <2>2. [form EXCEPT !.written = written] \in Form BY <1>5
  <2>3. [form EXCEPT !.found = TRUE] \in Form BY <1>5
  <2>4. [form EXCEPT !.at = @ + 1] \in Form BY <1>5
  <2> QED BY <2>1, <2>2, <2>3, <2>4
<1>7. Formatted(byte) =
        IF byte = "crc"
        THEN IF ~written THEN <<Append(track, "badData"), begun>>
             ELSE IF form.found
             THEN <<IF form.at = Size THEN WithLast(track, "good") ELSE track,
                    [form EXCEPT !.written = FALSE]>>
             ELSE <<Append(WithLast(track, "noMark"), "badData"), begun>>
        ELSE IF written /\ form.found
        THEN <<track, [form EXCEPT !.at = @ + 1]>>
        ELSE IF written /\ byte = "mark" THEN <<track, [form EXCEPT !.found = TRUE]>>
        ELSE <<track, [form EXCEPT !.written = written]>>
  BY DEF Formatted
<1> HIDE DEF first, written, track, begun, Form
<1>8. Formatted(byte)[1] \in Seq(Kinds) BY <1>1, <1>2, <1>3, <1>4, <1>7
<1>9. Formatted(byte)[2] \in Form BY <1>5, <1>6, <1>7
<1> QED BY <1>8, <1>9 DEF Form

LEMMA SearchTypes ==
  ASSUME TypeOK, NEW type, NEW trk, NEW sec, NEW t
  PROVE  SearchSector(type, trk, sec) \in SUBSET Bits /\ SearchTrack(t, trk) \in SUBSET Bits
BY DEF SearchSector, SearchTrack, Bits

(* --------------------------- type correctness -------------------------- *)
LEMMA InitType == Init => TypeOK
<1> SUFFICES ASSUME Init PROVE TypeOK OBVIOUS
<1>1. 0 \in Tracks BY Mb8877Assumption DEF Tracks
<1>2. Blank \in [Tracks -> Seq(Kinds)] BY Mb8877Assumption
<1>3. Nothing \in CmdBytes BY DEF Nothing, CmdBytes, Ops
<1> QED BY <1>1, <1>2, <1>3 DEF Init, TypeOK, NoTimers, NoForm, CmdTypes, Off, Bits

\* What the commands and the data register write, as TypeOK sees it.
CoreType ==
  /\ cmdtype \in CmdTypes /\ status \in SUBSET Bits /\ statusTmp \in SUBSET Bits
  /\ trkreg \in Nat /\ secreg \in Nat
  /\ seektrk \in Tracks /\ seekOut \in BOOLEAN
  /\ nowSearch \in BOOLEAN /\ nowSeek \in BOOLEAN /\ sectorChanged \in BOOLEAN
  /\ timer \in [Events -> CmdTypes \cup {Off}]
  /\ irq \in BOOLEAN /\ drq \in BOOLEAN
  /\ head \in [Drives -> Tracks] /\ index \in [Drives -> Nat] /\ cur \in Nat
  /\ form \in [written : BOOLEAN, found : BOOLEAN, at : Nat]
  /\ sectors \in Disks
  /\ moved \in Nat

RestType ==
  /\ cmdreg \in CmdBytes /\ drvreg \in Drives /\ motorOn \in BOOLEAN
  /\ inserted \in [Drives -> BOOLEAN] /\ protected \in [Drives -> BOOLEAN]
  /\ commands \in Nat /\ upsets \in Nat

LEMMA TypeParts == /\ TypeOK <=> CoreType /\ RestType
                   /\ TypeOK' <=> CoreType' /\ RestType'
BY DEF TypeOK, CoreType, RestType, Disks

LEMMA TracksAre == /\ MaxTrack \in Nat /\ Tracks \subseteq Nat
                   /\ \A n \in Nat : Clip(n) \in Tracks
<1>1. MaxTrack \in Nat BY Mb8877Assumption
<1> QED BY <1>1 DEF Tracks, Clip

LEMMA SeekStarts ==
  ASSUME TypeOK, NEW target \in Tracks, NEW out \in BOOLEAN, NEW trk \in Nat,
         NEW flags \in SUBSET Bits, StartSeek(target, out, trk, flags),
         irq' \in BOOLEAN, drq' \in BOOLEAN
  PROVE  CoreType'
BY DEF TypeOK, CoreType, StartSeek, xferVars, CmdTypes, Bits, Disks, Events

SearchStarted == /\ cmdtype' \in CmdTypes /\ status' \in SUBSET Bits
                 /\ statusTmp' \in SUBSET Bits /\ nowSearch' \in BOOLEAN
                 /\ timer' \in [Events -> CmdTypes \cup {Off}]

LEMMA SearchStarts ==
  ASSUME NEW tm \in [Events -> CmdTypes \cup {Off}], NEW type \in CmdTypes,
         NEW tmp \in SUBSET Bits, StartSearch(tm, type, tmp)
  PROVE  SearchStarted
BY DEF StartSearch, SearchStarted, Bits, Off

LEMMA SectorCommandType ==
  ASSUME TypeOK, NEW tm \in [Events -> CmdTypes \cup {Off}],
         NEW type \in SecTypes, NEW trk \in Nat, NEW sec \in Nat,
         SectorCommand(tm, type, trk, sec),
         trkreg' \in Nat, secreg' \in Nat, irq' \in BOOLEAN, drq' \in BOOLEAN
  PROVE  CoreType'
<1>1. SearchSector(type, trk, sec) \in SUBSET Bits BY SearchTypes
<1>2. StartSearch(tm, type, SearchSector(type, trk, sec)) BY DEF SectorCommand
<1>3. type \in CmdTypes BY DEF SecTypes, CmdTypes, Transfers, Reads, Writes
<1>4. SearchStarted BY <1>1, <1>2, <1>3, SearchStarts
<1>5. index' \in [Drives -> Nat] /\ cur' \in Nat
  <2>1. index \in [Drives -> Nat] /\ cur \in Nat BY DEF TypeOK
  <2> QED BY <2>1 DEF SectorCommand
<1>6. sectorChanged' \in BOOLEAN BY DEF SectorCommand, TypeOK
<1> QED
  BY <1>4, <1>5, <1>6 DEF TypeOK, CoreType, SectorCommand, seekVars, Disks, SearchStarted

LEMMA CommandType ==
  ASSUME TypeOK, NEW c \in CmdBytes, NEW trk \in Nat, NEW sec \in Nat,
         ProcessCmd(c, trk, sec)
  PROVE  CoreType'
<1>0. drq' \in BOOLEAN BY DEF ProcessCmd
<1>1. ASSUME c.op # "forceInt" PROVE irq' \in BOOLEAN BY <1>1 DEF ProcessCmd
<1>2. Mismatch(c) \in SUBSET Bits BY DEF Mismatch, Bits
<1>3. trkreg \in Nat /\ secreg \in Nat /\ head[drvreg] \in Tracks /\ head[drvreg] \in Nat
  BY TracksAre DEF TypeOK
<1>4. CASE c.op = "restore" /\ Restore
  <2>1. 0 \in Tracks /\ MaxTrack + 1 \in Nat /\ {} \in SUBSET Bits BY TracksAre DEF Tracks
  <2>2. StartSeek(0, TRUE, MaxTrack + 1, {}) BY <1>4 DEF Restore
  <2>3. irq' \in BOOLEAN BY <1>1, <1>4
  <2> QED BY <1>0, <2>1, <2>2, <2>3, SeekStarts
<1>5. CASE c.op = "seek" /\ Seek(c)
  <2>1. PICK data \in 0..(MaxTrack + 1) :
          StartSeek(Clip(data), ~(Clip(data) > head[drvreg]),
                    IF c.bit2 THEN head[drvreg] ELSE trkreg, Mismatch(c))
    BY <1>5 DEF Seek
  <2>2. Clip(data) \in Tracks BY TracksAre
  <2>3. (IF c.bit2 THEN head[drvreg] ELSE trkreg) \in Nat BY <1>3
  <2>4. irq' \in BOOLEAN BY <1>1, <1>5
  <2> QED BY <1>0, <2>1, <2>2, <2>3, <2>4, <1>2, SeekStarts
<1>6. CASE c.op \in {"step", "stepIn"} /\ StepIn(c)
  <2>1. Clip(head[drvreg] + 1) \in Tracks
    <3>1. head[drvreg] + 1 \in Nat BY <1>3
    <3> QED BY <3>1, TracksAre
  <2>2. irq' \in BOOLEAN BY <1>1, <1>6
  <2> QED BY <1>0, <1>2, <1>3, <1>6, <2>1, <2>2, SeekStarts DEF StepIn
<1>7. CASE c.op \in {"step", "stepOut"} /\ StepOut(c)
  <2>1. (IF head[drvreg] = 0 THEN 0 ELSE head[drvreg] - 1) \in Tracks
    <3>1. MaxTrack \in Nat /\ head[drvreg] \in 0..MaxTrack BY <1>3, TracksAre DEF Tracks
    <3> QED BY <3>1 DEF Tracks
  <2>2. irq' \in BOOLEAN BY <1>1, <1>7
  <2> QED BY <1>0, <1>2, <1>3, <1>7, <2>1, <2>2, SeekStarts DEF StepOut
<1>8. CASE c.op \in {"rd", "wr"} /\ SectorCommand(timer, SectorType(c), trk, sec)
                              /\ trkreg' = trk /\ secreg' = sec
  <2>1. SectorType(c) \in SecTypes BY DEF SectorType, SecTypes, WrSectors
  <2>2. timer \in [Events -> CmdTypes \cup {Off}] BY DEF TypeOK
  <2>3. irq' \in BOOLEAN BY <1>1, <1>8
  <2> QED BY <1>0, <1>8, <2>1, <2>2, <2>3, SectorCommandType
<1>9. CASE c.op = "rdAddr" /\ ReadAddr
  <2>1. irq' \in BOOLEAN BY <1>1, <1>9
  <2>2. DOMAIN Here \subseteq Nat BY DiskTypes
  <2>3. /\ timer \in [Events -> CmdTypes \cup {Off}] /\ "rdAddr" \in CmdTypes
        /\ {} \in SUBSET Bits /\ {"nf"} \in SUBSET Bits
    BY DEF TypeOK, CmdTypes, Transfers, Reads, Bits
  <2>4. SearchStarted BY <1>9, <2>3, SearchStarts DEF ReadAddr
  <2>5. index' \in [Drives -> Nat] /\ cur' \in Nat /\ secreg' \in Nat
    <3>1. index \in [Drives -> Nat] /\ cur \in Nat BY DEF TypeOK
    <3>2. CASE inserted[drvreg] /\ Here # <<>>
      <4>1. /\ index' = [index EXCEPT ![drvreg] = 0]
            /\ cur' \in DOMAIN Here /\ secreg' = head[drvreg]
        BY <1>9, <3>2 DEF ReadAddr
      <4> HIDE DEF Here
      <4> QED BY <1>3, <2>2, <3>1, <4>1
    <3>3. CASE ~(inserted[drvreg] /\ Here # <<>>)
      BY <1>3, <1>9, <3>1, <3>3 DEF ReadAddr
    <3> QED BY <3>2, <3>3
  <2> QED BY <1>0, <1>9, <2>1, <2>4, <2>5 DEF ReadAddr, TypeOK, CoreType, seekVars,
          Disks, SearchStarted
<1>10. CASE c.op = "rdTrk" /\ ReadTrack
  <2>1. irq' \in BOOLEAN BY <1>1, <1>10
  <2> QED BY <1>0, <1>10, <2>1 DEF ReadTrack, StartSearch, TypeOK, CoreType, regVars,
          seekVars, CmdTypes, Transfers, Reads, Bits, Disks, Events
<1>11. CASE c.op = "wrTrk" /\ WriteTrack
  <2>1. irq' \in BOOLEAN BY <1>1, <1>11
  <2> QED BY <1>0, <1>11, <2>1 DEF WriteTrack, StartSearch, TypeOK, CoreType, regVars,
          seekVars, CmdTypes, Transfers, Writes, Bits, Disks, Events
<1>12. CASE c.op = "forceInt" /\ ForceInt(c)
  <2>1. c.bit2 \in BOOLEAN BY DEF CmdBytes
  <2>2. head' \in [Drives -> Tracks] /\ trkreg' \in Nat
    <3>1. head \in [Drives -> Tracks] /\ trkreg \in Nat /\ Stepped \in Tracks /\ Stepped \in Nat
      BY DiskTypes, TracksAre DEF TypeOK
    <3> QED BY <1>12, <3>1 DEF ForceInt
  <2>3. cmdtype' \in CmdTypes /\ status' \in SUBSET Bits
    BY <1>12 DEF ForceInt, TypeOK, CmdTypes, Bits
  <2>4. irq' \in BOOLEAN BY <1>12, <2>1 DEF ForceInt
  <2>5. timer' \in [Events -> CmdTypes \cup {Off}] BY <1>12 DEF ForceInt, NoTimers
  <2>6. sectors' \in Disks BY <1>12, AbortType DEF ForceInt
  <2> QED BY <1>0, <1>12, <2>2, <2>3, <2>4, <2>5, <2>6 DEF ForceInt, TypeOK, CoreType
<1>13. CASE /\ c.op = "unknown"
            /\ trkreg' = trk /\ secreg' = sec
            /\ UNCHANGED <<cmdtype, status, statusTmp, seekVars, timer, head,
                           sectors, xferVars>>
  <2>1. irq' \in BOOLEAN BY <1>1, <1>13
  <2> QED BY <1>0, <1>13, <2>1 DEF TypeOK, CoreType, seekVars, xferVars, Disks
<1> QED
  BY <1>4, <1>5, <1>6, <1>7, <1>8, <1>9, <1>10, <1>11, <1>12, <1>13 DEF ProcessCmd

\* What moving a byte writes.
ByteMoved ==
  /\ cmdtype' \in CmdTypes /\ status' \in SUBSET Bits
  /\ timer' \in [Events -> CmdTypes \cup {Off}]
  /\ irq' \in BOOLEAN /\ drq' \in BOOLEAN /\ moved' \in Nat

LEMMA MoveTypes ==
  ASSUME TypeOK, NEW tm \in [Events -> CmdTypes \cup {Off}], NEW told \in SUBSET Bits,
         Continue(tm, told) \/ NextSector(tm, told) \/ Finish(tm, told)
  PROVE  ByteMoved
<1>0. /\ cmdtype \in CmdTypes /\ "none" \in CmdTypes /\ irq \in BOOLEAN
      /\ status \in SUBSET Bits /\ moved \in Nat /\ moved + 1 \in Nat
  BY DEF TypeOK, CmdTypes
<1>1. CASE Continue(tm, told)
  <2>1. timer' \in [Events -> CmdTypes \cup {Off}] BY <1>0, <1>1 DEF Continue
  <2> QED BY <1>0, <1>1, <2>1 DEF Continue, ByteMoved
<1>2. CASE NextSector(tm, told)
  <2>1. timer' \in [Events -> CmdTypes \cup {Off}] BY <1>0, <1>2 DEF NextSector
  <2> QED BY <1>0, <1>2, <2>1 DEF NextSector, ByteMoved
<1>3. CASE Finish(tm, told)
  <2>1. timer' \in [Events -> CmdTypes \cup {Off}] BY <1>0, <1>3 DEF Finish
  <2> QED BY <1>0, <1>3, <2>1 DEF Finish, ByteMoved
<1> QED BY <1>1, <1>2, <1>3

LEMMA ReadByteType ==
  ASSUME TypeOK, NEW tm \in [Events -> CmdTypes \cup {Off}], NEW told \in SUBSET Bits,
         ReadByte(tm, told)
  PROVE  ByteMoved /\ sectorChanged' \in BOOLEAN /\ sectors' \in Disks
         /\ form' \in [written : BOOLEAN, found : BOOLEAN, at : Nat] /\ cur' \in Nat
<1>1. PICK more \in SUBSET Bits : Continue(tm, told) \/ NextSector(tm, told) \/ Finish(tm, more)
  <2> DEFINE more == told \cup (IF BadCheck THEN {"crc"} ELSE {})
                          \cup (IF cmdtype = "rdTrk" THEN {"lost"} ELSE {})
  <2>1. more \in SUBSET Bits BY DEF Bits
  <2>2. Continue(tm, told) \/ NextSector(tm, told) \/ Finish(tm, more) BY DEF ReadByte
  <2> QED BY <2>1, <2>2
<1>2. ByteMoved BY <1>1, MoveTypes
<1> QED BY <1>2 DEF ReadByte, TypeOK, Disks

LEMMA WriteByteType ==
  ASSUME TypeOK, NEW tm \in [Events -> CmdTypes \cup {Off}], NEW told \in SUBSET Bits,
         NEW byte, WriteByte(tm, byte, told)
  PROVE  ByteMoved /\ sectorChanged' \in BOOLEAN /\ sectors' \in Disks
         /\ form' \in [written : BOOLEAN, found : BOOLEAN, at : Nat] /\ cur' \in Nat
<1>1. CASE WriteSectorByte(tm, told)
  <2>1. ByteMoved /\ sectorChanged' \in BOOLEAN
    <3>1. CASE ~protected[drvreg]
      <4>1. Continue(tm, told) \/ NextSector(tm, told) \/ Finish(tm, told)
        BY <1>1, <3>1 DEF WriteSectorByte
      <4>2. sectorChanged' \in BOOLEAN BY <1>1, <3>1 DEF WriteSectorByte, TypeOK
      <4> QED BY <4>1, <4>2, MoveTypes
    <3>2. CASE protected[drvreg]
      <4>1. timer' \in [Events -> CmdTypes \cup {Off}]
        BY <1>1, <3>2 DEF WriteSectorByte, CmdTypes
      <4>2. sectorChanged' \in BOOLEAN BY <1>1, <3>2 DEF WriteSectorByte, TypeOK
      <4>3. /\ drq' = FALSE /\ moved' = 0 /\ cmdtype' = "none" /\ irq' = TRUE
            /\ status' = (status \ {"drq", "busy"}) \cup {"fault"} \cup told
        BY <1>1, <3>2 DEF WriteSectorByte
      <4>4. status \in SUBSET Bits /\ "fault" \in Bits /\ "none" \in CmdTypes
        BY DEF TypeOK, Bits, CmdTypes
      <4>5. /\ status' \in SUBSET Bits /\ cmdtype' \in CmdTypes
            /\ irq' \in BOOLEAN /\ drq' \in BOOLEAN /\ moved' \in Nat
        BY <4>3, <4>4
      <4> QED BY <4>1, <4>2, <4>5 DEF ByteMoved
    <3> QED BY <3>1, <3>2
  <2> QED BY <1>1, <2>1 DEF WriteSectorByte, TypeOK, Disks
<1>2. CASE WriteTrackByte(tm, byte, told)
  <2> DEFINE Form == [written : BOOLEAN, found : BOOLEAN, at : Nat]
  <2>1. ByteMoved
    <3>1. told \cup {"fault"} \in SUBSET Bits BY DEF Bits
    <3>2. \/ Finish(tm, told \cup {"fault"})
          \/ Finish(tm, told) \/ Continue(tm, told)
      BY <1>2 DEF WriteTrackByte
    <3> QED BY <3>1, <3>2, MoveTypes
  <2>2. sectors' \in Disks /\ form' \in Form
    <3>1. CASE protected[drvreg] BY <1>2, <3>1 DEF WriteTrackByte, TypeOK, Disks
    <3>2. CASE ~protected[drvreg]
      <4>0. Formatted(byte)[1] \in Seq(Kinds) /\ Formatted(byte)[2] \in Form
        BY FormattedType
      <4>1. WithLast(Formatted(byte)[1], "noMark") \in Seq(Kinds)
        BY <4>0, WithLastType DEF Kinds
      <4>2. /\ form' = Formatted(byte)[2]
            /\ \/ sectors' = HereWith(WithLast(Formatted(byte)[1], "noMark"))
               \/ sectors' = HereWith(Formatted(byte)[1])
        BY <1>2, <3>2 DEF WriteTrackByte
      <4> QED BY <4>0, <4>1, <4>2, DiskTypes
    <3> QED BY <3>1, <3>2
  <2>3. cur' \in Nat
    <3>1. sectors'[drvreg][head[drvreg]] \in Seq(Kinds)
      BY <2>2 DEF Disks, TypeOK
    <3>2. cur' = Len(sectors'[drvreg][head[drvreg]]) BY <1>2 DEF WriteTrackByte
    <3> QED BY <3>1, <3>2
  <2> QED BY <1>2, <2>1, <2>2, <2>3 DEF WriteTrackByte, TypeOK
<1> QED BY <1>1, <1>2 DEF WriteByte

LEMMA ByteMovedIsTyped ==
  ASSUME TypeOK, ByteMoved, sectorChanged' \in BOOLEAN, sectors' \in Disks,
         form' \in [written : BOOLEAN, found : BOOLEAN, at : Nat], cur' \in Nat,
         UNCHANGED <<statusTmp, regVars, seekVars, head, nowSearch, index>>
  PROVE  CoreType'
BY DEF TypeOK, CoreType, ByteMoved, regVars, seekVars

LEMMA FiredType ==
  ASSUME TypeOK, NEW e \in Events
  PROVE  /\ Fired(e) \in [Events -> CmdTypes \cup {Off}]
         /\ \A d \in Events : [Fired(e) EXCEPT ![d] = cmdtype] \in [Events -> CmdTypes \cup {Off}]
         /\ [timer EXCEPT ![e] = cmdtype] \in [Events -> CmdTypes \cup {Off}]
BY DEF TypeOK, Fired

LEMMA EventsType == TypeOK /\ Event => CoreType' /\ UNCHANGED Outside
<1> SUFFICES ASSUME TypeOK, Event PROVE CoreType' /\ UNCHANGED Outside OBVIOUS
<1> DEFINE Timers == [Events -> CmdTypes \cup {Off}]
<1>0. {"seek", "seekEnd", "search", "drq", "multi1", "multi2", "lost"} = Events BY DEF Events
<1>1. CASE SeekEvent
  <2>1. Stepped \in Tracks /\ Stepped \in Nat BY DiskTypes, TracksAre
  <2>2. head' \in [Drives -> Tracks] /\ trkreg' \in Nat
    <3>1. head \in [Drives -> Tracks] /\ trkreg \in Nat BY DEF TypeOK
    <3> QED BY <1>1, <2>1, <3>1 DEF SeekEvent
  <2>3. timer' \in Timers
    <3>1. \/ timer' = [timer EXCEPT !["seek"] = cmdtype]
          \/ timer' = [Fired("seek") EXCEPT !["seekEnd"] = cmdtype]
          \/ timer' = Fired("seek")
      BY <1>1 DEF SeekEvent
    <3> QED BY <1>0, <3>1, FiredType
  <2>4. status' \in SUBSET Bits /\ statusTmp' \in SUBSET Bits
    <3>1. SearchTrack(Stepped, trkreg') \in SUBSET Bits BY SearchTypes
    <3>2. status \in SUBSET Bits /\ statusTmp \in SUBSET Bits BY DEF TypeOK
    <3> QED BY <1>1, <3>1, <3>2 DEF SeekEvent, SeekEnd
  <2>5. irq' \in BOOLEAN /\ nowSeek' \in BOOLEAN BY <1>1 DEF SeekEvent, SeekEnd, TypeOK
  <2>6. /\ UNCHANGED Outside
        /\ UNCHANGED <<cmdtype, secreg, seektrk, seekOut, drq, sectors, xferVars>>
    BY <1>1 DEF SeekEvent
  <2> QED BY <2>2, <2>3, <2>4, <2>5, <2>6 DEF TypeOK, CoreType, xferVars, Disks
<1>2. CASE SeekEndEvent
  <2>1. timer' \in Timers BY <1>0, <1>2, FiredType DEF SeekEndEvent
  <2> QED BY <1>2, <2>1 DEF SeekEndEvent, SeekEnd, TypeOK, CoreType, regVars, xferVars, Disks
<1>3. CASE SearchEvent
  <2>1. timer' \in Timers
    <3>1. \/ timer' = Fired("search")
          \/ timer' = [Fired("search") EXCEPT !["lost"] = cmdtype]
      BY <1>3 DEF SearchEvent
    <3> QED BY <1>0, <3>1, FiredType
  <2>2. /\ status' \in SUBSET Bits /\ cmdtype' \in CmdTypes /\ irq' \in BOOLEAN
        /\ drq' \in BOOLEAN /\ moved' \in Nat
    <3>1. /\ statusTmp \in SUBSET Bits /\ cmdtype \in CmdTypes /\ irq \in BOOLEAN
          /\ drq \in BOOLEAN /\ moved \in Nat /\ "busy" \in Bits /\ "drq" \in Bits
          /\ "none" \in CmdTypes
      BY DEF TypeOK, Bits, CmdTypes
    <3>2. CASE statusTmp \cap {"nf", "fault"} # {}
      BY <1>3, <3>1, <3>2 DEF SearchEvent
    <3>3. CASE statusTmp \cap {"nf", "fault"} = {}
      <4>1. /\ status' = statusTmp \cup {"busy", "drq"} /\ drq' = TRUE /\ moved' = 0
            /\ UNCHANGED <<cmdtype, irq>>
        BY <1>3, <3>3 DEF SearchEvent
      <4> QED BY <3>1, <4>1
    <3> QED BY <3>2, <3>3
  <2> QED BY <1>3, <2>1, <2>2 DEF SearchEvent, TypeOK, CoreType, regVars, seekVars, Disks
<1>4. CASE DrqEvent
  <2>1. timer' \in Timers
    <3>1. timer' = Fired("drq") \/ timer' = [Fired("drq") EXCEPT !["lost"] = cmdtype]
      BY <1>4 DEF DrqEvent
    <3> QED BY <1>0, <3>1, FiredType
  <2>2. status' \in SUBSET Bits /\ drq' \in BOOLEAN BY <1>4 DEF DrqEvent, TypeOK, Bits
  <2>3. index' \in [Drives -> Nat]
    <3>1. index \in [Drives -> Nat] /\ drvreg \in Drives BY DEF TypeOK
    <3>2. [index EXCEPT ![drvreg] = @ + 1] \in [Drives -> Nat] BY <3>1
    <3> QED BY <1>4, <3>1, <3>2 DEF DrqEvent
  <2> QED BY <1>4, <2>1, <2>2, <2>3 DEF DrqEvent, TypeOK, CoreType, regVars, seekVars, Disks
<1>5. CASE Multi1Event
  <2>1. timer' \in Timers BY <1>0, <1>5, FiredType DEF Multi1Event
  <2>2. secreg' \in Nat BY <1>5 DEF Multi1Event, TypeOK
  <2> QED BY <1>5, <2>1, <2>2 DEF Multi1Event, TypeOK, CoreType, seekVars, lineVars,
          xferVars, Disks
<1>6. CASE Multi2Event
  <2>1. Fired("multi2") \in Timers BY <1>0, FiredType
  <2>2. UNCHANGED <<Outside, regVars, lineVars>> BY <1>6 DEF Multi2Event
  <2>3. /\ trkreg \in Nat /\ secreg \in Nat /\ trkreg' \in Nat /\ secreg' \in Nat
        /\ irq' \in BOOLEAN /\ drq' \in BOOLEAN
    BY <2>2 DEF TypeOK, regVars, lineVars
  <2>4. CASE cmdtype \in {"rdMsec", "wrMsec"}
    <3> DEFINE type == SectorType([cmdreg EXCEPT !.op = IF cmdtype = "rdMsec" THEN "rd" ELSE "wr"])
    <3>1. type \in SecTypes BY DEF SectorType, SecTypes, WrSectors
    <3>2. SectorCommand(Fired("multi2"), type, trkreg, secreg)
      BY <1>6, <2>4 DEF Multi2Event
    <3> HIDE DEF type
    <3> QED BY <2>1, <2>2, <2>3, <3>1, <3>2, SectorCommandType
  <2>5. CASE cmdtype \notin {"rdMsec", "wrMsec"}
    BY <1>6, <2>1, <2>2, <2>3, <2>5 DEF Multi2Event, TypeOK, CoreType, seekVars, xferVars, Disks
  <2> QED BY <2>4, <2>5
<1>7. CASE LostEvent
  <2>0. Fired("lost") \in Timers /\ {"lost"} \in SUBSET Bits BY <1>0, FiredType DEF Bits
  <2>1. UNCHANGED <<Outside, statusTmp, regVars, seekVars, head, nowSearch, index>>
    BY <1>7 DEF LostEvent
  <2>2. CASE \/ ReadByte(Fired("lost"), {"lost"})
             \/ WriteByte(Fired("lost"), "data", {"lost"})
    BY <2>0, <2>1, <2>2, ReadByteType, WriteByteType, ByteMovedIsTyped
  <2>3. CASE ~(\/ ReadByte(Fired("lost"), {"lost"})
               \/ WriteByte(Fired("lost"), "data", {"lost"}))
    <3>1. timer' = Fired("lost") BY <1>7, <2>3 DEF LostEvent
    <3>2. /\ cmdtype' \in CmdTypes /\ status' \in SUBSET Bits
          /\ irq' \in BOOLEAN
      BY <1>7, <2>3 DEF LostEvent, TypeOK, CmdTypes, Bits, lineVars
    <3>3. UNCHANGED <<drq, sectors, cur, form, sectorChanged, moved>>
      BY <1>7, <2>3 DEF LostEvent, lineVars
    <3> QED BY <2>0, <2>1, <3>1, <3>2, <3>3 DEF TypeOK, CoreType, regVars, seekVars, Disks
  <2> QED BY <2>2, <2>3
<1>8. ASSUME NEW e \in Events, StaleEvent(e) PROVE CoreType' /\ UNCHANGED Outside
  <2>1. timer' \in Timers BY <1>8, FiredType DEF StaleEvent
  <2>2. nowSeek' \in BOOLEAN /\ nowSearch' \in BOOLEAN BY <1>8 DEF StaleEvent
  <2> QED BY <1>8, <2>1, <2>2 DEF StaleEvent, TypeOK, CoreType, regVars, lineVars, Disks
<1> QED BY <1>1, <1>2, <1>3, <1>4, <1>5, <1>6, <1>7, <1>8 DEF Event

LEMMA ProcessorType == TypeOK /\ Processor => TypeOK'
<1> SUFFICES ASSUME TypeOK, Processor PROVE TypeOK' OBVIOUS
<1> USE TypeParts
<1>0. /\ timer \in [Events -> CmdTypes \cup {Off}] /\ {} \in SUBSET Bits
      /\ trkreg \in Nat /\ secreg \in Nat /\ cmdreg \in CmdBytes
  BY DEF TypeOK
<1>1. ASSUME NEW c \in Program, WriteCommand(c) PROVE TypeOK'
  <2>1. c \in CmdBytes BY Mb8877Assumption
  <2>2. CoreType' BY <1>0, <1>1, <2>1, CommandType DEF WriteCommand
  <2>3. commands' \in Nat BY <1>1 DEF WriteCommand, Count, TypeOK
  <2>4. RestType' BY <1>1, <2>1, <2>3 DEF WriteCommand, TypeOK, RestType
  <2> QED BY <2>2, <2>4
<1>2. ASSUME NEW trk \in Tracks, NEW sec \in 1..Len(Blank[0]), WriteRegisters(trk, sec)
      PROVE  TypeOK'
  <2>1. trk \in Nat /\ sec \in Nat BY TracksAre
  <2>2. CoreType'
    <3>1. CASE Restarts
      BY <1>0, <1>2, <2>1, <3>1, CommandType DEF WriteRegisters
    <3>2. CASE ~Restarts
      BY <1>2, <2>1, <3>2 DEF WriteRegisters, TypeOK, CoreType, cmdVars, seekVars,
         lineVars, diskVars, xferVars, Disks
    <3> QED BY <3>1, <3>2
  <2>3. RestType'
    <3>1. commands' \in Nat BY <1>2 DEF WriteRegisters, Count, TypeOK
    <3>2. UNCHANGED <<cmdreg, drvreg, motorOn, inserted, protected, upsets>>
      BY <1>2 DEF WriteRegisters, cmdVars, diskVars
    <3> QED BY <3>1, <3>2 DEF TypeOK, RestType
  <2> QED BY <2>2, <2>3
<1>3. ASSUME NEW byte \in Bytes, WriteData(byte) PROVE TypeOK'
  <2>1. WriteByte(timer, byte, {}) BY <1>3 DEF WriteData
  <2>2. CoreType'
    BY <1>0, <1>3, <2>1, WriteByteType, ByteMovedIsTyped DEF WriteData
  <2> QED BY <1>3, <2>2 DEF WriteData, TypeOK, RestType, boundVars
<1>4. CASE ReadData
  <2>1. ReadByte(timer, {}) BY <1>4 DEF ReadData
  <2>2. CoreType'
    BY <1>0, <1>4, <2>1, ReadByteType, ByteMovedIsTyped DEF ReadData
  <2> QED BY <1>4, <2>2 DEF ReadData, TypeOK, RestType, boundVars
<1>5. CASE ReadStatus
  <2>1. status' \in SUBSET Bits BY <1>5 DEF ReadStatus, TypeOK, Bits
  <2> QED BY <1>5, <2>1 DEF ReadStatus, TypeOK, regVars, seekVars, diskVars, xferVars, boundVars
<1> QED BY <1>1, <1>2, <1>3, <1>4, <1>5 DEF Processor

LEMMA UserType == TypeOK /\ User => TypeOK'
<1> SUFFICES ASSUME TypeOK, User PROVE TypeOK' OBVIOUS
<1>1. CASE Reset
  <2>1. sectors' \in Disks BY <1>1, AbortType DEF Reset
  <2>2. 0 \in Tracks BY TracksAre DEF Tracks
  <2>3. Nothing \in CmdBytes BY DEF Nothing, CmdBytes, Ops
  <2>4. upsets' \in Nat BY <1>1 DEF Reset, Upset, TypeOK
  <2> QED BY <1>1, <2>1, <2>2, <2>3, <2>4 DEF Reset, TypeOK, lineVars, NoTimers, NoForm,
          CmdTypes, Off, Bits, Disks
<1>2. ASSUME NEW d \in Drives, Eject(d) PROVE TypeOK'
  BY <1>2 DEF Eject, Upset, TypeOK, CmdTypes, regVars, seekVars, lineVars, xferVars
<1>3. ASSUME NEW d \in Drives, Insert(d) PROVE TypeOK'
  <2>1. Blank \in [Tracks -> Seq(Kinds)] BY Mb8877Assumption
  <2>2. sectors' \in Disks BY <1>3, <2>1 DEF Insert, TypeOK, Disks
  <2>3. inserted' \in [Drives -> BOOLEAN] BY <1>3 DEF Insert, TypeOK
  <2> QED BY <1>3, <2>2, <2>3 DEF Insert, TypeOK, cmdVars, regVars, seekVars, lineVars,
          xferVars, boundVars, Disks
<1>4. ASSUME NEW d \in Drives, Protect(d) PROVE TypeOK'
  BY <1>4 DEF Protect, Upset, TypeOK, cmdVars, regVars, seekVars, lineVars, xferVars
<1> QED BY <1>1, <1>2, <1>3, <1>4 DEF User

LEMMA TypeStep == TypeOK /\ [Next]_vars => TypeOK'
<1> SUFFICES ASSUME TypeOK, [Next]_vars PROVE TypeOK' OBVIOUS
<1>1. CASE Event
  <2>1. CoreType' /\ UNCHANGED Outside BY <1>1, EventsType
  <2> QED BY <2>1, TypeParts DEF Outside, boundVars, TypeOK, RestType
<1>2. ASSUME NEW d \in Drives, SelectDrive(d), UNCHANGED motorOn PROVE TypeOK'
  BY <1>2 DEF SelectDrive, TypeOK, cmdVars, regVars, seekVars, lineVars, diskVars,
     xferVars, boundVars
<1>3. ASSUME NEW on \in BOOLEAN, SetMotor(on), UNCHANGED drvreg PROVE TypeOK'
  BY <1>3 DEF SetMotor, TypeOK, cmdVars, regVars, seekVars, lineVars, diskVars,
     xferVars, boundVars
<1>4. CASE UNCHANGED vars
  BY <1>4 DEF vars, TypeOK, cmdVars, regVars, seekVars, lineVars, diskVars,
     xferVars, boundVars
<1> QED BY <1>1, <1>2, <1>3, <1>4, ProcessorType, UserType DEF Next

(* ------------------------ the events in line --------------------------- *)
LEMMA InitEvents == Init => EventInv
<1> SUFFICES ASSUME Init PROVE EventInv OBVIOUS
<1>1. timer = [e \in Events |-> Off] BY DEF Init, NoTimers
<1>2. \A e \in {"seek", "seekEnd", "search", "drq", "multi1", "multi2", "lost"} : timer[e] = Off
  BY <1>1 DEF Events
<1> QED
  BY <1>2 DEF Init, EventInv, TimerInv, FlagInv, XferInv, IdleInv, IrqInv, SeekInv,
     CmdInv, Busy, Transfers, Reads, Writes, WrSectors

\* What a command does to the events: a seek, a transfer, an interrupt.
LEMMA SeekKeeps ==
  ASSUME TypeOK, EventInv, timer["seekEnd"] = Off, NEW target, NEW out, NEW trk, NEW flags,
         StartSeek(target, out, trk, flags)
  PROVE  EventInv'
<1>1. /\ timer'["seek"] = "type1"
      /\ \A e \in {"seekEnd", "search", "drq", "multi1", "multi2", "lost"} : timer'[e] = timer[e]
  BY DEF StartSeek, TypeOK, Events
<1>2. cmdtype' = "type1" /\ "type1" \notin Transfers
  BY DEF StartSeek, Transfers, Reads, Writes, WrSectors
<1>3. UNCHANGED nowSearch BY DEF StartSeek, xferVars
<1>4. TimerInv' BY <1>1 DEF EventInv, TimerInv
<1>5. FlagInv' BY <1>1, <1>3 DEF EventInv, FlagInv, TimerInv, Off
<1>6. SeekInv' BY <1>1 DEF SeekInv, Off
<1> QED BY <1>2, <1>4, <1>5, <1>6 DEF EventInv, XferInv, IdleInv, IrqInv, CmdInv

LEMMA SearchKeeps ==
  ASSUME TypeOK, EventInv, NEW tm \in [Events -> CmdTypes \cup {Off}],
         NEW type \in Transfers, NEW tmp, StartSearch(tm, type, tmp),
         \A e \in {"seek", "seekEnd", "drq", "multi1"} : tm[e] = timer[e],
         tm["multi2"] \in {timer["multi2"], Off}, Quiet(tm, type),
         UNCHANGED <<seekVars, drvreg>>, ~irq',
         type \in {"rdMsec", "wrMsec"} => cmdreg'.bit4,
         "nf" \in tmp \/ "fault" \in tmp \/ index'[drvreg] = 0
  PROVE  EventInv'
<1>1. /\ timer'["search"] = type /\ timer'["lost"] = Off
      /\ \A e \in {"seek", "seekEnd", "drq", "multi1", "multi2"} : timer'[e] = tm[e]
  BY DEF StartSearch, TypeOK, Events
<1>2. /\ cmdtype' = type /\ "busy" \in status' /\ nowSearch' /\ statusTmp' = tmp
  BY DEF StartSearch
<1>3. type # Off /\ type # "type1" BY DEF Transfers, Reads, Writes, WrSectors, Off
<1>4. TimerInv' BY <1>1 DEF EventInv, TimerInv, Off
<1>5. FlagInv' BY <1>1, <1>2, <1>3 DEF EventInv, FlagInv, seekVars
<1>6. XferInv'
  <2>1. Quiet(timer', cmdtype') BY <1>1, <1>2 DEF Quiet
  <2>2. Searching' BY <1>1, <1>2, <2>1 DEF Searching, Quiet
  <2> QED BY <1>2, <2>2 DEF XferInv
<1> QED BY <1>2, <1>3, <1>4, <1>5, <1>6 DEF EventInv, IdleInv, IrqInv, SeekInv, CmdInv, Busy

LEMMA NoTimersKeep ==
  ASSUME TypeOK, TypeOK', timer' = NoTimers, ~nowSearch', ~nowSeek', "busy" \notin status'
  PROVE  EventInv'
<1>1. \A e \in Events : timer'[e] = Off BY DEF NoTimers
<1>2. \A e \in {"seek", "seekEnd", "search", "drq", "multi1", "multi2", "lost"} : timer'[e] = Off
  BY <1>1 DEF Events
<1>3. cmdtype' # Off BY DEF TypeOK, CmdTypes, Off, Transfers, Reads, Writes, WrSectors
<1> QED BY <1>1, <1>2, <1>3 DEF EventInv, TimerInv, FlagInv, XferInv, IdleInv, IrqInv,
        SeekInv, CmdInv, Busy, Off

LEMMA CommandKeeps ==
  ASSUME TypeOK, TypeOK', EventInv, NEW c \in CmdBytes, NEW trk, NEW sec,
         ~Unfinished(TypeOf(c)), c.op = "unknown" => ~Busy,
         ProcessCmd(c, trk, sec), UNCHANGED drvreg, cmdreg' = c
  PROVE  EventInv'
<1>1. \A e \in {"seekEnd", "drq", "multi1", "multi2"} : timer[e] # TypeOf(c)
  BY DEF Unfinished
<1>2. ASSUME c.op # "forceInt" PROVE ~irq' BY <1>2 DEF ProcessCmd
<1>3. ASSUME c.op \in {"restore", "seek", "step", "stepIn", "stepOut"}
      PROVE  timer["seekEnd"] = Off
  <2>1. TypeOf(c) = "type1" BY <1>3 DEF TypeOf
  <2> QED BY <1>1, <2>1 DEF EventInv, TimerInv
<1>4. /\ timer \in [Events -> CmdTypes \cup {Off}]
      /\ index \in [Drives -> Nat] /\ drvreg \in Drives
  BY DEF TypeOK
<1>5. CASE c.op = "restore" /\ Restore BY <1>3, <1>5, SeekKeeps DEF Restore
<1>6. CASE c.op = "seek" /\ Seek(c) BY <1>3, <1>6, SeekKeeps DEF Seek
<1>7. CASE c.op \in {"step", "stepIn"} /\ StepIn(c) BY <1>3, <1>7, SeekKeeps DEF StepIn
<1>8. CASE c.op \in {"step", "stepOut"} /\ StepOut(c) BY <1>3, <1>8, SeekKeeps DEF StepOut
<1>9. CASE c.op \in {"rd", "wr"} /\ SectorCommand(timer, SectorType(c), trk, sec)
  <2>1. TypeOf(c) = SectorType(c) BY <1>9 DEF TypeOf
  <2>2. Quiet(timer, SectorType(c)) BY <1>1, <2>1 DEF Quiet
  <2> DEFINE tmp == SearchSector(SectorType(c), trk, sec)
  <2>3. "nf" \in tmp \/ "fault" \in tmp \/ index'[drvreg] = 0
    <3>1. tmp = {} \/ "nf" \in tmp \/ "fault" \in tmp BY DEF SearchSector
    <3>2. tmp = {} => index' = [index EXCEPT ![drvreg] = 0]
      BY <1>9 DEF SectorCommand
    <3> QED BY <1>4, <3>1, <3>2
  <2>4. StartSearch(timer, SectorType(c), tmp) /\ UNCHANGED seekVars
    BY <1>9 DEF SectorCommand
  <2>5. SectorType(c) \in Transfers
    BY DEF SectorType, Transfers, Reads, Writes, WrSectors
  <2>6. ~irq' BY <1>2, <1>9
  <2>7. SectorType(c) \in {"rdMsec", "wrMsec"} => cmdreg'.bit4 BY DEF SectorType
  <2> HIDE DEF tmp
  <2> QED BY <1>4, <2>2, <2>3, <2>4, <2>5, <2>6, <2>7, SearchKeeps
<1>10. CASE c.op = "rdAddr" /\ ReadAddr
  <2>1. TypeOf(c) = "rdAddr" BY <1>10 DEF TypeOf
  <2>2. Quiet(timer, "rdAddr") /\ ~irq' BY <1>1, <1>2, <1>10, <2>1 DEF Quiet
  <2>3. PICK tmp : /\ StartSearch(timer, "rdAddr", tmp)
                   /\ "nf" \in tmp \/ index'[drvreg] = 0
    <3>1. CASE inserted[drvreg] /\ Here # <<>>
      BY <1>4, <1>10, <3>1 DEF ReadAddr
    <3>2. CASE ~(inserted[drvreg] /\ Here # <<>>)
      BY <1>10, <3>2 DEF ReadAddr
    <3> QED BY <3>1, <3>2
  <2>4. "rdAddr" \in Transfers /\ UNCHANGED seekVars BY <1>10 DEF ReadAddr, Transfers, Reads
  <2> QED BY <1>4, <2>2, <2>3, <2>4, SearchKeeps
<1>11. CASE c.op = "rdTrk" /\ ReadTrack
  <2>1. TypeOf(c) = "rdTrk" BY <1>11 DEF TypeOf
  <2>2. Quiet(timer, "rdTrk") /\ ~irq' BY <1>1, <1>2, <1>11, <2>1 DEF Quiet
  <2>3. index'[drvreg] = 0 BY <1>4, <1>11 DEF ReadTrack
  <2>4. /\ StartSearch(timer, "rdTrk", {}) /\ "rdTrk" \in Transfers /\ UNCHANGED seekVars
    BY <1>11 DEF ReadTrack, Transfers, Reads
  <2> QED BY <1>4, <2>2, <2>3, <2>4, SearchKeeps
<1>12. CASE c.op = "wrTrk" /\ WriteTrack
  <2>1. TypeOf(c) = "wrTrk" BY <1>12 DEF TypeOf
  <2>2. Quiet(timer, "wrTrk") /\ ~irq' BY <1>1, <1>2, <1>12, <2>1 DEF Quiet
  <2>3. index'[drvreg] = 0 BY <1>4, <1>12 DEF WriteTrack
  <2>4. /\ StartSearch(timer, "wrTrk", IF protected[drvreg] THEN {"fault"} ELSE {})
        /\ "wrTrk" \in Transfers /\ UNCHANGED seekVars
    BY <1>12 DEF WriteTrack, Transfers, Writes
  <2> QED BY <1>4, <2>2, <2>3, <2>4, SearchKeeps
<1>13. CASE c.op = "forceInt" /\ ForceInt(c)
  <2>1. /\ timer' = NoTimers /\ ~nowSearch' /\ ~nowSeek' /\ "busy" \notin status'
    BY <1>13 DEF ForceInt
  <2> QED BY <2>1, NoTimersKeep
<1>14. CASE /\ c.op = "unknown"
            /\ UNCHANGED <<cmdtype, status, statusTmp, seekVars, timer, head,
                           sectors, xferVars>>
  <2>1. ~irq' BY <1>2, <1>14
  <2> QED BY <1>14, <2>1 DEF EventInv, TimerInv, FlagInv, XferInv, IdleInv, IrqInv, SeekInv,
          CmdInv, Searching, Asked, Moving, Quiet, Busy, seekVars, xferVars
<1> QED
  BY <1>5, <1>6, <1>7, <1>8, <1>9, <1>10, <1>11, <1>12, <1>13, <1>14 DEF ProcessCmd

\* A byte moved while its command asks for it: the next one, the next sector,
\* or the end.
LEMMA MoveKeeps ==
  ASSUME TypeOK, EventInv, NEW tm \in [Events -> CmdTypes \cup {Off}],
         \A e \in Events \ {"lost"} : tm[e] = timer[e],
         NEW told, "busy" \notin told, "drq" \notin told,
         Ready, Busy, cmdtype \in Transfers,
         \/ Continue(tm, told)
         \/ cmdtype \in {"rdMsec", "wrMsec"} /\ NextSector(tm, told)
         \/ Finish(tm, told),
         UNCHANGED <<cmdreg, index, drvreg, head, seekVars, nowSearch, statusTmp>>
  PROVE  EventInv'
<1> DEFINE Es == {"seek", "seekEnd", "search", "drq", "multi1", "multi2"}
<1>1. /\ \A e \in Es : tm[e] = timer[e]
      /\ Asked /\ ~nowSearch /\ ~irq
  BY DEF Events, EventInv, XferInv, IrqInv, Ready
<1>2. cmdtype \notin {"type1", "none", Off}
  BY DEF Transfers, Reads, Writes, WrSectors, Off
<1>3. ~nowSearch' /\ timer'["lost"] = Off
      /\ \A e \in {"seek", "seekEnd", "search"} : timer'[e] = timer[e]
  BY <1>1 DEF Continue, NextSector, Finish, Events
<1>4. FlagInv' BY <1>1, <1>3 DEF EventInv, FlagInv, seekVars
<1>5. CASE Continue(tm, told)
  <2>1. /\ timer'["drq"] = cmdtype /\ timer'["multi1"] = timer["multi1"]
        /\ timer'["multi2"] = timer["multi2"]
    BY <1>1, <1>5 DEF Continue, Events
  <2>2. /\ cmdtype' = cmdtype /\ "busy" \in status' /\ "drq" \notin status' /\ ~irq'
        /\ moved' = moved + 1
    BY <1>1, <1>5 DEF Continue, Busy
  <2>3. TimerInv' BY <1>3, <2>1 DEF EventInv, TimerInv
  <2>4. Moving' BY <1>1, <2>1, <2>2 DEF Moving, Asked, Quiet
  <2> QED BY <1>2, <1>3, <1>4, <2>2, <2>3, <2>4 DEF EventInv, XferInv, IdleInv, IrqInv, SeekInv,
          CmdInv, Busy
<1>6. CASE cmdtype \in {"rdMsec", "wrMsec"} /\ NextSector(tm, told)
  <2>1. /\ timer'["drq"] = timer["drq"] /\ timer'["multi1"] = cmdtype
        /\ timer'["multi2"] = cmdtype
    BY <1>1, <1>6 DEF NextSector, Events
  <2>2. /\ cmdtype' = cmdtype /\ "busy" \in status' /\ "drq" \notin status' /\ ~irq'
    BY <1>1, <1>6 DEF NextSector, Busy
  <2>3. TimerInv' BY <1>3, <1>6, <2>1 DEF EventInv, TimerInv
  <2>4. Moving' BY <1>1, <2>1, <2>2 DEF Moving, Asked, Quiet
  <2> QED BY <1>2, <1>3, <1>4, <2>2, <2>3, <2>4 DEF EventInv, XferInv, IdleInv, IrqInv, SeekInv,
          CmdInv, Busy
<1>7. CASE Finish(tm, told)
  <2>1. \A e \in {"drq", "multi1", "multi2"} : timer'[e] = timer[e]
    BY <1>1, <1>7 DEF Finish, Events
  <2>2. cmdtype' = "none" /\ "busy" \notin status' BY <1>7 DEF Finish
  <2>3. TimerInv' BY <1>3, <2>1 DEF EventInv, TimerInv
  <2> QED BY <1>4, <2>2, <2>3 DEF EventInv, XferInv, IdleInv, IrqInv, SeekInv,
          CmdInv, Busy,
          Transfers, Reads, Writes, WrSectors
<1> QED BY <1>5, <1>6, <1>7

LEMMA ReadKeeps ==
  ASSUME TypeOK, EventInv, NEW tm \in [Events -> CmdTypes \cup {Off}],
         \A e \in Events \ {"lost"} : tm[e] = timer[e],
         NEW told, told \in SUBSET {"lost"}, Busy, ReadByte(tm, told),
         UNCHANGED <<cmdreg, index, drvreg, head, seekVars, nowSearch, statusTmp>>
  PROVE  EventInv'
<1>1. PICK more : /\ "busy" \notin more /\ "drq" \notin more
                  /\ \/ Continue(tm, told)
                     \/ cmdtype \in {"rdMsec", "wrMsec"} /\ NextSector(tm, told)
                     \/ Finish(tm, more)
  <2> DEFINE more == told \cup (IF BadCheck THEN {"crc"} ELSE {})
                          \cup (IF cmdtype = "rdTrk" THEN {"lost"} ELSE {})
  <2>1. "busy" \notin more /\ "drq" \notin more OBVIOUS
  <2>2. \/ Continue(tm, told)
        \/ cmdtype \in {"rdMsec", "wrMsec"} /\ NextSector(tm, told)
        \/ Finish(tm, more)
    BY DEF ReadByte
  <2> QED BY <2>1, <2>2
<1>2. Ready /\ cmdtype \in Transfers BY DEF ReadByte, Transfers
<1>3. "busy" \notin told /\ "drq" \notin told OBVIOUS
<1> QED BY <1>1, <1>2, <1>3, MoveKeeps

LEMMA WriteKeeps ==
  ASSUME TypeOK, EventInv, NEW tm \in [Events -> CmdTypes \cup {Off}],
         \A e \in Events \ {"lost"} : tm[e] = timer[e],
         NEW told, told \in SUBSET {"lost"}, Busy, NEW byte, WriteByte(tm, byte, told),
         UNCHANGED <<cmdreg, index, drvreg, head, seekVars, nowSearch, statusTmp>>
  PROVE  EventInv'
<1>1. Ready /\ cmdtype \in Transfers
  BY DEF WriteByte, WriteSectorByte, WriteTrackByte, Transfers, Writes
<1>2. /\ "busy" \notin told /\ "drq" \notin told
      /\ "busy" \notin told \cup {"fault"} /\ "drq" \notin told \cup {"fault"}
  OBVIOUS
<1>3. CASE WriteSectorByte(tm, told) /\ ~protected[drvreg]
  <2>1. \/ Continue(tm, told)
        \/ cmdtype \in {"rdMsec", "wrMsec"} /\ NextSector(tm, told)
        \/ Finish(tm, told)
    BY <1>3 DEF WriteSectorByte
  <2> QED BY <1>1, <1>2, <2>1, MoveKeeps
<1>4. CASE WriteTrackByte(tm, byte, told)
  <2>1. \/ Finish(tm, told \cup {"fault"})
        \/ Finish(tm, told) \/ Continue(tm, told)
    BY <1>4 DEF WriteTrackByte
  <2> QED BY <1>1, <1>2, <2>1, MoveKeeps
<1>5. CASE WriteSectorByte(tm, told) /\ protected[drvreg]
  <2>1. cmdtype' = "none" /\ "busy" \notin status'
    BY <1>2, <1>5 DEF WriteSectorByte
  <2>2. \/ timer' = [tm EXCEPT !["multi1"] = "none", !["multi2"] = "none", !["lost"] = Off]
        \/ timer' = [tm EXCEPT !["drq"] = "none", !["lost"] = Off]
    BY <1>5 DEF WriteSectorByte
  <2>3. /\ \A e \in {"seek", "seekEnd", "search"} : timer'[e] = timer[e]
        /\ \A e \in {"drq", "multi1", "multi2"} : timer'[e] \in {timer[e], "none"}
        /\ timer'["lost"] = Off
    BY <2>2 DEF Events
  <2>4. TimerInv' BY <2>3 DEF EventInv, TimerInv
  <2>5. FlagInv' BY <2>3 DEF EventInv, FlagInv, seekVars
  <2> QED BY <2>1, <2>4, <2>5 DEF EventInv, XferInv, IdleInv, IrqInv, SeekInv,
          CmdInv, Busy,
          Transfers, Reads, Writes, WrSectors
<1> QED BY <1>3, <1>4, <1>5 DEF WriteByte

LEMMA ProcessorKeeps ==
  ASSUME TypeOK, TypeOK', EventInv, ~Overlaps, Processor
  PROVE  EventInv'
<1>0. /\ timer \in [Events -> CmdTypes \cup {Off}] /\ {} \in SUBSET {"lost"}
      /\ cmdreg \in CmdBytes
  BY DEF TypeOK
<1>1. ASSUME NEW c \in Program, WriteCommand(c) PROVE EventInv'
  <2>1. c \in CmdBytes BY Mb8877Assumption
  <2> QED BY <1>1, <2>1, CommandKeeps DEF WriteCommand, MayStart
<1>2. ASSUME NEW trk \in Tracks, NEW sec \in 1..Len(Blank[0]), WriteRegisters(trk, sec)
      PROVE  EventInv'
  <2>1. CASE Restarts
    BY <1>0, <1>2, <2>1, CommandKeeps DEF WriteRegisters, MayStart
  <2>2. CASE ~Restarts
    BY <1>2, <2>2 DEF WriteRegisters, EventInv, TimerInv, FlagInv, XferInv, IdleInv,
       IrqInv, SeekInv, CmdInv, Searching, Asked, Moving, Quiet, Busy, seekVars, xferVars,
       cmdVars, lineVars
  <2> QED BY <2>1, <2>2
<1>3. ASSUME NEW byte \in Bytes, WriteData(byte) PROVE EventInv'
  BY <1>0, <1>3, WriteKeeps DEF WriteData, MayMove
<1>4. CASE ReadData
  BY <1>0, <1>4, ReadKeeps DEF ReadData, MayMove
<1>5. CASE ReadStatus
  <2>1. cmdtype = "type1" => cmdtype \notin Transfers
    BY DEF Transfers, Reads, Writes, WrSectors
  <2>2. /\ cmdtype' = cmdtype /\ timer' = timer
        /\ cmdtype # "type1" => status' = status
        /\ "busy" \in status' => "busy" \in status
        /\ irq' => irq
    <3>1. CASE nowSearch \/ cmdtype # "type1" BY <1>5, <3>1 DEF ReadStatus
    <3>2. CASE ~(nowSearch \/ cmdtype # "type1")
      <4>1. PICK hole \in SUBSET {"drq"} :
              status' = (status \ ({"drq", "lost"} \cup (IF nowSeek THEN {} ELSE {"busy"})))
                        \cup hole \cup (IF head[drvreg] = 0 THEN {"lost"} ELSE {})
        BY <1>5, <3>2 DEF ReadStatus
      <4>2. "busy" \in status' => "busy" \in status BY <4>1
      <4>3. cmdtype' = cmdtype /\ timer' = timer /\ (irq' => irq) BY <1>5 DEF ReadStatus
      <4> QED BY <3>2, <4>2, <4>3
    <3> QED BY <3>1, <3>2
  <2>3. UNCHANGED <<statusTmp, seekVars, head, xferVars, drvreg>> BY <1>5 DEF ReadStatus
  <2>4. TimerInv' /\ FlagInv' /\ SeekInv'
    BY <2>2, <2>3 DEF EventInv, TimerInv, FlagInv, SeekInv, seekVars, xferVars, Busy
  <2>5. XferInv' /\ IdleInv' /\ IrqInv' /\ CmdInv'
    <3>1. UNCHANGED cmdreg BY <1>5 DEF ReadStatus
    <3> QED BY <2>1, <2>2, <2>3, <3>1 DEF EventInv, XferInv, IdleInv, IrqInv, CmdInv, Searching, Asked, Moving,
       Quiet, Busy, xferVars
  <2> QED BY <2>4, <2>5 DEF EventInv
<1> QED BY <1>1, <1>2, <1>3, <1>4, <1>5 DEF Processor

LEMMA FiredIs ==
  ASSUME TypeOK, NEW e \in Events
  PROVE  /\ Fired(e)[e] = Off
         /\ \A d \in Events \ {e} : Fired(e)[d] = timer[d]
         /\ \A d \in Events : [Fired(e) EXCEPT ![d] = cmdtype] =
              [f \in Events |-> IF f = d THEN cmdtype ELSE IF f = e THEN Off ELSE timer[f]]
         /\ [timer EXCEPT ![e] = cmdtype] =
              [f \in Events |-> IF f = e THEN cmdtype ELSE timer[f]]
BY DEF Fired, TypeOK

LEMMA SeekEventKeeps ==
  ASSUME TypeOK, EventInv, SeekEvent
  PROVE  EventInv'
<1>0. Events = {"seek", "seekEnd", "search", "drq", "multi1", "multi2", "lost"} BY DEF Events
<1>1. cmdtype = "type1" /\ timer["seek"] = "type1" /\ cmdtype' = "type1"
  BY DEF SeekEvent, InLine, EventInv, TimerInv
<1>2. "type1" \notin Transfers /\ "type1" # Off
  BY DEF Transfers, Reads, Writes, WrSectors, Off
<1>3. \A e \in {"search", "drq", "multi1", "multi2", "lost"} : timer'[e] = timer[e]
  BY <1>0, FiredIs DEF SeekEvent
<1>4. UNCHANGED <<nowSearch, drvreg, seektrk>> BY DEF SeekEvent, xferVars, Outside
<1>5. timer["seekEnd"] = Off BY <1>1, <1>2 DEF EventInv, FlagInv
<1>6. head'[drvreg] = Stepped BY DEF SeekEvent, TypeOK
<1>7. CASE ~Arrived
  <2>1. timer'["seek"] = "type1" /\ timer'["seekEnd"] = Off
    <3>1. timer' = [timer EXCEPT !["seek"] = cmdtype] BY <1>7 DEF SeekEvent
    <3>2. timer \in [Events -> CmdTypes \cup {Off}] BY DEF TypeOK
    <3> QED BY <1>0, <1>1, <1>5, <3>1, <3>2
  <2>2. TimerInv' BY <1>3, <2>1 DEF EventInv, TimerInv
  <2>3. FlagInv' BY <1>2, <1>3, <1>4, <2>1 DEF EventInv, FlagInv
  <2> QED BY <1>1, <1>2, <2>1, <2>2, <2>3 DEF EventInv, XferInv, IdleInv, IrqInv, SeekInv, CmdInv
<1>8. CASE Arrived /\ cmdreg.bit2
  <2>1. timer'["seek"] = Off /\ timer'["seekEnd"] = "type1"
    BY <1>0, <1>1, <1>8, FiredIs DEF SeekEvent
  <2>2. TimerInv' BY <1>3, <2>1 DEF EventInv, TimerInv
  <2>3. FlagInv' BY <1>2, <1>3, <1>4, <2>1 DEF EventInv, FlagInv
  <2>4. SeekInv' BY <1>4, <1>6, <1>8 DEF SeekInv, Arrived
  <2> QED BY <1>1, <1>2, <2>2, <2>3, <2>4 DEF EventInv, XferInv, IdleInv, IrqInv, CmdInv
<1>9. CASE Arrived /\ ~cmdreg.bit2
  <2>1. timer'["seek"] = Off /\ timer'["seekEnd"] = Off /\ ~nowSeek'
    BY <1>0, <1>5, <1>9, FiredIs DEF SeekEvent, SeekEnd
  <2>2. TimerInv' BY <1>3, <2>1 DEF EventInv, TimerInv
  <2>3. FlagInv' BY <1>2, <1>3, <1>4, <2>1 DEF EventInv, FlagInv
  <2> QED BY <1>1, <1>2, <2>1, <2>2, <2>3 DEF EventInv, XferInv, IdleInv, IrqInv, SeekInv, CmdInv
<1> QED BY <1>7, <1>8, <1>9

LEMMA SeekEndKeeps ==
  ASSUME TypeOK, EventInv, SeekEndEvent
  PROVE  EventInv'
<1>0. Events = {"seek", "seekEnd", "search", "drq", "multi1", "multi2", "lost"} BY DEF Events
<1>1. cmdtype = "type1" /\ timer["seekEnd"] = "type1" /\ cmdtype' = "type1"
  BY DEF SeekEndEvent, InLine, EventInv, TimerInv
<1>2. "type1" \notin Transfers /\ "type1" # Off
  BY DEF Transfers, Reads, Writes, WrSectors, Off
<1>3. /\ timer'["seekEnd"] = Off
      /\ \A e \in Events \ {"seekEnd"} : timer'[e] = timer[e]
  BY <1>0, FiredIs DEF SeekEndEvent
<1>4. UNCHANGED nowSearch /\ ~nowSeek' BY DEF SeekEndEvent, SeekEnd, xferVars
<1>5. TimerInv' BY <1>0, <1>3 DEF EventInv, TimerInv
<1>6. FlagInv' BY <1>0, <1>2, <1>3, <1>4 DEF EventInv, FlagInv
<1> QED BY <1>1, <1>2, <1>3, <1>5, <1>6 DEF EventInv, XferInv, IdleInv, IrqInv, SeekInv, CmdInv, Off

LEMMA SearchEventKeeps ==
  ASSUME TypeOK, EventInv, SearchEvent
  PROVE  EventInv'
<1>0. Events = {"seek", "seekEnd", "search", "drq", "multi1", "multi2", "lost"} BY DEF Events
<1>1. /\ timer["search"] = cmdtype /\ cmdtype # Off /\ nowSearch /\ ~nowSearch'
  BY DEF SearchEvent, InLine, EventInv, FlagInv
<1>2. \A e \in {"seek", "seekEnd", "drq", "multi1", "multi2"} : timer'[e] = timer[e]
  BY <1>0, FiredIs DEF SearchEvent
<1>3. timer'["search"] = Off BY <1>0, FiredIs DEF SearchEvent
<1>4. UNCHANGED <<seekVars, drvreg, index>> BY DEF SearchEvent, Outside
<1>5. FlagInv' BY <1>1, <1>2, <1>3, <1>4 DEF EventInv, FlagInv, seekVars
<1>6. CASE statusTmp \cap {"nf", "fault"} # {}
  <2>1. timer'["lost"] = timer["lost"] BY <1>0, <1>6, FiredIs DEF SearchEvent
  <2>2. "busy" \notin status' /\ cmdtype' = "none" BY <1>6 DEF SearchEvent
  <2>3. TimerInv' BY <1>2, <1>3, <2>1 DEF EventInv, TimerInv
  <2> QED BY <1>5, <2>2, <2>3 DEF EventInv, XferInv, IdleInv, IrqInv, SeekInv,
          CmdInv, Busy,
          Transfers, Reads, Writes, WrSectors
<1>7. CASE statusTmp \cap {"nf", "fault"} = {}
  <2>1. timer'["lost"] = cmdtype BY <1>0, <1>7, FiredIs DEF SearchEvent
  <2>2. /\ "busy" \in status' /\ "drq" \in status' /\ cmdtype' = cmdtype
        /\ moved' = 0 /\ irq' = irq
    BY <1>7 DEF SearchEvent
  <2>3. cmdtype \in Transfers \cup {"none"} BY <1>1 DEF EventInv, TimerInv
  <2>4. TimerInv' BY <1>2, <1>3, <2>1, <2>3 DEF EventInv, TimerInv
  <2>5. ASSUME cmdtype \in Transfers PROVE Busy /\ ~irq /\ Searching
    <3>1. Busy BY <1>1, <2>5 DEF EventInv, IdleInv, Events
    <3> QED BY <1>1, <2>5, <3>1 DEF EventInv, IrqInv, XferInv
  <2>6. ASSUME cmdtype \in Transfers PROVE Asked'
    <3>1. Quiet(timer, cmdtype) /\ index[drvreg] = 0
      BY <1>7, <2>5, <2>6 DEF Searching
    <3>2. Quiet(timer', cmdtype') BY <1>2, <2>2, <3>1 DEF Quiet
    <3>3. index'[drvreg'] = moved' BY <1>4, <2>2, <3>1
    <3> QED BY <2>1, <2>2, <3>2, <3>3 DEF Asked
  <2>7. XferInv' BY <1>1, <2>2, <2>6 DEF XferInv
  <2>8. IdleInv' /\ IrqInv' BY <2>2, <2>5 DEF IdleInv, IrqInv, Busy
  <2>9. SeekInv' BY <2>2, <2>3 DEF SeekInv, Transfers, Reads, Writes, WrSectors
  <2>10. CmdInv'
    <3>1. UNCHANGED cmdreg BY DEF SearchEvent, Outside
    <3> QED BY <2>2, <2>5, <3>1 DEF EventInv, CmdInv, Transfers, Reads, Writes, WrSectors
  <2> QED BY <1>5, <2>4, <2>7, <2>8, <2>9, <2>10 DEF EventInv
<1> QED BY <1>6, <1>7

LEMMA DrqEventKeeps ==
  ASSUME TypeOK, EventInv, DrqEvent
  PROVE  EventInv'
<1>0. Events = {"seek", "seekEnd", "search", "drq", "multi1", "multi2", "lost"} BY DEF Events
<1>1. /\ timer["drq"] = cmdtype /\ cmdtype # Off
  BY DEF DrqEvent, InLine
<1>2. \A e \in {"seek", "seekEnd", "search", "multi1", "multi2"} : timer'[e] = timer[e]
  BY <1>0, FiredIs DEF DrqEvent
<1>3. timer'["drq"] = Off BY <1>0, FiredIs DEF DrqEvent
<1>4. UNCHANGED <<cmdtype, seekVars, drvreg, nowSearch, head, irq, moved>>
  BY DEF DrqEvent, Outside
<1>5. FlagInv' BY <1>2, <1>4 DEF EventInv, FlagInv, seekVars
<1>6. cmdtype \in Transfers \cup {"none"} BY <1>1 DEF EventInv, TimerInv
<1>7. SeekInv' BY <1>4, <1>6 DEF SeekInv, Transfers, Reads, Writes, WrSectors
<1>8. "busy" \in status' <=> Busy BY DEF DrqEvent, Busy
<1>9. timer'["lost"] \in {timer["lost"], cmdtype} BY <1>0, FiredIs DEF DrqEvent
<1>10. TimerInv' BY <1>2, <1>3, <1>6, <1>9 DEF EventInv, TimerInv
<1>11. IrqInv' BY <1>4, <1>8 DEF EventInv, IrqInv, Busy
<1>12. cmdtype \in Transfers => Busy BY <1>1 DEF EventInv, IdleInv, Events
<1>13. IdleInv' BY <1>4, <1>8, <1>12 DEF IdleInv, Busy
<1>14. ASSUME cmdtype \in Transfers PROVE ~nowSearch' /\ "drq" \in status' /\ Asked'
  <2>1. Busy /\ ~nowSearch /\ "drq" \notin status /\ Moving
    BY <1>1, <1>12, <1>14 DEF EventInv, XferInv, Searching, Asked, Quiet
  <2>2. /\ timer["multi1"] # cmdtype /\ timer["multi2"] # cmdtype
        /\ index[drvreg] + 1 = moved
    BY <1>1, <2>1 DEF Moving
  <2>3. timer'["lost"] = cmdtype /\ "drq" \in status'
    BY <1>0, <2>1, FiredIs DEF DrqEvent
  <2>4. index'[drvreg] = index[drvreg] + 1 BY <1>14, <2>1 DEF DrqEvent, TypeOK
  <2>5. Quiet(timer', cmdtype') BY <1>1, <1>2, <1>3, <1>4, <2>2 DEF Quiet
  <2> QED BY <1>4, <2>1, <2>2, <2>3, <2>4, <2>5 DEF Asked
<1>15. XferInv' BY <1>4, <1>14 DEF XferInv
<1>16. CmdInv'
  <2>1. UNCHANGED cmdreg BY DEF DrqEvent, Outside
  <2> QED BY <1>4, <1>8, <2>1 DEF EventInv, CmdInv, Busy
<1> QED BY <1>5, <1>7, <1>10, <1>11, <1>13, <1>15, <1>16 DEF EventInv

LEMMA Multi1Keeps ==
  ASSUME TypeOK, EventInv, Multi1Event
  PROVE  EventInv'
<1>0. Events = {"seek", "seekEnd", "search", "drq", "multi1", "multi2", "lost"} BY DEF Events
<1>1. timer["multi1"] = cmdtype /\ cmdtype # Off BY DEF Multi1Event, InLine
<1>2. /\ timer'["multi1"] = Off
      /\ \A e \in Events \ {"multi1"} : timer'[e] = timer[e]
  BY <1>0, FiredIs DEF Multi1Event
<1>3. /\ UNCHANGED <<cmdreg, cmdtype, status, statusTmp, irq, head, drvreg>>
      /\ UNCHANGED seekVars /\ UNCHANGED xferVars
  BY DEF Multi1Event, Outside, lineVars
<1>4. TimerInv' BY <1>0, <1>2 DEF EventInv, TimerInv
<1>5. FlagInv' BY <1>0, <1>2, <1>3 DEF EventInv, FlagInv, seekVars, xferVars
<1>6. XferInv'
  <2>1. ASSUME cmdtype \in Transfers, Busy PROVE ~nowSearch /\ "drq" \notin status /\ Moving'
    <3>1. ~nowSearch /\ "drq" \notin status /\ Moving
      BY <1>1, <2>1 DEF EventInv, XferInv, Searching, Asked, Quiet
    <3> QED BY <1>0, <1>1, <1>2, <1>3, <3>1 DEF Moving, xferVars
  <2> QED BY <1>3, <2>1 DEF XferInv, Busy, xferVars
<1>7. IdleInv' /\ IrqInv' /\ SeekInv' /\ CmdInv'
  BY <1>0, <1>1, <1>2, <1>3 DEF EventInv, IdleInv, IrqInv, SeekInv, CmdInv, Busy, seekVars, Off
<1> QED BY <1>4, <1>5, <1>6, <1>7 DEF EventInv

LEMMA Multi2Keeps ==
  ASSUME TypeOK, EventInv, Multi2Event
  PROVE  EventInv'
<1>0. Events = {"seek", "seekEnd", "search", "drq", "multi1", "multi2", "lost"} BY DEF Events
<1>1. /\ timer["multi2"] = cmdtype /\ cmdtype # Off /\ timer["multi1"] = Off
  BY DEF Multi2Event, InLine
<1>2. cmdtype \in {"rdMsec", "wrMsec", "none"} BY <1>1 DEF EventInv, TimerInv
<1>3. /\ Fired("multi2") \in [Events -> CmdTypes \cup {Off}]
      /\ Fired("multi2")["multi2"] = Off
      /\ \A e \in Events \ {"multi2"} : Fired("multi2")[e] = timer[e]
  BY <1>0, FiredIs, FiredType
<1>4. UNCHANGED <<irq, drvreg>> BY DEF Multi2Event, Outside, lineVars
<1>5. CASE cmdtype \in {"rdMsec", "wrMsec"}
  <2> DEFINE type == SectorType([cmdreg EXCEPT !.op = IF cmdtype = "rdMsec" THEN "rd" ELSE "wr"])
             tmp  == SearchSector(type, trkreg, secreg)
  <2>1. SectorCommand(Fired("multi2"), type, trkreg, secreg) BY <1>5 DEF Multi2Event
  <2>2. type \in Transfers BY DEF SectorType, Transfers, Reads, Writes, WrSectors
  <2>3. StartSearch(Fired("multi2"), type, tmp) /\ UNCHANGED seekVars
    BY <2>1 DEF SectorCommand
  <2>4. "nf" \in tmp \/ "fault" \in tmp \/ index'[drvreg] = 0
    <3>1. tmp = {} \/ "nf" \in tmp \/ "fault" \in tmp BY DEF SearchSector
    <3>2. tmp = {} => index' = [index EXCEPT ![drvreg] = 0]
      BY <2>1 DEF SectorCommand
    <3>3. index \in [Drives -> Nat] /\ drvreg \in Drives BY DEF TypeOK
    <3> QED BY <3>1, <3>2, <3>3
  <2>5. cmdtype \in Transfers BY <1>5 DEF Transfers, Reads, Writes, WrSectors
  <2>6. Busy /\ ~irq BY <1>0, <1>1, <2>5 DEF EventInv, IdleInv, IrqInv
  <2>7. timer["drq"] # cmdtype
    BY <1>1, <2>5, <2>6 DEF EventInv, XferInv, Searching, Asked, Moving, Quiet
  <2>8. type = cmdtype /\ cmdreg.bit4 /\ UNCHANGED cmdreg
    <3>1. cmdreg.bit4 BY <1>5, <2>6 DEF EventInv, CmdInv
    <3>2. cmdreg \in CmdBytes /\ UNCHANGED cmdreg BY DEF TypeOK, Multi2Event, Outside
    <3> QED BY <1>5, <3>1, <3>2 DEF SectorType, CmdBytes
  <2>9. Quiet(Fired("multi2"), type) BY <1>0, <1>1, <1>3, <2>7, <2>8 DEF Quiet
  <2> HIDE DEF type, tmp
  <2> QED BY <1>0, <1>3, <1>4, <2>2, <2>3, <2>4, <2>6, <2>8, <2>9, SearchKeeps
<1>6. CASE cmdtype \notin {"rdMsec", "wrMsec"}
  <2>1. timer' = Fired("multi2") BY <1>6 DEF Multi2Event
  <2>2. /\ UNCHANGED <<cmdtype, status, statusTmp, head>>
        /\ UNCHANGED seekVars /\ UNCHANGED xferVars
    BY <1>6 DEF Multi2Event
  <2>3. cmdtype \notin Transfers BY <1>2, <1>6 DEF Transfers, Reads, Writes, WrSectors
  <2>4. TimerInv' BY <1>0, <1>3, <2>1 DEF EventInv, TimerInv
  <2>5. FlagInv' BY <1>0, <1>3, <2>1, <2>2 DEF EventInv, FlagInv, seekVars, xferVars
  <2> QED BY <1>2, <1>6, <2>2, <2>3, <2>4, <2>5 DEF EventInv, XferInv, IdleInv, IrqInv, SeekInv, CmdInv
<1> QED BY <1>5, <1>6

LEMMA LostKeeps ==
  ASSUME TypeOK, EventInv, LostEvent
  PROVE  EventInv'
<1>0. Events = {"seek", "seekEnd", "search", "drq", "multi1", "multi2", "lost"} BY DEF Events
<1>1. timer["lost"] = cmdtype /\ cmdtype # Off BY DEF LostEvent, InLine
<1>2. cmdtype \in Transfers \cup {"none"} BY <1>1 DEF EventInv, TimerInv
<1>3. /\ Fired("lost") \in [Events -> CmdTypes \cup {Off}]
      /\ Fired("lost")["lost"] = Off
      /\ \A e \in Events \ {"lost"} : Fired("lost")[e] = timer[e]
  BY <1>0, FiredIs, FiredType
<1>4. /\ UNCHANGED <<cmdreg, statusTmp, drvreg, head, nowSearch, index>>
      /\ UNCHANGED seekVars
  BY DEF LostEvent, Outside
<1>5. CASE Busy /\ ReadByte(Fired("lost"), {"lost"})
  BY <1>3, <1>4, <1>5, ReadKeeps
<1>6. CASE Busy /\ WriteByte(Fired("lost"), "data", {"lost"})
  BY <1>3, <1>4, <1>6, WriteKeeps
<1>7. CASE /\ timer' = Fired("lost")
           /\ UNCHANGED <<cmdtype, status, lineVars, sectors, cur, form, sectorChanged, moved>>
           /\ ~Busy
  <2>1. TimerInv' BY <1>0, <1>3, <1>7 DEF EventInv, TimerInv
  <2>2. FlagInv' BY <1>0, <1>3, <1>4, <1>7 DEF EventInv, FlagInv, seekVars
  <2>3. IdleInv' BY <1>0, <1>1, <1>3, <1>7 DEF EventInv, IdleInv, Busy
  <2> QED BY <1>7, <2>1, <2>2, <2>3 DEF EventInv, XferInv, IrqInv, SeekInv, CmdInv, Busy
<1>8. CASE timer' = Fired("lost") /\ cmdtype' = "none" /\ "busy" \notin status'
  <2>1. TimerInv' BY <1>0, <1>3, <1>8 DEF EventInv, TimerInv
  <2>2. FlagInv' BY <1>0, <1>3, <1>4, <1>8 DEF EventInv, FlagInv, seekVars
  <2> QED BY <1>8, <2>1, <2>2 DEF EventInv, XferInv, IdleInv, IrqInv, SeekInv, CmdInv, Busy,
          Transfers, Reads, Writes, WrSectors
<1>9. CASE /\ timer' = Fired("lost") /\ status' = status \cup {"lost"} /\ Busy
           /\ UNCHANGED <<cmdtype, lineVars, sectors, cur, form, sectorChanged, moved>>
  <2>1. TimerInv' BY <1>0, <1>3, <1>9 DEF EventInv, TimerInv
  <2>2. FlagInv' BY <1>0, <1>3, <1>4, <1>9 DEF EventInv, FlagInv, seekVars
  <2>3. /\ "busy" \in status' /\ ("drq" \in status' <=> "drq" \in status)
        /\ "lost" \in status' /\ irq' = irq /\ moved' = moved
    BY <1>9 DEF Busy, lineVars
  <2>4. timer'["search"] = timer["search"] /\ timer'["drq"] = timer["drq"]
        /\ timer'["multi1"] = timer["multi1"] /\ timer'["multi2"] = timer["multi2"]
    BY <1>0, <1>3, <1>9
  <2>5. XferInv'
    BY <1>4, <1>9, <2>3, <2>4 DEF EventInv, XferInv, Searching, Asked, Moving, Quiet, Busy
  <2>6. IdleInv' /\ IrqInv' /\ CmdInv'
    BY <1>4, <1>9, <2>3 DEF EventInv, IdleInv, IrqInv, CmdInv, Busy
  <2>7. SeekInv' BY <1>2, <1>9 DEF SeekInv, Transfers, Reads, Writes, WrSectors
  <2> QED BY <2>1, <2>2, <2>5, <2>6, <2>7 DEF EventInv
<1> QED BY <1>5, <1>6, <1>7, <1>8, <1>9 DEF LostEvent

LEMMA StaleKeeps ==
  ASSUME TypeOK, EventInv, NEW e \in Events, StaleEvent(e)
  PROVE  EventInv'
<1>0. Events = {"seek", "seekEnd", "search", "drq", "multi1", "multi2", "lost"} BY DEF Events
<1>1. timer[e] # cmdtype /\ timer[e] # Off BY DEF StaleEvent
<1>2. /\ timer'[e] = Off
      /\ \A d \in Events \ {e} : timer'[d] = timer[d]
  BY FiredIs DEF StaleEvent
<1>3. /\ UNCHANGED <<cmdtype, cmdreg, status, statusTmp, drvreg, head, index, moved, irq, seektrk>>
      /\ nowSeek' = (nowSeek /\ e \notin {"seek", "seekEnd"})
      /\ nowSearch' = (nowSearch /\ e # "search")
  BY DEF StaleEvent, Outside, lineVars
<1>4. cmdtype # Off
  BY DEF TypeOK, CmdTypes, Off, Transfers, Reads, Writes, WrSectors
<1>5. \A d \in Events : timer'[d] = cmdtype <=> timer[d] = cmdtype
  BY <1>1, <1>2, <1>4
<1>6. TimerInv' BY <1>0, <1>2 DEF EventInv, TimerInv
<1>7. FlagInv'
  <2>1. nowSearch' <=> timer'["search"] # Off
    BY <1>0, <1>1, <1>2, <1>3 DEF EventInv, FlagInv
  <2>2. nowSeek' => timer'["seek"] # Off \/ timer'["seekEnd"] # Off
    BY <1>0, <1>2, <1>3 DEF EventInv, FlagInv
  <2>3. timer'["seekEnd"] # Off => timer'["seek"] = Off
    BY <1>0, <1>2 DEF EventInv, FlagInv
  <2> QED BY <2>1, <2>2, <2>3 DEF FlagInv
<1>8. XferInv'
  <2>1. ASSUME cmdtype \in Transfers, Busy PROVE nowSearch' <=> nowSearch
    BY <1>1, <1>3, <2>1 DEF EventInv, XferInv, Searching
  <2>2. Searching => Searching' BY <1>0, <1>3, <1>5 DEF Searching, Quiet
  <2>3. Asked => Asked' BY <1>0, <1>3, <1>5 DEF Asked, Quiet
  <2>4. Moving => Moving' BY <1>0, <1>3, <1>5 DEF Moving
  <2> QED BY <1>3, <2>1, <2>2, <2>3, <2>4 DEF EventInv, XferInv, Busy
<1>9. IdleInv' BY <1>3, <1>5 DEF EventInv, IdleInv, Busy
<1>10. IrqInv' /\ CmdInv' BY <1>3 DEF EventInv, IrqInv, CmdInv, Busy
<1>11. SeekInv' BY <1>0, <1>3, <1>5 DEF EventInv, SeekInv, Busy
<1> QED BY <1>6, <1>7, <1>8, <1>9, <1>10, <1>11 DEF EventInv

LEMMA UserKeeps ==
  ASSUME TypeOK, TypeOK', EventInv, User
  PROVE  EventInv'
<1>1. CASE Reset
  BY <1>1, NoTimersKeep DEF Reset
<1>2. ASSUME NEW d \in Drives, Eject(d) PROVE EventInv'
  <2>1. /\ UNCHANGED <<cmdreg, status, statusTmp, drvreg, timer, head, irq>>
        /\ UNCHANGED seekVars /\ UNCHANGED xferVars
        /\ cmdtype' \in {"none", cmdtype}
    BY <1>2 DEF Eject, lineVars
  <2>2. "none" \notin Transfers BY DEF Transfers, Reads, Writes, WrSectors
  <2> QED BY <2>1, <2>2 DEF EventInv, TimerInv, FlagInv, XferInv, IdleInv, IrqInv, SeekInv, CmdInv,
          Searching, Asked, Moving, Quiet, Busy, seekVars, xferVars
<1>3. ASSUME NEW d \in Drives, Insert(d) PROVE EventInv'
  BY <1>3 DEF Insert, EventInv, TimerInv, FlagInv, XferInv, IdleInv, IrqInv, SeekInv, CmdInv,
     Searching, Asked, Moving, Quiet, Busy, seekVars, xferVars, cmdVars, lineVars
<1>4. ASSUME NEW d \in Drives, Protect(d) PROVE EventInv'
  BY <1>4 DEF Protect, EventInv, TimerInv, FlagInv, XferInv, IdleInv, IrqInv, SeekInv, CmdInv,
     Searching, Asked, Moving, Quiet, Busy, seekVars, xferVars, cmdVars, lineVars
<1> QED BY <1>1, <1>2, <1>3, <1>4 DEF User

\* A drive is selected only while the controller is at rest.
LEMMA SelectKeeps ==
  ASSUME TypeOK, EventInv, ~Overlaps, NEW d \in Drives, SelectDrive(d)
  PROVE  EventInv'
<1>1. ~Busy /\ UNCHANGED <<cmdVars, seekVars, timer, lineVars, xferVars>>
  BY DEF SelectDrive
<1> QED BY <1>1 DEF EventInv, TimerInv, FlagInv, XferInv, IdleInv, IrqInv, SeekInv, CmdInv, Busy,
        cmdVars, seekVars, lineVars, xferVars

LEMMA Step == ASSUME ~Overlaps PROVE IInv /\ [Next]_vars => IInv'
<1> SUFFICES ASSUME IInv, [Next]_vars PROVE IInv' OBVIOUS
<1>0. TypeOK /\ EventInv /\ TypeOK' BY TypeStep DEF IInv
<1>1. CASE Processor BY <1>0, <1>1, ProcessorKeeps DEF IInv
<1>2. CASE Event
  BY <1>0, <1>2, SeekEventKeeps, SeekEndKeeps, SearchEventKeeps, DrqEventKeeps, Multi1Keeps,
     Multi2Keeps, LostKeeps, StaleKeeps DEF Event, IInv
<1>3. CASE User BY <1>0, <1>3, UserKeeps DEF IInv
<1>4. ASSUME NEW d \in Drives, SelectDrive(d) PROVE IInv'
  BY <1>0, <1>4, SelectKeeps DEF IInv
<1>5. ASSUME NEW on, SetMotor(on), UNCHANGED drvreg PROVE IInv'
  BY <1>0, <1>5 DEF SetMotor, IInv, EventInv, TimerInv, FlagInv, XferInv, IdleInv, IrqInv,
     SeekInv, CmdInv, Searching, Asked, Moving, Quiet, Busy, seekVars, xferVars, cmdVars, lineVars
<1>6. CASE UNCHANGED vars
  BY <1>0, <1>6 DEF vars, IInv, EventInv, TimerInv, FlagInv, XferInv, IdleInv, IrqInv,
     SeekInv, CmdInv, Searching, Asked, Moving, Quiet, Busy, seekVars, xferVars, cmdVars, lineVars
<1> QED BY <1>1, <1>2, <1>3, <1>4, <1>5, <1>6 DEF Next

(* ---------------------------- the theorems ----------------------------- *)
\* The drive interface adds a motor's time to the controller: each of its
\* steps is one of the controller's, or none.
LEMMA UnitStep == UnitNext => [Next]_vars
<1> SUFFICES ASSUME UnitNext PROVE [Next]_vars OBVIOUS
<1>1. CASE UnitReset BY <1>1 DEF UnitReset, Next, User
<1>2. ASSUME NEW on \in BOOLEAN, NEW d \in Drives, WriteDriveReg(on, d) PROVE [Next]_vars
  BY <1>2 DEF WriteDriveReg, Next
<1>3. CASE SpindleUp BY <1>3 DEF SpindleUp, Next
<1>4. CASE MotorOff BY <1>4 DEF MotorOff, Next
<1>5. CASE Processor \/ Event \/ \E d \in Drives : Eject(d) \/ Insert(d) \/ Protect(d)
  BY <1>5 DEF Next, User
<1> QED BY <1>1, <1>2, <1>3, <1>4, <1>5 DEF UnitNext

THEOREM UnitIsController == UnitSpec => Spec
<1>1. UnitInit => Init BY DEF UnitInit
<1>2. UnitNext => [Next]_vars BY UnitStep
<1>3. UNCHANGED uvars => UNCHANGED vars BY DEF uvars
<1>4. [UnitNext]_uvars => [Next]_vars BY <1>2, <1>3
<1> QED BY <1>1, <1>4, PTL DEF UnitSpec, Spec

THEOREM EventsAreInLine == ASSUME ~Overlaps PROVE Spec => []IInv
<1>1. Init => IInv BY InitType, InitEvents DEF IInv
<1> QED BY <1>1, Step, PTL DEF Spec

\* A busy command is never left without the event that will move it on.
THEOREM BusyMovesOn == ASSUME ~Overlaps PROVE UnitSpec => []BusyHasAnEvent
<1>1. IInv => BusyHasAnEvent
  BY DEF IInv, EventInv, FlagInv, XferInv, IrqInv, Searching, Asked, Moving,
     BusyHasAnEvent, CommandHasItsEvent, FlagsHaveTheirEvent
<1> QED BY <1>1, EventsAreInLine, UnitIsController, PTL

\* No byte is skipped and none moves twice.
THEOREM BytesMoveOnce == ASSUME ~Overlaps PROVE UnitSpec => []EveryByteOnce
<1>1. IInv => EveryByteOnce
  BY DEF IInv, EventInv, XferInv, Asked, EveryByteOnce
<1> QED BY <1>1, EventsAreInLine, UnitIsController, PTL

Arriving == cmdtype = "type1" /\ cmdtype' = "type1" /\ ~irq /\ irq' /\ Busy /\ Busy'

LEMMA CommandIsNoArrival ==
  ASSUME NEW c, NEW trk, NEW sec, ProcessCmd(c, trk, sec), Arriving
  PROVE  FALSE
<1>1. c.op = "forceInt" BY DEF ProcessCmd, Arriving
<1>2. ForceInt(c) BY <1>1 DEF ProcessCmd
<1>3. "busy" \notin status' BY <1>2 DEF ForceInt
<1> QED BY <1>3 DEF Arriving, Busy

LEMMA ArrivalStep == IInv /\ [Next]_vars /\ Arriving => head'[drvreg] = seektrk
<1> SUFFICES ASSUME IInv, [Next]_vars, Arriving PROVE head'[drvreg] = seektrk OBVIOUS
<1>0. "type1" \notin Transfers /\ "type1" \notin Transfers \cup {"none", Off}
  BY DEF Transfers, Reads, Writes, WrSectors, Off
<1>1. CASE SeekEvent
  <2>1. Arrived BY <1>1 DEF SeekEvent, Arriving
  <2>2. head'[drvreg] = Stepped BY <1>1 DEF SeekEvent, IInv, TypeOK
  <2> QED BY <2>1, <2>2 DEF Arrived
<1>2. CASE SeekEndEvent
  BY <1>2 DEF SeekEndEvent, InLine, IInv, EventInv, SeekInv, Arriving
<1>3. CASE SearchEvent \/ DrqEvent \/ LostEvent
  BY <1>0, <1>3 DEF SearchEvent, DrqEvent, LostEvent, InLine, IInv, EventInv, TimerInv, Arriving
<1>4. CASE Multi1Event \/ Multi2Event \/ \E e \in Events : StaleEvent(e)
  BY <1>4 DEF Multi1Event, Multi2Event, StaleEvent, lineVars, Arriving
<1>5. CASE Processor
  <2>1. ASSUME NEW byte, ReadByte(timer, {}) \/ WriteByte(timer, byte, {}) PROVE FALSE
    BY <1>0, <2>1 DEF ReadByte, WriteByte, WriteSectorByte, WriteTrackByte, Arriving,
       Transfers, Reads, Writes, WrSectors
  <2>2. CASE ReadStatus BY <2>2 DEF ReadStatus, Arriving
  <2>3. ASSUME NEW c \in Program, WriteCommand(c) PROVE FALSE
    BY <2>3, CommandIsNoArrival DEF WriteCommand
  <2>4. ASSUME NEW trk, NEW sec, WriteRegisters(trk, sec) PROVE FALSE
    BY <2>4, CommandIsNoArrival DEF WriteRegisters, lineVars, Arriving
  <2> QED BY <1>5, <2>1, <2>2, <2>3, <2>4 DEF Processor, ReadData, WriteData
<1>6. CASE User
  BY <1>6 DEF User, Reset, Eject, Insert, Protect, lineVars, Arriving
<1>7. ASSUME NEW d, SelectDrive(d) PROVE FALSE BY <1>7 DEF SelectDrive, lineVars, Arriving
<1>8. ASSUME NEW on, SetMotor(on) PROVE FALSE BY <1>8 DEF SetMotor, lineVars, Arriving
<1>9. CASE UNCHANGED vars BY <1>9 DEF vars, lineVars, Arriving
<1> QED BY <1>1, <1>2, <1>3, <1>4, <1>5, <1>6, <1>7, <1>8, <1>9 DEF Next, Event

\* A type 1 command interrupts with the head at its target.
THEOREM HeadIsThere == ASSUME ~Overlaps PROVE UnitSpec => HeadArrives
<1>1. IInv /\ [Next]_vars
        => [cmdtype = "type1" /\ cmdtype' = "type1" /\ ~irq /\ irq' /\ Busy /\ Busy'
              => head'[drvreg] = seektrk]_vars
  BY ArrivalStep DEF Arriving
<1> QED BY <1>1, EventsAreInLine, UnitIsController, PTL DEF Spec, HeadArrives

\* Types, for any program.
THEOREM UnitTypeCorrect == UnitSpec => []UnitTypeOK
<1>1. UnitInit => UnitTypeOK
  BY InitType DEF UnitInit, UnitTypeOK, Off
<1>2. UnitTypeOK /\ [UnitNext]_uvars => UnitTypeOK'
  <2> SUFFICES ASSUME UnitTypeOK, [UnitNext]_uvars PROVE UnitTypeOK' OBVIOUS
  <2>1. TypeOK' BY TypeStep, UnitStep DEF UnitTypeOK, uvars
  <2>2. prev' \in BOOLEAN /\ unitMotor' \in BOOLEAN /\ motorTimer' \in {"up", "down", Off}
    BY DEF UnitTypeOK, UnitNext, uvars, motorVars, UnitReset, WriteDriveReg, SpindleUp, MotorOff
  <2> QED BY <2>1, <2>2 DEF UnitTypeOK
<1> QED BY <1>1, <1>2, PTL DEF UnitSpec
================================================================================

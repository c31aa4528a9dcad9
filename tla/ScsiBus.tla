------------------------------- MODULE ScsiBus -------------------------------
(***************************************************************************)
(* The hard disks: two SASI targets (vm/scsi_dev.cpp, scsi_hdd.cpp) with   *)
(* two units each (harddisk.cpp), the initiator (scsi_host.cpp), its ports *)
(* (x1/sasi.cpp), and a program that follows the lines: it selects a       *)
(* target, and moves a byte whenever REQ is up, the way C/D, I/O and MSG   *)
(* say. A target's events may be as late as they like, but for the 0.1 us  *)
(* after which REQ falls: that is shorter than any instruction.            *)
(*                                                                         *)
(* The signals are calls. The initiator lowers ACK by itself as soon as    *)
(* REQ falls, in the midst of the call by which it raised ACK: RaiseAck    *)
(* goes on to the next target after that.                                  *)
(***************************************************************************)
EXTENDS Integers, Sequences, FiniteSets

CONSTANTS
  Commands,     \* what the program may ask for: [op, unit, block, count]
  BlockSize,    \* sector_size (256 in the code)
  Room,         \* SCSI_BUFFER_SIZE (65536)
  AllBlocks,    \* what a count of 0 means (256)
  ImageSize,    \* bytes of an image
  OtherLength,  \* the bytes of the commands that are not about blocks
  ListLength,   \* bytes that a FORMAT's defect list announces
  MaxCommands,  \* bound: how many the program sends
  MaxUpsets,    \* bound: disks changed, and resets of the bus or the machine
  Abrupt        \* bus and machine are reset also in or after data

Targets == {0, 1}
Units == Targets \X {0, 1}

ScsiBusAssumption ==
  /\ {BlockSize, Room, AllBlocks, MaxCommands} \subseteq Nat \ {0}
  /\ Room % BlockSize = 0 /\ {ImageSize, ListLength, MaxUpsets} \subseteq Nat
  /\ \A op \in {"sense", "inquiry", "capacity", "defect", "specify"} : OtherLength[op] \in 1..Room
  /\ Room >= 4 /\ Abrupt \in BOOLEAN

VARIABLES
  target,  \* SCSI_DEV, each
  host,    \* SCSI_HOST's lines, as the sets of the targets that drive them
  image,   \* the files of the units
  mounted, \* the units that have theirs open
  driver   \* the program

scsiVars == <<target, host, image, mounted, driver>>
State == [target |-> target, host |-> host, image |-> image]

(* ------------------------------ the lines ------------------------------ *)
Phases == [free |-> {}, command |-> {"cd"}, dataOut |-> {}, dataIn |-> {"io"},
           status |-> {"cd", "io"}, messageIn |-> {"cd", "io", "msg"}]
DrivenBy(line, t, on, was) == IF on THEN was \union {t} ELSE was \ {t}

EventReq(s, t, level) == [s EXCEPT !.target[t].eventReq = level]
EventPhase(s, t, p) == [s EXCEPT !.target[t].eventPhase = p]
SetDat(s, byte) == [s EXCEPT !.host.data = byte]
Checked(s, t, sense) == [EventPhase(SetDat(s, "check"), t, "status") EXCEPT !.target[t].sense = sense]
Good(s, t) == [EventPhase(SetDat(s, "good"), t, "status") EXCEPT !.target[t].sense = "none"]

(* ------------------------------ the disks ------------------------------ *)
Reads  == {"read6", "read10", "read12"}
Writes == {"write6", "write10", "write12"}
Cmd(s, t) == s.target[t].command[1][2]
Unit(s, t) == <<t, Cmd(s, t).unit>>
IsReady(s, t) == Unit(s, t) \in mounted
\* logical_block_size: without a disk a block has no bytes.
Length(s, t) ==
  LET c == Cmd(s, t)
      blocks == IF c.op \in {"read6", "write6"} /\ c.count = 0 THEN AllBlocks ELSE c.count
  IN IF IsReady(s, t) THEN blocks * BlockSize ELSE 0
Start(s, t) == IF IsReady(s, t) THEN Cmd(s, t).block * BlockSize ELSE 0

\* read_buffer; a read past the end of the file fails.
ReadBuffer(s, t) ==
  LET d == s.target[t]
      n == IF d.remain > Room THEN Room ELSE d.remain
  IN IF Cmd(s, t).op \notin Reads
     THEN [s EXCEPT !.target[t].buffer = @ \o [i \in 1..n |-> 0]]
     ELSE IF IsReady(s, t) /\ d.position + n <= Len(s.image[Unit(s, t)])
     THEN [s EXCEPT !.target[t].buffer = @ \o SubSeq(s.image[Unit(s, t)], d.position + 1, d.position + n),
                    !.target[t].position = @ + n, !.target[t].sense = "none"]
     ELSE Checked(s, t, IF IsReady(s, t) THEN "address" ELSE "notReady")

\* write_buffer; a write past the end of the file makes it longer.
WriteBuffer(s, t) ==
  LET d == s.target[t]
      old == s.image[Unit(s, t)]
      end == d.position + Len(d.buffer)
      size == IF end > Len(old) THEN end ELSE Len(old)
      new == [i \in 1..size |-> IF i \in (d.position + 1)..end THEN d.buffer[i - d.position]
                                ELSE IF i <= Len(old) THEN old[i] ELSE 0]
      empty == [s EXCEPT !.target[t].buffer = <<>>]
  IN IF Cmd(s, t).op \notin Writes THEN empty
     ELSE IF IsReady(s, t)
     THEN [empty EXCEPT !.image[Unit(s, t)] = new, !.target[t].position = end]
     ELSE Checked(empty, t, "notReady")
Failed(s, t) == s.target[t].eventPhase = "status"

(* ----------------------------- the commands ---------------------------- *)
CommandLength(op) ==
  IF op \in {"capacity", "defect", "read10", "write10", "writeVerify"} THEN 10
  ELSE IF op \in {"read12", "write12"} THEN 12 ELSE 6

\* The answers that do not come from the disk.
Answer(s, t) ==
  LET op == Cmd(s, t).op
  IN [i \in 1..OtherLength[op] |-> IF op = "sense" /\ i = 1 THEN s.target[t].sense ELSE 0]

Sent(s, t, bytes, next) ==  \* the first byte is put out with the phase
  [EventPhase(SetDat(s, Head(bytes)), t, next) EXCEPT !.target[t].buffer = Tail(bytes)]

StartCommand(s, t) ==
  LET op == Cmd(s, t).op
      m == [s EXCEPT !.target[t].position = Start(s, t), !.target[t].remain = Length(s, t)]
      c == [m EXCEPT !.target[t].buffer = <<>>]
  IN IF op \in {"sense", "inquiry", "capacity", "defect"}
     THEN [Sent([s EXCEPT !.target[t].remain = Len(Answer(s, t))], t, Answer(s, t), "dataIn")
             EXCEPT !.target[t].sense = IF op = "sense" THEN "none" ELSE @]
     ELSE IF op \in Reads /\ Length(s, t) > 0
     THEN LET r == ReadBuffer(c, t)
          IN IF Failed(r, t) THEN r ELSE Sent(r, t, r.target[t].buffer, "dataIn")
     ELSE IF op \in Writes \union {"writeVerify"} /\ Length(s, t) > 0
     THEN EventPhase(c, t, "dataOut")
     ELSE IF op = "specify"
     THEN EventPhase([s EXCEPT !.target[t].remain = OtherLength[op], !.target[t].buffer = <<>>], t, "dataOut")
     ELSE IF op = "formatList"
     THEN EventPhase([s EXCEPT !.target[t].remain = 4], t, "dataOut")
     ELSE IF op \in {"format", "unknown"} THEN EventPhase(SetDat(s, "good"), t, "status")
     ELSE Good(s, t)

(* ------------------------------ handshake ------------------------------ *)
\* ACK goes down: the target goes on.
GoOn(s, t) ==
  LET d == s.target[t]
      less == [s EXCEPT !.target[t].remain = @ - 1]
  IN CASE d.phase = "command" ->
            IF Len(d.command) < CommandLength(Cmd(s, t).op) THEN EventReq(s, t, "high")
            ELSE StartCommand(s, t)
       [] d.phase = "dataOut" ->
            IF d.remain > 1 /\ Len(d.buffer) < Room THEN EventReq(less, t, "high")
            ELSE IF d.remain > 1
            THEN LET w == WriteBuffer(less, t)
                 IN IF Failed(w, t) THEN w ELSE EventReq(w, t, "high")
            ELSE LET w == IF d.buffer = <<>> THEN less ELSE WriteBuffer(less, t)
                 IN IF Failed(w, t) THEN w ELSE Good(w, t)
       [] d.phase = "dataIn" ->
            IF d.remain > 1
            THEN LET r == IF d.buffer = <<>> THEN ReadBuffer(less, t) ELSE less
                 IN IF Failed(r, t) THEN r
                    ELSE EventReq([SetDat(r, Head(r.target[t].buffer))
                                     EXCEPT !.target[t].buffer = Tail(@)], t, "high")
            ELSE Good(less, t)
       [] d.phase = "status" -> [Sent(s, t, <<"complete">>, "messageIn") EXCEPT !.target[t].remain = 1]
       [] d.phase = "messageIn" -> EventPhase(less, t, "free")
       [] OTHER -> s

\* Mutant: ACK is not kept by a target that is not on the bus.
FallUnseen(s, t) ==
  IF s.target[t].phase # "free" /\ s.target[t].ack THEN GoOn([s EXCEPT !.target[t].ack = FALSE], t)
  ELSE s

Fall(s, t) ==
  LET m == [s EXCEPT !.target[t].ack = FALSE]
  IN IF s.target[t].phase # "free" /\ s.target[t].ack THEN GoOn(m, t) ELSE m

\* SCSI_HOST: REQ comes up or goes down when the first or last target's does.
SetReq(s, t, on) ==
  LET req == DrivenBy("req", t, on, s.host.req)
      m == [EventReq(s, t, "none") EXCEPT !.host.req = req]
  IN IF s.host.req = {} /\ req # {} THEN [m EXCEPT !.host.ready = TRUE]
     ELSE IF s.host.req # {} /\ req = {}
     THEN Fall(Fall([m EXCEPT !.host.ready = FALSE], 0), 1)
     ELSE m

\* ACK comes up: the target takes the byte, or has given its own.
Rise(s, t) ==
  LET d == s.target[t]
      m == [s EXCEPT !.target[t].ack = TRUE]
      byte == s.host.bus[2]
      b == [m EXCEPT !.target[t].buffer = IF Len(@) < Room THEN Append(@, byte) ELSE @]
      list == b.target[t].buffer
  IN IF d.phase = "free" \/ d.ack THEN m
     ELSE IF d.phase = "dataIn" THEN SetReq(m, t, FALSE)
     ELSE IF d.phase = "dataOut"
     THEN SetReq(IF Cmd(s, t).op = "formatList" /\ Len(list) = 4
                 THEN [b EXCEPT !.target[t].remain = @ + list[3] * 256 + list[4]] ELSE b, t, FALSE)
     ELSE EventReq(IF d.phase = "command" THEN [m EXCEPT !.target[t].command = Append(@, s.host.bus)]
                   ELSE m, t, "low")

RaiseAck(s) == Rise(Rise(s, 0), 1)

SetPhase(s, t, p) ==
  LET m == [EventPhase(s, t, "none") EXCEPT
              !.host.io = DrivenBy("io", t, "io" \in Phases[p], @),
              !.host.cd = DrivenBy("cd", t, "cd" \in Phases[p], @),
              !.host.msg = DrivenBy("msg", t, "msg" \in Phases[p], @)]
      n == IF p # "free" THEN EventReq(m, t, "high")
           ELSE SetReq([m EXCEPT !.host.bsy = @ \ {t}, !.target[t].selected = FALSE], t, FALSE)
  IN [n EXCEPT !.target[t].phase = p]

SelUp(s, t) ==
  IF s.target[t].phase = "free" THEN [s EXCEPT !.target[t].eventSel = TRUE] ELSE s
SelDown(s, t) ==
  LET m == [s EXCEPT !.target[t].eventSel = FALSE]
  IN IF s.target[t].phase = "free" /\ s.target[t].selected
     THEN EventPhase([m EXCEPT !.target[t].command = <<>>], t, "command") ELSE m
Rst(s, t) == SetPhase(s, t, "free")

(* ------------------------------- actions ------------------------------- *)
AtReset == [phase |-> "free", command |-> <<>>, buffer |-> <<>>, position |-> 0, remain |-> 0,
            sense |-> "none", ack |-> FALSE, selected |-> FALSE, eventSel |-> FALSE,
            eventPhase |-> "none", eventReq |-> "none"]
HostAtReset == [bus |-> <<"id", 2>>, data |-> 0, req |-> {}, bsy |-> {}, io |-> {}, cd |-> {},
                msg |-> {}, ready |-> FALSE]
NoCommand == [op |-> "none", unit |-> 0, block |-> 0, count |-> 0]
Idle == [at |-> "idle", to |-> 0, cmd |-> NoCommand, sent |-> 0, moved |-> 0, got |-> <<>>,
         status |-> "none", commands |-> 0, upsets |-> 0]

ScsiInit == /\ target = [t \in Targets |-> AtReset] /\ host = HostAtReset
            /\ image = [u \in Units |-> [i \in 1..ImageSize |-> i]]
            /\ mounted = {<<0, 0>>, <<1, 0>>} /\ driver = Idle

Becomes(s) == target' = s.target /\ host' = s.host /\ image' = s.image /\ UNCHANGED mounted
Restarted == [driver EXCEPT !.at = "idle", !.sent = 0, !.moved = 0, !.got = <<>>, !.status = "none"]

(* The events of a target.                                                 *)
EventSelected(t) ==
  /\ target[t].eventSel
  /\ LET m == [State EXCEPT !.target[t].eventSel = FALSE]
     IN Becomes(IF host.bus = <<"id", t>> /\ \E u \in mounted : u[1] = t
                THEN [m EXCEPT !.host.bsy = @ \union {t}, !.target[t].selected = TRUE] ELSE m)
  /\ UNCHANGED driver
PhaseChanges(t) == /\ target[t].eventPhase # "none"
                   /\ Becomes(SetPhase(State, t, target[t].eventPhase)) /\ UNCHANGED driver
ReqChanges(t) == /\ target[t].eventReq # "none"
                 /\ Becomes(SetReq(State, t, target[t].eventReq = "high")) /\ UNCHANGED driver

(* The ports, as the program uses them.                                    *)
InTime == \A t \in Targets : target[t].eventReq # "low"
Select(t, c) ==
  /\ driver.at = "idle" /\ host.bsy = {} /\ driver.commands < MaxCommands
  /\ Becomes(SelUp(SelUp([State EXCEPT !.host.bus = <<"id", t>>], 0), 1))
  /\ driver' = [Restarted EXCEPT !.at = "select", !.to = t, !.cmd = c, !.commands = @ + 1]
Deselect ==
  /\ driver.at = "select" /\ ~target[driver.to].eventSel
  /\ Becomes(SelDown(SelDown(State, 0), 1))
  /\ driver' = [driver EXCEPT !.at = IF host.bsy = {} THEN "idle" ELSE "run"]

\* What the program has to send: its command, or data; a defect list tells
\* how long it is.
Byte == IF host.cd # {} THEN <<"cmd", driver.cmd, driver.sent + 1>>
        ELSE IF driver.cmd.op = "formatList"
        THEN <<"data", IF driver.moved = 3 THEN ListLength ELSE 0>>
        ELSE <<"data", 100 + driver.moved>>
WritePort ==
  /\ driver.at = "run" /\ InTime /\ host.req # {} /\ host.io = {}
  /\ Becomes(RaiseAck([State EXCEPT !.host.bus = Byte]))
  /\ driver' = IF host.cd # {} THEN [driver EXCEPT !.sent = @ + 1]
               ELSE [driver EXCEPT !.moved = @ + 1]
ReadPort ==
  /\ driver.at = "run" /\ InTime /\ host.req # {} /\ host.io # {}
  /\ Becomes(RaiseAck(State))
  /\ driver' = IF host.msg # {} THEN [driver EXCEPT !.at = "done"]
               ELSE IF host.cd # {} THEN [driver EXCEPT !.status = host.data]
               ELSE [driver EXCEPT !.got = Append(@, host.data)]
Done == /\ driver.at = "done" /\ host.bsy = {}
        /\ driver' = Restarted /\ UNCHANGED <<target, host, image, mounted>>

Upset == driver.upsets < MaxUpsets /\ driver' = [driver EXCEPT !.upsets = @ + 1]
UpsetAndIdle == /\ driver.upsets < MaxUpsets
                /\ driver' = [Restarted EXCEPT !.upsets = @ + 1]
\* HARDDISK::open and close, at any time.
Insert(u) == u \notin mounted /\ mounted' = mounted \union {u} /\ Upset /\ UNCHANGED <<target, host, image>>
Eject(u) == u \in mounted /\ mounted' = mounted \ {u} /\ Upset /\ UNCHANGED <<target, host, image>>
RstPort ==
  /\ driver.at = "run" /\ InTime
  /\ ~Abrupt => host.req # {} /\ host.cd # {}
  /\ Becomes(Rst(Rst(State, 0), 1)) /\ UpsetAndIdle
\* VM::reset keeps the buffers.
Reset ==
  /\ ~Abrupt => \A t \in Targets : target[t].buffer = <<>>
  /\ target' = [t \in Targets |-> [AtReset EXCEPT !.buffer = target[t].buffer]]
  /\ host' = HostAtReset /\ UNCHANGED <<image, mounted>> /\ UpsetAndIdle

ScsiNext ==
  \/ \E t \in Targets : EventSelected(t) \/ PhaseChanges(t) \/ ReqChanges(t)
  \/ \E t \in Targets, c \in Commands : Select(t, c)
  \/ Deselect \/ WritePort \/ ReadPort \/ Done \/ RstPort \/ Reset
  \/ \E u \in Units : Insert(u) \/ Eject(u)

ScsiSpec == ScsiInit /\ [][ScsiNext]_scsiVars

(* ----------------------------- properties ------------------------------ *)
ScsiTypeOK ==
  /\ \A t \in Targets : /\ target[t].phase \in DOMAIN Phases /\ target[t].ack \in BOOLEAN
                        /\ Len(target[t].buffer) <= Room /\ target[t].remain \in Nat
                        /\ target[t].eventReq \in {"none", "low", "high"}
  /\ mounted \subseteq Units /\ driver.at \in {"idle", "select", "run", "done"}

\* The bus is never stuck: a target that has it waits for an event of its own,
\* or has REQ up and will see the program's ACK; and READY of the DMA is REQ.
NeverStuck ==
  /\ \A t \in Targets :
       (target[t].phase # "free" \/ t \in host.bsy) =>
         \/ target[t].eventPhase # "none" \/ target[t].eventReq # "none"
         \/ t \in host.req /\ ~target[t].ack
         \/ target[t].selected /\ driver.at = "select"
  /\ host.ready = (host.req # {})

\* A command arrives byte by byte; when its status is good, what was read is
\* what the image holds, what was written is there, and a list is as long as
\* it says.
CommandIsWhole ==
  LET c == driver.cmd
      u == <<driver.to, c.unit>>
      At(i) == c.block * BlockSize + i
  IN /\ driver.at = "run" => \A t \in host.bsy : t = driver.to
     /\ driver.status # "none" =>
          target[driver.to].command = [i \in 1..CommandLength(c.op) |-> <<"cmd", c, i>>]
     /\ driver.status = "good" =>
          /\ c.op \in Reads => \A i \in 1..Len(driver.got) : driver.got[i] = image[u][At(i)]
          /\ c.op \in Reads /\ driver.got # <<>> =>
               Len(driver.got) = BlockSize * (IF c.count = 0 /\ c.op = "read6" THEN AllBlocks ELSE c.count)
          /\ c.op \in Writes => \A i \in 1..driver.moved : image[u][At(i)] = 99 + i
          /\ c.op = "formatList" => driver.moved = 4 + ListLength
================================================================================

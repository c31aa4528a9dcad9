------------------------------ MODULE MCMachines ------------------------------
(***************************************************************************)
(* The interrupts, and the devices that hold a conversation with the       *)
(* program or with one another. As in MCDevices a behaviour is one of      *)
(* theirs, and the variables of the others are 0.                          *)
(***************************************************************************)
EXTENDS Integers, Sequences, FiniteSets, TLC, DaisyChain

CONSTANTS Machines,  \* those that a run looks at
          Asked, Pressed, MaxKeys, KeyRoom, Prompt,
          BlockSize, Room, AllBlocks, ImageSize, ListLength, MaxCommands, MaxUpsets, Abrupt, Resets, Careful

VARIABLES
  machine,
  sub, user, prog, due,
  target, host, image, mounted, driver,
  deck, teller, tape, media, saved, changes,
  dma, ram, dev, holds, program, log,
  disk, files, format, truth, steps,
  printer, sending, sent,
  given, made

\* Every kind of command, on a disk that is there and one that is not.
Ask(op, unit, block, count) == [op |-> op, unit |-> unit, block |-> block, count |-> count]
ScsiCommands ==
  {Ask("read6", 0, 1, 0), Ask("write6", 0, 0, 3), Ask("read10", 0, 1, 1), Ask("write10", 0, 2, 1),
   Ask("read6", 1, 0, 1), Ask("sense", 0, 0, 0), Ask("formatList", 0, 0, 0),
   Ask("specify", 0, 0, 0), Ask("writeVerify", 0, 0, 1), Ask("testReady", 0, 0, 0)}
ScsiLengths == [sense |-> 2, inquiry |-> 3, capacity |-> 2, defect |-> 2, specify |-> 3]

Psub == INSTANCE SubCpu
Scsi == INSTANCE ScsiBus WITH Commands <- ScsiCommands, OtherLength <- ScsiLengths

\* A tape that begins with signals, has a gap and goes on; and a file that
\* cannot be opened.
Tape == INSTANCE TapeDeck WITH SubCpus <- {"psub", "sub262"},
          Reels <- {<<>>, <<TRUE, FALSE, FALSE, TRUE>>}, Formats <- {"wav", "tap", "t77", "cas"},
          RoomFor <- 2, MaxRun <- 2, Window <- 2, Wait <- 1, MaxSamples <- 3, MaxChanges <- 2

\* Blocks of three bytes and the longest, each way, in each mode, with a search
\* that stops, and interrupts.
Io == [kind |-> "io", by |-> "fixed"]
Mem(by) == [kind |-> "mem", by |-> by]
Transfer(how, mode, len, portA, portB, match, intOn) ==
  [how |-> how, a |-> 1, len |-> len, portA |-> portA, portB |-> portB, stopOnMatch |-> TRUE, match |-> match,
   mode |-> mode, b |-> 10, intOn |-> intOn, restart |-> FALSE, force |-> portA = portB]
How(mode, from) == [mode |-> mode, from |-> from]
DmaPrograms ==
  {Transfer(How("transfer", "a"), mode, 2, Mem("up"), Io, 0, {"eob"}) : mode \in {"byte", "cont", "burst"}}
  \union {Transfer(How("transfer", "b"), mode, len, Mem("down"), Io, 0, {}) :
            mode \in {"byte", "cont", "burst"}, len \in {0, 2}}
  \union {Transfer(How("both", "a"), mode, 2, Mem("up"), Mem("up"), 102, {"match", "eob"}) :
            mode \in {"byte", "cont"}}
  \union {Transfer(How("search", "b"), mode, 2, Mem("up"), Io, 1, {"rdy"}) : mode \in {"byte", "burst"}}
Zdma == INSTANCE DmaTransfer WITH Programs <- DmaPrograms, All <- 4, Cells <- 20, MaxBytes <- 7, MaxGoes <- 3

\* Two disks in one file, the first with an unstable sector and a track that is
\* not formatted; and a flat file.
Sec(id, num, data, names) == [id |-> id, num |-> num, shape |-> 1, deleted |-> FALSE, bad |-> FALSE,
                              names |-> names, data |-> data]
Mixed == [protect |-> FALSE, table |-> (0 :> 1 @@ 1 :> -1 @@ 2 :> 4),
          body |-> <<Sec(1, 2, 3, 0), Sec(2, 2, 4, 0), Sec(2, 1, 7, 1), Sec(1, 1, 6, 0)>>]
Whole == [protect |-> TRUE, table |-> (0 :> 1 @@ 1 :> 3 @@ 2 :> -1),
          body |-> <<Sec(1, 2, 3, 0), Sec(2, 2, 4, 0), Sec(2, 2, 1, 0), Sec(1, 2, 2, 0)>>]
Image == INSTANCE DiskImage WITH
  Media <- {[kind |-> "d88", images |-> <<Mixed, Whole>>, flat |-> <<>>],
            [kind |-> "solid", images |-> <<>>, flat |-> <<1, 2, 3, 4, 5, 6>>]},
  LastTrack <- 2, PerTrack <- 2, MaxSteps <- 3, ReadOnly <- FALSE

\* Every kind of command, on a new sheet or among tall kanji; some bring the head
\* to the end of the line or of the sheet.
Say(mode, bytes) == [mode |-> mode, bytes |-> bytes]
Esc(bytes) == Say("any", <<27>> \o bytes)
Codes == {<<0, 65>>, <<8>>, <<9>>, <<10>>, <<11, 49>>, <<12>>, <<13>>, <<14>>, <<16, 48, 55, 57>>, <<17>>,
          <<20, 32, 49, 32, 50, 63>>, <<26, 86>>, <<26, 1>>, <<28, 74>>, <<28, 83, 3, 1>>, <<28, 84, 2, 3>>,
          <<28, 112>>}
Escapes ==
  {<<3>>, <<11, 48, 50>>, <<11, 54, 53>>, <<16, 49, 52, 48, 48>>, <<37, 50, 0, 2, 255, 1>>, <<37, 50, 0, 0>>,
   <<37, 57, 15>>, <<37, 1>>, <<38>>, <<40, 48, 49, 48, 44, 48, 50, 48, 46>>, <<41, 48, 49, 48, 46>>,
   <<42, 120, 33>> \o [i \in 1..32 |-> 85], <<47, 48, 52, 48>>, <<76, 48, 49, 48>>, <<54>>, <<50>>, <<56>>,
   <<67, 54, 54>>, <<69>>, <<75>>, <<81>>, <<88>>, <<73, 48, 48, 48, 49, 1, 2>>, <<74, 0, 1, 1, 2, 3>>,
   <<78, 48, 48, 49, 65>>, <<86, 48, 48, 48, 50, 255>>, <<87, 48, 48, 48, 49, 1, 2>>, <<92, 1, 0>>, <<92, 255, 255>>,
   <<99, 49>>, <<112, 48>>, <<115, 49>>, <<127>>}
Words == {Say("any", c) : c \in Codes} \union {Esc(e) : e \in Escapes}
         \union {Say("ank", c) : c \in {<<65>>, <<166>>}}
         \union {Say("kanji", c) : c \in {<<48, 33>>, <<120, 33>>, <<40, 70>>}}
Earlier == {<<>>, <<Esc(<<75>>), Say("any", <<26, 86>>), Say("kanji", <<48, 33>>)>>}
Paper == INSTANCE Printer WITH Printers <- {"mz1p17", "file"}, Printed <- Earlier, MaxWords <- 2

\* Disks of each shape that the formats can tell: two sides, with marks and
\* errors and a sector of another track; one side; tracks that are missing;
\* single density.
OfTrack(c, h, r, n, data) == [c |-> c, h |-> h, r |-> r, n |-> n, mfm |-> TRUE, del |-> FALSE, bad |-> FALSE,
                              none |-> FALSE, data |-> data, again |-> <<>>]
Track(track, head, sectors) == [track |-> track, head |-> head, sectors |-> sectors]
TwoSided == [hd |-> FALSE, sides |-> 2, tracks |-> <<
  Track(0, 0, <<[OfTrack(0, 0, 1, 1, <<1, 2>>) EXCEPT !.again = << <<1, 3>> >>],
                [OfTrack(0, 0, 2, 1, <<3, 3>>) EXCEPT !.del = TRUE, !.again = << <<3, 1>>, <<2, 3>> >>]>>),
  Track(0, 1, <<[OfTrack(9, 1, 7, 2, <<1, 2, 1, 2>>) EXCEPT !.bad = TRUE]>>),
  Track(1, 0, <<[OfTrack(1, 0, 2, 0, <<2>>) EXCEPT !.none = TRUE], OfTrack(1, 0, 1, 1, <<2, 0>>)>>)>>]
OneSided == [hd |-> FALSE, sides |-> 1, tracks |-> <<
  Track(0, 0, <<OfTrack(0, 0, 1, 2, <<1, 2, 1, 3>>), OfTrack(0, 0, 3, 2, <<1, 1, 1, 1>>)>>),
  Track(1, 0, <<OfTrack(1, 0, 2, 1, <<2, 1>>)>>)>>]
Sparse == [hd |-> FALSE, sides |-> 2, tracks |-> <<
  Track(1, 1, <<[OfTrack(1, 0, 3, 1, <<2, 2>>) EXCEPT !.again = << <<2, 2>> >>],
                [OfTrack(1, 1, 4, 1, <<0, 2>>) EXCEPT !.del = TRUE, !.bad = TRUE]>>),
  Track(2, 0, <<[OfTrack(2, 0, 1, 0, <<2>>) EXCEPT !.again = << <<1>> >>]>>)>>]
SingleDensity == [hd |-> TRUE, sides |-> 2, tracks |-> <<
  Track(0, 0, <<[OfTrack(0, 0, 1, 0, <<1>>) EXCEPT !.mfm = FALSE], [OfTrack(0, 0, 2, 0, <<2>>) EXCEPT !.mfm = FALSE]>>),
  Track(0, 1, <<[OfTrack(0, 1, 1, 0, <<3>>) EXCEPT !.mfm = FALSE]>>)>>]
Geometry(name, type, ncyl, nside, nsec, n) ==
  [name |-> name, type |-> type, ncyl |-> ncyl, nside |-> nside, nsec |-> nsec, n |-> n, mfm |-> TRUE,
   nsec2 |-> 0, n2 |-> 0, mfm2 |-> TRUE]
Flat == <<Geometry("", "2D", 2, 2, 4, 1), Geometry("", "2D", 2, 2, 2, 2), Geometry("", "2DD", 3, 1, 3, 1),
          [Geometry("", "2HD", 2, 2, 2, 0) EXCEPT !.mfm = FALSE, !.nsec2 = 2, !.n2 = 1],
          Geometry("", "144", 3, 2, 5, 1), Geometry("hdm", "2HD", 1, 2, 8, 1)>>
Convert == INSTANCE DiskFormats WITH Disks <- {TwoSided, OneSided, Sparse, SingleDensity},
                                     Geometries <- Flat, BufferRoom <- 50, Tracks <- 6

\* Standard formats, too many sectors, sectors without data, two densities.
Alike(n, size, mfm) == [i \in 1..n |-> [size |-> size, mfm |-> mfm]]
OnDisk(kind, sectors) == [media |-> kind, sectors |-> sectors]
Layout == INSTANCE DiskTrack WITH DriveTypes <- {"2D", "2DD", "2HD", "unknown"}, Formatted <-
  {OnDisk("2D", Alike(16, 256, TRUE)), OnDisk("2DD", Alike(9, 512, TRUE)), OnDisk("2D", Alike(17, 256, TRUE)),
   OnDisk("2D", Alike(20, 256, TRUE)), OnDisk("2D", Alike(25, 256, TRUE)), OnDisk("2D", Alike(16, 128, FALSE)),
   OnDisk("2HD", Alike(8, 1024, TRUE)), OnDisk("144", Alike(21, 512, TRUE)), OnDisk("2D", <<>>),
   OnDisk("2D", Alike(5, 1024, FALSE)), OnDisk("2D", Alike(5, 512, TRUE) \o Alike(10, 0, TRUE)),
   OnDisk("2D", Alike(3, 0, TRUE) \o Alike(13, 256, TRUE)),
   OnDisk("2D", Alike(3, 128, FALSE) \o Alike(6, 512, TRUE) \o Alike(3, 1024, TRUE))}

\* Two characters, copies of two and three, and a root that is soon full.
Packed == INSTANCE LzHuf WITH Literals <- 2, Threshold <- 1, Lookahead <- 3, Window <- 4, MaxFreq <- 6,
                              InSize <- 2, OutSize <- 2, Positions <- {0, 2, 197, 4095}, MaxCodes <- 3

ASSUME MachinesAssumption ==
  Psub!SubCpuAssumption /\ Scsi!ScsiBusAssumption /\ Tape!TapeDeckAssumption
  /\ Zdma!DmaTransferAssumption /\ (\A p \in DmaPrograms : Zdma!Apart(p) /\ Zdma!EndsInTime(p))
  /\ Image!DiskImageAssumption /\ Paper!PrinterAssumption
  /\ Convert!DiskFormatsAssumption /\ Layout!DiskTrackAssumption /\ Packed!LzHufAssumption

psubVars == <<sub, user, prog, due>>
scsiVars == <<target, host, image, mounted, driver>>
tapeVars == <<deck, teller, tape, media, saved, changes>>
dmaVars == <<dma, ram, dev, holds, program, log>>
diskVars == <<disk, files, format, truth, steps>>
printVars == <<printer, sending, sent>>
madeVars == <<given, made>>
vars == <<machine, intVars, psubVars, scsiVars, tapeVars, dmaVars, diskVars, printVars, madeVars>>

\* A behaviour that is not the interrupts' has them as they begin.
AnyNesting == CHOOSE n \in Nesting : TRUE

Init ==
  /\ machine \in Machines
  /\ ChainInit /\ (machine # "chain" => nests = AnyNesting)
  /\ IF machine = "psub" THEN Psub!PsubInit
     ELSE sub = 0 /\ user = 0 /\ prog = 0 /\ due = 0
  /\ IF machine = "scsi" THEN Scsi!ScsiInit
     ELSE target = 0 /\ host = 0 /\ image = 0 /\ mounted = 0 /\ driver = 0
  /\ IF machine = "tape" THEN Tape!TapeInit
     ELSE deck = 0 /\ teller = 0 /\ tape = 0 /\ media = 0 /\ saved = 0 /\ changes = 0
  /\ IF machine = "dma" THEN Zdma!DmaInit
     ELSE dma = 0 /\ ram = 0 /\ dev = 0 /\ holds = 0 /\ program = 0 /\ log = 0
  /\ IF machine = "disk" THEN Image!Init
     ELSE disk = 0 /\ files = 0 /\ format = 0 /\ truth = 0 /\ steps = 0
  /\ IF machine = "print" THEN Paper!Init ELSE printer = 0 /\ sending = 0 /\ sent = 0
  /\ IF machine = "convert" THEN Convert!Init ELSE IF machine = "layout" THEN Layout!Init
     ELSE IF machine = "packed" THEN Packed!Init ELSE given = 0 /\ made = 0

Next ==
  /\ UNCHANGED machine
  /\ IF machine = "chain" THEN ChainNext ELSE UNCHANGED intVars
  /\ IF machine = "psub" THEN Psub!PsubNext ELSE UNCHANGED psubVars
  /\ IF machine = "scsi" THEN Scsi!ScsiNext ELSE UNCHANGED scsiVars
  /\ IF machine = "tape" THEN Tape!TapeNext ELSE UNCHANGED tapeVars
  /\ IF machine = "dma" THEN Zdma!DmaNext ELSE UNCHANGED dmaVars
  /\ IF machine = "disk" THEN Image!Next ELSE UNCHANGED diskVars
  /\ IF machine = "print" THEN Paper!Next ELSE UNCHANGED printVars
  /\ IF machine = "convert" THEN Convert!Next ELSE IF machine = "layout" THEN Layout!Next
     ELSE IF machine = "packed" THEN Packed!Next ELSE UNCHANGED madeVars

Spec == Init /\ [][Next]_vars

InUse == <<machine, intVars, IF machine = "psub" THEN Psub!InUse ELSE psubVars, scsiVars, tapeVars, dmaVars, diskVars, printVars, madeVars>>

(* ----------------------------- properties ------------------------------ *)
\* Every variable of the machines keeps its type.
MachinesTypeOK ==
  /\ machine = "chain" => ChainTypeOK
  /\ machine = "psub" => Psub!PsubTypeOK
  /\ machine = "scsi" => Scsi!ScsiTypeOK
  /\ machine = "tape" => Tape!TapeTypeOK
  /\ machine = "dma" => Zdma!DmaTypeOK
  /\ machine = "disk" => Image!TypeOK
  /\ machine = "print" => Paper!TypeOK
  /\ machine = "convert" => Convert!TypeOK
  /\ machine = "layout" => Layout!TypeOK
  /\ machine = "packed" => Packed!TypeOK

\* A device and the program follow each other: what the sub CPU answers is one
\* command's answer, or a key and its vector; a disk gets the command that was
\* sent, what is read and written is where it belongs, and the target that has the
\* bus goes on, or waits for an ACK that it will see ("wait req=on; write data; set
\* ack=on; wait req=off", scsi_dev.cpp:118-123). A printer's command ends with its
\* last byte, and what it draws comes out once, on the paper.
ExchangesAreWhole ==
  /\ machine = "psub" => Psub!AnswersAreWhole /\ Psub!ParametersLand /\ Psub!KeysAreHeld
  /\ machine = "scsi" => Scsi!CommandIsWhole /\ Scsi!NeverStuck
  /\ machine = "print" =>
       /\ Paper!CommandsEnd /\ Paper!MarksAreKept /\ Paper!MarksAreInside
       /\ Paper!PitchesAgree /\ Paper!HandshakeEnds

\* A DMA transfer moves every byte of the source once, to its place, what is
\* counted, read back and told of it is true, and the CPU is held only by one that
\* goes on. The sub CPU's word on the tape is true, the recorder runs when its tape
\* does and at its speed, and what is read back of a recording is what was sampled.
TransfersAreWhole ==
  /\ machine = "dma" => Zdma!BytesLand /\ Zdma!CountIsTrue /\ Zdma!HeldByTheDma
  /\ machine = "tape" => Tape!Followed /\ Tape!RecordingIsWhole

\* A disk keeps what was written and formatted, and only what was, across the
\* tracks' rewriting, the bank it is in, and a format that a flat file has not.
\* An image of another format has the same sectors when it is converted, also
\* one that was packed, and they are on the track where the FDC looks for them.
DiskIsKept ==
  /\ machine = "disk" => Image!DiskIsKept
  /\ machine = "convert" => Convert!ConversionIsTrue /\ Convert!FlatIsWhole
  /\ machine = "layout" => Layout!TrackIsWhole /\ Layout!TracksAreMatched
  /\ machine = "packed" => Packed!TreeIsWhole /\ Packed!TextIsWhole
================================================================================

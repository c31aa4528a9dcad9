------------------------------ MODULE MCDevices ------------------------------
(***************************************************************************)
(* Devices that have nothing to do with one another, checked in one run:   *)
(* a behaviour is one device's, and the variables of the others are 0.     *)
(***************************************************************************)
EXTENDS Integers, Sequences, FiniteSets, SoundRing, EventFrame, StateFile, CtcCounter, EventList,
        SoundMix, Palette

CONSTANTS MaxInterrupts, Operands

(* Palette bytes and colours of a computer with two guns of colour. *)
Guns2 == {1, 2}
PaletteBytes == { {{}, {1}}, {{2}, {1, 2}} }
FrontCodes == { {}, {{1}} }
BlackCodes == { [black |-> {}, hide |-> {}], [black |-> {{1}}, hide |-> {{}}] }
PaletteEntries == { [gun \in Guns2 |-> IF gun = 1 THEN 15 ELSE other] : other \in {3, 8} }
ThirdLevels == { [gun \in Guns2 |-> gun] }

VARIABLES device, trial, given, cpu, twin, taken

\* Channel 0 with the one it triggers, and the one fed from outside.
CtcWirings == { {0, 3}, {1} }
CtcWrites == [wired \in CtcWirings |-> IF wired = {1} THEN 3 ELSE 2]

Z80s  == INSTANCE Z80
Mcs   == INSTANCE Mcs48

(* The chips of a sound board and of the computer, with counters a few bits *)
(* wide; they share the variables of the processors.                       *)
Controls == { {"loadB", "irqB"}, {"loadA", "loadB", "irqA", "irqB", "resetA"}, {"irqA", "resetA", "resetB"} }
Opm == INSTANCE Ym2151 WITH opm <- trial, board <- given, real <- cpu, writes <- twin,
         Prescaler <- 3, Line <- 7, Counted <- 8, Pieces <- {2}, FullA <- 4, FullB <- 2, UnitB <- 4,
         ValuesA <- {2}, ValuesB <- {1}, MaxWrites <- 3

Shapes == { <<13, shape>> : shape \in {0, 4} \union 8..15 }
Registers == { <<1, 2>>, <<4, 3>>, <<6, 2>>, <<7, 62>>, <<7, 127>>, <<8, 16>>, <<9, 11>>,
               <<11, 1>>, <<11, 7>>, <<12, 1>>, <<14, 5>> }
Ay == INSTANCE Psg WITH psg <- trial, ports <- given, true <- cpu, steps <- twin,
        ToneBits <- 3, EnvBits <- 1, NoiseBits <- 3, Oversampling <- 1, Coarse <- 2, Clock <- 32,
        Volumes <- {1, 2}, Writes <- Registers \union Shapes, Frames <- {<<17, 34>>},
        Restores <- FALSE, MaxSteps <- 4

Parameters == { <<"tl", 10>>, <<"ks/ar", 28>>, <<"ks/ar", 223>>, <<"dr", 31>>, <<"sr", 30>>,
                <<"sl/rr", 47>>, <<"csm", 128>> }
Fm == INSTANCE FmOperator WITH op <- trial, sets <- given, keys <- cpu, Registers <- Parameters,
        Bottom <- 119, Top <- 128, MaxSets <- 3, MaxKeys <- 2

Link == INSTANCE SubLink WITH link <- trial, main <- given, sub <- cpu, toSub <- twin, toMain <- taken,
          Codes <- {1, 2}, OldRom <- TRUE, DeckBits <- {1, 4}, OwnBits <- {0}

\* Ends of months and years, two seconds before; the first ones in leap years.
LateOn(date, hour) ==
  [year |-> date[1], month |-> date[2], day |-> date[3], dow |-> date[4],
   hour |-> hour, minute |-> 59, second |-> 58]
Dates == { <<2000, 2, 28, 1>>, <<2024, 2, 29, 4>>, <<2023, 2, 28, 2>>, <<2100, 2, 28, 0>>,
           <<1999, 12, 31, 5>>, <<2024, 4, 30, 2>>, <<2024, 8, 31, 6>> }
Rtc == INSTANCE ClockChip WITH chip <- trial, wait <- given, prog <- cpu, ideal <- twin, sessions <- taken,
         HostTimes <- { LateOn(date, 23) : date \in Dates } \union { LateOn(<<2024, 9, 9, 1>>, 19) },
         SetTimes <- { LateOn(<<2000, 12, 31, 3>>, 23), LateOn(<<2000, 6, 30, 0>>, 11) },
         Parts <- 2, MaxSessions <- 2, MaxParts <- 6

\* Registers 0 to 9: four characters and five lines; six and nine, interlaced.
Programs == { <<3, 2, 2, 17, 1, 1, 1, 1, 0, 1>>, <<5, 3, 4, 32, 2, 0, 2, 2, 1, 1>> }
Screen == INSTANCE Crtc WITH crt <- trial, frame <- given, screen <- cpu, waits <- twin, changes <- taken,
            Geometries <- { [r \in 0..9 |-> program[r + 1]] : program \in Programs },
            Changes <- { <<0, 4>>, <<1, 3>>, <<1, 4>>, <<4, 2>>, <<5, 2>>, <<6, 2>>, <<7, 0>>, <<8, 0>>, <<8, 48>>, <<9, 0>> },
            DefaultTimes <- [hz_total |-> 4, hz_disp |-> 2, vt_total |-> 7, vt_disp |-> 3],
            CharClocks <- {2, 4}, MaxLines <- 20, LoLines <- 3, HiLines <- 4, AfterBlank <- 1,
            LateWrites <- FALSE, MaxChanges <- 2

Seqs == INSTANCE SequencesExt

(* Tapes as files: what they hold, and what is read back from them. *)
TapeData == { <<>>, <<0>>, <<255, 1>>, <<18, 129, 255>> }
MztHead(size) == [i \in 1..22 |-> IF i = 19 THEN size ELSE IF i = 20 THEN 0 ELSE IF i < 9 THEN 255 ELSE 64 + i]
MztPart(data) == [header |-> MztHead(Len(data)), data |-> data]
MztFiles ==
  { [format |-> "mzt", programs |-> parts,
     bytes |-> Seqs!FlattenSeq([i \in 1..Len(parts) |-> parts[i].header \o parts[i].data])]
    : parts \in {<<>>} \union { <<MztPart(data)>> : data \in TapeData \ {<<>>} }
                      \union { <<MztPart(data), MztPart(<<170, 7>>)>> : data \in TapeData } }
P6Payload(data) == data \o [i \in 1..(IF Len(data) < 2 THEN 2 - Len(data) ELSE 0) |-> 255] \o [i \in 1..16 |-> 0]
P6Files ==
  { [format |-> "p6", bytes |-> data, info |-> [p6t |-> FALSE], payload |-> P6Payload(data)] : data \in TapeData }
  \union { [format |-> "p6", bytes |-> data \o <<80, 54, 2>>, info |-> [p6t |-> TRUE, at |-> Len(data), baud |-> baud],
            payload |-> P6Payload(data)] : data \in { d \in TapeData : Len(d) >= 2 }, baud \in {0, 600} }
CasFile(kind, bytes, payload) == [format |-> "cas", begins |-> kind, bytes |-> bytes, payload |-> payload]
M5Tails == { << <<>>, <<>> >>, << <<68, 2, 9, 8, 7>>, <<68, 2, 9, 8, 7>> >>, << <<68, 2, 9>>, <<68, 2, 9, 255, 255>> >>,
             << <<68, 0, 1, 2, 3, 4, 5>>, <<68, 0, 1, 2, 3, 4, 5>> >>, << <<68>>, <<68, 255>> >> }
CasFiles ==
  UNION { { CasFile("other", data, data), CasFile("momo", data, P6Payload(data)) } : data \in TapeData }
  \union { CasFile("SORDM5", <<72, 1, 5, 6>> \o tail[1], <<72, 1, 5, 6>> \o tail[2]) : tail \in M5Tails }
  \union { CasFile("msx", <<256>> \o first \o <<256>> \o second,
                  first \o (IF first = <<>> \/ second = <<>> THEN <<31, 166, 222, 186, 204, 19, 125, 116>> ELSE <<>>) \o second)
           : first \in TapeData, second \in TapeData }
OtherFiles ==
  { [format |-> "bin", bytes |-> data, payload |-> data] : data \in TapeData }
  \union { [format |-> "tap", new |-> new, samples |-> samples, rate |-> 8000, bytes |-> data,
            payload |-> IF new /\ ~samples THEN <<>> ELSE data] : data \in TapeData, new \in BOOLEAN, samples \in BOOLEAN }
  \union { [format |-> "wav", width |-> width, bytes |-> wave] : width \in {1, 2}, wave \in [1..6 -> {-100, 9, 90}] }
TapeFiles == MztFiles \union P6Files \union CasFiles \union OtherFiles
Images == INSTANCE TapeImages WITH file <- trial, tape <- given, MztHeader <- 22, P6Header <- 2, P6Most <- 9,
            Files <- TapeFiles, M5Full <- 4, Margin <- 8

Bus == INSTANCE Buses WITH mem <- trial, bus <- given, boards <- cpu, told <- twin, busLog <- taken,
         LowPages <- 1, Banks <- {1, 16, 130}, Cells <- {7}, Inks <- {0, 1}, ByteBase <- 2,
         BoardBytes <- {1}, SavedCells <- 1, MaxBusOps <- 4

ASSUME DevicesAssumption ==
  /\ Bus!BusesAssumption /\ PaletteAssumption /\ Images!TapeImagesAssumption
  /\ StateFileAssumption /\ CtcCounterAssumption
  /\ EventListAssumption /\ Opm!Ym2151Assumption /\ Ay!PsgAssumption /\ Fm!FmOperatorAssumption
  /\ Link!SubLinkAssumption /\ Rtc!ClockChipAssumption /\ Screen!CrtcAssumption

cpuVars == <<trial, given, cpu, twin, taken>>
vars == <<device, ringVars, frameVars, fileVars, ctcVars, listVars, mixVars, paletteVars, cpuVars>>

(* The ring, the frame, the file and the CTC are as they begin in a behaviour
   that is not theirs.                                                     *)
AnyFrame == CHOOSE s \in Timings \X Speeds \X SubCpus : TRUE
NoColours ==
  /\ uncopied = TRUE /\ renewed = {} /\ portWrites = 0
  /\ pal = 0 /\ priority = 0 /\ pri = 0 /\ paged = 0 /\ mode2 = 0 /\ zmode1 = 0 /\ zmode2 = 0
  /\ ztpal = 0 /\ zpal = 0 /\ zpalNum = 0 /\ prepared = 0 /\ palette = 0
  /\ hireso = 0 /\ column40 = 0 /\ busModes = 0 /\ savedPal = 0
AnyWiring == CHOOSE wired \in Wirings : TRUE

Init ==
  /\ device \in {"ring", "frame", "file", "ctc", "list", "z80", "mcs48", "opm", "psg", "fm",
               "sublink", "clock", "crtc", "mix", "palette", "tapes", "buses"}
  /\ RingInit
  /\ FrameInit /\ (device # "frame" => <<timing, speed, subs>> = AnyFrame)
  /\ FileInit /\ (device # "file" => slot = NoFile)
  /\ CtcInit /\ (device # "ctc" => Channels = AnyWiring)
  /\ ListInit
  /\ MixInit /\ (device # "mix" => ~strictly)
  /\ IF device = "palette" THEN PaletteInit ELSE NoColours
  /\ CASE device = "z80"   -> Z80s!Init
       [] device = "mcs48" -> Mcs!Init
       [] device = "opm"   -> Opm!Init /\ taken = 0
       [] device = "psg"   -> Ay!Init /\ taken = 0
       [] device = "fm"    -> Fm!FmInit /\ twin = 0 /\ taken = 0
       [] device = "sublink" -> Link!Init
       [] device = "clock" -> Rtc!Init
       [] device = "crtc"  -> Screen!Init
       [] device = "buses" -> Bus!BusesInit
       [] device = "tapes" -> Images!Init /\ cpu = 0 /\ twin = 0 /\ taken = 0
       [] OTHER -> trial = 0 /\ given = 0 /\ cpu = 0 /\ twin = 0 /\ taken = 0

Next ==
  /\ UNCHANGED device
  /\ IF device = "ring" THEN RingNext ELSE UNCHANGED ringVars
  /\ IF device = "frame" THEN FrameNext ELSE UNCHANGED frameVars
  /\ IF device = "file" THEN FileNext ELSE UNCHANGED fileVars
  /\ IF device = "ctc" THEN CtcNext ELSE UNCHANGED ctcVars
  /\ IF device = "list" THEN ListNext ELSE UNCHANGED listVars
  /\ IF device = "mix" THEN MixNext ELSE UNCHANGED mixVars
  /\ IF device = "palette" THEN PaletteNext ELSE UNCHANGED paletteVars
  /\ CASE device = "z80"   -> Z80s!Next
       [] device = "mcs48" -> Mcs!Next
       [] device = "opm"   -> Opm!Next /\ UNCHANGED taken
       [] device = "psg"   -> Ay!Next /\ UNCHANGED taken
       [] device = "fm"    -> Fm!FmNext /\ UNCHANGED <<twin, taken>>
       [] device = "sublink" -> Link!Next
       [] device = "clock" -> Rtc!Next
       [] device = "crtc"  -> Screen!Next
       [] device = "buses" -> Bus!BusesNext
       [] device = "tapes" -> Images!Next /\ UNCHANGED <<cpu, twin, taken>>
       [] OTHER -> UNCHANGED cpuVars

Spec == Init /\ [][Next]_vars

\* Slots that differ only in what they were last used for are one state.
InUse == <<device, ringVars, frameVars, fileVars, ctcVars, UsedSlots, mixVars, paletteVars, cpuVars>>

(* ----------------------------- properties ------------------------------ *)
\* Every variable of the devices keeps its type.
DevicesTypeOK ==
  /\ device = "ring" => RingTypeOK
  /\ device = "frame" => FrameTypeOK
  /\ device = "file" => FileTypeOK
  /\ device = "ctc" => CtcTypeOK
  /\ device = "list" => ListTypeOK
  /\ device = "mix" => SoundMixTypeOK
  /\ device = "palette" => PaletteTypeOK
  /\ device = "z80" => Z80s!TypeOK
  /\ device = "mcs48" => Mcs!TypeOK
  /\ device = "opm" => Opm!TypeOK
  /\ device = "psg" => Ay!TypeOK
  /\ device = "fm" => Fm!FmTypeOK
  /\ device = "sublink" => Link!TypeOK
  /\ device = "clock" => Rtc!TypeOK
  /\ device = "crtc" => Screen!TypeOK
  /\ device = "tapes" => Images!TypeOK
  /\ device = "buses" => Bus!BusesTypeOK

\* An envelope gets louder or goes off only where its operator's phases say so.
EnvelopesGoTheirWay == [][device = "fm" => Fm!GoesItsWay]_vars

\* A processor's flags, which come out of tables, are those of the arithmetic;
\* the listing and the clocks follow every instruction; a program does not
\* notice where it is interrupted; the bytes and requests between the main CPU
\* and the 80C48 are neither lost nor taken twice; and an address means the page,
\* the planes or the byte of a board that the program last selected.
ProcessorsAreRight ==
  /\ device = "z80" => Z80s!ArithmeticIsRight /\ Z80s!TimeAndListing /\ Z80s!InterruptsUnseen
  /\ device = "mcs48" => Mcs!SumsAreRight /\ Mcs!ListingFollows /\ Mcs!Unseen
  /\ device = "sublink" => Link!SubLinkIsSafe
  /\ device = "buses" => Bus!BusesAreTrue

\* A frame begins and ends with its own lines, and the screen follows the raster
\* that the CRTC's registers ask for; the sound chips, which prepare what they
\* need ahead, sound as their registers say; no overflow of a timer of the sound
\* board, or second of the clock chip, is early, late or missed; and the signal of a
\* tape's file reads back as the bytes that the file holds.
OutputIsTrue ==
  /\ RasterIsWhole
  /\ device = "crtc" => Screen!ScreenFollows
  /\ device = "psg" => Ay!SoundIsTrue
  /\ device = "fm" => Fm!ToneIsRight
  /\ device = "opm" => Opm!TimersKeepTime
  /\ device = "clock" => Rtc!ClockIsTrue
  /\ device = "tapes" => Images!TapeReadsBack
==============================================================================

------------------------------ MODULE TapeImages ------------------------------
(***************************************************************************)
(* Tapes of other computers, and the X1's, as files of bytes that DATAREC  *)
(* turns into the signal its play head reads (datarec.cpp); and a reader   *)
(* that measures pulses, as the computers' programs do, which must find    *)
(* the bytes again.  A wave file is a tape that was sampled.               *)
(*                                                                         *)
(* A signal is a sequence of waves: first samples at the level, next at    *)
(* the other one, times over.                                              *)
(***************************************************************************)
EXTENDS Integers, Sequences, FiniteSets, FiniteSetsExt, SequencesExt, Functions, TLC, Bytes

CONSTANTS
  Files,       \* the files that are put into the deck: [format, bytes, ...]
  MztHeader,   \* bytes of an MZT header, at least 22
  P6Header,    \* bytes of a P6 tape before its second leader
  P6Most,      \* bytes that are played of a P6 tape
  M5Full,      \* data of an M5 block whose length is 0
  Margin       \* what counts as a signal in a wave file

VARIABLES file, tape

TapeImagesAssumption ==
  /\ MztHeader >= 22 /\ P6Header \in Nat \ {0} /\ P6Most \in Nat \ {0} /\ M5Full \in Nat \ {0}
  /\ Margin \in Nat \ {0}

EOF == -1
Wave(level, first, next, times) == [level |-> level, first |-> first, next |-> next, times |-> times]
Quiet(samples) == Wave(FALSE, samples, 0, 1)
Nothing == [rate |-> 0, waves |-> <<>>]
ByteAt(bytes, i) == IF i <= Len(bytes) THEN bytes[i] ELSE EOF
\* What an expression that takes a bit of data makes of EOF: all bits are set.
DataBit(data, i) == data = EOF \/ Is(data, i)
\* Fread leaves zeros where the file has ended.
Piece(bytes, from, length) == [i \in 1..length |-> IF from + i <= Len(bytes) THEN bytes[from + i] ELSE 0]
\* What Waves makes of each element, one after the other.
Each(s, Waves(_)) ==
  LET Part[i \in 1..Len(s), j \in 1..Len(s)] ==
        IF i = j THEN Waves(s[i]) ELSE LET m == (i + j) \div 2 IN Part[i, m] \o Part[m + 1, j]
  IN IF s = <<>> THEN <<>> ELSE Part[1, Len(s)]

(* -------------------------------- loaders ------------------------------- *)
\* MZT_PUT_BIT
MztBit(bit, times) == IF bit THEN Wave(TRUE, 24, 29, times) ELSE Wave(TRUE, 11, 15, times)

\* Mutant: a byte's bits are written from the other end.
MztBytesBack(bytes) == Each(bytes, LAMBDA b : <<MztBit(TRUE, 1)>> \o [j \in 1..8 |-> MztBit(Is(b, j - 1), 1)])

\* MZT_PUT_BYTE and MZT_PUT_BLOCK: a start bit before each byte, and behind the
\* last one how many bits were set.
MztBytes(bytes) == Each(bytes, LAMBDA b : <<MztBit(TRUE, 1)>> \o [j \in 1..8 |-> MztBit(Is(b, 8 - j), 1)])
Ones(bytes) == FoldLeft(LAMBDA n, b : n + Cardinality(Bits(b)), 0, bytes)
MztBlock(bytes) ==
  MztBytes(bytes) \o MztBytes(<<Low(Ones(bytes) \div 256), Low(Ones(bytes))>>) \o <<MztBit(TRUE, 1)>>

Mark(leader, times) == <<MztBit(FALSE, leader), MztBit(TRUE, times), MztBit(FALSE, times), MztBit(TRUE, 1)>>

\* Programs one after the other, each a header, which is written twice, and its data.
LoadMzt(bytes) ==
  LET Program[at \in 0..Len(bytes)] ==
        IF Len(bytes) - at <= MztHeader THEN <<>>
        ELSE LET header == Piece(bytes, at, MztHeader)
                 size == header[19] + 256 * header[20]
                 behind == at + MztHeader + size
             IN <<Quiet(48000)>> \o Mark(10000, 40) \o MztBlock(header) \o <<MztBit(FALSE, 256)>> \o MztBlock(header)
                \o <<Quiet(48000)>> \o Mark(10000, 20) \o MztBlock(Piece(bytes, at + MztHeader, size))
                \o (IF behind > Len(bytes) THEN <<>> ELSE Program[behind])
  IN [rate |-> 48000, waves |-> Program[0]]

\* A start bit, eight data bits, the lowest first, and the stop bits: waves as long
\* as this for a 0, and half as long and twice as many for a 1.
Serial(data, half, times, stops) ==
  LET bit(one) == IF one THEN Wave(TRUE, half \div 2, half \div 2, 2 * times) ELSE Wave(TRUE, half, half, times)
  IN <<bit(FALSE)>> \o [j \in 1..8 |-> bit(DataBit(data, j - 1))] \o [j \in 1..stops |-> bit(TRUE)]

\* P6T files end in a block with their baud rate; its place is how much is played.
LoadP6(bytes, info) ==
  LET remain == IF info.p6t THEN Min({info.at, P6Most}) ELSE P6Most
      head == [i \in 1..P6Header |-> ByteAt(bytes, i)]
      rest == SubSeq(bytes, P6Header + 1, Min({Len(bytes), remain}))
      Put(data) == Serial(data, 20, 1, 3)
  IN [rate |-> IF info.p6t /\ info.baud # 0 THEN (48000 * info.baud) \div 1200 ELSE 48000,
      waves |-> <<Wave(TRUE, 10, 10, 9600)>> \o Each(head, Put) \o <<Wave(TRUE, 10, 10, 2400)>>
                \o Each(rest, Put) \o Each([i \in 1..16 |-> 0], Put)]

LoadBmjr(bytes) == [rate |-> 48000, waves |-> Each(bytes, LAMBDA b : Serial(b, 20, 4, 2))]

\* M5_PUT_BYTE: a 1 and a 0 before the data; the first level is the low one.
M5Bit(one, times) == IF one THEN Wave(FALSE, 8, 7, times) ELSE Wave(FALSE, 16, 14, times)
M5Byte(data) == <<M5Bit(TRUE, 1), M5Bit(FALSE, 1)>> \o [j \in 1..8 |-> M5Bit(DataBit(data, j - 1), 1)]
High == Wave(TRUE, 1, 0, 1)

\* Blocks of a type, H or D, a length and that much data with its checksum.
LoadM5(bytes) ==
  LET size(at) == ByteAt(bytes, at + 1)
      data(at) == IF size(at) = 0 THEN M5Full + 1 ELSE size(at) + 1
      behind(at) == at + 2 + data(at)
      Known[at \in 1..Len(bytes) + 1] ==
        at <= Len(bytes) => bytes[at] \in {72, 68} /\ (behind(at) <= Len(bytes) => Known[behind(at)])
      Block[at \in 1..Len(bytes) + 1] ==
        IF at > Len(bytes) THEN <<High>>
        ELSE (IF bytes[at] = 72 THEN <<High, M5Bit(TRUE, 945)>> ELSE <<M5Bit(TRUE, 59)>>)
             \o M5Byte(bytes[at]) \o M5Byte(size(at))
             \o Each([i \in 1..data(at) |-> ByteAt(bytes, at + 1 + i)], M5Byte) \o <<M5Bit(TRUE, 1)>>
             \o (IF behind(at) > Len(bytes) THEN <<High>> ELSE Block[behind(at)])
  IN IF Known[1] THEN [rate |-> 48000, waves |-> Block[1]] ELSE Nothing

\* The eight bytes of a header are one here; a byte is written behind each header
\* before the next one is looked for, and the last bytes of a file are no header.
MsxHeader == <<31, 166, 222, 186, 204, 19, 125, 116>>
HEADER == 256
LoadMsx(bytes) ==
  LET Leads[i \in 1..Len(bytes)] ==
        bytes[i] = HEADER /\ i < Len(bytes) /\ (i > 1 => ~Leads[i - 1])
      Put(data) == Serial(data, 8, 1, 3)
  IN [rate |-> 22050,
      waves |-> Each([i \in 1..Len(bytes) |-> i],
                     LAMBDA i : IF Leads[i] THEN <<Quiet(16000), Wave(TRUE, 4, 4, 8000)>>
                                ELSE Each(IF bytes[i] = HEADER THEN MsxHeader ELSE <<bytes[i]>>, Put))]

\* The emulator's own: the level, and for how many samples.
LoadCas(bytes) == [rate |-> 48000, waves |-> [i \in 1..Len(bytes) |-> Wave(Is(bytes[i], 7), bytes[i] % 128, 0, 1)]]

\* load_cas_image tells the four kinds apart by how they begin.
LoadCasImage(f) ==
  CASE f.begins = "SORDM5" -> LoadM5(f.bytes)
    [] f.begins = "msx"    -> LoadMsx(f.bytes)
    [] f.begins = "momo"   -> LoadP6(f.bytes, [p6t |-> FALSE])
    [] OTHER               -> LoadCas(f.bytes)

\* A sample for each bit; a new file's header names the rate behind the others.
LoadTap(f) ==
  IF f.new /\ ~f.samples THEN Nothing
  ELSE [rate |-> f.rate, waves |-> Each(f.bytes, LAMBDA b : [j \in 1..8 |-> Wave(Is(b, 8 - j), 1, 0, 1)])]

(* -------------------------- a tape that was sampled --------------------- *)
Toward0Half(sum) == IF sum >= 0 THEN sum \div 2 ELSE -((-sum) \div 2)

\* adjust_zero_position: the middle of what is near is the zero, unless nothing is.
Centred(w, width) ==
  LET zero[i \in width + 1..Len(w) - width] ==
        LET near == {w[i + j] : j \in -width..width - 1}
        IN IF Max(near) - Min(near) > 2 * Margin THEN Toward0Half(Max(near) + Min(near)) ELSE w[i]
  IN [i \in 1..Len(w) |-> w[i] - zero[Max({width + 1, Min({i, Len(w) - width})})]]

\* load_wav_image without the wave shaper: a half-wave above 0 that has ended is
\* taken back when it was not above the margin.
Digitized(w, width) ==
  LET Step(s, v) ==
        LET up == v > 0
            kept == IF s.up /\ ~up /\ ~(s.top > Margin)
                    THEN [i \in 1..Len(s.out) |-> s.out[i] /\ i <= s.from] ELSE s.out
        IN [out |-> Append(kept, up), up |-> up,
            from |-> IF up # s.up THEN Len(s.out) ELSE s.from,
            top |-> IF up # s.up THEN Max({0, v}) ELSE Max({s.top, v})]
      last == FoldLeft(Step, [out |-> <<>>, up |-> FALSE, from |-> 0, top |-> 0], Centred(w, width))
  IN IF last.up /\ ~(last.top > Margin) THEN [i \in 1..Len(w) |-> last.out[i] /\ i <= last.from] ELSE last.out

(* -------------------------------- actions ------------------------------- *)
TypeOK ==
  /\ file \in Files
  /\ tape.loaded \in BOOLEAN /\ tape.rate \in Nat
  /\ tape.waves \in Seq([level : BOOLEAN, first : Nat, next : Nat, times : Nat])

Init == file \in Files /\ tape = [loaded |-> FALSE, rate |-> 0, waves |-> <<>>]

LoadImage(f) ==
  CASE f.format = "mzt" -> LoadMzt(f.bytes)
    [] f.format = "p6"  -> LoadP6(f.bytes, f.info)
    [] f.format = "bin" -> LoadBmjr(f.bytes)
    [] f.format = "cas" -> LoadCasImage(f)
    [] f.format = "tap" -> LoadTap(f)
    [] f.format = "wav" ->
         [rate |-> 48000, waves |-> [i \in 1..Len(f.bytes) |-> Wave(Digitized(f.bytes, f.width)[i], 1, 0, 1)]]

\* play_tape
PlayImage ==
  /\ ~tape.loaded
  /\ tape' = [loaded |-> TRUE] @@ LoadImage(file)
  /\ UNCHANGED file

Next == PlayImage

(* -------------------------------- readers ------------------------------- *)
\* The lengths of the cycles; of those that are all alike, as many as a reader needs.
Cycles(waves) ==
  Each(waves, LAMBDA w : IF w.next = 0 THEN <<>> ELSE [k \in 1..Min({w.times, 20}) |-> w.first + w.next])

\* A cycle longer than this begins a byte, when none is being read; then zeros long
\* cycles are a 0, and ones short ones a 1.
SerialRead(cycles, long, zeros, ones) ==
  LET At(i) == cycles[i] > long
      Skip(i) == IF At(i) THEN i + zeros ELSE i + ones
      Bit[i \in 1..Len(cycles), j \in 0..8] == IF j = 0 THEN i + zeros ELSE Skip(Bit[i, j - 1])
      Read[i \in 1..Len(cycles) + 1] ==
        IF i > Len(cycles) THEN <<>>
        ELSE IF ~At(i) THEN Read[i + 1]
        ELSE <<FromBits({j \in 0..7 : ~At(Bit[i, j])})>> \o Read[Bit[i, 8]]
  IN Read[1]

\* What follows each mark of 20 long cycles, 20 short ones and a long one: so many
\* bytes behind a long cycle each, and the number of their bits that are set.
MztRead(cycles, marks, length) ==
  LET At(i) == cycles[i] > 40
      mark(p) == /\ p > 41 /\ p <= Len(cycles) /\ At(p - 1)
                 /\ \A j \in 0..19 : At(p - 41 + j) /\ ~At(p - 21 + j)
      starts == SetToSortSeq({p \in 1..Len(cycles) : mark(p)}, <)
      Read(p, k) == FromBits({7 - j : j \in {j \in 0..7 : At(p + 9 * (k - 1) + j + 1)}})
  IN IF Len(starts) # marks THEN <<>>
     ELSE [m \in 1..marks |-> [k \in 1..length[m] + 2 |-> Read(starts[m], k)]]

Summed(bytes) == bytes \o <<Ones(bytes) \div 256, Ones(bytes) % 256>>
Sampled(waves) == Each(waves, LAMBDA w : [k \in 1..w.first |-> w.level])

\* A computer's program that measures the pulses of a tape finds the bytes of the
\* file, each with its start and stop bits: every program of an MZT file as header and
\* data with their sums; a P6 tape without its information, and 255 where its file has
\* ended too early; an MSX tape without its headers, except those that are data; and
\* what was sampled is up exactly in the half-waves that rise above the margin.
TapeReadsBack ==
  tape.loaded =>
    LET cycles == Cycles(tape.waves) IN
    CASE file.format = "mzt" ->
           LET programs == file.programs
               length == [m \in 1..2 * Len(programs) |->
                            LET p == programs[(m + 1) \div 2] IN IF m % 2 = 1 THEN Len(p.header) ELSE Len(p.data)]
               read == MztRead(cycles, Len(length), length)
           IN \A i \in 1..Len(programs) :
                 /\ Len(read) = Len(length)
                 /\ read[2 * i - 1] = Summed(programs[i].header) /\ read[2 * i] = Summed(programs[i].data)
      [] file.format \in {"p6", "bin"} \/ (file.format = "cas" /\ file.begins \in {"momo", "msx"}) ->
           SerialRead(cycles, IF tape.rate = 22050 THEN 12 ELSE 30, IF file.format = "bin" THEN 4 ELSE 1,
                      IF file.format = "bin" THEN 8 ELSE 2) = file.payload
      [] file.format = "cas" /\ file.begins = "SORDM5" -> SerialRead(cycles, 22, 1, 1) = file.payload
      [] file.format = "tap" ->
           LET s == Sampled(tape.waves)
           IN file.payload = [k \in 1..Len(s) \div 8 |-> FromBits({7 - j : j \in {j \in 0..7 : s[8 * k - 7 + j]}})]
      [] file.format = "wav" ->
           LET w == Centred(file.bytes, file.width)
               Wave1(i) == {j \in 1..Len(w) : \A k \in Min({i, j})..Max({i, j}) : w[k] > 0}
           IN Sampled(tape.waves) = [i \in 1..Len(w) |-> \E j \in Wave1(i) : w[j] > Margin]
      [] OTHER -> Len(Sampled(tape.waves)) = FoldLeft(LAMBDA n, b : n + (b % 128), 0, file.bytes)
==============================================================================

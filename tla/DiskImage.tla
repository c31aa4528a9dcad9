------------------------------ MODULE DiskImage ------------------------------
(***************************************************************************)
(* A floppy image in memory and on disk (vm/disk.cpp): one buffer with a   *)
(* table of tracks, the sectors one after the other, and a work area for   *)
(* the track that is being formatted; opening, closing and what is written *)
(* back.  Positions count sectors, and "work" is the area's.               *)
(*                                                                         *)
(* What follows a track's sectors and is not yet another track's is what   *)
(* makes its sectors unstable: a mask for the one it names.                *)
(***************************************************************************)
EXTENDS Integers, Sequences, FiniteSets, SequencesExt

CONSTANTS
  Media,     \* the files that a run begins with: [kind, images, flat]
  LastTrack, \* the tracks are 0..LastTrack
  PerTrack,  \* sectors of a formatted track
  MaxSteps,  \* bound: accesses of the FDC and changes of disk
  Careful,   \* no track that follows another is formatted again, and a flat
             \* file is asked to keep only what it can
  ReadOnly   \* the file may refuse to be written

None == -1
Work == 0
DiskTracks == 0..LastTrack
DiskImageAssumption ==
  /\ LastTrack \in Nat /\ {PerTrack, MaxSteps} \subseteq Nat \ {0} /\ {Careful, ReadOnly} \subseteq BOOLEAN
  /\ \A m \in Media : m.kind \in {"d88", "solid"}

VARIABLES
  disk,   \* DISK, while a disk is in
  files,  \* [main, converted, temporary]: what is on disk
  format, \* the FDC formats a track
  truth,  \* what the program wrote: for each image, track and sector
  steps

diskVars == <<disk, files, format, truth, steps>>

\* A header and its data; `shape` is size and density, 0 a data mark missing.
Sector(id, num, shape, data) ==
  [id |-> id, num |-> num, shape |-> shape, deleted |-> FALSE, bad |-> FALSE, names |-> 0, data |-> data]
Nothing == Sector(0, 0, 0, 0)
At(d, p) == IF p \in DOMAIN d.body THEN d.body[p] ELSE Nothing

\* The track that a position is in: the last in the table that begins before it.
GetTrackNum(d, p) ==
  LET here   == {t \in DiskTracks : d.table[t] = p}
      before == {t \in DiskTracks : d.table[t] > Work /\ d.table[t] < p}
  IN IF p \notin DOMAIN d.body THEN -1
     ELSE IF here # {} THEN CHOOSE t \in here : \A u \in here : t <= u
     ELSE IF before = {} THEN -1 ELSE CHOOSE t \in before : \A u \in before : t >= u

Run(d, p) == SubSeq(d.body, p, p + At(d, p).num - 1)
Sectors(d, t) == IF d.table[t] = None THEN <<>>
                 ELSE IF d.table[t] = Work THEN d.work ELSE Run(d, d.table[t])
\* What is behind the sectors, if it is no track's.
Trailer(d, t) ==
  LET end == d.table[t] + Len(Sectors(d, t))
  IN IF d.table[t] <= Work \/ Sectors(d, t) = <<>> \/ GetTrackNum(d, end) # t THEN <<>> ELSE Run(d, end)
GetUnstableSector(d, t, i) ==
  LET m == SelectSeq(Trailer(d, t), LAMBDA s : s.names = i - 1)
  IN IF m = <<>> THEN 0 ELSE m[1].data
\* What the machine reads of a track: ids, marks, data, and which bits vary.
Reads(d, t) ==
  LET s == Sectors(d, t)
  IN [i \in DOMAIN s |-> [id |-> s[i].id, shape |-> s[i].shape, deleted |-> s[i].deleted,
                          bad |-> s[i].bad, data |-> s[i].data, mask |-> GetUnstableSector(d, t, i)]]

\* trim_buffer: the tracks one after the other, the formatted one among them.
TrimBuffer(d) ==
  LET Copy(acc, t) ==
        LET s == Sectors(d, t) \o Trailer(d, t)
        IN IF Sectors(d, t) = <<>> THEN [acc EXCEPT !.table[t] = None]
           ELSE [acc EXCEPT !.table[t] = Len(acc.body) + 1, !.body = @ \o s]
  IN [FoldLeft(Copy, [d EXCEPT !.body = <<>>], [i \in 1..(LastTrack + 1) |-> i - 1])
       EXCEPT !.work = <<>>, !.trim = FALSE]
SyncBuffer(d) == IF d.trim THEN TrimBuffer(d) ELSE d

(* ------------------------------- the files ----------------------------- *)
Away == [in |-> FALSE, table |-> [t \in DiskTracks |-> None], body |-> <<>>, work |-> <<>>,
         trim |-> FALSE, protect |-> FALSE, bank |-> 0, solid |-> FALSE, orig |-> <<>>, from |-> "main"]
Image(d) == [table |-> d.table, body |-> d.body, protect |-> d.protect]

\* solid_to_d88: the sectors of a flat file, with ids in their order.
SolidTable == [t \in DiskTracks |-> t * PerTrack + 1]
SolidShape == 1
SolidToD88(flat) ==
  [table |-> SolidTable, protect |-> FALSE,
   body |-> [p \in DOMAIN flat |-> Sector(((p - 1) % PerTrack) + 1, PerTrack, SolidShape, flat[p])]]
FlatOf(d) == LET Add(acc, t) == acc \o [i \in DOMAIN Sectors(d, t) |-> Sectors(d, t)[i].data]
             IN FoldLeft(Add, <<>>, [i \in 1..(LastTrack + 1) |-> i - 1])
\* "was physical formatted ?": a track, or a sector's size or density, differs.
WasFormatted(d) ==
  \E t \in DiskTracks : \/ Len(Sectors(d, t)) # PerTrack
                        \/ \E i \in DOMAIN Sectors(d, t) : Sectors(d, t)[i].shape # SolidShape

\* What a file has for a reader: a file that was converted is read instead.
ImageIn(fs, from, bank) ==
  IF from # "main" THEN fs[from].images[1]
  ELSE IF fs.main.kind = "solid" THEN SolidToD88(fs.main.flat) ELSE fs.main.images[bank]
ImageOf(fs, bank) == ImageIn(fs, IF fs.converted.images # <<>> THEN "converted" ELSE "main", bank)

Opened(fs, bank) ==
  LET from == IF fs.converted.images # <<>> THEN "converted" ELSE "main"
      m == ImageOf(fs, bank)
  IN [Away EXCEPT !.in = TRUE, !.table = m.table, !.body = m.body, !.protect = m.protect,
                  !.bank = bank, !.solid = from = "main" /\ fs.main.kind = "solid", !.orig = m, !.from = from]

\* close: what differs from what was opened is written, among the other banks.
Written(fs, d) ==
  IF Image(d) = d.orig THEN fs
  ELSE IF d.solid THEN
    IF WasFormatted(d) THEN [fs EXCEPT !.converted.images = <<Image(d)>>] ELSE [fs EXCEPT !.main.flat = FlatOf(d)]
  ELSE IF d.from = "main" THEN [fs EXCEPT !.main.images[d.bank] = Image(d)]
  ELSE [fs EXCEPT ![d.from].images = <<Image(d)>>]
\* A file that refuses: a temporary .D88, with what would have been written.
WrittenElsewhere(fs, d) ==
  IF Image(d) = d.orig THEN fs
  ELSE [fs EXCEPT !.temporary = IF d.solid /\ ~WasFormatted(d)
                                THEN [kind |-> "solid", images |-> <<>>, flat |-> FlatOf(d)]
                                ELSE [kind |-> "d88", images |-> <<Image(d)>>, flat |-> <<>>]]

\* Mutant: the work area is not taken in before the image is written.
CloseUntrimmed(d) == d
Close(d) == SyncBuffer(d)

(* ------------------------------- actions ------------------------------- *)
Banks(fs) == IF fs.main.kind = "solid" THEN {1} ELSE DOMAIN fs.main.images
Empty(kind) == [kind |-> kind, images |-> <<>>, flat |-> <<>>]
InitTruth(fs) == [b \in Banks(fs) |-> [t \in DiskTracks |-> Reads(Opened(fs, b), t)]]

Init ==
  /\ \E m \in Media : files = [main |-> m, converted |-> Empty("d88"), temporary |-> Empty("d88")]
  /\ disk = Away /\ format = None /\ truth = InitTruth(files) /\ steps = 0

Step == steps < MaxSteps /\ steps' = steps + 1

OpenImage(b) ==
  /\ ~disk.in /\ files.temporary = Empty("d88") /\ Step
  /\ disk' = Opened(files, b) /\ UNCHANGED <<files, format, truth>>

\* What a flat file can keep: ids in order, and no marks.
Plain(d) == \A t \in DiskTracks : \A i \in DOMAIN Sectors(d, t) :
              Sectors(d, t)[i].id = i /\ ~Sectors(d, t)[i].deleted /\ ~Sectors(d, t)[i].bad
CloseImage ==
  /\ disk.in
  /\ LET d == Close(disk)
     IN /\ Careful /\ d.solid => WasFormatted(d) \/ Plain(d)
        /\ \/ files' = Written(files, d)
           \/ ReadOnly /\ files' = WrittenElsewhere(files, d)
  /\ disk' = Away /\ format' = None /\ UNCHANGED <<truth, steps>>

\* The sector at index i of a track: its position, or the work area's.
PutAt(d, t, i, s) == IF d.table[t] = Work THEN [d EXCEPT !.work[i] = s]
                     ELSE [d EXCEPT !.body[d.table[t] + i - 1] = s]
WriteSector(t, i, data, deleted) ==
  /\ disk.in /\ ~disk.protect /\ format = None /\ i \in DOMAIN Sectors(disk, t)
  /\ Sectors(disk, t)[i].shape # 0 /\ Step
  /\ disk' = PutAt(disk, t, i, [Sectors(disk, t)[i] EXCEPT !.data = data, !.deleted = deleted])
  /\ truth' = [truth EXCEPT ![disk.bank][t][i] = [@ EXCEPT !.data = data, !.deleted = deleted]]
  /\ UNCHANGED <<files, format>>

\* The write track command: format_track, insert_sector for each ID, the data
\* and its CRC, sync_buffer; a data mark may be missing.
FormatTrack(t) ==
  /\ disk.in /\ ~disk.protect /\ format = None /\ Step
  /\ Careful => SyncBuffer(disk).table[t] \in {None, 1}
  /\ disk' = [SyncBuffer(disk) EXCEPT !.table[t] = Work, !.trim = TRUE, !.work = <<>>]
  /\ format' = t /\ truth' = [truth EXCEPT ![disk.bank][t] = <<>>] /\ UNCHANGED files

InsertSector(r, shape) ==
  /\ format # None /\ Len(disk.work) < PerTrack
  /\ disk.work # <<>> => ~Last(disk.work).bad
  /\ LET n == Len(disk.work) + 1
     IN disk' = [disk EXCEPT !.work = [i \in 1..n |-> IF i = n THEN [Sector(r, n, shape, 0) EXCEPT !.bad = TRUE]
                                                     ELSE [@[i] EXCEPT !.num = n]]]
  /\ truth' = [truth EXCEPT ![disk.bank][format] =
                 Append(@, [id |-> r, shape |-> shape, deleted |-> FALSE, bad |-> TRUE, data |-> 0, mask |-> 0])]
  /\ UNCHANGED <<files, format, steps>>

DataEnds(missing) ==
  /\ format # None /\ disk.work # <<>> /\ Last(disk.work).bad
  /\ LET i == Len(disk.work)
         Done(s) == IF missing THEN [s EXCEPT !.shape = 0, !.bad = FALSE, !.data = 0]
                    ELSE [s EXCEPT !.data = 1, !.bad = FALSE]
     IN /\ disk' = [disk EXCEPT !.work[i] = Done(@)]
        /\ truth' = [truth EXCEPT ![disk.bank][format][i] = Done(@)]
  /\ UNCHANGED <<files, format, steps>>
FormatEnds ==
  /\ format # None /\ disk' = SyncBuffer(disk) /\ format' = None /\ UNCHANGED <<files, truth, steps>>
\* The FDC is reset: the buffer is left as it is.
FormatAbandoned == format # None /\ format' = None /\ UNCHANGED <<disk, files, truth, steps>>

SetProtect ==
  /\ disk.in /\ format = None /\ Step
  /\ disk' = [disk EXCEPT !.protect = ~@] /\ UNCHANGED <<files, format, truth>>

Next ==
  \/ \E b \in Banks(files) : OpenImage(b)
  \/ CloseImage \/ FormatEnds \/ FormatAbandoned \/ SetProtect
  \/ \E t \in DiskTracks : FormatTrack(t) \/ \E i \in 1..PerTrack, deleted \in BOOLEAN : WriteSector(t, i, 5, deleted)
  \/ \E r \in 1..PerTrack, shape \in {1, 2} : InsertSector(r, shape)
  \/ \E missing \in BOOLEAN : DataEnds(missing)
Spec == Init /\ [][Next]_diskVars

(* ------------------------------ properties ----------------------------- *)
TypeOK ==
  /\ disk.table \in [DiskTracks -> None..Len(disk.body)] /\ Len(disk.work) \in 0..PerTrack
  /\ {disk.in, disk.trim, disk.protect, disk.solid} \subseteq BOOLEAN
  /\ format \in DiskTracks \union {None} /\ steps \in 0..MaxSteps

\* Every sector that was written and formatted is read back as it was, from the
\* buffer, and from the file when the disk is out; and no other has changed.
DiskIsKept ==
  /\ disk.in => \A t \in DiskTracks : Reads(disk, t) = truth[disk.bank][t]
  /\ files.temporary = Empty("d88") =>
       \A b \in Banks(files) : (disk.in /\ b = disk.bank) \/
         \A t \in DiskTracks : Reads(Opened(files, b), t) = truth[b][t]
==============================================================================

----------------------------- MODULE DiskFormats ------------------------------
(***************************************************************************)
(* The other formats of floppy images, which are converted when they are   *)
(* opened (vm/disk.cpp): TeleDisk, ImageDisk, CPCEMU, T98-Next, and flat   *)
(* files whose length tells how they are formatted.  A file is a sequence  *)
(* of bytes, or of what the format has in their place, and a sector of     *)
(* size n has 2^n bytes; what comes out is the table, and the sectors one  *)
(* after the other, that DiskImage goes on with.                           *)
(***************************************************************************)
EXTENDS Integers, Sequences, SequencesExt

CONSTANTS
  Disks,      \* [hd, sides, tracks]: disks, of which there are images
  Geometries, \* the layouts of flat files: fd_formats
  Tracks,     \* 164: places in the table
  BufferRoom  \* what an image may have

NoTrack == 0
DiskFormatsAssumption == {Tracks, BufferRoom} \subseteq Nat \ {0}

VARIABLES
  given,  \* [format, disk, file], format "none" before there is a file
  made    \* the image that the file was converted to

formatVars == <<given, made>>

(* ------------------------------- the image ----------------------------- *)
Fresh == [ok |-> TRUE, table |-> [t \in 0..(Tracks - 1) |-> NoTrack], body |-> <<>>, type |-> "2D"]
Refused == [Fresh EXCEPT !.ok = FALSE]
Sct(c, h, r, n, num, mfm, del, stat, data) ==
  [c |-> c, h |-> h, r |-> r, n |-> n, num |-> num, mfm |-> mfm, del |-> del, stat |-> stat, data |-> data]
TrackAt(d, t) == IF t < Tracks THEN [d EXCEPT !.table[t] = Len(d.body) + 1] ELSE d
\* COPYBUFFER.
Fits(d) == FoldLeft(LAMBDA a, s : a + Len(s.data) + 1, 0, d.body) <= BufferRoom
Kept(d) == IF Fits(d) THEN d ELSE Refused
Bytes(n) == 2^n
Slice(f, p, n) == SubSeq(f, p, p + n - 1)
Flag(b, i) == (b \div 2^i) % 2 = 1
Repeat(s, n) == [i \in 1..(n * Len(s)) |-> s[((i - 1) % Len(s)) + 1]]
Upto(n) == [i \in 1..n |-> i]

(* ------------------------------- TeleDisk ------------------------------ *)
\* The blocks of a sector's data: bytes, or how often a pattern comes.
RECURSIVE Blocks(_, _)
Blocks(b, out) ==
  IF b = <<>> THEN out
  ELSE IF b[1] = 0 THEN Blocks(SubSeq(b, 3 + b[2], Len(b)), out \o Slice(b, 3, b[2]))
  ELSE IF b[1] < 5 THEN LET n == 2^b[1] IN Blocks(SubSeq(b, 3 + n, Len(b)), out \o Repeat(Slice(b, 3, n), b[2]))
  ELSE out
Unpacked(flag, b) ==
  IF flag = 0 THEN b ELSE IF flag = 1 THEN Repeat(Slice(b, 3, 2), b[1] + 256 * b[2]) ELSE Blocks(b, <<>>)
\* What a sector's size leaves over is 0; what is over is cut.
Fit(data, size) == [i \in 1..size |-> IF i <= Len(data) THEN data[i] ELSE 0]

TdSector(f, p, num, mfm) ==
  LET ctrl == f[p + 4]
      none == Flag(ctrl, 4) \/ Flag(ctrl, 5)
      len  == f[p + 6] + 256 * f[p + 7] - 1
      del  == Flag(ctrl, 2)
  IN [next |-> IF none THEN p + 6 ELSE p + 9 + len,
      sct  |-> Sct(f[p], f[p + 1], f[p + 2], f[p + 3], num, mfm, del,
                   IF none THEN "nodata" ELSE IF Flag(ctrl, 1) THEN "crc" ELSE IF del THEN "deleted" ELSE "ok",
                   IF none THEN <<>> ELSE Fit(Unpacked(f[p + 8], Slice(f, p + 9, len)), Bytes(f[p + 3] % 4)))]
\* A track's place in the table is its number among the file's.
RECURSIVE TdTracks(_, _, _, _)
TdTracks(f, p, d, k) ==
  IF f.bytes[p] = 255 THEN
    [d EXCEPT !.type = IF f.dens % 4 = 2 THEN "2HD" ELSE IF k \div 2 > 60 THEN "2DD" ELSE "2D"]
  ELSE
    LET Add(acc, i) == LET s == TdSector(f.bytes, acc.p, f.bytes[p], ~Flag(f.dens, 7))
                       IN [p |-> s.next, d |-> [acc.d EXCEPT !.body = Append(@, s.sct)]]
        all == FoldLeft(Add, [p |-> p + 4, d |-> TrackAt(d, k)], Upto(f.bytes[p]))
    IN TdTracks(f, all.p, all.d, IF f.sides = 1 THEN k + 2 ELSE k + 1)
TelediskToD88(f) == TdTracks(f, IF f.comment THEN 11 + f.bytes[3] + 256 * f.bytes[4] ELSE 1, Fresh, 0)

(* ------------------------------- ImageDisk ----------------------------- *)
RECURSIVE ImdTracks(_, _, _, _, _)
ImdTracks(f, p, d, first, high) ==
  IF p > Len(f) THEN
    [d EXCEPT !.type = IF first = 0 THEN "2HD" ELSE IF (high + 1) \div 2 > 60 THEN "2DD" ELSE "2D"]
  ELSE
    LET num == f[p + 3]
        n == f[p + 4]
        cs == Flag(f[p + 2], 7)
        hs == Flag(f[p + 2], 6)
        head == f[p + 2] % 64
        C(i) == IF cs THEN f[p + 4 + num + i] ELSE f[p + 1]
        H(i) == IF hs THEN f[p + 4 + (IF cs THEN 2 ELSE 1) * num + i] ELSE head
        k == f[p + 1] * 2 + (head % 2)
        Add(acc, i) ==
          LET t == f[acc.p]
              packed == t \in {2, 4, 6, 8}
              none == t = 0 \/ t > 8
              s == Sct(C(i), H(i), f[p + 4 + i], n, num, f[p] >= 3, t \in {3, 4, 7, 8},
                       IF none THEN "nodata" ELSE IF t \in 5..8 THEN "crc" ELSE IF t \in {3, 4} THEN "deleted" ELSE "ok",
                       IF none THEN <<>> ELSE IF packed THEN Repeat(<<f[acc.p + 1]>>, Bytes(n)) ELSE Slice(f, acc.p + 1, Bytes(n)))
          IN [p |-> acc.p + 1 + (IF none THEN 0 ELSE IF packed THEN 1 ELSE Bytes(n)),
              d |-> IF k < Tracks THEN [acc.d EXCEPT !.body = Append(@, s)] ELSE acc.d]
        start == p + 5 + num * (1 + (IF cs THEN 1 ELSE 0) + (IF hs THEN 1 ELSE 0))
        all == FoldLeft(Add, [p |-> start, d |-> TrackAt(d, k)], Upto(num))
    IN IF num = 0 THEN ImdTracks(f, p + 5, d, first, high)
       ELSE IF n = 255 THEN Refused
       ELSE ImdTracks(f, all.p, all.d, IF first = -1 THEN f[p] % 4 ELSE first, IF k < Tracks /\ high < k THEN k ELSE high)
\* What is before the end of its text is a comment.
ImagediskToD88(f) ==
  LET end == {i \in DOMAIN f : f[i] = 26}
      from == (CHOOSE i \in end : \A j \in end : i <= j) + 1
  IN IF end = {} \/ from > Len(f) THEN Refused ELSE ImdTracks(f, from, Fresh, -1, 0)

(* -------------------------------- CPCEMU ------------------------------- *)
IsInfo(f, p) == p \in DOMAIN f.cells /\ f.cells[p].info # <<>>
\* Where each track is, by the table; or the next that says it is one, if the
\* table is wrong. A track that is not there is at the file's end.
Gone(f) == Len(f.cells) + 1
ByTable(f) ==
  LET Add(acc, i) == IF f.sizes[i] = 0 THEN [acc EXCEPT !.at = Append(@, Gone(f))]
                     ELSE IF ~IsInfo(f, acc.p) THEN [acc EXCEPT !.wrong = TRUE]
                     ELSE [acc EXCEPT !.at = Append(@, acc.p), !.p = @ + f.sizes[i]]
  IN FoldLeft(LAMBDA acc, i : IF acc.wrong THEN acc ELSE Add(acc, i), [at |-> <<>>, p |-> 1, wrong |-> FALSE],
              Upto(f.tracks * f.heads))
BySearch(f) ==
  LET Add(acc, i) == LET found == {p \in acc.p..Len(f.cells) : IsInfo(f, p)}
                         p == CHOOSE q \in found : \A r \in found : q <= r
                     IN IF found = {} THEN [acc EXCEPT !.at = Append(@, Gone(f))]
                        ELSE [acc EXCEPT !.at = Append(@, p), !.p = p + 1]
  IN FoldLeft(Add, [at |-> <<>>, p |-> 1], Upto(f.tracks * f.heads))
Trusted(f, table) == IF table.wrong THEN BySearch(f).at ELSE table.at
Offsets(f) == Trusted(f, ByTable(f))

\* A track's place is its number on its side.
CpdSector(s, num, mfm, data) ==
  Sct(s.c, s.h, s.r, s.n, num, mfm, s.st1 = "deleted",
      IF data = <<>> THEN "nodata" ELSE IF s.st1 = "crc" THEN "crc"
      ELSE IF s.st1 = "deleted" THEN "deleted" ELSE "ok", data)
CpdTrack(f, d, at, info) ==
  LET Size(j) == IF f.ext THEN info[j].length ELSE Bytes(info[1].n)
      Sector(acc, j) ==
        [p |-> acc.p + Size(j),
         d |-> [acc.d EXCEPT !.body = Append(@,
                  CpdSector(info[j], Len(info), IF f.ext THEN ~f.fm ELSE info[1].n # 0,
                            [q \in 1..Size(j) |-> f.cells[acc.p + q - 1].v]))]]
  IN FoldLeft(Sector, [p |-> at + 1, d |-> d], Upto(Len(info))).d
CpdreadToD88(f) ==
  LET Add(d, k, at) ==
        IF at >= Gone(f) \/ k >= Tracks THEN d ELSE CpdTrack(f, TrackAt(d, k), at, f.cells[at].info)
  IN FoldLeft(LAMBDA d, i : Add(d, IF f.heads = 1 THEN 2 * (i - 1) ELSE i - 1, Offsets(f)[i]),
              Fresh, Upto(f.tracks * f.heads))

(* ------------------------------- T98-Next ------------------------------ *)
NfdStat(s) ==
  IF "crc" \in s.st1 THEN IF "crc" \in s.st2 THEN "crc" ELSE "idcrc"
  ELSE IF "noam" \in s.st1 THEN "noam" ELSE IF "nodata" \in s.st2 THEN "nodata"
  ELSE IF s.del THEN "deleted" ELSE "ok"
NfdSct(s, num, data) == Sct(s.c, s.h, s.r, s.n, num, s.mfm, s.del, NfdStat(s), data)
NfdType(s) == IF s.pda = 16 THEN "2DD" ELSE "2HD"

\* R0: a place for each sector that a track may have, some of them empty.
Nfdr0ToD88(f) ==
  LET Add(acc, t) ==
        LET there == SelectSeq(f.ids[t], LAMBDA s : s.c # 255)
            Sector(a, i) ==
              LET s == there[i]
              IN [p |-> a.p + Bytes(s.n % 4),
                  d |-> [a.d EXCEPT !.body = Append(@, NfdSct(s, Len(there), Slice(f.data, a.p, Bytes(s.n % 4)))),
                                    !.type = NfdType(s)]]
        IN IF there = <<>> THEN acc
           ELSE FoldLeft(Sector, [acc EXCEPT !.d = TrackAt(acc.d, t - 1)], Upto(Len(there)))
  IN FoldLeft(Add, [p |-> 1, d |-> Fresh], Upto(Len(f.ids))).d

\* R1: a sector that read differently is unstable in the bits that differed, and
\* what the track's diagnoses read is passed over.
Bits(b) == {i \in 0..1 : Flag(b, i)}
Number(bits) == (IF 0 \in bits THEN 1 ELSE 0) + (IF 1 \in bits THEN 2 ELSE 0)
Differ(a, b) == (Bits(a) \ Bits(b)) \union (Bits(b) \ Bits(a))
Nfdr1ToD88(f) ==
  LET Add(acc, t) ==
        LET ids == f.ids[t]
            Sector(a, i) ==
              LET s == ids[i]
                  size == Bytes(s.n % 4)
                  Read(r) == Slice(f.data, a.p + r * size, size)
                  mask == [q \in 1..size |-> Number(UNION {Differ(Read(0)[q], Read(r)[q]) : r \in 0..s.retry})]
                  sct == NfdSct(s, Len(ids), Read(0))
              IN [p |-> a.p + (s.retry + 1) * size,
                  d |-> [a.d EXCEPT !.body = Append(@, sct), !.type = NfdType(s)],
                  vary |-> IF \A q \in 1..size : mask[q] = 0 THEN a.vary
                           ELSE Append(a.vary, [names |-> i - 1, data |-> mask, of |-> sct])]
            all == FoldLeft(Sector, [p |-> acc.p, d |-> TrackAt(acc.d, t - 1), vary |-> <<>>], Upto(Len(ids)))
            masks == [n \in DOMAIN all.vary |->
                        [all.vary[n].of EXCEPT !.num = Len(all.vary), !.data = all.vary[n].data,
                                               !.r = all.vary[n].names, !.stat = "mask"]]
        IN IF ids = <<>> THEN acc
           ELSE [p |-> all.p + f.diag[t], d |-> [all.d EXCEPT !.body = @ \o masks]]
  IN FoldLeft(Add, [p |-> 1, d |-> Fresh], Upto(Len(f.ids))).d

(* ------------------------------ flat files ----------------------------- *)
LengthOf(g) == IF g.nsec2 = 0 THEN g.ncyl * g.nside * g.nsec * Bytes(g.n)
               ELSE g.nsec * Bytes(g.n) + (g.ncyl * g.nside - 1) * g.nsec2 * Bytes(g.n2)
\* The first track may be formatted otherwise than the rest.
SolidToD88(f, g) ==
  LET Add(acc, i) ==
        LET more == i > 1 /\ g.nsec2 # 0
            nsec == IF more THEN g.nsec2 ELSE g.nsec
            size == Bytes(IF more THEN g.n2 ELSE g.n)
            Sector(d, s) ==
              [d EXCEPT !.body = Append(@, Sct((i - 1) \div g.nside, (i - 1) % g.nside, s, g.n, nsec,
                                               IF more THEN g.mfm2 ELSE g.mfm, FALSE, "ok",
                                               Slice(f, acc.p + (s - 1) * size, size)))]
        IN [p |-> acc.p + nsec * size,
            d |-> FoldLeft(Sector, TrackAt(acc.d, IF g.nside = 1 THEN 2 * (i - 1) ELSE i - 1), Upto(nsec))]
  IN [FoldLeft(Add, [p |-> 1, d |-> Fresh], Upto(g.ncyl * g.nside)).d EXCEPT !.type = g.type]
\* A name that tells the format, and the length that belongs to it; or the first
\* format of that length.
GeometryOf(f) ==
  LET named == SelectSeq(Geometries, LAMBDA g : g.name = f.name /\ LengthOf(g) = Len(f.bytes))
      fits  == SelectSeq(Geometries, LAMBDA g : g.name = "" /\ LengthOf(g) = Len(f.bytes))
  IN named \o fits

Converted(format, f) ==
  IF format = "td0" THEN Kept(TelediskToD88(f)) ELSE IF format = "imd" THEN Kept(ImagediskToD88(f))
  ELSE IF format = "dsk" THEN Kept(CpdreadToD88(f)) ELSE IF format = "nfd0" THEN Kept(Nfdr0ToD88(f))
  ELSE IF format = "nfd1" THEN Kept(Nfdr1ToD88(f))
  ELSE IF GeometryOf(f) = <<>> THEN Refused ELSE Kept(SolidToD88(f.bytes, GeometryOf(f)[1]))

(* ------------------------- who makes the images ------------------------ *)
\* A disk's tracks are [track, head, sectors], a sector [c, h, r, n, mfm, del,
\* bad, none, data, again], `again` what it reads the second time.
Concat(ss) == FoldLeft(LAMBDA a, b : a \o b, <<>>, ss)
Same(s) == \A i \in DOMAIN s : s[i] = s[1]
Pairs(s) == Len(s) >= 2 /\ Same([i \in 1..(Len(s) \div 2) |-> <<s[2 * i - 1], s[2 * i]>>])
Mfm(t) == t.sectors[1].mfm
Bool(b, n) == IF b THEN n ELSE 0

TdData(how, d) ==
  IF how = 1 /\ Pairs(d) THEN <<5, 0, 1, Len(d) \div 2, 0, d[1], d[2]>>
  ELSE IF how = 2 /\ Pairs(d) THEN <<5, 0, 2, 1, Len(d) \div 2, d[1], d[2]>>
  ELSE IF how = 3 /\ Len(d) = 4 THEN <<9, 0, 2, 0, 2, d[1], d[2], 1, 1, d[3], d[4]>>
  ELSE <<Len(d) + 1, 0, 0>> \o d
TdFile(disk, how, comment) ==
  [comment |-> comment, sides |-> disk.sides,
   dens |-> Bool(disk.hd, 2) + Bool(~Mfm(disk.tracks[1]), 128),
   bytes |-> (IF comment THEN <<9, 9, 2, 0, 9, 9, 9, 9, 9, 9, 8, 8>> ELSE <<>>) \o
     Concat([t \in DOMAIN disk.tracks |->
       <<Len(disk.tracks[t].sectors), disk.tracks[t].track, disk.tracks[t].head, 0>> \o
       Concat([i \in DOMAIN disk.tracks[t].sectors |->
         LET s == disk.tracks[t].sectors[i]
         IN <<s.c, s.h, s.r, s.n, Bool(s.bad, 2) + Bool(s.del, 4) + Bool(s.none, 32), 0>>
            \o (IF s.none THEN <<>> ELSE TdData(how, s.data))])]) \o <<255, 0, 0, 0>>]

ImdFile(disk, packed, named) ==
  <<73, 77, 26>> \o Concat([t \in DOMAIN disk.tracks |->
    LET tr == disk.tracks[t]
        ss == tr.sectors
        cs == named \/ \E i \in DOMAIN ss : ss[i].c # tr.track
        hs == named \/ \E i \in DOMAIN ss : ss[i].h # tr.head
    IN <<Bool(~disk.hd, 2) + Bool(Mfm(tr), 3), tr.track, tr.head + Bool(cs, 128) + Bool(hs, 64), Len(ss), ss[1].n>>
       \o [i \in DOMAIN ss |-> ss[i].r]
       \o (IF cs THEN [i \in DOMAIN ss |-> ss[i].c] ELSE <<>>) \o (IF hs THEN [i \in DOMAIN ss |-> ss[i].h] ELSE <<>>)
       \o Concat([i \in DOMAIN ss |->
            IF ss[i].none THEN <<0>>
            ELSE LET kind == 1 + Bool(ss[i].del, 2) + Bool(ss[i].bad, 4)
                 IN IF packed /\ Same(ss[i].data) THEN <<kind + 1, ss[i].data[1]>> ELSE <<kind>> \o ss[i].data])])

\* `wrong`: the table has tracks larger than they are.
Cell(v) == [info |-> <<>>, v |-> v]
Place(disk, tr) == IF disk.sides = 1 THEN tr.track + 1 ELSE 2 * tr.track + tr.head + 1
Places(disk) == disk.sides * (disk.tracks[Len(disk.tracks)].track + 1)
OnPlace(disk, i) == SelectSeq(disk.tracks, LAMBDA tr : Place(disk, tr) = i)
DskCells(ext, tr) ==
  <<[info |-> [i \in DOMAIN tr.sectors |->
      LET s == tr.sectors[i]
      IN [c |-> s.c, h |-> s.h, r |-> s.r, n |-> s.n, length |-> IF s.none THEN 0 ELSE Len(s.data),
          st1 |-> IF s.bad THEN "crc" ELSE IF s.del THEN "deleted" ELSE "ok"]], v |-> 0]>>
  \o Concat([i \in DOMAIN tr.sectors |->
       IF ext /\ tr.sectors[i].none THEN <<>> ELSE [q \in DOMAIN tr.sectors[i].data |-> Cell(tr.sectors[i].data[q])]])
DskFile(disk, ext, wrong) ==
  LET On(i) == IF OnPlace(disk, i) = <<>> THEN <<>> ELSE DskCells(ext, OnPlace(disk, i)[1])
  IN [ext |-> ext, heads |-> disk.sides, tracks |-> Places(disk) \div disk.sides, fm |-> ~Mfm(disk.tracks[1]),
      sizes |-> [i \in 1..Places(disk) |-> IF On(i) = <<>> THEN 0 ELSE Len(On(i)) + Bool(wrong, 2)],
      cells |-> Concat([i \in 1..Places(disk) |-> On(i)])]

NfdId(s) == [c |-> s.c, h |-> s.h, r |-> s.r, n |-> s.n, mfm |-> s.mfm, del |-> s.del, retry |-> Len(s.again), pda |-> 16,
             st1 |-> IF s.bad THEN {"crc"} ELSE {}, st2 |-> IF s.bad THEN {"crc"} ELSE IF s.none THEN {"nodata"} ELSE {}]
NoId == NfdId([c |-> 255, h |-> 0, r |-> 0, n |-> 0, mfm |-> TRUE, del |-> FALSE, bad |-> FALSE, none |-> FALSE, again |-> <<>>])
NfdFile(disk, r0) ==
  LET last == disk.tracks[Len(disk.tracks)]
      On(t) == SelectSeq(disk.tracks, LAMBDA tr : 2 * tr.track + tr.head = t - 1)
      Ids(t) == IF On(t) = <<>> THEN <<>> ELSE [i \in DOMAIN On(t)[1].sectors |-> NfdId(On(t)[1].sectors[i])]
      all == 1..(2 * last.track + last.head + 1)
  IN [ids  |-> [t \in all |-> IF r0 THEN <<NoId>> \o Ids(t) \o <<NoId>> ELSE Ids(t)],
      diag |-> [t \in all |-> IF Ids(t) = <<>> \/ r0 THEN 0 ELSE 3],
      data |-> Concat([t \in all |-> IF On(t) = <<>> THEN <<>>
                        ELSE Concat([i \in DOMAIN On(t)[1].sectors |->
                               On(t)[1].sectors[i].data \o (IF r0 THEN <<>> ELSE Concat(On(t)[1].sectors[i].again))])
                             \o (IF r0 THEN <<>> ELSE <<3, 3, 3>>)])]

\* What a format can express: all tracks there are, one size on a track, ...
Complete(disk) == \A i \in DOMAIN disk.tracks : Place(disk, disk.tracks[i]) = i
Uniform(disk) == \A i \in DOMAIN disk.tracks : Same([j \in DOMAIN disk.tracks[i].sectors |-> disk.tracks[i].sectors[j].n])
None(disk) == \E i \in DOMAIN disk.tracks, j \in 1..2 : j \in DOMAIN disk.tracks[i].sectors /\ disk.tracks[i].sectors[j].none
Both(disk) == \E i \in DOMAIN disk.tracks, j \in 1..2 :
                j \in DOMAIN disk.tracks[i].sectors /\ disk.tracks[i].sectors[j].bad /\ disk.tracks[i].sectors[j].del

(* ------------------------------- actions ------------------------------- *)
Init == given = [format |-> "none", disk |-> 0, file |-> 0] /\ made = Fresh

Is(format, disk, file) ==
  /\ given' = [format |-> format, disk |-> disk, file |-> file] /\ made' = Converted(format, file)
Open ==
  /\ given.format = "none"
  /\ \E disk \in Disks :
       \/ \E how \in 0..3, comment \in BOOLEAN : Complete(disk) /\ Is("td0", disk, TdFile(disk, how, comment))
       \/ \E packed, named \in BOOLEAN : Uniform(disk) /\ Is("imd", disk, ImdFile(disk, packed, named))
       \/ \E ext, wrong \in BOOLEAN :
            /\ ~Both(disk) /\ (~ext => Uniform(disk) /\ Complete(disk) /\ ~None(disk) /\ Mfm(disk.tracks[1]))
            /\ wrong => Complete(disk)
            /\ Is("dsk", disk, DskFile(disk, ext, wrong))
       \/ \E r0 \in BOOLEAN : Is(IF r0 THEN "nfd0" ELSE "nfd1", disk, NfdFile(disk, r0))
OpenFlat ==
  /\ given.format = "none"
  /\ \E g \in Range(Geometries) :
       Is("flat", 0, [name |-> g.name, bytes |-> [i \in 1..LengthOf(g) |-> i]])

Next == Open \/ OpenFlat
Spec == Init /\ [][Next]_formatVars

(* ------------------------------ properties ----------------------------- *)
TypeOK ==
  /\ given.format \in {"none", "td0", "imd", "dsk", "nfd0", "nfd1", "flat"}
  /\ made.ok \in BOOLEAN /\ made.table \in [0..(Tracks - 1) -> 0..(Len(made.body) + 1)] /\ made.type \in {"2D", "2DD", "2HD", "144"}

\* The sectors in the image's place for a track, and the masks behind them.
OnTrack(t) == IF made.table[t] = NoTrack THEN <<>> ELSE Slice(made.body, made.table[t], made.body[made.table[t]].num)
Behind(t) == LET p == made.table[t] + Len(OnTrack(t))
             IN IF p \in DOMAIN made.body /\ made.body[p].stat = "mask" THEN Slice(made.body, p, made.body[p].num) ELSE <<>>
Varies(s) == [q \in DOMAIN s.data |-> Number(UNION {Differ(s.data[q], s.again[r][q]) : r \in DOMAIN s.again})]
Wanted(tr) ==
  LET format == given.format
  IN [i \in DOMAIN tr.sectors |->
    LET s == tr.sectors[i]
        keeps == format \in {"nfd0", "nfd1"}
    IN Sct(s.c, s.h, s.r, s.n, Len(tr.sectors), IF format = "dsk" /\ ~given.file.ext THEN s.n # 0 ELSE s.mfm, s.del,
           IF s.none THEN "nodata" ELSE IF s.bad THEN "crc" ELSE IF s.del THEN "deleted" ELSE "ok",
           IF s.none /\ ~keeps THEN <<>> ELSE s.data)]
\* An image that was converted has the disk's tracks in their places, with
\* their sectors as they are on the disk, and no other; and the bits that vary.
ConversionIsTrue ==
  LET disk == given.disk
      size == FoldLeft(LAMBDA a, tr : a + FoldLeft(LAMBDA b, s : b + 2 * (Len(s.data) + 1), 0, tr.sectors), 0, disk.tracks)
  IN given.format \notin {"none", "flat"} => IF ~made.ok THEN size > BufferRoom ELSE
    /\ \A i \in DOMAIN disk.tracks :
         LET tr == disk.tracks[i]
             t == 2 * tr.track + tr.head
             shaky == SelectSeq(Upto(Len(tr.sectors)), LAMBDA j : \E b \in Range(Varies(tr.sectors[j])) : b # 0)
         IN /\ OnTrack(t) = Wanted(tr)
            /\ given.format = "nfd1" =>
                 [n \in DOMAIN Behind(t) |-> <<Behind(t)[n].r, Behind(t)[n].data>>]
                   = [n \in DOMAIN shaky |-> <<shaky[n] - 1, Varies(tr.sectors[shaky[n]])>>]
    /\ \A t \in 0..(Tracks - 1) : made.table[t] # NoTrack =>
         \E i \in DOMAIN disk.tracks : t = 2 * disk.tracks[i].track + disk.tracks[i].head
    /\ given.format = "imd" /\ (Mfm(disk.tracks[1]) => ~disk.hd) => (made.type = "2HD" <=> disk.hd)

\* A flat file's bytes are all there, in order.
FlatIsWhole ==
  given.format = "flat" =>
    IF ~made.ok THEN 2 * Len(given.file.bytes) > BufferRoom ELSE Concat([i \in DOMAIN made.body |-> made.body[i].data]) = given.file.bytes
==============================================================================

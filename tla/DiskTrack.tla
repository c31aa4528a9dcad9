------------------------------ MODULE DiskTrack -------------------------------
(***************************************************************************)
(* Where the sectors of an image's track are on a track that turns under   *)
(* the head (vm/disk.cpp), in bytes: what the floppy controller waits for, *)
(* and what its read track command is given.                               *)
(***************************************************************************)
EXTENDS Integers, Sequences, SequencesExt

CONSTANTS
  Formatted, \* [media, sectors]: tracks, sectors of [size, mfm]
  DriveTypes \* of a drive that the disk may be in

NoLayout == [there |-> FALSE]
MediaTypes == {"2D", "2DD", "2HD", "144"}
DiskTrackAssumption == DriveTypes \subseteq MediaTypes \union {"unknown"}

VARIABLES
  given, \* the disk, the drive, the track asked for
  made   \* get_track's positions, and the fields make_track writes

trackVars == <<given, made>>

CheckMediaType(drive, media) ==
  IF drive \in {"2D", "2DD"} THEN media \in {"2D", "2DD"} ELSE drive \in {media, "unknown"}
\* A 2D disk in a 2DD drive has every other track, a 2DD disk in a 2D drive is
\* read at every other track. -1 is no track.
TrackUnder(drive, media, trk) ==
  IF media = "2D" /\ drive = "2DD" THEN IF trk % 2 = 1 THEN -1 ELSE trk \div 2
  ELSE IF media = "2DD" /\ drive = "2D" THEN 2 * trk ELSE trk
GetTrackSize(media, mfm) ==
  IF media = "144" THEN 12500 ELSE IF media = "2HD" THEN 10410 ELSE IF mfm THEN 6250 ELSE 3100

(* ------------------------------ get_track_tmp -------------------------- *)
\* One sector in double density makes the track so; the size that decides the
\* gaps is the last that was looked at.
FirstMfm(ss) == {i \in DOMAIN ss : ss[i].mfm}
TrackMfm(ss) == ss = <<>> \/ FirstMfm(ss) # {}
LastSize(ss) == IF ss = <<>> THEN 0
                ELSE IF FirstMfm(ss) = {} THEN ss[Len(ss)].size
                ELSE ss[CHOOSE i \in FirstMfm(ss) : \A j \in FirstMfm(ss) : i <= j].size
Sync(mfm) == IF mfm THEN 12 ELSE 6
Mark(mfm) == IF mfm THEN 4 ELSE 1   \* am_size + 1
Gap2(mfm) == IF mfm THEN 22 ELSE 11
\* The standard formats: size, count, gap.
HighDensity(mfm) == IF mfm THEN {<<256, 26, 54>>, <<512, 15, 84>>, <<1024, 8, 116>>}
                    ELSE {<<128, 26, 27>>, <<256, 15, 42>>, <<512, 8, 58>>}
LowDensity(mfm) == IF mfm THEN {<<256, 16, 51>>, <<512, 9, 80>>, <<1024, 5, 116>>}
                   ELSE {<<128, 16, 27>>, <<256, 9, 42>>, <<512, 5, 58>>}
StandardGap3(media, ss) ==
  LET mfm == TrackMfm(ss)
      fits == {f \in IF media \in {"144", "2HD"} THEN HighDensity(mfm) ELSE LowDensity(mfm) :
                 f[1] = LastSize(ss) /\ f[2] = Len(ss)}
  IN IF fits = {} THEN 0 ELSE (CHOOSE f \in fits : TRUE)[3]

IdField(mfm) == Sync(mfm) + Mark(mfm) + 6 + Gap2(mfm)
DataField(mfm, s) == IF s.size > 0 THEN Sync(mfm) + Mark(mfm) + s.size + 2 ELSE 0
\* What comes before sector i, without gaps 3.
Before(ss, i) ==
  FoldLeft(LAMBDA a, s : a + IdField(TrackMfm(ss)) + DataField(TrackMfm(ss), s), 0, SubSeq(ss, 1, i - 1))

\* The standard's gaps; or what is left, shared out; or shared with the gaps at
\* the start; or 8 bytes each and sectors that overlap.
Valid(ss) == Len(SelectSeq(ss, LAMBDA s : s.size > 0))
Shared(n, room, valid) == [gap0 |-> n, gap1 |-> n, gap3 |-> n, gap4 |-> room - n * (valid + 2), invalid |-> FALSE]
AtLeast8(g, otherwise) == IF g.gap3 >= 8 /\ g.gap4 >= 8 THEN g ELSE otherwise
Standard(gap0, gap1, gap3, room, valid) ==
  [gap0 |-> gap0, gap1 |-> gap1, gap3 |-> gap3, gap4 |-> room - gap0 - gap1 - gap3 * valid, invalid |-> FALSE]
SharedOut(mfm, std, room, valid) ==
  LET gap0 == IF mfm THEN 80 ELSE 40
      gap1 == IF mfm THEN 50 ELSE 26
  IN AtLeast8(Standard(gap0, gap1, IF std # 0 THEN std ELSE (room - gap0 - gap1) \div (valid + 1), room, valid),
              AtLeast8(Shared(room \div (valid + 3), room, valid),
                       [gap0 |-> 8, gap1 |-> 8, gap3 |-> 8, gap4 |-> 8, invalid |-> TRUE]))
Gaps(media, ss) ==
  LET mfm == TrackMfm(ss)
  IN SharedOut(mfm, StandardGap3(media, ss),
               GetTrackSize(media, mfm) - Before(ss, Len(ss) + 1) - Sync(mfm) - Mark(mfm), Valid(ss))

\* Sector i of a track, from its first byte on.
Place(mfm, s, from) ==
  [sync |-> from, am1 |-> from + Sync(mfm), id |-> from + Sync(mfm) + Mark(mfm),
   data |-> from + IdField(mfm) + (IF s.size > 0 THEN Sync(mfm) + Mark(mfm) ELSE 0)]
Positions(ss, mfm, size, g) ==
  LET preamble == g.gap0 + Sync(mfm) + Mark(mfm) + g.gap1
      squeezed(i) == (Before(ss, i) * (size - preamble - g.gap4)) \div Before(ss, Len(ss) + 1)
  IN [i \in DOMAIN ss |->
       Place(mfm, ss[i], preamble + (IF g.invalid THEN squeezed(i)
                                     ELSE Before(ss, i) + g.gap3 * Valid(SubSeq(ss, 1, i - 1))))]

Track(ss, mfm, size, g) ==
  [there |-> TRUE, mfm |-> mfm, gaps |-> g, at |-> Positions(ss, mfm, size, g), ss |-> ss, size |-> size]
GetTrack(media, ss) == Track(ss, TrackMfm(ss), GetTrackSize(media, TrackMfm(ss)), Gaps(media, ss))

(* ------------------------------ make_track_tmp ------------------------- *)
\* The fields in the order they are written, each cut at the track's end; a gap
\* has what no field has.
Cut(l, kind, i, p, n) ==
  [kind |-> kind, sector |-> i, from |-> p, to |-> IF p + n < l.size THEN p + n ELSE l.size]
MakeTrack(l) ==
  LET Fields(i) ==
        LET p == l.at[i].sync
            am == p + Sync(l.mfm)
            id == am + Mark(l.mfm)
            d  == id + 6 + Gap2(l.mfm)
            am2 == d + Sync(l.mfm)
            data == am2 + Mark(l.mfm)
        IN <<Cut(l, "sync", i, p, Sync(l.mfm)), Cut(l, "am1", i, am, Mark(l.mfm)), Cut(l, "id", i, id, 6)>>
           \o (IF l.ss[i].size = 0 THEN <<>>
               ELSE <<Cut(l, "sync", i, d, Sync(l.mfm)), Cut(l, "am2", i, am2, Mark(l.mfm)),
                      Cut(l, "data", i, data, l.ss[i].size + 2)>>)
      index == <<Cut(l, "sync", 0, l.gaps.gap0, Sync(l.mfm)),
                 Cut(l, "index", 0, l.gaps.gap0 + Sync(l.mfm), Mark(l.mfm))>>
  IN FoldLeft(LAMBDA a, i : a \o Fields(i), index, [i \in DOMAIN l.ss |-> i])

(* ------------------------------- actions ------------------------------- *)
Init == given = [drive |-> "none"] /\ made = [layout |-> NoLayout, fields |-> <<>>]

\* The track asked for; the disk has the one that is given, as track `trk`.
Made(l) == [layout |-> l, fields |-> IF l.there THEN MakeTrack(l) ELSE <<>>]
ReadTrack(drive, disk, asked, trk) ==
  /\ given' = [drive |-> drive, media |-> disk.media, asked |-> asked, trk |-> trk]
  /\ made' = Made(IF CheckMediaType(drive, disk.media) /\ TrackUnder(drive, disk.media, asked) = trk
                  THEN GetTrack(disk.media, disk.sectors) ELSE NoLayout)

Next == given.drive = "none"
        /\ \E drive \in DriveTypes, disk \in Formatted, asked \in 0..3, trk \in 1..2 : ReadTrack(drive, disk, asked, trk)
Spec == Init /\ [][Next]_trackVars

(* ------------------------------ properties ----------------------------- *)
TypeOK == made.layout.there \in BOOLEAN /\ made.fields \in Seq([kind : STRING, sector : Nat, from : Nat, to : Nat])

FieldsAt(kind, i) == SelectSeq(made.fields, LAMBDA f : f.kind = kind /\ f.sector = i)
\* The fields of a track follow one another without touching the next sector or
\* the end, and are where the controller waits for them. Of a track that has too
\* much, the sectors' ids are all there, one after the other.
TrackIsWhole ==
  LET l == made.layout
      fs == made.fields
  IN l.there =>
    /\ \A i \in DOMAIN l.ss :
         /\ Len(FieldsAt("am1", i)) = 1 /\ FieldsAt("am1", i)[1].from = l.at[i].am1
         /\ Len(FieldsAt("id", i)) = 1 /\ FieldsAt("id", i)[1].from = l.at[i].id /\ l.at[i].id + 6 <= l.size
         /\ l.ss[i].size > 0 => FieldsAt("data", i)[1].from = l.at[i].data
         /\ i > 1 => l.at[i - 1].am1 < l.at[i].am1
    /\ ~l.gaps.invalid =>
         /\ \A n \in DOMAIN fs : n > 1 => fs[n - 1].to <= fs[n].from
         /\ \A n \in DOMAIN fs : fs[n].kind = "sync" /\ n > 1 /\ fs[n - 1].kind = "data" =>
              fs[n].from - fs[n - 1].to = l.gaps.gap3
         /\ fs[Len(fs)].kind \in {"data", "index"} =>
              l.size - fs[Len(fs)].to = l.gaps.gap4
                + (IF fs[Len(fs)].kind = "data" THEN l.gaps.gap3 ELSE l.gaps.gap1)
\* A 40-track disk is read as it is in an 80-track drive, and the other way.
TracksAreMatched ==
  made.layout.there =>
    CASE given.media = "2D" /\ given.drive = "2DD" -> given.asked = 2 * given.trk
      [] given.media = "2DD" /\ given.drive = "2D" -> given.trk = 2 * given.asked
      [] OTHER -> given.trk = given.asked
==============================================================================

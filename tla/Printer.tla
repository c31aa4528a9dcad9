------------------------------- MODULE Printer --------------------------------
(***************************************************************************)
(* The printers at the PIO's ports: the thermal printer (vm/mz1p17.cpp, in *)
(* the mode of the X1) and the one that keeps the bytes (vm/prnfile.cpp).  *)
(* A byte is taken at the edge of the strobe and goes into a queue until a *)
(* command is complete. What a command draws is a mark, on the line, then  *)
(* on the sheet, then in a file; dots and fonts are left out.              *)
(***************************************************************************)
EXTENDS Integers, Sequences, FiniteSets, SequencesExt

CONSTANTS
  Printers,   \* "mz1p17", "file"
  Printed,    \* what may have been sent before: sequences of commands
  Words,      \* [bytes, mode]: commands, and the mode of text they are for
  MaxWords    \* bound: commands that the program sends, resets, loaded states

PrinterAssumption ==
  /\ Printers \subseteq {"mz1p17", "file"} /\ MaxWords \in Nat
  /\ \A w \in Words : w.bytes \in Seq(0..255) /\ w.mode \in {"any", "ank", "kanji"}
  /\ Printed \subseteq Seq(Words)

VARIABLES
  printer, \* MZ1P17 or PRNFILE, and the marks
  sending, \* the bytes of a command that are still to be sent
  sent     \* commands, resets and loaded states

printVars == <<printer, sending, sent>>

Inch == 360      \* PIXEL_PER_INCH
Dot == 2         \* DOT_SCALE
LineHeight == 50 * Dot
Edge == 1440 * Dot
PaperHeight == 4208
SpaceTop == (PaperHeight - Inch * 11) \div 2

SetUp == [lf |-> Inch \div 6, sixth |-> TRUE, left |-> 0, right |-> Edge,
          pitch |-> "pica", script |-> "none", kanji |-> FALSE, half |-> FALSE, hiragana |-> FALSE,
          style |-> {}, double |-> {}, kanjiPitch |-> 27, halfPitch |-> 18,
          htab |-> {}, vtab |-> [n \in 1..14 |-> -1], gaiji |-> {}]

NewPrinter(kind) ==
  [kind |-> kind, value |-> -1, strobe |-> FALSE, busy |-> FALSE, ack |-> TRUE,
   busyId |-> FALSE, ackId |-> FALSE, stray |-> [busy |-> 0, ack |-> 0], waiting |-> FALSE,
   fifo |-> <<>>, set |-> SetUp, x |-> 0, y |-> 0, tall |-> FALSE, linePrinted |-> FALSE, paperPrinted |-> FALSE,
   paperIndex |-> 0, length |-> 0,
   drawn |-> 0, line |-> 0, sheet |-> 0, filed |-> 0, thrown |-> 0, low |-> 0, inside |-> TRUE]

(* ------------------------- busy and acknowledge ------------------------ *)
SetBusy(p, value) ==
  IF p.busy /\ ~value THEN [p EXCEPT !.busy = FALSE, !.ackId = TRUE, !.ack = FALSE] ELSE [p EXCEPT !.busy = value]

\* A busy or an acknowledge that was forgotten, not cancelled, still comes.
Forgotten(p, which, id) == [p EXCEPT !.stray[which] = @ + (IF id THEN 1 ELSE 0)]
BusyEvent(p) == SetBusy([p EXCEPT !.busyId = FALSE], FALSE)
AckEvent(p) == [p EXCEPT !.ackId = FALSE, !.ack = TRUE]

(* --------------------------- lines and pages --------------------------- *)
FinishPaper(p) ==
  LET keep == p.length > 1
      q == IF ~p.paperPrinted THEN p
           ELSE [p EXCEPT !.sheet = 0, !.filed = IF keep THEN @ + p.sheet ELSE @,
                          !.thrown = IF keep THEN @ ELSE @ + p.sheet,
                          !.paperIndex = IF keep THEN @ + 1 ELSE @]
  IN [q EXCEPT !.paperPrinted = FALSE, !.y = 0]

FinishLine(p) ==
  LET sourceY == IF p.tall THEN 0 ELSE 24 * Dot
      room == IF p.y + LineHeight - sourceY > Inch * 11 THEN FinishPaper(p) ELSE p
      q == IF ~p.linePrinted THEN p
           ELSE [room EXCEPT !.sheet = @ + p.line, !.line = 0, !.paperPrinted = TRUE,
                             !.low = SpaceTop + room.y + LineHeight]
  IN [q EXCEPT !.linePrinted = FALSE, !.tall = FALSE, !.x = p.set.left]

Scroll(p, value) == [p EXCEPT !.y = @ + value]
LineFeed(p, lines) == Scroll(FinishLine(p), p.set.lf * lines + (IF p.tall THEN 24 * Dot ELSE 0))

\* PRNFILE::close_file, or finish().
Finish(p) ==
  IF p.kind = "file"
  THEN [p EXCEPT !.filed = IF p.line < 2 THEN @ ELSE @ + p.line,
                 !.thrown = IF p.line < 2 THEN @ + p.line ELSE @, !.line = 0]
  ELSE [FinishPaper(FinishLine(p)) EXCEPT !.paperIndex = 0, !.length = 0]

Reset(p) ==
  LET q == Forgotten(Forgotten(Finish(p), "busy", p.busyId), "ack", p.ackId)
      blank == [q EXCEPT !.fifo = <<>>, !.set = SetUp, !.x = 0, !.y = 0, !.tall = FALSE,
                         !.linePrinted = FALSE, !.paperPrinted = FALSE]
  IN [SetBusy([(IF p.kind = "file" THEN q ELSE blank)
               EXCEPT !.waiting = FALSE, !.busyId = FALSE, !.ackId = FALSE], FALSE) EXCEPT !.ack = TRUE]

(* ------------------------------ characters ----------------------------- *)
Hankaku(c) == c \in 0..255 \union 10240..10495
Kana(c) == c \in (166..221 \ {176}) \union (10406..10461 \ {10416})
Doubled(p, way) == (IF p.set.kanji THEN "kanji" ELSE "ank") \o way \in p.set.double

\* The space before a character, its width and the space behind it, together.
Cell(p, code, full) ==
  LET s == p.set
      half == s.kanji /\ s.half /\ Hankaku(code)
      gap1 == IF half THEN (IF s.halfPitch <= 15 THEN s.halfPitch - 12 ELSE 3)
              ELSE IF s.kanji THEN (IF s.kanjiPitch <= 26 THEN s.kanjiPitch - 24 ELSE 2)
              ELSE IF s.pitch = "condense" THEN 2 ELSE 3
      gap2 == IF half THEN (IF s.halfPitch <= 15 THEN 0 ELSE s.halfPitch - 15)
              ELSE IF s.kanji THEN (IF s.kanjiPitch <= 26 THEN 0 ELSE s.kanjiPitch - 26)
              ELSE IF s.pitch = "pica" THEN 3 ELSE 0
      width == IF ~s.kanji /\ s.pitch = "condense" THEN 9 ELSE 12
      share == IF ~full /\ s.script # "none" THEN 2 ELSE 1
      times == IF Doubled(p, "X") THEN 2 ELSE 1
      Sized(n) == ((n * Dot) \div share) * times
      hiragana == Kana(code) /\ s.hiragana
      glyph == Sized(width) \div (IF hiragana THEN 2 ELSE 1)
  IN Sized(gap1) + (IF full \/ hiragana THEN glyph * 2 ELSE glyph) + Sized(gap2)

Mark(p, advance, tall) ==
  [p EXCEPT !.tall = @ \/ tall, !.x = @ + advance, !.linePrinted = TRUE, !.drawn = @ + 1, !.line = @ + 1,
            !.inside = p.x + advance <= p.set.right \/ p.x = p.set.left]
DrawMark(p, advance, tall) == Mark(IF p.x + advance > p.set.right THEN LineFeed(p, 1) ELSE p, advance, tall)
DrawCode(p, code) ==
  DrawMark(p, Cell(p, code, code > 255), Doubled(p, "Y") /\ (code > 255 \/ p.set.script = "none"))
DrawChar(p, c) ==
  DrawCode(p, IF ~(p.set.kanji /\ Hankaku(c)) THEN c
              ELSE IF p.set.half THEN c % 256 ELSE IF c < 256 THEN 10240 + c ELSE c)

(* ------------------------------- commands ------------------------------ *)
F(p, i) == IF i < Len(p.fifo) THEN p.fifo[i + 1] ELSE 0        \* read_not_remove
Digits(p, i, n) == FoldLeft(LAMBDA sum, k : sum * 10 + F(p, k) - 48, 0, [k \in 1..n |-> i + k - 1])
Newest(p) == F(p, Len(p.fifo) - 1)
Columns(p, n) == IF p.set.kanji THEN n * p.set.halfPitch * Dot ELSE (n * Inch) \div 10
Pitch(p, n) == (n * Inch) \div (IF p.set.pitch = "elite" THEN 12 ELSE IF p.set.pitch = "condense" THEN 17 ELSE 10)

\* How many bytes ESC and FS commands have, where it is not two.
EscLength == [c \in 0..255 |->
  IF c \in {99, 112, 115} THEN 3 ELSE IF c \in {11, 67, 70, 92} THEN 4 ELSE IF c \in {47, 76} THEN 5
  ELSE IF c \in {16, 78} THEN 6 ELSE IF c = 86 THEN 7 ELSE IF c = 87 THEN 8
  ELSE IF c = 42 THEN 36 ELSE IF c = 43 THEN 76 ELSE 2]

\* ESC with data of its own length, or up to a point.
EscComplete(p) ==
  LET n == Len(p.fifo)
      c == F(p, 1)
  IN n >= 2 /\ IF c = 37 THEN (IF n >= 3 /\ F(p, 2) = 50 THEN n >= 5 /\ n = F(p, 3) * 256 + F(p, 4) + 5
                               ELSE IF F(p, 2) = 57 THEN n = 4 ELSE n >= 3)
               ELSE IF c \in {40, 41} THEN Newest(p) = 46
               ELSE IF c = 73 THEN n >= 6 /\ n = Digits(p, 2, 4) * 2 + 6
               ELSE IF c = 74 THEN n >= 4 /\ n = (F(p, 2) * 256 + F(p, 3)) * 3 + 4
               ELSE n = EscLength[c]

\* process_x1: does the byte that came complete a command?
Complete(p) ==
  LET n == Len(p.fifo)
      c == F(p, 0)
  IN IF c \in {0, 11, 26} THEN n = 2
     ELSE IF c = 16 THEN n = 4
     ELSE IF c = 20 THEN Newest(p) = 63
     ELSE IF c = 27 THEN EscComplete(p)
     ELSE IF c = 28 THEN n = (IF F(p, 1) \in {83, 84} THEN 4 ELSE 2)
     ELSE IF c \in {8, 9, 10, 12, 13, 14, 15, 17, 19, 24} THEN TRUE
     ELSE p.set.kanji => n = 2

With(s, which, on) == [s EXCEPT !.double = IF on THEN @ \union which ELSE @ \ which]
Styled(s, which, on) == [s EXCEPT !.style = IF on THEN @ \union {which} ELSE @ \ {which}]

\* BS and HT: back by a character, and on to a tab.
BackSpace(p) ==
  LET x == p.x - (IF p.set.kanji THEN (IF p.set.half THEN p.set.halfPitch ELSE p.set.kanjiPitch) * Dot ELSE Pitch(p, 1))
  IN [p EXCEPT !.x = IF x < p.set.left THEN p.set.left ELSE x]
Tab(p) ==
  LET tabs == {i \in p.set.htab : i > p.x}
      next == CHOOSE i \in tabs : \A j \in tabs : i <= j
  IN IF tabs = {} THEN p ELSE [p EXCEPT !.x = IF next > p.set.right THEN p.set.right ELSE next]
\* VT n, and DC4, which sets the lines for it.
ToLine(p) ==
  LET n == F(p, 1) - 48
  IN IF n \in 1..14 /\ p.set.vtab[n] # -1 THEN [FinishLine(p) EXCEPT !.y = p.set.vtab[n]] ELSE p
SetLines(p) ==
  LET at(n) == {i \in 1..(Len(p.fifo) - 2) : F(p, i) = 48 + n}
      last(n) == CHOOSE i \in at(n) : \A j \in at(n) : j <= i
  IN [p EXCEPT !.set.vtab = [n \in 1..14 |-> IF at(n) = {} THEN @[n] ELSE p.y + p.set.lf * (last(n) - 1)]]

\* The control codes.
Control(p) ==
  LET c == F(p, 0)
  IN IF c = 0 THEN [DrawChar([p EXCEPT !.set.half = TRUE], F(p, 1)) EXCEPT !.set.half = p.set.half]
     ELSE IF c = 8 THEN BackSpace(p)
     ELSE IF c = 9 THEN Tab(p)
     ELSE IF c = 10 THEN LineFeed(p, 1)
     ELSE IF c = 11 THEN ToLine(p)
     ELSE IF c = 12 THEN FinishPaper(FinishLine(p))
     ELSE IF c = 13 THEN [p EXCEPT !.x = p.set.left]
     ELSE IF c \in {14, 15} THEN [p EXCEPT !.set = With(@, {"ankX"}, c = 14)]
     ELSE IF c = 16 THEN [p EXCEPT !.x = IF p.set.kanji THEN Columns(p, Digits(p, 1, 3)) ELSE Pitch(p, Digits(p, 1, 3))]
     ELSE IF c = 20 THEN SetLines(p)
     ELSE IF c = 26 /\ F(p, 1) \in {86, 87} THEN [p EXCEPT !.set = With(@, {"ankY", "kanjiY"}, F(p, 1) = 86)]
     ELSE p

(* ---------------------------- dots and pictures ------------------------ *)
\* n columns from the head on, as far as the line goes.
Columned(p, n, width, end) ==
  LET room == (end - p.x + width - 1) \div width
      k == IF p.x >= end THEN 0 ELSE IF n < room THEN n ELSE room
  IN [p EXCEPT !.x = @ + k * width, !.linePrinted = @ \/ k > 0, !.drawn = @ + k, !.line = @ + k]

\* A row of 8, 16 or 24 pins, and the feed to the next one.
Pins(p, n, pins) ==
  LET s == p.set
      own == pins # 24
      width == (IF ~own THEN 2 * Dot ELSE IF s.pitch = "elite" THEN (3 * Dot) \div 2 ELSE 2 * Dot)
               * (IF own /\ "ankX" \in s.double THEN 2 ELSE 1)
      double == own /\ "ankY" \in s.double
      step == (IF s.pitch # "elite" /\ s.lf = (Inch * 15) \div 120 THEN 2 ELSE 3) * (IF double THEN 2 ELSE 1)
      q == Columned([p EXCEPT !.tall = @ \/ double], n, width, Edge)
      feed == IF pins = 8 THEN (IF q.tall THEN 16 ELSE 8) * step * Dot ELSE (IF q.tall THEN 48 ELSE 24) * Dot
  IN Scroll(FinishLine(q), feed)

\* The commands that draw.
EscDraw(p) ==
  LET c == F(p, 1)
  IN IF c \in 0..6 THEN Columned(p, c * (IF Doubled(p, "X") THEN 2 ELSE 1), Dot, p.set.right)
     ELSE IF c = 37 THEN Pins(p, F(p, 3) * 256 + F(p, 4), 8)
     ELSE IF c = 73 THEN Pins(p, Digits(p, 2, 4), 16)
     ELSE IF c = 74 THEN Pins(p, F(p, 2) * 256 + F(p, 3), 24)
     ELSE IF c = 78 THEN DrawChar(p, F(p, 5))
     ELSE IF c = 86 THEN Pins(p, Digits(p, 2, 4), 8) ELSE Pins(p, Digits(p, 2, 4), 16)

\* ESC * and ESC +: characters of one's own.
Define(p) ==
  IF F(p, 2) \in 120..122 /\ F(p, 3) \in 33..126 THEN [p EXCEPT !.set.gaiji = @ \union {<<F(p, 2), F(p, 3)>>}] ELSE p

(* --------------------------- moves and margins ------------------------- *)
\* ESC ( and ESC ): tabs in groups of three digits and a comma.
SetTabs(p, on) ==
  LET named == {Digits(p, i, 3) : i \in {j \in 2..(Len(p.fifo) - 1) : j % 4 = 2}}
      tabs == {t \in {Columns(p, n - 1) : n \in named \intersect 1..137} : t < Edge}
  IN [p EXCEPT !.set.htab = IF on THEN @ \union tabs ELSE @ \ tabs]
Margin(p) == Columns(p, Digits(p, 2, 3))

\* "ESC \ n1 n2": the code reads the first of the two bytes twice.
Relative(p) ==
  LET n == (F(p, 2) * 257)
      signed == IF n >= 32768 THEN n - 65536 ELSE n
  IN IF signed \in (-1440)..1440 THEN [p EXCEPT !.x = @ + signed * Dot] ELSE p

EscMove(p) ==
  LET c == F(p, 1)
      n == Digits(p, 2, 2)
  IN IF c = 11 THEN (IF n \in 1..99 THEN LineFeed(p, n) ELSE p)
     ELSE IF c = 16 THEN (IF Digits(p, 2, 4) \in 0..9999 THEN [p EXCEPT !.x = p.set.left + Digits(p, 2, 4) * Dot] ELSE p)
     ELSE IF c \in {40, 41} THEN SetTabs(p, c = 40)
     ELSE IF c = 50 THEN [p EXCEPT !.set.htab = {}]
     ELSE IF c \in {47, 76} THEN
       (IF Digits(p, 2, 3) \in 0..999 /\ Margin(p) < Edge
        THEN (IF c = 47 THEN [p EXCEPT !.set.right = Margin(p)] ELSE [p EXCEPT !.set.left = Margin(p)]) ELSE p)
     ELSE IF c = 67 THEN (IF n \in 0..99 THEN [p EXCEPT !.set.vtab = SetUp.vtab] ELSE p)
     ELSE IF c = 70 THEN (IF n \in 1..99 THEN [p EXCEPT !.set.vtab = SetUp.vtab] ELSE p)
     ELSE Relative(p)

\* The pitch of the lines: ESC 6, ESC 8, and ESC % 9 n.
EscPitch(p) ==
  LET c == F(p, 1)
      n == F(p, 3)
  IN IF c \in {54, 56} THEN [p EXCEPT !.set.lf = Inch \div (IF c = 54 THEN 6 ELSE 8), !.set.sixth = c = 54]
     ELSE IF F(p, 2) = 57 THEN
       [p EXCEPT !.set.lf = IF n = 0 THEN Inch \div (IF p.set.sixth THEN 6 ELSE 8) ELSE (Inch * n) \div 120]
     ELSE p

\* The commands that choose how text is drawn.
EscMode(s, c, d) ==
  IF c \in {33, 103} THEN Styled(s, "bold", TRUE) ELSE IF c \in {34, 104} THEN Styled(s, "bold", FALSE)
  ELSE IF c \in {88, 89} THEN Styled(s, "underline", c = 88)
  ELSE IF c \in {36, 38} THEN [s EXCEPT !.hiragana = c = 38]
  ELSE IF c \in {69, 81, 82} THEN
    [With(s, {"ankX"}, FALSE) EXCEPT !.pitch = IF c = 69 THEN "elite" ELSE IF c = 81 THEN "condense" ELSE "pica"]
  ELSE IF c = 85 THEN With(s, {"ankX"}, TRUE)
  ELSE IF c \in {72, 75, 80} THEN [s EXCEPT !.kanji = c = 75]
  ELSE IF c = 115 THEN [s EXCEPT !.script = IF d = 48 THEN "none" ELSE IF d = 49 THEN "super" ELSE IF d = 50 THEN "sub" ELSE @]
  ELSE s

Escape(p) ==
  LET c == F(p, 1)
  IN IF c \in 0..6 \union {73, 74, 78, 86, 87} \/ (c = 37 /\ F(p, 2) = 50) THEN EscDraw(p)
     ELSE IF c \in {11, 16, 40, 41, 47, 50, 67, 70, 76, 92} THEN EscMove(p)
     ELSE IF c \in {42, 43} THEN Define(p)
     ELSE IF c \in {37, 54, 56} THEN EscPitch(p)
     ELSE IF c = 99 /\ F(p, 2) = 49 THEN Reset(p)
     ELSE [p EXCEPT !.set = EscMode(@, c, F(p, 2))]

\* FS: vertical, the pitches and the width of kanji.
Kanji(p) ==
  LET c == F(p, 1)
      sum == F(p, 2) + F(p, 3)
  IN [p EXCEPT !.set = IF c \in {74, 75} THEN Styled(@, "vertical", c = 74)
                       ELSE IF c = 83 THEN [@ EXCEPT !.kanjiPitch = sum + 24]
                       ELSE IF c = 84 THEN [@ EXCEPT !.halfPitch = sum + 12]
                       ELSE IF c \in {112, 113} THEN With(@, {"kanjiX"}, c = 112) ELSE @]

\* A character, or with kanji two bytes of one.
Text(p) == DrawChar(p, IF p.set.kanji THEN F(p, 0) * 256 + F(p, 1) ELSE F(p, 0))

ProcessX1(p) ==
  LET c == F(p, 0)
      done == IF c = 27 THEN Escape(p) ELSE IF c = 28 THEN Kanji(p)
              ELSE IF c \in {0, 8, 9, 10, 11, 12, 13, 14, 15, 16, 17, 19, 20, 24, 26} THEN Control(p) ELSE Text(p)
  IN IF Complete(p) THEN [done EXCEPT !.fifo = <<>>] ELSE p

(* ------------------------------- signals ------------------------------- *)
\* The byte goes to the printer's queue, or into the file.
Taken(p) ==
  IF p.kind = "file" THEN [p EXCEPT !.drawn = @ + 1, !.line = @ + 1]
  ELSE ProcessX1([p EXCEPT !.paperIndex = IF @ = 0 THEN 1 ELSE @, !.fifo = Append(@, p.value),
                           !.length = IF @ < 2 THEN @ + 1 ELSE @])

WriteData(p, value) == [p EXCEPT !.value = value]
WriteStrobe(p, new) ==
  IF ~p.strobe /\ new /\ p.value # -1
  THEN SetBusy([Taken([p EXCEPT !.strobe = new]) EXCEPT !.busyId = TRUE, !.waiting = TRUE], TRUE)
  ELSE [p EXCEPT !.strobe = new]

\* The strobe goes up and down.
Put(p, byte) == [WriteStrobe(WriteData(p, byte), TRUE) EXCEPT !.strobe = FALSE]

(* ------------------------------- actions ------------------------------- *)
Calm(p) == AckEvent(BusyEvent(p))
Warm(kind, words) == FoldLeft(LAMBDA p, b : Calm(Put(p, b)), NewPrinter(kind), FlattenSeq([i \in DOMAIN words |-> words[i].bytes]))

Init ==
  /\ printer \in {Warm(kind, words) : kind \in Printers, words \in Printed}
  /\ sending = <<>> /\ sent = 0

\* The program puts a byte on the port and moves the strobe: it need not look
\* whether the printer is busy when it begins, and waits within a command.
Begin ==
  /\ sending = <<>> /\ sent < MaxWords /\ sent' = sent + 1
  /\ \E w \in Words :
       /\ printer.kind = "file" => w.mode = "ank"    \* it is all the same to it
       /\ w.mode # "any" => (w.mode = "kanji" <=> printer.set.kanji)
       /\ printer' = Put(printer, Head(w.bytes)) /\ sending' = Tail(w.bytes)
Send ==
  /\ sending # <<>> /\ ~printer.busy /\ printer.ack
  /\ printer' = Put(printer, Head(sending)) /\ sending' = Tail(sending)
  /\ UNCHANGED sent

EventCallback ==
  /\ \/ printer.busyId /\ printer' = BusyEvent(printer)
     \/ printer.ackId /\ printer' = AckEvent(printer)
     \/ printer.stray.busy > 0
        /\ printer' = BusyEvent([printer EXCEPT !.stray.busy = IF printer.busyId THEN @ ELSE @ - 1])
     \/ printer.stray.ack > 0
        /\ printer' = AckEvent([printer EXCEPT !.stray.ack = IF printer.ackId THEN @ ELSE @ - 1])
  /\ UNCHANGED <<sending, sent>>

\* event_frame: nothing came for a second, and busy has long ended.
EventFrame ==
  /\ printer.waiting /\ ~printer.busyId /\ ~printer.ackId /\ printer' = [Finish(printer) EXCEPT !.waiting = FALSE]
  /\ UNCHANGED <<sending, sent>>

\* VM::reset: the events have been cancelled. The program begins anew.
ResetAll ==
  /\ sent < MaxWords /\ sent' = sent + 1
  /\ printer' = [Reset(printer) EXCEPT !.stray = [busy |-> 0, ack |-> 0]]
  /\ sending' = <<>>

\* A state that was saved now is loaded: the sheet and the line are blank.
Loaded(p) ==
  IF p.kind = "file" THEN [p EXCEPT !.waiting = FALSE]
  ELSE [p EXCEPT !.waiting = FALSE, !.linePrinted = FALSE, !.paperPrinted = FALSE, !.paperIndex = 0, !.length = 0,
                 !.line = 0, !.sheet = 0, !.drawn = p.drawn - p.line - p.sheet]
Load ==
  /\ sent < MaxWords /\ sent' = sent + 1 /\ printer' = Loaded(printer)
  /\ UNCHANGED sending

Next == Begin \/ Send \/ EventCallback \/ EventFrame \/ ResetAll \/ Load

(* ------------------------------ properties ----------------------------- *)
TypeOK ==
  /\ printer.kind \in Printers /\ printer.value \in -1..255 /\ printer.x \in Int /\ printer.y \in Nat
  /\ {printer.busy, printer.ack, printer.tall, printer.linePrinted, printer.waiting} \subseteq BOOLEAN
  /\ printer.fifo \in Seq(0..255) /\ printer.set.htab \subseteq 0..(Edge - 1)
  /\ sending \in Seq(0..255) /\ sent \in 0..MaxWords

\* A command ends with its last byte and nothing of it is taken for the next,
\* also when a pause or a loaded state comes in its midst (process_x1).
CommandsEnd == printer.kind = "mz1p17" => (printer.fifo = <<>> <=> sending = <<>>)

\* What is drawn is on the line, on the sheet or in a file, once; only a page of
\* one byte is thrown away, and in quiet nothing is left unprinted.
MarksAreKept ==
  /\ printer.drawn = printer.line + printer.sheet + printer.filed + printer.thrown
  /\ printer.linePrinted \/ printer.kind = "file" \/ printer.line = 0
  /\ ~printer.waiting /\ printer.kind = "mz1p17" => printer.line = 0 /\ printer.sheet = 0

\* A character ends before the right margin, or the line was empty; and a line
\* that is put on the paper is on it.
MarksAreInside ==
  /\ printer.inside
  /\ printer.low <= PaperHeight

\* A backspace returns to where a character of the usual size began. (Condensed
\* ones are 22 dots wide, and a backspace goes 21; a kana that is a hiragana
\* among kanji is half as wide as its place.)
PitchesAgree ==
  \A c \in {65, 166} :
    LET q == DrawChar(printer, c)
        usual == printer.set.double = {} /\ printer.set.script = "none" /\ printer.set.pitch # "condense"
                 /\ ~(printer.set.kanji /\ printer.set.hiragana /\ Kana(c))
    IN usual /\ q.linePrinted /\ printer.x >= printer.set.left /\ q.x > printer.x => BackSpace(q).x = printer.x

\* Busy and a lacking acknowledge always end.
HandshakeEnds ==
  /\ printer.busy => printer.busyId \/ printer.stray.busy > 0
  /\ ~printer.ack => printer.ackId \/ printer.stray.ack > 0
=============================================================================

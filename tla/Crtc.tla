-------------------------------- MODULE Crtc --------------------------------
(***************************************************************************)
(* The HD46505 and who follows it: the event manager, which runs frames of *)
(* as many lines and clocks as the registers say; DISPLAY, which draws a   *)
(* line when its display signal falls; the PIO bits a program polls; and   *)
(* the CPU, which an access to fonts or palette makes wait for that fall   *)
(* (hd46505.cpp, x1/display.cpp, EVENT::drive and start_vline).            *)
(*                                                                         *)
(* Clocks per character are whole.  The registers a frame does not use are *)
(* left out, and so are the pixels.                                        *)
(***************************************************************************)
EXTENDS Integers, Sequences, FiniteSets, FiniteSetsExt, TLC

CONSTANTS
  Geometries,   \* what a program sets all the registers to at first
  Changes,      \* <<register, value>>: what it writes later
  CharClocks,   \* CPU clocks of a character: of 80 columns, 40 columns, ...
  DefaultTimes, \* what HD46505::reset takes before the registers are set
  MaxLines,     \* of the event manager (event.h)
  LoLines, HiLines, \* lines that are drawn, and from where on it is the high resolution
  AfterBlank,   \* clocks from a blank to the CPU's restart
  LateWrites,   \* FALSE: registers 5 and 9 are changed before the blank only
  MaxChanges

CrtcAssumption ==
  /\ CharClocks \subseteq Nat \ {0} /\ MaxLines \in Nat \ {0}
  /\ LoLines \in Nat /\ HiLines \in Nat /\ AfterBlank \in Nat /\ LateWrites \in BOOLEAN

VARIABLES
  crt,      \* the HD46505
  frame,    \* the event manager's frame: lines, clocks, and where it is
  screen,   \* what DISPLAY and the PIO were told, and the lines drawn
  waits,    \* frames that began while the CPU was waiting, NoWait if it is not
  changes

crtVars == <<crt, frame, screen, waits, changes>>

NoWait == -1
Timed == {0, 1, 2, 3, 4, 5, 6, 7, 9}

(* ------------------------------- the chip ------------------------------ *)
Height(r9) == (r9 % 32) + 1
Off(c) == (c.regs[8] \div 16) % 4 = 3
Interlace(c) == c.regs[8] % 2 = 1
LinesOf(c, bottom) ==
  (c.regs[4] % 128) * Height(c.regs[9]) + Height(bottom.r9) + (bottom.r5 % 32)

\* write_io8: a change of a register of the timing is latched at a frame.  The
\* last row's are taken at once only when they are written for the first time.
Write(c, r, v) ==
  [c EXCEPT !.regs[r] = v, !.written = @ \union {r},
            !.changed = @ \/ (r < 10 /\ c.regs[r] # v),
            !.bottom.r5 = IF r = 5 /\ 5 \notin c.written THEN v ELSE @,
            !.bottom.r9 = IF r = 9 /\ 9 \notin c.written THEN v ELSE @]

Latched(c) ==
  IF ~c.changed \/ ~(Timed \subseteq c.written) THEN c
  ELSE LET height == Height(c.regs[9])
           sync   == ((c.regs[7] % 128) + 1) * height
           width  == c.regs[3] \div 16 IN
       [c EXCEPT !.hz_total = c.regs[0] + 1, !.hz_disp = c.regs[1],
                 !.vt_total = LinesOf(c, c.bottom), !.vt_disp = (c.regs[6] % 128) * height,
                 !.vs_start = sync, !.vs_end = sync + (IF width = 0 THEN 16 ELSE width),
                 !.tell = IF LinesOf(c, c.bottom) < MaxLines THEN LinesOf(c, c.bottom) ELSE @,
                 !.changed = FALSE, !.disp_end_clock = 0, !.char_clock = 0]

\* event_pre_frame: the geometry, then the rate that goes with it.  A rate is
\* held as the clocks of a frame.
PreFrame(c) ==
  LET l == Latched(c) IN
  IF l.char_clock = l.next_char_clock THEN l
  ELSE [l EXCEPT !.char_clock = l.next_char_clock,
                 !.rate = (l.vt_total * l.hz_total * l.next_char_clock) \div (IF Interlace(l) THEN 2 ELSE 1)]

\* update_timing and event_frame: where in a line the display ends.
Measured(c, told) ==
  LET d == IF told THEN 0 ELSE c.disp_end_clock IN
  [c EXCEPT !.disp_end_clock =
     IF d = 0 /\ c.vt_total # 0 THEN (c.hz_disp * c.rate) \div (c.vt_total * c.hz_total) ELSE d]

\* DISPLAY::event_frame looks at the registers, not at what was latched.
HighRes(c) == ((c.regs[4] % 128) + 1) * Height(c.regs[9]) + (c.regs[5] % 32) > HiLines

Shows(c, v) == ~Off(c) /\ (v < c.vt_disp \/ (v = 0 /\ c.vt_disp = 0))

(* --------------------- the frame and who is told ----------------------- *)
\* clocks_per_vline: the clocks over are spread over the lines.
LineClocks(f, v) ==
  LET each == f.clocks \div f.lines
      over == f.clocks - each * f.lines
  IN each + Cardinality({k \in 0..(over - 1) : (f.lines * k) \div over = v})

\* DISPLAY: a line is drawn when the display falls, and the CPU goes on later.
Blanked(s, f) ==
  IF s.blank THEN s
  ELSE [s EXCEPT !.blank = TRUE,
                 !.drawn = IF s.vline < (IF s.hireso THEN HiLines ELSE LoLines)
                           THEN Append(@, [line |-> s.vline, clock |-> f.clock - f.began]) ELSE @]

\* set_display: DISPLAY is told of changes; a fall registers the CPU's restart.
SetDisplay(c, f, s, on) ==
  [chip |-> [c EXCEPT !.display = on],
   raster |-> IF c.display /\ ~on /\ ~s.blank
              THEN [f EXCEPT !.events = @ \union {[at |-> f.clock + AfterBlank, what |-> "restart"]}] ELSE f,
   seen |-> IF c.display = on THEN s ELSE IF on THEN [s EXCEPT !.blank = FALSE] ELSE Blanked(s, f)]

\* event_vline: the display begins, and its end is registered; then the blank
\* and the sync; then DISPLAY learns the line.
Vline(c, f, s) ==
  LET v     == f.line
      shows == Shows(c, v)
      sync  == c.vs_start <= v /\ v < c.vs_end
      taken == IF v = c.vt_disp THEN [c EXCEPT !.bottom = [r5 |-> c.regs[5], r9 |-> c.regs[9]]] ELSE c
      set   == SetDisplay(taken, f, s, shows)
  IN [chip |-> [set.chip EXCEPT !.vblank = shows, !.vsync = sync],
      raster |-> IF shows /\ c.hz_disp < c.hz_total
                 THEN [set.raster EXCEPT !.events = @ \union {[at |-> f.clock + c.disp_end_clock, what |-> "display"]}]
                 ELSE set.raster,
      seen |-> [set.seen EXCEPT !.vblank = IF c.vblank # shows THEN shows ELSE @,
                                !.vsync = IF c.vsync # sync THEN sync ELSE @,
                                !.vline = v]]

Becomes(next) == crt' = next.chip /\ frame' = next.raster /\ screen' = next.seen

LineEnd(f) == IF f.line + 1 < f.lines THEN f.began + LineClocks(f, f.line) ELSE f.clocks
Waiting == waits # NoWait
FrameIsOver == frame.clock = frame.clocks

(* ------------------------------- actions ------------------------------- *)
AtReset(c) ==
  [c EXCEPT !.display = FALSE, !.vblank = TRUE, !.vsync = TRUE,
            !.regs = [r \in 0..9 |-> 0], !.written = {},
            !.hz_total = DefaultTimes.hz_total, !.hz_disp = DefaultTimes.hz_disp,
            !.vt_total = DefaultTimes.vt_total, !.vt_disp = DefaultTimes.vt_disp,
            !.vs_start = DefaultTimes.vt_disp + 2, !.vs_end = DefaultTimes.vt_disp + 4,
            !.changed = FALSE, !.disp_end_clock = 0, !.char_clock = 0]

ScreenReset(s) == [s EXCEPT !.blank = TRUE, !.vline = 0, !.hireso = TRUE, !.drawn = <<>>, !.frames = 0]
Nowhere == [line |-> 0, clock |-> 0, began |-> 0, events |-> {}, off |-> FALSE, asked |-> <<>>]

Init ==
  /\ \E clocks \in CharClocks :
       /\ crt = AtReset([display |-> FALSE, vblank |-> TRUE, vsync |-> TRUE,
                         regs |-> [r \in 0..9 |-> 0], written |-> {}, bottom |-> [r5 |-> 0, r9 |-> 0],
                         hz_total |-> 0, hz_disp |-> 0, vt_total |-> 0, vt_disp |-> 0, vs_start |-> 0,
                         vs_end |-> 0, changed |-> FALSE, disp_end_clock |-> 0, char_clock |-> 0,
                         next_char_clock |-> clocks, rate |-> 0, tell |-> DefaultTimes.vt_total])
       /\ frame = [Nowhere EXCEPT !.off = TRUE] @@ [lines |-> DefaultTimes.vt_total, clocks |-> 0]
  /\ screen = ScreenReset([blank |-> TRUE, vline |-> 0, hireso |-> TRUE, drawn |-> <<>>, frames |-> 0,
                           vblank |-> FALSE, vsync |-> FALSE])
  /\ waits = NoWait /\ changes = 0

\* EVENT::drive begins a frame: pre-frame events, new clocks and lines, frame
\* events, and line 0.
StartFrame ==
  /\ FrameIsOver
  /\ LET latched == PreFrame(crt)
         now     == [lines |-> latched.tell, clocks |-> latched.rate]
         told    == now # [lines |-> frame.lines, clocks |-> frame.clocks]
         asked   == IF Timed \subseteq crt.written
                    THEN <<LinesOf(crt, [r5 |-> crt.regs[5], r9 |-> crt.regs[9]]), crt.regs[0] + 1>> ELSE <<>>
         carried == {[e EXCEPT !.at = @ - frame.clocks] : e \in frame.events}
         f == [Nowhere EXCEPT !.events = carried, !.asked = asked, !.off = Off(crt)] @@ now
         s == [screen EXCEPT !.hireso = HighRes(crt), !.drawn = <<>>, !.frames = IF asked = <<>> THEN 0 ELSE Min({2, @ + 1})]
     IN Becomes(Vline(Measured(latched, told), f, s))
  /\ waits' = IF Waiting THEN waits + 1 ELSE NoWait
  /\ UNCHANGED changes

\* The next event of the frame: the end of the display or of the line, or the
\* CPU's restart.
NextEvent ==
  /\ ~FrameIsOver
  /\ LET first == Min({e.at : e \in frame.events} \union {LineEnd(frame)})
         due   == {e \in frame.events : e.at = first}
         f     == [frame EXCEPT !.clock = first]
     IN IF due # {}
        THEN \E e \in due :
               LET left == [f EXCEPT !.events = @ \ {e}] IN
               /\ IF e.what = "display" THEN Becomes(SetDisplay(crt, left, screen, FALSE))
                  ELSE UNCHANGED <<crt, screen>> /\ frame' = left
               /\ waits' = IF e.what = "restart" THEN NoWait ELSE waits
        ELSE /\ IF frame.line + 1 < frame.lines
                THEN Becomes(Vline(crt, [f EXCEPT !.line = @ + 1, !.began = first], screen))
                ELSE UNCHANGED <<crt, screen>> /\ frame' = f
             /\ UNCHANGED waits
  /\ UNCHANGED changes

Wrote(c) == crt' = c /\ frame' = [frame EXCEPT !.off = @ \/ Off(c)] /\ UNCHANGED <<screen, waits>>

\* A program sets all the registers, the first eight before the others.
Program(g) ==
  /\ ~Waiting /\ ~FrameIsOver
  /\ \/ /\ crt.written = {}
        /\ Wrote(FoldSet(LAMBDA r, c : Write(c, r, g[r]), crt, 0..7))
     \/ /\ crt.written = 0..7 /\ \A r \in 0..7 : crt.regs[r] = g[r]
        /\ Wrote(FoldSet(LAMBDA r, c : Write(c, r, g[r]), crt, {8, 9}))
  /\ UNCHANGED changes

Change(r, v) ==
  /\ ~Waiting /\ ~FrameIsOver /\ changes < MaxChanges /\ crt.written = 0..9
  /\ crt.regs[r] # v
  /\ r \in {5, 9} /\ ~LateWrites => ~crt.changed /\ frame.line < crt.vt_disp
  /\ Wrote(Write(crt, r, v)) /\ changes' = changes + 1

\* DISPLAY::update_crtc, when the columns or the mode are set.
SetCharClock(clocks) ==
  /\ ~Waiting /\ ~FrameIsOver /\ changes < MaxChanges /\ clocks # crt.next_char_clock
  /\ crt' = [crt EXCEPT !.next_char_clock = clocks] /\ changes' = changes + 1
  /\ UNCHANGED <<frame, screen, waits>>

\* An access to a font in the high-speed mode waits always, one to the palette
\* while a line is displayed.
Access(palette) ==
  /\ ~Waiting /\ ~FrameIsOver /\ ~Off(crt) /\ (palette => ~screen.blank)
  /\ waits' = 0 /\ UNCHANGED <<crt, frame, screen, changes>>

\* VM::reset, between frames; events that do not repeat are cancelled.
Reset ==
  /\ FrameIsOver /\ changes < MaxChanges /\ crt.written # {}
  /\ crt' = AtReset(crt) /\ screen' = ScreenReset(screen)
  /\ frame' = [frame EXCEPT !.events = {}, !.asked = <<>>]
  /\ changes' = changes + 1 /\ UNCHANGED waits

Next ==
  \/ StartFrame \/ NextEvent \/ Reset
  \/ \E g \in Geometries : Program(g)
  \/ \E c \in Changes : Change(c[1], c[2])
  \/ \E clocks \in CharClocks : SetCharClock(clocks)
  \/ \E palette \in BOOLEAN : Access(palette)

(* ----------------------------- properties ------------------------------ *)
TypeOK ==
  /\ crt.written \subseteq 0..9 /\ \A r \in 0..9 : crt.regs[r] \in 0..255
  /\ \A b \in {crt.display, crt.vblank, crt.vsync, crt.changed, screen.blank, screen.vblank} : b \in BOOLEAN
  /\ frame.lines \in 1..(MaxLines - 1) /\ frame.clock \in 0..frame.clocks
  /\ frame.line \in 0..(frame.lines - 1)
  /\ \A e \in frame.events : e.at \in Nat /\ e.what \in {"display", "restart"}
  /\ waits \in {NoWait, 0, 1, 2} /\ changes \in 0..MaxChanges

Programmed == frame.asked # <<>>

\* A frame has the lines and characters that the registers said when it began.
FrameAsProgrammed ==
  Programmed =>
    /\ frame.lines = frame.asked[1] /\ crt.vt_total = frame.asked[1]
    /\ crt.hz_total = frame.asked[2]
    /\ LET clocks == frame.lines * crt.hz_total * crt.char_clock IN
       frame.clocks \in {clocks, clocks \div 2}

\* A line is drawn once, as itself, when its displayed characters are over; none
\* is missing when the frame ends.
LinesAreDrawn ==
  Programmed /\ crt.hz_disp < crt.hz_total =>
    /\ \A i \in DOMAIN screen.drawn :
         /\ screen.drawn[i].line = i - 1 \/ frame.off
         /\ screen.drawn[i].clock * frame.lines * crt.hz_total = crt.hz_disp * frame.clocks
    /\ FrameIsOver /\ ~frame.off =>
         Len(screen.drawn) = Min({crt.vt_disp, frame.lines, IF screen.hireso THEN HiLines ELSE LoLines})

\* The bits that programs poll follow the raster, from the second frame that
\* was programmed on.
BlankIsTold ==
  screen.frames >= 2 /\ frame.clock < frame.clocks =>
    /\ screen.vblank <=> crt.vblank
    /\ screen.vsync <=> crt.vs_start <= frame.line /\ frame.line < crt.vs_end
    /\ ~frame.off /\ crt.vt_disp > 0 => (screen.vblank <=> frame.line < crt.vt_disp)
    /\ screen.vline = frame.line

\* A CPU that waits for the blank goes on before a second frame has begun.
WaitEnds == waits < 2

ScreenFollows == FrameAsProgrammed /\ LinesAreDrawn /\ BlankIsTold /\ WaitEnds
=============================================================================

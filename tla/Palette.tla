------------------------------- MODULE Palette -------------------------------
(***************************************************************************)
(* DISPLAY's colours (x1/display.cpp): the palette bytes and the priority  *)
(* of text and graphics, from which update_pal computes a table of pixels; *)
(* the turbo Z's palette memory, whose colours are prepared as they are    *)
(* written and shown from the next frame on; and IOBUS's copies of the two *)
(* modes that decide who takes an access to a palette (x1/iobus.cpp).      *)
(*                                                                         *)
(* A digital colour is the set of its channels; an entry of the palette    *)
(* memory is named by four bits per channel, and so is what it holds.      *)
(***************************************************************************)
EXTENDS Integers, FiniteSets

CONSTANTS
  Guns,          \* blue, red and green
  PalBytes,      \* what a program writes to the palette ports: graphics codes
  Fronts,        \* and to the priority port
  Mode2s,        \* and to mode2: [black, hide], the text codes, one at most, and
                 \* the graphics codes that are shown black
  AskedEntries,  \* the palette entries it asks for
  GunLevels,     \* and what it writes to a channel of one
  TextLevels,    \* and to a text colour
  MaxPortWrites  \* writes in a behaviour

Colours  == SUBSET Guns
Entry == [Guns -> 0..15]
Mode2  == [black : {{}} \union { {c} : c \in Colours }, hide : SUBSET Colours]
Zmode1 == [aen : BOOLEAN, c64 : BOOLEAN]
Zmode2 == [apen : BOOLEAN, aprd : BOOLEAN]

PaletteAssumption ==
  /\ PalBytes \subseteq SUBSET Colours /\ Fronts \subseteq SUBSET Colours
  /\ Mode2s \subseteq Mode2
  /\ AskedEntries \subseteq Entry /\ GunLevels \subseteq 0..15
  /\ TextLevels \subseteq [Guns -> 0..3]
  /\ MaxPortWrites \in Nat

VARIABLES
  pal, priority, pri,      \* pri: what a pixel of each graphics and text code shows
  paged,                   \* mode1: programs write the second page
  mode2, zmode1, zmode2,
  ztpal, zpal, zpalNum,    \* the text colours, the palette memory, the entry to read
  prepared,                \* zpalette_tmp
  palette, uncopied,       \* zpalette_pc, and that prepared has not been copied to it
  hireso, column40,
  busModes,                \* IOBUS: its zmode1 and zmode2
  renewed,                 \* copies written anew since the last reset
  savedPal,                \* a state file, or none
  portWrites

modeVars  == <<paged, mode2, zmode1, zmode2, hireso, column40>>
priVars   == <<pal, priority, pri>>
zpalVars  == <<ztpal, zpal, prepared, uncopied>>
palStateVars == <<priVars, modeVars, zpalVars, zpalNum, busModes, renewed>>
paletteVars == <<palStateVars, palette, savedPal, portWrites>>

NoPalette == [kept |-> FALSE]

(* ------------------------------ the tables ------------------------------ *)
Corner(code) == [ch \in Guns |-> IF ch \in code THEN 15 ELSE 0]
Thirds(levels) == [ch \in Guns |-> 5 * levels[ch]]

\* Mutant: a code that is hidden is shown in its colour.
GraphShown(p, m, c) == {ch \in Guns : c \in p[ch]}

\* pal2: the colour the palette bytes give a graphics code.
GraphCode(p, m, c) == IF c \in m.hide THEN {} ELSE {ch \in Guns : c \in p[ch]}

\* update_pal
Priorities(p, front, m) ==
  [c \in Colours |-> [t \in Colours |->
     IF c \in front \/ t = {} THEN [layer |-> "graph", code |-> GraphCode(p, m, c)]
     ELSE [layer |-> "text", code |-> IF t \in m.black THEN {} ELSE t]]]

\* reset_zpalette: every entry is its own colour.
TextRamp == [t \in Colours |-> [ch \in Guns |-> IF ch \in t THEN 3 ELSE 0]]
FirstColours == [text |-> [t \in Colours |-> Corner(t)], digital |-> [c \in Colours |-> Corner(c)],
         analog |-> [n \in Entry |-> n]]

\* get_zpal_num: the entry that n names in the present mode.
InAnalog == ~hireso /\ column40
ZpalNum(n) ==
  IF InAnalog THEN IF ~zmode1.c64 THEN n
                 ELSE [ch \in Guns |-> IF paged THEN n[ch] \div 4 ELSE 4 * (n[ch] \div 4)]
  ELSE [ch \in Guns |-> IF n[ch] < 8 THEN 0 ELSE 15]

\* update_zpalette: the eight colours are corners of the palette memory.
Folded(p) == [p EXCEPT !.digital = [c \in Colours |-> p.analog[Corner(c)]]]

(* ------------------------------- actions ------------------------------- *)
PaletteTypeOK ==
  /\ pal \in [Guns -> SUBSET Colours] /\ priority \in SUBSET Colours
  /\ paged \in BOOLEAN /\ mode2 \in Mode2 /\ zmode1 \in Zmode1 /\ zmode2 \in Zmode2
  /\ hireso \in BOOLEAN /\ column40 \in BOOLEAN
  /\ ztpal \in [Colours -> [Guns -> 0..3]] /\ zpal \in [Entry -> Entry] /\ zpalNum \in Entry
  /\ uncopied \in BOOLEAN
  /\ busModes \in [z1 : Zmode1, z2 : Zmode2]
  /\ renewed \subseteq {"pri", "bus"}
  /\ portWrites \in 0..MaxPortWrites

BlackEntry == [ch \in Guns |-> 0]
ModesOff == [z1 |-> [aen |-> FALSE, c64 |-> FALSE], z2 |-> [apen |-> FALSE, aprd |-> FALSE]]
ModesOn  == [z1 |-> [aen |-> TRUE, c64 |-> FALSE], z2 |-> [apen |-> TRUE, aprd |-> FALSE]]

\* initialize, and the first reset.  mode2 and IOBUS's modes have no value yet
\* when they are used.
PaletteInit ==
  /\ pal = [ch \in Guns |-> {c \in Colours : ch \in c}] /\ priority = {}
  /\ \E m \in Mode2s : pri = Priorities(pal, priority, m)
  /\ busModes \in {ModesOff, ModesOn}
  /\ renewed = {}
  /\ paged = FALSE /\ mode2 = [black |-> {}, hide |-> {}]
  /\ zmode1 = ModesOff.z1 /\ zmode2 = ModesOff.z2
  /\ hireso = TRUE /\ column40 = TRUE
  /\ ztpal = TextRamp /\ zpal = [n \in Entry |-> n] /\ zpalNum = BlackEntry
  /\ prepared = FirstColours /\ palette = FirstColours /\ uncopied = TRUE
  /\ savedPal = NoPalette /\ portWrites = 0

OneMore == portWrites < MaxPortWrites /\ portWrites' = portWrites + 1

UpdatePal(p, front, m) == pri' = Priorities(p, front, m) /\ renewed' = renewed \union {"pri"}

\* 1000h to 12FFh in the analog mode: a channel of an entry.
SetEntry(ch, n, level) ==
  /\ zmode1.aen /\ zmode2.apen /\ ~zmode2.aprd
  /\ LET num == ZpalNum(n) IN
     IF zpal[num][ch] = level THEN UNCHANGED <<zpal, prepared, uncopied>>
     ELSE /\ zpal' = [zpal EXCEPT ![num] = [@ EXCEPT ![ch] = level]]
          /\ prepared' = [prepared EXCEPT !.analog = [@ EXCEPT ![num] = [zpal[num] EXCEPT ![ch] = level]]]
          /\ uncopied' = TRUE
  /\ UNCHANGED <<ztpal, zpalNum, priVars, modeVars, busModes, renewed>>

\* The entry whose channels are read; only the blue port chooses it.
ChooseEntry(n) ==
  /\ zmode1.aen /\ zmode2.apen /\ zmode2.aprd
  /\ zpalNum' = ZpalNum(n)
  /\ UNCHANGED <<zpalVars, priVars, modeVars, busModes, renewed>>

\* The same ports otherwise: a palette byte.
SetPal(ch, byte) ==
  /\ ~zmode1.aen
  /\ pal' = [pal EXCEPT ![ch] = byte] /\ UpdatePal(pal', priority, mode2)
  /\ UNCHANGED <<priority, modeVars, zpalVars, zpalNum, busModes>>

SetPriority(front) ==
  /\ priority' = front /\ UpdatePal(pal, front, mode2)
  /\ UNCHANGED <<pal, modeVars, zpalVars, zpalNum, busModes>>

\* 1FE0h
SetMode2(m) ==
  /\ mode2' = m /\ UpdatePal(pal, priority, m)
  /\ UNCHANGED <<pal, priority, paged, zmode1, zmode2, hireso, column40, zpalVars, zpalNum, busModes>>

\* Mutant: a text colour is prepared, and nobody is told.
SetTextEntryUntold(t, levels) ==
  /\ zmode1.aen /\ t # {}
  /\ ztpal' = [ztpal EXCEPT ![t] = levels]
  /\ prepared' = [prepared EXCEPT !.text = [@ EXCEPT ![t] = Thirds(levels)]]
  /\ UNCHANGED <<zpal, uncopied, zpalNum, priVars, modeVars, busModes, renewed>>

\* 1FB9h to 1FBFh
SetTextEntry(t, levels) ==
  /\ zmode1.aen /\ t # {}
  /\ IF ztpal[t] = levels THEN UNCHANGED <<ztpal, prepared, uncopied>>
     ELSE /\ ztpal' = [ztpal EXCEPT ![t] = levels]
          /\ prepared' = [prepared EXCEPT !.text = [@ EXCEPT ![t] = Thirds(levels)]]
          /\ uncopied' = TRUE
  /\ UNCHANGED <<zpal, zpalNum, priVars, modeVars, busModes, renewed>>

\* 1FB0h and 1FC5h pass IOBUS, which keeps a copy of its own; each lets the
\* second through only when its own first one says so.
SetZmode1(m) ==
  /\ zmode1' = m
  /\ busModes' = [busModes EXCEPT !.z1 = m]
  /\ renewed' = renewed \union (IF busModes.z2 = zmode2 THEN {"bus"} ELSE {})
  /\ UNCHANGED <<priVars, paged, mode2, zmode2, hireso, column40, zpalVars, zpalNum>>

SetZmode2(m) ==
  /\ zmode2' = IF zmode1.aen THEN m ELSE zmode2
  /\ busModes' = [busModes EXCEPT !.z2 = IF busModes.z1.aen THEN m ELSE @]
  /\ renewed' = renewed \union (IF busModes.z1 = zmode1 /\ zmode1.aen THEN {"bus"} ELSE {})
  /\ UNCHANGED <<priVars, paged, mode2, zmode1, hireso, column40, zpalVars, zpalNum>>

\* 1FD0h, port C of the PIO, and the registers at a frame's start
SetPage(on) ==
  paged' = on
  /\ UNCHANGED <<priVars, mode2, zmode1, zmode2, hireso, column40, zpalVars, zpalNum, busModes, renewed>>
SetColumns(on) ==
  column40' = on
  /\ UNCHANGED <<priVars, paged, mode2, zmode1, zmode2, hireso, zpalVars, zpalNum, busModes, renewed>>
SetLines(high) ==
  hireso' = high
  /\ UNCHANGED <<priVars, paged, mode2, zmode1, zmode2, column40, zpalVars, zpalNum, busModes, renewed>>

WritePort ==
  /\ OneMore /\ UNCHANGED <<palette, savedPal>>
  /\ \/ \E ch \in Guns, n \in AskedEntries, level \in GunLevels : SetEntry(ch, n, level)
     \/ \E n \in AskedEntries : ChooseEntry(n)
     \/ \E ch \in Guns, byte \in PalBytes : SetPal(ch, byte)
     \/ \E front \in Fronts : SetPriority(front)
     \/ \E m \in Mode2s : SetMode2(m)
     \/ \E t \in Colours, levels \in TextLevels : SetTextEntry(t, levels)
     \/ \E m \in Zmode1 : SetZmode1(m)
     \/ \E m \in Zmode2 : SetZmode2(m)
     \/ \E on \in BOOLEAN : SetPage(on) \/ SetColumns(on) \/ SetLines(on)

\* event_vline: the palette is taken over at the first line of a frame.
FirstLine ==
  /\ uncopied /\ uncopied' = FALSE
  /\ palette' = Folded(prepared)
  /\ UNCHANGED <<priVars, modeVars, ztpal, zpal, prepared, zpalNum, busModes, renewed, savedPal, portWrites>>

\* DISPLAY::reset and IOBUS::reset: the palette bytes, the priority and the
\* table stay, and so do IOBUS's modes.
PaletteReset ==
  /\ OneMore
  /\ paged' = FALSE /\ mode2' = [black |-> {}, hide |-> {}]
  /\ zmode1' = ModesOff.z1 /\ zmode2' = ModesOff.z2 /\ zpalNum' = BlackEntry
  /\ hireso' = TRUE
  /\ ztpal' = TextRamp /\ zpal' = [n \in Entry |-> n]
  /\ prepared' = FirstColours /\ uncopied' = TRUE
  /\ renewed' = {}
  /\ UNCHANGED <<priVars, column40, busModes, palette, savedPal>>

\* process_state: the prepared colours are savedPal, those that are shown are not.
SavePalette ==
  /\ OneMore
  /\ savedPal' = [kept |-> TRUE, pal |-> pal, priority |-> priority, pri |-> pri, paged |-> paged, mode2 |-> mode2,
               zmode1 |-> zmode1, zmode2 |-> zmode2, hireso |-> hireso, column40 |-> column40,
               ztpal |-> ztpal, zpal |-> zpal, zpalNum |-> zpalNum, prepared |-> prepared,
               busModes |-> busModes, renewed |-> renewed]
  /\ UNCHANGED <<palStateVars, palette>>

LoadPalette ==
  /\ savedPal.kept /\ OneMore
  /\ pal' = savedPal.pal /\ priority' = savedPal.priority /\ pri' = savedPal.pri
  /\ paged' = savedPal.paged /\ mode2' = savedPal.mode2 /\ zmode1' = savedPal.zmode1 /\ zmode2' = savedPal.zmode2
  /\ hireso' = savedPal.hireso /\ column40' = savedPal.column40
  /\ ztpal' = savedPal.ztpal /\ zpal' = savedPal.zpal /\ zpalNum' = savedPal.zpalNum
  /\ prepared' = savedPal.prepared /\ uncopied' = TRUE
  /\ busModes' = savedPal.busModes /\ renewed' = savedPal.renewed
  /\ UNCHANGED <<palette, savedPal>>

PaletteNext == WritePort \/ FirstLine \/ PaletteReset \/ SavePalette \/ LoadPalette
PaletteSpec == PaletteInit /\ [][PaletteNext]_paletteVars

(* ----------------------------- properties ------------------------------ *)
\* Once a frame has begun after a write, each colour shown is the one the program
\* wrote: text colours in thirds, every entry of the palette memory itself and the
\* eight graphics colours as its corners, whatever was reset or loaded since, though
\* three tables are kept and only the prepared one is saved; and what decides
\* between text and graphics, and IOBUS's copies of the modes, are those of the
\* registers from the first write after a reset on.
PaletteIsTrue ==
  /\ ~uncopied => palette = [text |-> [t \in Colours |-> Thirds(ztpal[t])], analog |-> zpal,
                            digital |-> [c \in Colours |-> zpal[Corner(c)]]]
  /\ "pri" \in renewed => pri = Priorities(pal, priority, mode2)
  /\ "bus" \in renewed => busModes = [z1 |-> zmode1, z2 |-> zmode2]
==============================================================================

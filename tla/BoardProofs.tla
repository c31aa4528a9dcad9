----------------------------- MODULE BoardProofs -----------------------------
(***************************************************************************)
(* What the boards show is what programs told them to.                     *)
(*                                                                         *)
(* The turbo Z's prepared colours are always those of the palette memory   *)
(* and of the text colours, in the display and in every state file, so a   *)
(* frame that begins copies the right ones, whether they were written,     *)
(* reset or loaded.                                                        *)
(*                                                                         *)
(* The page a processor reads, the picture in the video memory and the     *)
(* boards' pages are those that its outputs chose.                         *)
(*                                                                         *)
(* The sound board's timers run out when their registers say, though the   *)
(* chip learns of the time only now and then, and its envelopes go as      *)
(* their parameters say and never leave their table.                       *)
(***************************************************************************)
EXTENDS Palette, Buses, Ym2151, FmOperator, TLAPS

PreparedAs(text, memory) ==
  [text |-> [t \in Colours |-> Thirds(text[t])], digital |-> [c \in Colours |-> Corner(c)], analog |-> memory]
Shown(text, memory) ==
  [text |-> [t \in Colours |-> Thirds(text[t])], digital |-> [c \in Colours |-> memory[Corner(c)]], analog |-> memory]

\* The registers of a state file are registers, and its tables theirs.
KeptTypes ==
  /\ savedPal.pal \in [Guns -> SUBSET Colours] /\ savedPal.priority \in SUBSET Colours
  /\ savedPal.paged \in BOOLEAN /\ savedPal.mode2 \in Mode2
  /\ savedPal.zmode1 \in Zmode1 /\ savedPal.zmode2 \in Zmode2
  /\ savedPal.hireso \in BOOLEAN /\ savedPal.column40 \in BOOLEAN
  /\ savedPal.ztpal \in [Colours -> [Guns -> 0..3]] /\ savedPal.zpal \in [Entry -> Entry]
  /\ savedPal.zpalNum \in Entry
  /\ savedPal.busModes \in [z1 : Zmode1, z2 : Zmode2] /\ savedPal.renewed \subseteq {"pri", "bus"}
KeptTables ==
  /\ savedPal.prepared = PreparedAs(savedPal.ztpal, savedPal.zpal)
  /\ "pri" \in savedPal.renewed => savedPal.pri = Priorities(savedPal.pal, savedPal.priority, savedPal.mode2)
  /\ "bus" \in savedPal.renewed => savedPal.busModes = [z1 |-> savedPal.zmode1, z2 |-> savedPal.zmode2]

IsPrepared == prepared = PreparedAs(ztpal, zpal)
IsShown == ~uncopied => palette = Shown(ztpal, zpal)
PriIsRight == "pri" \in renewed => pri = Priorities(pal, priority, mode2)
BusIsRight == "bus" \in renewed => busModes = [z1 |-> zmode1, z2 |-> zmode2]
KeptIsRight == savedPal.kept => KeptTypes /\ KeptTables

PaletteInv == PaletteTypeOK /\ IsPrepared /\ IsShown /\ PriIsRight /\ BusIsRight /\ KeptIsRight

USE DEF Colours

LEMMA TextRampTypes == TextRamp \in [Colours -> [Guns -> 0..3]]
BY SMT DEF TextRamp

\* Resetting prepares the colours that it sets.
LEMMA FirstIsPrepared == FirstColours = PreparedAs(TextRamp, [n \in Entry |-> n])
<1>1. ASSUME NEW t \in Colours PROVE Thirds(TextRamp[t]) = Corner(t)
  BY SMT DEF Thirds, TextRamp, Corner
<1>2. [t \in Colours |-> Thirds(TextRamp[t])] = [t \in Colours |-> Corner(t)]
  BY <1>1, Zenon
<1> QED BY <1>2, Zenon DEF FirstColours, PreparedAs

\* The folded table is the one to show.
LEMMA FoldedIsShown ==
  ASSUME NEW text, NEW memory
  PROVE  Folded(PreparedAs(text, memory)) = Shown(text, memory)
<1> DEFINE texts == [t \in Colours |-> Thirds(text[t])]
           plain == [c \in Colours |-> Corner(c)]
           corners == [c \in Colours |-> memory[Corner(c)]]
           record == [text |-> texts, digital |-> plain, analog |-> memory]
<1>1. PreparedAs(text, memory) = record /\ Shown(text, memory) = [text |-> texts, digital |-> corners, analog |-> memory]
  BY Zenon DEF PreparedAs, Shown
<1>2. record.analog = memory BY Zenon
<1>3. Folded(record) = [record EXCEPT !.digital = corners] BY <1>2, Zenon DEF Folded
<1> HIDE DEF texts, plain, corners
<1>4. [record EXCEPT !.digital = corners] = [text |-> texts, digital |-> corners, analog |-> memory] BY SMT
<1> QED BY <1>1, <1>3, <1>4, Zenon

\* An entry that is named is one of the palette memory.
LEMMA ZpalNumIsEntry == ASSUME NEW n \in Entry PROVE ZpalNum(n) \in Entry
<1>1. \A ch \in Guns : n[ch] \in 0..15 BY SMT DEF Entry
<1>2. \A x \in 0..15 : (x \div 4) \in 0..15 /\ 4 * (x \div 4) \in 0..15 BY SMT
<1> QED BY <1>1, <1>2, SMT DEF ZpalNum, Entry, InAnalog

LEMMA FirstTypes == [n \in Entry |-> n] \in [Entry -> Entry] /\ BlackEntry \in Entry
BY SMT DEF BlackEntry, Entry

LEMMA ModesTypes ==
  /\ ModesOff \in [z1 : Zmode1, z2 : Zmode2] /\ ModesOff.z1 \in Zmode1 /\ ModesOff.z2 \in Zmode2
  /\ ModesOn \in [z1 : Zmode1, z2 : Zmode2]
BY SMT DEF ModesOff, ModesOn, Zmode1, Zmode2

LEMMA PaletteInitInv == ASSUME PaletteAssumption, PaletteInit PROVE PaletteInv
<1>1. PaletteTypeOK
  <2>1. pal \in [Guns -> SUBSET Colours] BY Zenon DEF PaletteInit
  <2>2. mode2 \in Mode2 BY SMT DEF PaletteInit, Mode2
  <2>3. busModes \in [z1 : Zmode1, z2 : Zmode2] BY ModesTypes, Zenon DEF PaletteInit
  <2>4. ztpal \in [Colours -> [Guns -> 0..3]] BY TextRampTypes, Zenon DEF PaletteInit
  <2>5. portWrites \in 0..MaxPortWrites BY SMT DEF PaletteInit, PaletteAssumption
  <2>6. zmode1 \in Zmode1 /\ zmode2 \in Zmode2 BY ModesTypes, Zenon DEF PaletteInit
  <2>7. zpal \in [Entry -> Entry] /\ zpalNum \in Entry BY FirstTypes, Zenon DEF PaletteInit
  <2>8. /\ priority \in SUBSET Colours /\ paged \in BOOLEAN /\ hireso \in BOOLEAN /\ column40 \in BOOLEAN
        /\ uncopied \in BOOLEAN /\ renewed \subseteq {"pri", "bus"}
    BY Zenon DEF PaletteInit
  <2> QED BY <2>1, <2>2, <2>3, <2>4, <2>5, <2>6, <2>7, <2>8, Zenon DEF PaletteTypeOK
<1>2. IsPrepared BY FirstIsPrepared, Zenon DEF PaletteInit, IsPrepared
<1>3. IsShown /\ PriIsRight /\ BusIsRight BY Zenon DEF PaletteInit, IsShown, PriIsRight, BusIsRight
<1>4. KeptIsRight BY SMT DEF PaletteInit, KeptIsRight, NoPalette
<1> QED BY <1>1, <1>2, <1>3, <1>4, Zenon DEF PaletteInv

(* ------------------------------- the steps ------------------------------ *)
ColoursStay == UNCHANGED <<ztpal, zpal, prepared, uncopied, palette>>
PrioritiesStay == UNCHANGED <<pal, priority, pri, mode2>> /\ ("pri" \in renewed' => "pri" \in renewed)
BusStays == UNCHANGED <<zmode1, zmode2, busModes>> /\ ("bus" \in renewed' => "bus" \in renewed)

LEMMA KeptStays == ASSUME KeptIsRight, UNCHANGED savedPal PROVE KeptIsRight'
BY Zenon DEF KeptIsRight, KeptTypes, KeptTables

LEMMA ColoursKept == ASSUME IsPrepared, IsShown, ColoursStay PROVE IsPrepared' /\ IsShown'
BY Zenon DEF IsPrepared, IsShown, ColoursStay

LEMMA PrioritiesKept == ASSUME PriIsRight, PrioritiesStay PROVE PriIsRight'
BY Zenon DEF PriIsRight, PrioritiesStay

LEMMA BusKept == ASSUME BusIsRight, BusStays PROVE BusIsRight'
BY Zenon DEF BusIsRight, BusStays

LEMMA OneMoreTypes == ASSUME PaletteAssumption, PaletteTypeOK, OneMore PROVE portWrites' \in 0..MaxPortWrites
BY SMT DEF PaletteAssumption, PaletteTypeOK, OneMore

\* A table that is computed anew is that of the new registers.
LEMMA UpdatedIsRight ==
  ASSUME NEW p, NEW front, NEW m, UpdatePal(p, front, m), pal' = p, priority' = front, mode2' = m
  PROVE  PriIsRight'
BY Zenon DEF UpdatePal, PriIsRight

\* A channel of an entry is prepared as it is written.
LEMMA SetEntryPrepares ==
  ASSUME PaletteTypeOK, IsPrepared, PaletteAssumption,
         NEW ch \in Guns, NEW n \in AskedEntries, NEW level \in GunLevels, SetEntry(ch, n, level)
  PROVE  /\ zpal' \in [Entry -> Entry] /\ IsPrepared'
         /\ uncopied' \in BOOLEAN /\ (~uncopied' => UNCHANGED <<ztpal, zpal, prepared, uncopied>>)
<1> DEFINE num == ZpalNum(n)
           value == [zpal[num] EXCEPT ![ch] = level]
           memory == [zpal EXCEPT ![num] = value]
<1>1. num \in Entry BY ZpalNumIsEntry, Zenon DEF PaletteAssumption
<1>2. CASE zpal[num][ch] = level
  <2>1. UNCHANGED <<ztpal, zpal, prepared, uncopied>> BY <1>2, Zenon DEF SetEntry
  <2> QED BY <2>1, Zenon DEF PaletteTypeOK, IsPrepared
<1>3. CASE zpal[num][ch] # level
  <2>1. zpal[num] \in Entry BY <1>1, Zenon DEF PaletteTypeOK
  <2>2. level \in 0..15 BY SMT DEF PaletteAssumption
  <2>3. value \in Entry BY <2>1, <2>2, SMT DEF Entry
  <2>4. zpal' = memory /\ UNCHANGED ztpal /\ uncopied' = TRUE BY <1>3, Zenon DEF SetEntry
  <2>5. prepared' = [prepared EXCEPT !.analog = [prepared.analog EXCEPT ![num] = value]]
    BY <1>3, Zenon DEF SetEntry
  <2>6. memory \in [Entry -> Entry]
    <3> HIDE DEF num, value
    <3> QED BY <1>1, <2>3, Zenon DEF PaletteTypeOK
  <2>7. prepared.analog = zpal BY Zenon DEF IsPrepared, PreparedAs
  <2>8. prepared' = [prepared EXCEPT !.analog = memory] BY <2>5, <2>7, Zenon
  <2>9. prepared' = PreparedAs(ztpal, memory)
    <3> DEFINE texts == [t \in Colours |-> Thirds(ztpal[t])]
               plain == [c \in Colours |-> Corner(c)]
    <3>1. prepared = [text |-> texts, digital |-> plain, analog |-> zpal] BY Zenon DEF IsPrepared, PreparedAs
    <3>2. PreparedAs(ztpal, memory) = [text |-> texts, digital |-> plain, analog |-> memory] BY Zenon DEF PreparedAs
    <3> HIDE DEF texts, plain, memory
    <3>3. [[text |-> texts, digital |-> plain, analog |-> zpal] EXCEPT !.analog = memory]
            = [text |-> texts, digital |-> plain, analog |-> memory] BY SMT
    <3> QED BY <2>8, <3>1, <3>2, <3>3, Zenon
  <2> QED BY <2>4, <2>6, <2>9, Zenon DEF IsPrepared
<1> QED BY <1>2, <1>3, Zenon

\* So is a text colour.
LEMMA SetTextEntryPrepares ==
  ASSUME PaletteTypeOK, IsPrepared, PaletteAssumption,
         NEW t \in Colours, NEW levels \in TextLevels, SetTextEntry(t, levels)
  PROVE  /\ ztpal' \in [Colours -> [Guns -> 0..3]] /\ IsPrepared'
         /\ uncopied' \in BOOLEAN /\ (~uncopied' => UNCHANGED <<ztpal, zpal, prepared, uncopied>>)
<1> DEFINE texts == [c \in Colours |-> Thirds(ztpal[c])]
           plain == [c \in Colours |-> Corner(c)]
           table == [ztpal EXCEPT ![t] = levels]
           newTexts == [c \in Colours |-> Thirds(table[c])]
<1>1. CASE ztpal[t] = levels
  <2>1. UNCHANGED <<ztpal, zpal, prepared, uncopied>> BY <1>1, Zenon DEF SetTextEntry
  <2> QED BY <2>1, Zenon DEF PaletteTypeOK, IsPrepared
<1>2. CASE ztpal[t] # levels
  <2>1. ztpal' = table /\ UNCHANGED zpal /\ uncopied' = TRUE BY <1>2, Zenon DEF SetTextEntry
  <2>2. prepared' = [prepared EXCEPT !.text = [prepared.text EXCEPT ![t] = Thirds(levels)]]
    BY <1>2, Zenon DEF SetTextEntry
  <2>3. prepared = [text |-> texts, digital |-> plain, analog |-> zpal] BY Zenon DEF IsPrepared, PreparedAs
  <2>4. PreparedAs(table, zpal) = [text |-> newTexts, digital |-> plain, analog |-> zpal]
    BY Zenon DEF PreparedAs
  <2>5. [texts EXCEPT ![t] = Thirds(levels)] = newTexts
    <3>1. ztpal \in [Colours -> [Guns -> 0..3]] BY Zenon DEF PaletteTypeOK
    <3>2. \A c \in Colours : table[c] = IF c = t THEN levels ELSE ztpal[c] BY <3>1, Zenon
    <3>3. \A c \in Colours : Thirds(table[c]) = IF c = t THEN Thirds(levels) ELSE Thirds(ztpal[c])
      <4> HIDE DEF table
      <4> QED BY <3>2, Zenon
    <3>4. [texts EXCEPT ![t] = Thirds(levels)]
            = [c \in Colours |-> IF c = t THEN Thirds(levels) ELSE Thirds(ztpal[c])]
      <4> HIDE DEF Colours
      <4> QED BY Zenon
    <3> HIDE DEF table
    <3> QED BY <3>3, <3>4, Zenon
  <2>6. table \in [Colours -> [Guns -> 0..3]]
    <3>1. levels \in [Guns -> 0..3] BY Zenon DEF PaletteAssumption
    <3>2. ztpal \in [Colours -> [Guns -> 0..3]] BY Zenon DEF PaletteTypeOK
    <3> QED BY <3>1, <3>2, Zenon
  <2>7. prepared.text = texts
    <3> HIDE DEF texts, plain
    <3> QED BY <2>3, SMT
  <2>8. prepared' = [prepared EXCEPT !.text = newTexts] BY <2>2, <2>5, <2>7, Zenon
  <2>9. [[text |-> texts, digital |-> plain, analog |-> zpal] EXCEPT !.text = newTexts]
          = [text |-> newTexts, digital |-> plain, analog |-> zpal]
    <3> HIDE DEF texts, plain, newTexts
    <3> QED BY SMT
  <2>10. prepared' = PreparedAs(ztpal', zpal')
    <3> HIDE DEF texts, plain, newTexts
    <3> QED BY <2>1, <2>3, <2>4, <2>8, <2>9, Zenon
  <2> QED BY <2>1, <2>6, <2>10, Zenon DEF IsPrepared
<1> QED BY <1>1, <1>2, Zenon

\* Every write keeps what is shown, what decides and IOBUS's copies right.
LEMMA WritesKeepPalette ==
  ASSUME PaletteAssumption, PaletteInv, WritePort
  PROVE  PaletteInv'
<1> USE DEF PaletteInv
<1>1. KeptIsRight' BY KeptStays, Zenon DEF WritePort
<1>2. portWrites' \in 0..MaxPortWrites BY OneMoreTypes, Zenon DEF WritePort
<1>3. UNCHANGED palette BY Zenon DEF WritePort
<1>4. ASSUME NEW ch \in Guns, NEW n \in AskedEntries, NEW level \in GunLevels, SetEntry(ch, n, level)
      PROVE  PaletteInv'
  <2>1. /\ zpal' \in [Entry -> Entry] /\ IsPrepared'
        /\ uncopied' \in BOOLEAN /\ (~uncopied' => UNCHANGED <<ztpal, zpal, prepared, uncopied>>)
    BY <1>4, SetEntryPrepares, Zenon
  <2>2. UNCHANGED <<ztpal, zpalNum, priVars, modeVars, busModes, renewed>> BY <1>4, Zenon DEF SetEntry
  <2>3. PaletteTypeOK' BY <1>2, <2>1, <2>2, Zenon DEF PaletteTypeOK, priVars, modeVars
  <2>4. IsShown'
    <3>1. CASE uncopied' BY <3>1, Zenon DEF IsShown
    <3>2. CASE ~uncopied'
      <4>1. ztpal' = ztpal /\ zpal' = zpal /\ uncopied' = uncopied BY <2>1, <3>2, Zenon
      <4> QED BY <1>3, <3>2, <4>1, Zenon DEF IsShown
    <3> QED BY <3>1, <3>2, Zenon
  <2>5. PrioritiesStay /\ BusStays BY <2>2, Zenon DEF PrioritiesStay, BusStays, priVars, modeVars
  <2> QED BY <1>1, <2>1, <2>3, <2>4, <2>5, PrioritiesKept, BusKept, Zenon
<1>5. ASSUME NEW n \in AskedEntries, ChooseEntry(n) PROVE PaletteInv'
  <2>1. n \in Entry BY Zenon DEF PaletteAssumption
  <2>2. zpalNum' \in Entry BY <1>5, <2>1, ZpalNumIsEntry, Zenon DEF ChooseEntry
  <2>3. UNCHANGED <<zpalVars, priVars, modeVars, busModes, renewed>> BY <1>5, Zenon DEF ChooseEntry
  <2>4. PaletteTypeOK' BY <1>2, <2>2, <2>3, Zenon DEF PaletteTypeOK, priVars, modeVars, zpalVars
  <2>5. ColoursStay /\ PrioritiesStay /\ BusStays
    BY <1>3, <2>3, Zenon DEF ColoursStay, PrioritiesStay, BusStays, priVars, modeVars, zpalVars
  <2> QED BY <1>1, <2>4, <2>5, ColoursKept, PrioritiesKept, BusKept, Zenon
<1>6. ASSUME NEW ch \in Guns, NEW byte \in PalBytes, SetPal(ch, byte) PROVE PaletteInv'
  <2>1. UNCHANGED <<priority, modeVars, zpalVars, zpalNum, busModes>> /\ UpdatePal(pal', priority, mode2)
    BY <1>6, Zenon DEF SetPal
  <2>2. pal' \in [Guns -> SUBSET Colours]
    <3>1. byte \in SUBSET Colours BY Zenon DEF PaletteAssumption
    <3>2. pal \in [Guns -> SUBSET Colours] /\ pal' = [pal EXCEPT ![ch] = byte] BY <1>6, Zenon DEF SetPal, PaletteTypeOK
    <3> QED BY <3>1, <3>2, Zenon
  <2>3. renewed' = renewed \union {"pri"} BY <2>1, Zenon DEF UpdatePal
  <2>4. renewed' \subseteq {"pri", "bus"} /\ ("bus" \in renewed' => "bus" \in renewed)
    BY <2>3, SMT DEF PaletteTypeOK
  <2>5. PaletteTypeOK' BY <1>2, <2>1, <2>2, <2>4, Zenon DEF PaletteTypeOK, modeVars, zpalVars
  <2>6. ColoursStay /\ BusStays BY <1>3, <2>1, <2>4, Zenon DEF ColoursStay, BusStays, modeVars, zpalVars
  <2>7. PriIsRight' BY <2>1, UpdatedIsRight, Zenon DEF modeVars
  <2> QED BY <1>1, <2>5, <2>6, <2>7, ColoursKept, BusKept, Zenon
<1>7. ASSUME NEW front \in Fronts, SetPriority(front) PROVE PaletteInv'
  <2>1. /\ UNCHANGED <<pal, modeVars, zpalVars, zpalNum, busModes>>
        /\ UpdatePal(pal, front, mode2) /\ priority' = front
    BY <1>7, Zenon DEF SetPriority
  <2>2. priority' \in SUBSET Colours BY <2>1, Zenon DEF PaletteAssumption
  <2>3. renewed' = renewed \union {"pri"} BY <2>1, Zenon DEF UpdatePal
  <2>4. renewed' \subseteq {"pri", "bus"} /\ ("bus" \in renewed' => "bus" \in renewed)
    BY <2>3, SMT DEF PaletteTypeOK
  <2>5. PaletteTypeOK' BY <1>2, <2>1, <2>2, <2>4, Zenon DEF PaletteTypeOK, modeVars, zpalVars
  <2>6. ColoursStay /\ BusStays BY <1>3, <2>1, <2>4, Zenon DEF ColoursStay, BusStays, modeVars, zpalVars
  <2>7. PriIsRight' BY <2>1, UpdatedIsRight, Zenon DEF modeVars
  <2> QED BY <1>1, <2>5, <2>6, <2>7, ColoursKept, BusKept, Zenon
<1>8. ASSUME NEW m \in Mode2s, SetMode2(m) PROVE PaletteInv'
  <2>1. /\ UNCHANGED <<pal, priority, paged, zmode1, zmode2, hireso, column40, zpalVars, zpalNum, busModes>>
        /\ UpdatePal(pal, priority, m) /\ mode2' = m
    BY <1>8, Zenon DEF SetMode2
  <2>2. mode2' \in Mode2 BY <2>1, Zenon DEF PaletteAssumption
  <2>3. renewed' = renewed \union {"pri"} BY <2>1, Zenon DEF UpdatePal
  <2>4. renewed' \subseteq {"pri", "bus"} /\ ("bus" \in renewed' => "bus" \in renewed)
    BY <2>3, SMT DEF PaletteTypeOK
  <2>5. PaletteTypeOK' BY <1>2, <2>1, <2>2, <2>4, Zenon DEF PaletteTypeOK, zpalVars
  <2>6. ColoursStay /\ BusStays BY <1>3, <2>1, <2>4, Zenon DEF ColoursStay, BusStays, zpalVars
  <2>7. PriIsRight' BY <2>1, UpdatedIsRight, Zenon
  <2> QED BY <1>1, <2>5, <2>6, <2>7, ColoursKept, BusKept, Zenon
<1>9. ASSUME NEW t \in Colours, NEW levels \in TextLevels, SetTextEntry(t, levels) PROVE PaletteInv'
  <2>1. /\ ztpal' \in [Colours -> [Guns -> 0..3]] /\ IsPrepared'
        /\ uncopied' \in BOOLEAN /\ (~uncopied' => UNCHANGED <<ztpal, zpal, prepared, uncopied>>)
    BY <1>9, SetTextEntryPrepares, Zenon
  <2>2. UNCHANGED <<zpal, zpalNum, priVars, modeVars, busModes, renewed>> BY <1>9, Zenon DEF SetTextEntry
  <2>3. PaletteTypeOK' BY <1>2, <2>1, <2>2, Zenon DEF PaletteTypeOK, priVars, modeVars
  <2>4. IsShown'
    <3>1. CASE uncopied' BY <3>1, Zenon DEF IsShown
    <3>2. CASE ~uncopied'
      <4>1. ztpal' = ztpal /\ zpal' = zpal /\ uncopied' = uncopied BY <2>1, <3>2, Zenon
      <4> QED BY <1>3, <3>2, <4>1, Zenon DEF IsShown
    <3> QED BY <3>1, <3>2, Zenon
  <2>5. PrioritiesStay /\ BusStays BY <2>2, Zenon DEF PrioritiesStay, BusStays, priVars, modeVars
  <2> QED BY <1>1, <2>1, <2>3, <2>4, <2>5, PrioritiesKept, BusKept, Zenon
<1>10. ASSUME NEW m \in Zmode1, SetZmode1(m) PROVE PaletteInv'
  <2>1. UNCHANGED <<priVars, paged, mode2, zmode2, hireso, column40, zpalVars, zpalNum>> BY <1>10, Zenon DEF SetZmode1
  <2>2. /\ zmode1' = m /\ busModes' = [busModes EXCEPT !.z1 = m]
        /\ renewed' = renewed \union (IF busModes.z2 = zmode2 THEN {"bus"} ELSE {})
    BY <1>10, Zenon DEF SetZmode1
  <2>3. busModes' = [z1 |-> m, z2 |-> busModes.z2] BY <2>2, SMT DEF PaletteTypeOK
  <2>4. busModes' \in [z1 : Zmode1, z2 : Zmode2] BY <2>3, SMT DEF PaletteTypeOK
  <2>5. renewed' \subseteq {"pri", "bus"} /\ ("pri" \in renewed' => "pri" \in renewed)
    BY <2>2, SMT DEF PaletteTypeOK
  <2>6. PaletteTypeOK' BY <1>2, <2>1, <2>2, <2>4, <2>5, Zenon DEF PaletteTypeOK, priVars, zpalVars
  <2>7. ColoursStay /\ PrioritiesStay
    BY <1>3, <2>1, <2>5, Zenon DEF ColoursStay, PrioritiesStay, priVars, zpalVars
  <2>8. "bus" \in renewed' => busModes.z2 = zmode2
    <3>1. CASE "bus" \in renewed BY <3>1, SMT DEF BusIsRight
    <3>2. CASE "bus" \notin renewed BY <2>2, <3>2, SMT
    <3> QED BY <3>1, <3>2, Zenon
  <2>9. BusIsRight' BY <2>1, <2>2, <2>3, <2>8, Zenon DEF BusIsRight
  <2> QED BY <1>1, <2>6, <2>7, <2>9, ColoursKept, PrioritiesKept, Zenon
<1>11. ASSUME NEW m \in Zmode2, SetZmode2(m) PROVE PaletteInv'
  <2>1. UNCHANGED <<priVars, paged, mode2, zmode1, hireso, column40, zpalVars, zpalNum>> BY <1>11, Zenon DEF SetZmode2
  <2> DEFINE kept == IF busModes.z1.aen THEN m ELSE busModes.z2
  <2>2. /\ zmode2' = IF zmode1.aen THEN m ELSE zmode2
        /\ busModes' = [busModes EXCEPT !.z2 = kept]
        /\ renewed' = renewed \union (IF busModes.z1 = zmode1 /\ zmode1.aen THEN {"bus"} ELSE {})
    BY <1>11, Zenon DEF SetZmode2
  <2>3. busModes' = [z1 |-> busModes.z1, z2 |-> kept]
    <3> HIDE DEF kept
    <3> QED BY <2>2, SMT DEF PaletteTypeOK
  <2>4. kept \in Zmode2 /\ zmode2' \in Zmode2 BY <2>2, SMT DEF PaletteTypeOK
  <2>5. busModes' \in [z1 : Zmode1, z2 : Zmode2]
    <3> HIDE DEF kept
    <3> QED BY <2>3, <2>4, SMT DEF PaletteTypeOK
  <2>6. renewed' \subseteq {"pri", "bus"} /\ ("pri" \in renewed' => "pri" \in renewed)
    BY <2>2, SMT DEF PaletteTypeOK
  <2>7. PaletteTypeOK' BY <1>2, <2>1, <2>4, <2>5, <2>6, Zenon DEF PaletteTypeOK, priVars, zpalVars
  <2>8. ColoursStay /\ PrioritiesStay
    BY <1>3, <2>1, <2>6, Zenon DEF ColoursStay, PrioritiesStay, priVars, zpalVars
  <2>9. "bus" \in renewed' => busModes.z1 = zmode1 /\ kept = zmode2'
    <3>1. CASE "bus" \in renewed BY <2>2, <3>1, SMT DEF BusIsRight
    <3>2. CASE "bus" \notin renewed BY <2>2, <3>2, SMT
    <3> QED BY <3>1, <3>2, Zenon
  <2>10. BusIsRight'
    <3> HIDE DEF kept
    <3> QED BY <2>1, <2>3, <2>9, Zenon DEF BusIsRight
  <2> QED BY <1>1, <2>7, <2>8, <2>10, ColoursKept, PrioritiesKept, Zenon
<1>12. ASSUME NEW on \in BOOLEAN, SetPage(on) \/ SetColumns(on) \/ SetLines(on) PROVE PaletteInv'
  <2>1. /\ UNCHANGED <<priVars, mode2, zmode1, zmode2, zpalVars, zpalNum, busModes, renewed>>
        /\ paged' \in BOOLEAN /\ column40' \in BOOLEAN /\ hireso' \in BOOLEAN
    BY <1>12, Zenon DEF SetPage, SetColumns, SetLines, PaletteTypeOK
  <2>2. PaletteTypeOK' BY <1>2, <2>1, Zenon DEF PaletteTypeOK, priVars, zpalVars
  <2>3. ColoursStay /\ PrioritiesStay /\ BusStays
    BY <1>3, <2>1, Zenon DEF ColoursStay, PrioritiesStay, BusStays, priVars, zpalVars
  <2> QED BY <1>1, <2>2, <2>3, ColoursKept, PrioritiesKept, BusKept, Zenon
<1> QED BY <1>4, <1>5, <1>6, <1>7, <1>8, <1>9, <1>10, <1>11, <1>12, Zenon DEF WritePort

LEMMA FramesKeepPalette == ASSUME PaletteInv, FirstLine PROVE PaletteInv'
<1> USE DEF PaletteInv
<1>1. UNCHANGED <<priVars, modeVars, ztpal, zpal, prepared, zpalNum, busModes, renewed, savedPal, portWrites>>
  BY Zenon DEF FirstLine
<1>2. uncopied' = FALSE BY Zenon DEF FirstLine
<1>3. PaletteTypeOK' BY <1>1, <1>2, Zenon DEF PaletteTypeOK, priVars, modeVars
<1>4. palette' = Shown(ztpal, zpal) BY FoldedIsShown, Zenon DEF FirstLine, IsPrepared
<1>5. IsPrepared' /\ IsShown' BY <1>1, <1>4, Zenon DEF IsPrepared, IsShown
<1>6. PrioritiesStay /\ BusStays BY <1>1, Zenon DEF PrioritiesStay, BusStays, priVars, modeVars
<1> QED BY <1>1, <1>3, <1>5, <1>6, PrioritiesKept, BusKept, KeptStays, Zenon

LEMMA ResetsKeepPalette == ASSUME PaletteAssumption, PaletteInv, PaletteReset PROVE PaletteInv'
<1> USE DEF PaletteInv
<1>1. /\ paged' = FALSE /\ mode2' = [black |-> {}, hide |-> {}]
      /\ zmode1' = ModesOff.z1 /\ zmode2' = ModesOff.z2 /\ zpalNum' = BlackEntry /\ hireso' = TRUE
      /\ ztpal' = TextRamp /\ zpal' = [n \in Entry |-> n] /\ prepared' = FirstColours
      /\ uncopied' = TRUE /\ renewed' = {} /\ UNCHANGED <<priVars, column40, busModes, palette, savedPal>>
  BY Zenon DEF PaletteReset
<1>2. portWrites' \in 0..MaxPortWrites BY OneMoreTypes, Zenon DEF PaletteReset
<1>3. mode2' \in Mode2 BY <1>1, SMT DEF Mode2
<1>4. zpal' \in [Entry -> Entry] /\ zpalNum' \in Entry BY <1>1, FirstTypes, Zenon
<1>5. ztpal' \in [Colours -> [Guns -> 0..3]] BY <1>1, TextRampTypes, Zenon
<1>6. zmode1' \in Zmode1 /\ zmode2' \in Zmode2 BY <1>1, ModesTypes, Zenon
<1>7. renewed' \subseteq {"pri", "bus"} BY <1>1, Zenon
<1>8. PaletteTypeOK' BY <1>1, <1>2, <1>3, <1>4, <1>5, <1>6, <1>7, Zenon DEF PaletteTypeOK, priVars
<1>9. IsPrepared' BY <1>1, FirstIsPrepared, Zenon DEF IsPrepared
<1>10. IsShown' /\ PriIsRight' /\ BusIsRight' BY <1>1, Zenon DEF IsShown, PriIsRight, BusIsRight
<1>11. KeptIsRight' BY <1>1, KeptStays, Zenon
<1> QED BY <1>8, <1>9, <1>10, <1>11, Zenon

LEMMA SavesKeepPalette == ASSUME PaletteAssumption, PaletteInv, SavePalette PROVE PaletteInv'
<1> USE DEF PaletteInv
<1>1. UNCHANGED palStateVars /\ UNCHANGED palette BY Zenon DEF SavePalette
<1>2. portWrites' \in 0..MaxPortWrites BY OneMoreTypes, Zenon DEF SavePalette
<1>3. PaletteTypeOK' BY <1>1, <1>2, Zenon DEF PaletteTypeOK, palStateVars, priVars, modeVars, zpalVars
<1>4. ColoursStay /\ PrioritiesStay /\ BusStays
  BY <1>1, Zenon DEF ColoursStay, PrioritiesStay, BusStays, palStateVars, priVars, modeVars, zpalVars
<1>5. /\ savedPal'.pal = pal /\ savedPal'.priority = priority /\ savedPal'.pri = pri
      /\ savedPal'.paged = paged /\ savedPal'.mode2 = mode2
      /\ savedPal'.zmode1 = zmode1 /\ savedPal'.zmode2 = zmode2
      /\ savedPal'.hireso = hireso /\ savedPal'.column40 = column40
      /\ savedPal'.ztpal = ztpal /\ savedPal'.zpal = zpal /\ savedPal'.zpalNum = zpalNum
      /\ savedPal'.prepared = prepared /\ savedPal'.busModes = busModes /\ savedPal'.renewed = renewed
  BY SMT DEF SavePalette
<1>6. KeptTypes' BY <1>5, Zenon DEF KeptTypes, PaletteTypeOK
<1>7. KeptTables'
  <2>1. savedPal'.prepared = PreparedAs(savedPal'.ztpal, savedPal'.zpal) BY <1>5, Zenon DEF IsPrepared
  <2>2. "pri" \in savedPal'.renewed
          => savedPal'.pri = Priorities(savedPal'.pal, savedPal'.priority, savedPal'.mode2)
    BY <1>5, Zenon DEF PriIsRight
  <2>3. "bus" \in savedPal'.renewed => savedPal'.busModes = [z1 |-> savedPal'.zmode1, z2 |-> savedPal'.zmode2]
    BY <1>5, Zenon DEF BusIsRight
  <2> QED BY <2>1, <2>2, <2>3, Zenon DEF KeptTables
<1> QED BY <1>3, <1>4, <1>6, <1>7, ColoursKept, PrioritiesKept, BusKept, Zenon DEF KeptIsRight

LEMMA LoadsKeepPalette == ASSUME PaletteAssumption, PaletteInv, LoadPalette PROVE PaletteInv'
<1> USE DEF PaletteInv
<1>1. KeptTypes /\ KeptTables /\ KeptIsRight' BY KeptStays, Zenon DEF LoadPalette, KeptIsRight
<1>2. portWrites' \in 0..MaxPortWrites BY OneMoreTypes, Zenon DEF LoadPalette
<1>3. uncopied' = TRUE BY Zenon DEF LoadPalette
<1>4. PaletteTypeOK' BY <1>1, <1>2, <1>3, Zenon DEF PaletteTypeOK, LoadPalette, KeptTypes
<1>5. IsPrepared' BY <1>1, Zenon DEF IsPrepared, LoadPalette, KeptTables
<1>6. IsShown' BY <1>3, Zenon DEF IsShown
<1>7. PriIsRight' BY <1>1, Zenon DEF PriIsRight, LoadPalette, KeptTables
<1>8. BusIsRight' BY <1>1, Zenon DEF BusIsRight, LoadPalette, KeptTables
<1> QED BY <1>1, <1>4, <1>5, <1>6, <1>7, <1>8, Zenon

LEMMA StutterKeepsPalette == ASSUME PaletteInv, UNCHANGED paletteVars PROVE PaletteInv'
<1> USE DEF PaletteInv
<1>1. UNCHANGED palStateVars /\ UNCHANGED <<palette, savedPal, portWrites>> BY Zenon DEF paletteVars
<1>2. PaletteTypeOK' BY <1>1, Zenon DEF PaletteTypeOK, palStateVars, priVars, modeVars, zpalVars
<1>3. ColoursStay /\ PrioritiesStay /\ BusStays
  BY <1>1, Zenon DEF ColoursStay, PrioritiesStay, BusStays, palStateVars, priVars, modeVars, zpalVars
<1> QED BY <1>1, <1>2, <1>3, ColoursKept, PrioritiesKept, BusKept, KeptStays, Zenon

(* ------------------------------ the theorem ----------------------------- *)
\* For any number of guns and any writes, resets, saves and loads, the registers
\* keep their types, each colour shown once a frame has begun is the one that was
\* written last, the table of priorities is that of the registers from the first
\* write on, and IOBUS's copies of the modes are the display's.
THEOREM ColoursAreTrue ==
  ASSUME PaletteAssumption
  PROVE  PaletteSpec => [](PaletteTypeOK /\ PaletteIsTrue)
<1>1. PaletteInit => PaletteInv BY PaletteInitInv
<1>2. PaletteInv /\ [PaletteNext]_paletteVars => PaletteInv'
  BY WritesKeepPalette, FramesKeepPalette, ResetsKeepPalette, SavesKeepPalette, LoadsKeepPalette,
     StutterKeepsPalette, Zenon DEF PaletteNext
<1>3. PaletteInv => PaletteTypeOK /\ PaletteIsTrue
  BY Zenon DEF PaletteInv, PaletteIsTrue, IsShown, Shown, PriIsRight, BusIsRight
<1> QED BY <1>1, <1>2, <1>3, PTL DEF PaletteSpec

(* ---------------------------- the buses ---------------------------- *)
(* The page tables are a function of the ROM and the bank selected. *)
PageOf(bank, rom, p) ==
  IF p >= LowPages THEN <<"ram", p>>
  ELSE IF bank % 32 < 16 THEN <<"extram", LowPages * (bank % 32) + p>>
  ELSE IF rom THEN <<"rom", p>> ELSE <<"ram", p>>
PageMap(bank, rom) == [p \in Pages |-> PageOf(bank, rom, p)]
WriteMap(bank) == [p \in Pages |-> PageOf(bank, FALSE, p)]
Fields(romsel, bank, portB, from, to) ==
  [romsel |-> romsel, bank |-> bank, portB |-> portB, reads |-> from, writes |-> to]
MemOf(rom, bank) == Fields(rom, bank, PortBOf(rom), PageMap(bank, rom), WriteMap(bank))

LEMMA FieldsAre ==
  ASSUME NEW a, NEW b, NEW c, NEW d, NEW e
  PROVE  /\ Fields(a, b, c, d, e).romsel = a /\ Fields(a, b, c, d, e).bank = b
         /\ Fields(a, b, c, d, e).portB = c
         /\ Fields(a, b, c, d, e).reads = d /\ Fields(a, b, c, d, e).writes = e
  BY DEF Fields
LEMMA BankChanges ==
  ASSUME NEW a, NEW b, NEW c, NEW d, NEW e, NEW x
  PROVE  [Fields(a, b, c, d, e) EXCEPT !.bank = x] = Fields(a, x, c, d, e)
  BY DEF Fields

Account ==
  [rom : BOOLEAN, bank : 0..255, page : BOOLEAN, mode : BOOLEAN, high : BOOLEAN,
   picture : [BOOLEAN \X Primaries \X Cells -> Inks]]
BusState ==
  [mode : BOOLEAN, signal : BOOLEAN, high : BOOLEAN, first : BOOLEAN,
   ofs : [Primaries -> 0..5], vram : [(0..5) \X Cells -> Inks]]

\* Both pages of every plane are as drawn, and the PIO agrees with the bus once it
\* has been written.
BusIs(b, t) ==
  /\ b \in BusState /\ b.mode = t.mode /\ b.signal = t.high /\ b.ofs = Offsets(t.page)
  /\ ~b.first => b.high = b.signal
  /\ \A page \in BOOLEAN, c \in Primaries, cell \in Cells :
       b.vram[<<Plane(page, c), cell>>] = t.picture[<<page, c, cell>>]

\* What holds of the computer, and of a saved state.
Holds(m, b, t) == t \in Account /\ m = MemOf(t.rom, t.bank) /\ BusIs(b, t)
BusesInv ==
  /\ Holds(mem, bus, told)
  /\ busLog.saved # <<>> => Holds(busLog.saved[1].mem, busLog.saved[1].bus, busLog.saved[1].told)

(* ------------------------------ the memory ----------------------------- *)
\* Selecting changes the lower half only, to what a page of it is now.
Upper(map) == \A p \in Pages : p >= LowPages => map[p] = <<"ram", p>>

LEMMA MapsHaveUpper ==
  ASSUME BusesAssumption, NEW bank, NEW rom
  PROVE  Upper(PageMap(bank, rom)) /\ Upper(WriteMap(bank))
  BY DEF Upper, PageMap, WriteMap, PageOf

LEMMA LowerIs ==
  ASSUME BusesAssumption, NEW bank \in 0..255, NEW rom \in BOOLEAN, NEW map, Upper(map)
  PROVE  /\ bank % 32 < 16 => /\ External(bank)
                              /\ Lower(map, "extram", LowPages * (bank % 16)) = PageMap(bank, rom)
                              /\ Lower(map, "extram", LowPages * (bank % 16)) = WriteMap(bank)
         /\ ~(bank % 32 < 16) => /\ ~External(bank)
                                 /\ Lower(map, IF rom THEN "rom" ELSE "ram", 0) = PageMap(bank, rom)
                                 /\ Lower(map, "ram", 0) = WriteMap(bank)
<1>1. LowPages \in Nat /\ LowPages > 0
  BY DEF BusesAssumption
<1>2. ASSUME NEW p \in Pages PROVE p \in Int /\ (~(p < LowPages) => p >= LowPages /\ map[p] = <<"ram", p>>)
  BY <1>1 DEF Pages, Upper
<1>3. CASE bank % 32 < 16
  <2>1. External(bank) /\ bank % 16 = bank % 32
    BY <1>3 DEF External
  <2>2. ASSUME NEW p \in Pages, NEW r \in BOOLEAN
        PROVE  (IF p < LowPages THEN <<"extram", LowPages * (bank % 32) + p>> ELSE map[p]) = PageOf(bank, r, p)
    BY <1>1, <1>2, <1>3 DEF PageOf
  <2> QED BY <1>3, <2>1, <2>2 DEF Lower, PageMap, WriteMap
<1>4. CASE ~(bank % 32 < 16)
  <2>1. ~External(bank)
    BY <1>4 DEF External
  <2>2. ASSUME NEW p \in Pages, NEW r \in BOOLEAN
        PROVE  (IF p < LowPages THEN <<IF r THEN "rom" ELSE "ram", 0 + p>> ELSE map[p]) = PageOf(bank, r, p)
    BY <1>1, <1>2, <1>4 DEF PageOf
  <2>3. Lower(map, IF rom THEN "rom" ELSE "ram", 0) = PageMap(bank, rom)
    BY <2>2 DEF Lower, PageMap
  <2>4. Lower(map, "ram", 0) = WriteMap(bank)
    BY <2>2 DEF Lower, WriteMap
  <2> QED BY <1>4, <2>1, <2>3, <2>4
<1> QED BY <1>3, <1>4

LEMMA MappedIs ==
  ASSUME BusesAssumption, NEW bank \in 0..255, NEW old \in 0..255, NEW rom \in BOOLEAN, NEW was \in BOOLEAN
  PROVE  Mapped(MemOf(was, old), rom, bank, PortBOf(rom)) = MemOf(rom, bank)
<1> DEFINE m == MemOf(was, old)
           first == LowPages * (bank % 16)
<1>1. m.reads = PageMap(old, was) /\ m.writes = WriteMap(old)
  BY FieldsAre DEF MemOf
<1>2. Upper(m.reads) /\ Upper(m.writes)
  BY <1>1, MapsHaveUpper, Zenon
<1> HIDE DEF m
<1>3. CASE bank % 32 < 16
  <2>1. /\ External(bank)
        /\ Lower(m.reads, "extram", first) = PageMap(bank, rom)
        /\ Lower(m.writes, "extram", first) = WriteMap(bank)
    BY <1>2, <1>3, LowerIs, Zenon
  <2> QED BY <2>1, Zenon DEF Mapped, MemOf, Fields, m
<1>4. CASE ~(bank % 32 < 16)
  <2>1. /\ ~External(bank)
        /\ Lower(m.reads, IF rom THEN "rom" ELSE "ram", 0) = PageMap(bank, rom)
        /\ Lower(m.writes, "ram", 0) = WriteMap(bank)
    BY <1>2, <1>4, LowerIs, Zenon
  <2> QED BY <2>1, Zenon DEF Mapped, MemOf, Fields, m
<1> QED BY <1>3, <1>4

LEMMA SelectsAreMaps ==
  ASSUME BusesAssumption, NEW bank \in 0..255, NEW old \in 0..255, NEW rom \in BOOLEAN, NEW was \in BOOLEAN
  PROVE  /\ SelectRom(MemOf(was, old), rom) = MemOf(rom, old)
         /\ SelectBank(MemOf(was, old), bank) = MemOf(was, bank)
<1> DEFINE m == MemOf(was, old)
<1>1. /\ m.romsel = was /\ m.bank = old /\ m.portB = PortBOf(was)
      /\ [m EXCEPT !.bank = bank] = Fields(was, bank, PortBOf(was), PageMap(old, was), WriteMap(old))
  BY FieldsAre, BankChanges DEF MemOf
<1>2. Mapped(m, rom, old, PortBOf(rom)) = MemOf(rom, old) /\ Mapped(m, was, bank, PortBOf(was)) = MemOf(was, bank)
  BY MappedIs, Zenon
<1>3. ASSUME old % 32 = bank % 32 PROVE [m EXCEPT !.bank = bank] = MemOf(was, bank)
  <2>1. PageMap(old, was) = PageMap(bank, was) /\ WriteMap(old) = WriteMap(bank)
    BY <1>3 DEF PageMap, WriteMap, PageOf
  <2> QED BY <1>1, <2>1, Zenon DEF MemOf
<1> HIDE DEF m
<1>4. SelectRom(m, rom) = MemOf(rom, old)
  <2>1. CASE was = rom
    BY <1>1, <2>1, Zenon DEF SelectRom, m
  <2>2. CASE was # rom
    BY <1>1, <1>2, <2>2, Zenon DEF SelectRom
  <2> QED BY <2>1, <2>2
<1>5. SelectBank(m, bank) = MemOf(was, bank)
  BY <1>1, <1>2, <1>3, Zenon DEF SelectBank
<1> QED BY <1>4, <1>5, Zenon DEF m

LEMMA ResetMaps == ASSUME BusesAssumption PROVE MemoryReset = MemOf(TRUE, 16)
<1> DEFINE plain == [p \in Pages |-> <<"ram", p>>]
<1>1. plain = WriteMap(16)
  BY DEF WriteMap, PageOf
<1>2. Lower(plain, "rom", 0) = PageMap(16, TRUE)
  <2>1. 16 \in 0..255 /\ ~(16 % 32 < 16)
    OBVIOUS
  <2>2. Upper(plain)
    BY DEF Upper
  <2>3. (IF TRUE THEN "rom" ELSE "ram") = "rom"
    OBVIOUS
  <2> HIDE DEF plain
  <2>4. Lower(plain, IF TRUE THEN "rom" ELSE "ram", 0) = PageMap(16, TRUE)
    BY <2>1, <2>2, LowerIs
  <2> QED BY <2>3, <2>4
<1> HIDE DEF plain
<1> QED BY <1>1, <1>2 DEF MemoryReset, MemOf, Fields, plain
(* ------------------------------- the bus ------------------------------- *)
LEMMA OffsetsAre == ASSUME NEW page \in BOOLEAN PROVE Offsets(page) \in [Primaries -> 0..5]
  BY DEF Offsets, Plane, Primaries

LEMMA ResetsKeepBus ==
  ASSUME NEW b, NEW t, t \in Account, BusIs(b, t)
  PROVE  LET n == AccountOf(t.picture) IN
         BusIs(BusReset(b), n) /\ n \in Account /\ n.rom = TRUE /\ n.bank = 16
<1> DEFINE n == AccountOf(t.picture)
           r == BusReset(b)
           zero == Offsets(FALSE)
<1>1. /\ n \in Account /\ n.rom = TRUE /\ n.bank = 16 /\ n.page = FALSE /\ n.mode = FALSE /\ n.high = FALSE
      /\ n.picture = t.picture
  BY DEF AccountOf, Account
<1>2. zero \in [Primaries -> 0..5]
  BY OffsetsAre
<1>3. b \in BusState /\ r = [b EXCEPT !.mode = FALSE, !.signal = FALSE, !.ofs = zero, !.first = TRUE]
  BY DEF BusReset, BusIs
<1> HIDE DEF zero
<1>4. /\ r \in BusState /\ r.mode = FALSE /\ r.signal = FALSE /\ r.ofs = zero /\ r.first = TRUE
      /\ r.vram = b.vram
  BY <1>2, <1>3 DEF BusState
<1> QED BY <1>1, <1>4, ZenonT(40) DEF BusIs, zero

LEMMA PagesKeepBus ==
  ASSUME NEW b, NEW t, t \in Account, BusIs(b, t), NEW page \in BOOLEAN
  PROVE  /\ BusIs([b EXCEPT !.ofs = Offsets(page)], [t EXCEPT !.page = page])
         /\ [t EXCEPT !.page = page] \in Account
         /\ [t EXCEPT !.page = page].rom = t.rom /\ [t EXCEPT !.page = page].bank = t.bank
<1> DEFINE ofs == Offsets(page)
           r == [b EXCEPT !.ofs = ofs]
           n == [t EXCEPT !.page = page]
<1>1. b \in BusState /\ ofs \in [Primaries -> 0..5]
  BY DEF Offsets, Plane, Primaries, BusIs
<1> HIDE DEF ofs
<1>2. /\ n \in Account /\ n.rom = t.rom /\ n.bank = t.bank /\ n.page = page
      /\ n.mode = t.mode /\ n.high = t.high /\ n.picture = t.picture
  BY DEF Account
<1>3. /\ r \in BusState /\ r.ofs = ofs /\ r.mode = b.mode /\ r.signal = b.signal
      /\ r.high = b.high /\ r.first = b.first /\ r.vram = b.vram
  BY <1>1 DEF BusState
<1> HIDE DEF n, r
<1>4. BusIs(r, n)
  BY <1>2, <1>3 DEF BusIs, ofs
<1> QED BY <1>2, <1>4 DEF n, r, ofs

LEMMA ReadsKeepBus ==
  ASSUME NEW b, NEW t, t \in Account, BusIs(b, t)
  PROVE  /\ BusIs([b EXCEPT !.mode = FALSE], [t EXCEPT !.mode = FALSE])
         /\ [t EXCEPT !.mode = FALSE] \in Account
         /\ [t EXCEPT !.mode = FALSE].rom = t.rom /\ [t EXCEPT !.mode = FALSE].bank = t.bank
<1> DEFINE r == [b EXCEPT !.mode = FALSE]
           n == [t EXCEPT !.mode = FALSE]
<1>1. /\ n \in Account /\ n.rom = t.rom /\ n.bank = t.bank /\ n.page = t.page
      /\ n.mode = FALSE /\ n.high = t.high /\ n.picture = t.picture
  BY DEF Account
<1>2. b \in BusState
  BY DEF BusIs
<1>3. /\ r \in BusState /\ r.mode = FALSE /\ r.ofs = b.ofs /\ r.signal = b.signal
      /\ r.high = b.high /\ r.first = b.first /\ r.vram = b.vram
  BY <1>2 DEF BusState
<1> HIDE DEF n, r
<1>4. BusIs(r, n)
  BY <1>1, <1>3 DEF BusIs
<1> QED BY <1>1, <1>4 DEF n, r

LEMMA PortCKeepsBus ==
  ASSUME NEW b, NEW t, t \in Account, BusIs(b, t), NEW high \in BOOLEAN
  PROVE  LET n == Told(t, high) IN
         BusIs(WritePortC(b, high), n) /\ n \in Account /\ n.rom = t.rom /\ n.bank = t.bank
<1> DEFINE n == Told(t, high)
           w == WritePortC(b, high)
<1>1. PICK mode \in BOOLEAN : mode = (t.mode \/ (t.high /\ ~high))
  OBVIOUS
<1>2. n = [t EXCEPT !.high = high, !.mode = mode]
  BY <1>1 DEF Told, Account
<1>3. /\ n \in Account /\ n.high = high /\ n.mode = mode
      /\ n.page = t.page /\ n.picture = t.picture /\ n.rom = t.rom /\ n.bank = t.bank
  <2> HIDE DEF n
  <2> QED BY <1>2 DEF Account
<1>4. /\ w \in BusState /\ w.mode = (b.mode \/ (b.signal /\ ~high)) /\ w.signal = high /\ w.high = high
      /\ w.ofs = b.ofs /\ w.vram = b.vram
  BY DEF WritePortC, WriteSignal, BusIs, BusState
<1> QED BY <1>1, <1>3, <1>4 DEF BusIs

\* A write reaches the cells of the planes that the account says, of the page on view.
LEMMA WritesKeepBus ==
  ASSUME NEW b, NEW t, t \in Account, BusIs(b, t),
         NEW quarter \in 0..3, quarter = 0 => b.mode, NEW cell \in Cells, NEW ink \in Inks
  PROVE  LET n == Draw(t, quarter, cell, ink) IN
         BusIs(WriteVram(b, quarter, cell, ink), n) /\ n \in Account /\ n.rom = t.rom /\ n.bank = t.bank
<1> DEFINE n == Draw(t, quarter, cell, ink)
           w == WriteVram(b, quarter, cell, ink)
           Drawn(k) == k[1] = t.page /\ k[3] = cell /\ (t.mode # (k[2] = quarter))
           Hit(k) == k[2] = cell /\ \E c \in Reached(b, quarter) : k[1] = b.ofs[c]
           picture == [k \in BOOLEAN \X Primaries \X Cells |-> IF Drawn(k) THEN ink ELSE t.picture[k]]
           vram == [k \in (0..5) \X Cells |-> IF Hit(k) THEN ink ELSE b.vram[k]]
<1>1. picture \in [BOOLEAN \X Primaries \X Cells -> Inks] /\ n = [t EXCEPT !.picture = picture]
  BY DEF Draw, Account
<1>2. vram \in [(0..5) \X Cells -> Inks] /\ w = [b EXCEPT !.vram = vram]
  BY DEF WriteVram, BusIs, BusState
<1>3. ASSUME NEW page \in BOOLEAN, NEW c \in Primaries, NEW at \in Cells
      PROVE  vram[<<Plane(page, c), at>>] = picture[<<page, c, at>>]
  <2>1. Plane(page, c) \in 0..5
    BY DEF Plane, Primaries
  <2>2. ASSUME NEW d \in Primaries PROVE b.ofs[d] = Plane(t.page, d)
    BY DEF BusIs, Offsets
  <2>3. ASSUME NEW d \in Primaries PROVE Plane(page, c) = Plane(t.page, d) <=> (page = t.page /\ c = d)
    BY DEF Plane, Primaries, Account
  <2>4. (c \in Reached(b, quarter) <=> (t.mode # (c = quarter))) /\ Reached(b, quarter) \subseteq Primaries
    <3>1. t.mode \in BOOLEAN /\ b.mode = t.mode
      BY DEF BusIs, Account
    <3>2. CASE ~t.mode
      BY <3>1, <3>2 DEF Reached, Primaries
    <3>3. CASE t.mode /\ quarter = 0
      <4>1. Reached(b, quarter) = Primaries
        BY <3>1, <3>3 DEF Reached
      <4>2. c # quarter
        BY <3>3 DEF Primaries
      <4> QED BY <3>3, <4>1, <4>2
    <3>4. CASE t.mode /\ quarter # 0
      <4>1. Reached(b, quarter) = Primaries \ {quarter}
        BY <3>1, <3>4 DEF Reached
      <4>2. CASE c = quarter
        BY <3>4, <4>1, <4>2
      <4>3. CASE c # quarter
        BY <3>4, <4>1, <4>3
      <4> QED BY <4>2, <4>3
    <3> QED BY <3>1, <3>2, <3>3, <3>4
  <2>5. Hit(<<Plane(page, c), at>>) <=> Drawn(<<page, c, at>>)
    BY <2>2, <2>3, <2>4
  <2>6. b.vram[<<Plane(page, c), at>>] = t.picture[<<page, c, at>>]
    BY DEF BusIs
  <2> QED BY <2>1, <2>5, <2>6
<1> HIDE DEF picture, vram
<1>4. /\ n \in Account /\ n.picture = picture /\ n.rom = t.rom /\ n.bank = t.bank
      /\ n.page = t.page /\ n.mode = t.mode /\ n.high = t.high
  BY <1>1 DEF Account
<1>5. /\ w \in BusState /\ w.vram = vram /\ w.mode = b.mode /\ w.signal = b.signal
      /\ w.ofs = b.ofs /\ w.first = b.first /\ w.high = b.high
  BY <1>2 DEF BusState, BusIs
<1> QED BY <1>3, <1>4, <1>5 DEF BusIs
(* ------------------------------ the theorem ---------------------------- *)
LEMMA BusesInitInv == ASSUME BusesAssumption, BusesInit PROVE BusesInv
<1> DEFINE blank == [k \in BOOLEAN \X Primaries \X Cells |-> 0]
<1>1. told = AccountOf(blank) /\ blank \in [BOOLEAN \X Primaries \X Cells -> Inks]
  BY DEF BusesInit, NewAccount, BusesAssumption
<1> HIDE DEF blank
<1>2. /\ told \in Account /\ told.rom = TRUE /\ told.bank = 16 /\ told.page = FALSE /\ told.mode = FALSE
      /\ told.high = FALSE /\ told.picture = blank
  BY <1>1 DEF AccountOf, Account
<1>3. mem = MemOf(told.rom, told.bank)
  BY <1>2, ResetMaps, Zenon DEF BusesInit
<1>4. BusIs(bus, told)
  <2> DEFINE dark == [k \in (0..5) \X Cells |-> 0]
             zero == Offsets(FALSE)
  <2>1. zero \in [Primaries -> 0..5] /\ dark \in [(0..5) \X Cells -> Inks]
    BY OffsetsAre DEF BusesAssumption
  <2>2. ASSUME NEW page \in BOOLEAN, NEW c \in Primaries, NEW cell \in Cells
        PROVE  dark[<<Plane(page, c), cell>>] = blank[<<page, c, cell>>]
    BY DEF Plane, Primaries, blank
  <2>3. bus = [mode |-> FALSE, signal |-> FALSE, ofs |-> zero, high |-> FALSE, first |-> TRUE, vram |-> dark]
    BY DEF BusesInit
  <2> HIDE DEF dark, zero
  <2>4. bus \in BusState
    BY <2>1, <2>3 DEF BusState
  <2> QED BY <1>2, <2>2, <2>3, <2>4 DEF BusIs, zero
<1>5. busLog.saved = <<>>
  BY DEF BusesInit
<1> QED BY <1>2, <1>3, <1>4, <1>5, Zenon DEF BusesInv, Holds

\* The saved state stays, but for the step that saves.
LEMMA SavedStays ==
  ASSUME BusesInv, busLog'.saved = busLog.saved, Holds(mem', bus', told')
  PROVE  BusesInv'
  BY DEF BusesInv

LEMMA StepsKeepBuses ==
  ASSUME BusesAssumption, BusesInv, BusesNext
  PROVE  BusesInv'
<1> USE DEF Holds
<1>1. /\ told \in Account /\ mem = MemOf(told.rom, told.bank) /\ BusIs(bus, told)
      /\ told.rom \in BOOLEAN /\ told.bank \in 0..255
  BY DEF BusesInv, Account
<1>2. Step => busLog'.saved = busLog.saved
  BY DEF Step
<1>3. CASE OutBank
  <2>1. PICK bank \in Banks : mem' = SelectBank(mem, bank) /\ told' = [told EXCEPT !.bank = bank]
    BY <1>3 DEF OutBank
  <2>2. bank \in 0..255
    BY DEF BusesAssumption
  <2>3. /\ told' \in Account /\ told'.rom = told.rom /\ told'.bank = bank
        /\ told'.mode = told.mode /\ told'.high = told.high /\ told'.page = told.page /\ told'.picture = told.picture
    BY <1>1, <2>1, <2>2 DEF Account
  <2>4. mem' = MemOf(told'.rom, told'.bank)
    <3>1. SelectBank(MemOf(told.rom, told.bank), bank) = MemOf(told.rom, bank)
      BY <1>1, <2>2, SelectsAreMaps
    <3> QED BY <1>1, <2>1, <2>3, <3>1, Zenon
  <2>5. bus' = bus /\ Step
    BY <1>3 DEF OutBank, ToPort
  <2>6. BusIs(bus', told')
    BY <1>1, <2>3, <2>5, Zenon DEF BusIs
  <2> QED BY <1>2, <2>3, <2>4, <2>5, <2>6, SavedStays
<1>4. CASE OutRom
  <2>1. PICK rom \in BOOLEAN : mem' = SelectRom(mem, rom) /\ told' = [told EXCEPT !.rom = rom]
    BY <1>4 DEF OutRom
  <2>3. /\ told' \in Account /\ told'.rom = rom /\ told'.bank = told.bank
        /\ told'.mode = told.mode /\ told'.high = told.high /\ told'.page = told.page /\ told'.picture = told.picture
    BY <1>1, <2>1 DEF Account
  <2>4. mem' = MemOf(told'.rom, told'.bank)
    <3>1. SelectRom(MemOf(told.rom, told.bank), rom) = MemOf(rom, told.bank)
      BY <1>1, <2>1, SelectsAreMaps
    <3> QED BY <1>1, <2>1, <2>3, <3>1, Zenon
  <2>5. bus' = bus /\ Step
    BY <1>4 DEF OutRom, ToPort
  <2>6. BusIs(bus', told')
    BY <1>1, <2>3, <2>5, Zenon DEF BusIs
  <2> QED BY <1>2, <2>3, <2>4, <2>5, <2>6, SavedStays
<1>5. CASE OutPage
  <2>1. PICK page \in BOOLEAN : bus' = [bus EXCEPT !.ofs = Offsets(page)] /\ told' = [told EXCEPT !.page = page]
    BY <1>5 DEF OutPage
  <2>2. mem' = mem /\ Step
    BY <1>5 DEF OutPage, ToPort
  <2> QED BY <1>1, <1>2, <2>1, <2>2, PagesKeepBus, SavedStays, Zenon
<1>6. CASE OutPortC
  <2>1. PICK high \in BOOLEAN : /\ bus' = WritePortC(bus, high)
                               /\ told' = Told(told, high)
    BY <1>6 DEF OutPortC
  <2>2. mem' = mem /\ Step
    BY <1>6 DEF OutPortC, ToPort
  <2> QED BY <1>1, <1>2, <2>1, <2>2, PortCKeepsBus, SavedStays, Zenon
<1>7. CASE OutVram
  <2>1. PICK quarter \in 0..3, cell \in Cells, ink \in Inks :
          /\ quarter = 0 => bus.mode
          /\ bus' = WriteVram(bus, quarter, cell, ink) /\ told' = Draw(told, quarter, cell, ink)
    BY <1>7 DEF OutVram
  <2>2. mem' = mem /\ Step
    BY <1>7 DEF OutVram
  <2> QED BY <1>1, <1>2, <2>1, <2>2, WritesKeepBus, SavedStays, Zenon
<1>8. CASE InByte \/ InEmm
  <2>1. /\ bus' = [bus EXCEPT !.mode = FALSE] /\ told' = [told EXCEPT !.mode = FALSE]
        /\ mem' = mem /\ Step
    BY <1>8 DEF InByte, InEmm, AnyRead
  <2> QED BY <1>1, <1>2, <2>1, ReadsKeepBus, SavedStays, Zenon
<1>9. CASE InRom
  <2> DEFINE between == [told EXCEPT !.mode = FALSE]
  <2>1. /\ bus' = [bus EXCEPT !.mode = FALSE] /\ mem' = SelectRom(mem, FALSE) /\ Step
        /\ told' = [told EXCEPT !.mode = FALSE, !.rom = FALSE]
    BY <1>9 DEF InRom, AnyRead
  <2>2. /\ told' \in Account /\ told'.rom = FALSE /\ told'.bank = told.bank
        /\ told'.mode = FALSE /\ told'.high = told.high /\ told'.page = told.page /\ told'.picture = told.picture
    BY <1>1, <2>1 DEF Account
  <2>3. mem' = MemOf(told'.rom, told'.bank)
    <3>1. FALSE \in BOOLEAN
      OBVIOUS
    <3> QED BY <1>1, <2>1, <2>2, <3>1, SelectsAreMaps, ZenonT(40)
  <2>4. BusIs(bus', between) /\ between.mode = FALSE /\ between.high = told.high /\ between.page = told.page
        /\ between.picture = told.picture
    BY <1>1, <2>1, ReadsKeepBus DEF Account
  <2> HIDE DEF between
  <2>5. BusIs(bus', told')
    BY <2>2, <2>4, Zenon DEF BusIs
  <2> QED BY <1>2, <2>1, <2>2, <2>3, <2>5, SavedStays
<1>10. CASE OutEmm \/ OutBoard
  <2>1. UNCHANGED <<mem, bus, told>> /\ Step
    BY <1>10 DEF OutEmm, OutBoard, ToPort
  <2> QED BY <1>1, <1>2, <2>1, SavedStays
<1>11. CASE ResetBuses
  <2>1. mem' = MemoryReset /\ bus' = BusReset(bus) /\ told' = AccountOf(told.picture) /\ Step
    BY <1>11 DEF ResetBuses
  <2>2. BusIs(bus', told') /\ told' \in Account /\ told'.rom = TRUE /\ told'.bank = 16
    BY <1>1, <2>1, ResetsKeepBus, Zenon
  <2> QED BY <1>2, <2>1, <2>2, ResetMaps, SavedStays, Zenon
<1>12. CASE PowerCycle
  <2> DEFINE blank == [k \in BOOLEAN \X Primaries \X Cells |-> 0]
             dark == [k \in (0..5) \X Cells |-> 0]
             zero == Offsets(FALSE)
  <2>1. mem' = MemoryReset /\ told' = AccountOf(blank) /\ Step /\ bus' = [BusReset(bus) EXCEPT !.vram = dark, !.high = FALSE]
    BY <1>12 DEF PowerCycle, NewAccount
  <2>2. /\ blank \in [BOOLEAN \X Primaries \X Cells -> Inks] /\ dark \in [(0..5) \X Cells -> Inks]
        /\ zero \in [Primaries -> 0..5]
    BY OffsetsAre DEF BusesAssumption
  <2>3. ASSUME NEW page \in BOOLEAN, NEW c \in Primaries, NEW cell \in Cells
        PROVE  dark[<<Plane(page, c), cell>>] = blank[<<page, c, cell>>]
    BY DEF Plane, Primaries
  <2>4. BusReset(bus) = [bus EXCEPT !.mode = FALSE, !.signal = FALSE, !.ofs = zero, !.first = TRUE] /\ bus \in BusState
    BY <1>1 DEF BusReset, BusIs
  <2> HIDE DEF blank, dark, zero
  <2>5. /\ told' \in Account /\ told'.rom = TRUE /\ told'.bank = 16 /\ told'.page = FALSE /\ told'.mode = FALSE
        /\ told'.high = FALSE /\ told'.picture = blank
    BY <2>1, <2>2 DEF AccountOf, Account
  <2>6. /\ bus' \in BusState /\ bus'.mode = FALSE /\ bus'.signal = FALSE /\ bus'.ofs = zero
        /\ bus'.first = TRUE /\ bus'.vram = dark
    BY <2>1, <2>2, <2>4 DEF BusState
  <2>7. BusIs(bus', told')
    BY <2>3, <2>5, <2>6 DEF BusIs, zero
  <2> QED BY <1>2, <2>1, <2>5, <2>7, ResetMaps, SavedStays, Zenon
<1>13. CASE SaveBuses
  <2> DEFINE copy == [mem |-> mem, bus |-> bus, boards |-> boards, told |-> told]
  <2>1. UNCHANGED <<mem, bus, told>> /\ busLog'.saved = <<copy>>
    BY <1>13 DEF SaveBuses
  <2>2. busLog'.saved[1].mem = mem /\ busLog'.saved[1].bus = bus /\ busLog'.saved[1].told = told
    BY <2>1
  <2> QED BY <1>1, <2>1, <2>2 DEF BusesInv
<1>14. CASE LoadBuses
  <2> DEFINE s == busLog.saved[1]
  <2>1. mem' = Mapped(mem, s.mem.romsel, s.mem.bank, s.mem.portB) /\ bus' = s.bus /\ told' = s.told
        /\ Step /\ busLog.saved # <<>>
    BY <1>14 DEF LoadBuses
  <2>2. Holds(s.mem, s.bus, s.told)
    BY <2>1 DEF BusesInv
  <2> HIDE DEF s
  <2>3. s.told.rom \in BOOLEAN /\ s.told.bank \in 0..255
    BY <2>2 DEF Account
  <2>4. s.mem.romsel = s.told.rom /\ s.mem.bank = s.told.bank /\ s.mem.portB = PortBOf(s.told.rom)
    BY <2>2, FieldsAre DEF MemOf
  <2>5. mem' = MemOf(told'.rom, told'.bank)
    <3>1. Mapped(MemOf(told.rom, told.bank), s.told.rom, s.told.bank, PortBOf(s.told.rom)) = MemOf(s.told.rom, s.told.bank)
      BY <1>1, <2>3, MappedIs, ZenonT(40)
    <3> QED BY <1>1, <2>1, <2>4, <3>1, Zenon
  <2> QED BY <1>2, <2>1, <2>2, <2>5, SavedStays
<1> QED BY <1>3, <1>4, <1>5, <1>6, <1>7, <1>8, <1>9, <1>10, <1>11, <1>12, <1>13, <1>14 DEF BusesNext

\* For any number of pages, cells and banks, and any accesses, resets, saves and
\* loads: the page tables are those of the bank and the ROM last selected, no page
\* writes to the ROM, port B shows which it is, and what is read of the VRAM is what
\* was drawn there.
THEOREM AddressesAreTrue ==
  ASSUME BusesAssumption
  PROVE  BusesSpec => [](PagesAreTrue /\ PictureIsTrue)
<1>1. BusesInit => BusesInv
  BY BusesInitInv
<1>2. BusesInv /\ [BusesNext]_busVars => BusesInv'
  <2>1. CASE BusesNext
    BY <2>1, StepsKeepBuses
  <2>2. ASSUME BusesInv, UNCHANGED busVars PROVE BusesInv'
    BY <2>2, Zenon DEF BusesInv, Holds, BusIs, busVars
  <2> QED BY <2>1, <2>2
<1>3. BusesInv => PagesAreTrue /\ PictureIsTrue
  <2> SUFFICES ASSUME BusesInv PROVE PagesAreTrue /\ PictureIsTrue
    OBVIOUS
  <2>1. told \in Account /\ mem = MemOf(told.rom, told.bank) /\ BusIs(bus, told)
    BY DEF BusesInv, Holds
  <2>2. mem.reads = PageMap(told.bank, told.rom) /\ mem.writes = WriteMap(told.bank) /\ mem.portB = PortBOf(told.rom)
    BY <2>1, FieldsAre DEF MemOf
  <2>3. PagesAreTrue
    BY <2>2 DEF PagesAreTrue, PageMap, WriteMap, PageOf
  <2>4. PictureIsTrue
    BY <2>1 DEF PictureIsTrue, BusIs, Account, Offsets
  <2> QED BY <2>3, <2>4
<1> QED BY <1>1, <1>2, <1>3, PTL DEF BusesSpec

(***************************************************************************)
(* The sound board's timers.                                               *)
(***************************************************************************)
(* A timer that counts is at zero no earlier than the chip is told of it, and the
   timers that count by themselves are where the chip's are after it is told.  *)
Running(f) == opm.count[f] # 0
Due(f) == Running(f) /\ opm.count[f] = board.since
Full(f) == opm.period[f] * Prescaler

\* A chip's own state: a timer counts while its load bit is set.
Healthy(c) ==
  /\ c \in Opm
  /\ \A f \in Flags : /\ c.period[f] > 0 /\ c.count[f] >= 0
                      /\ c.count[f] # 0 <=> Load(f) \in c.control
  /\ c.interrupt <=> c.status # {}
ChipInv == Healthy(opm)

\* The device: the line bounds what has passed, the event what may pass.
BoardInv ==
  /\ board \in Board /\ board.irq = opm.interrupt
  /\ board.since + board.line <= Line
  /\ board.due = -1 => \A f \in Flags : ~Running(f)
  /\ board.due # -1 => \A f \in Flags : Running(f) => board.since + board.due <= opm.count[f]

\* The timers that count by themselves.
RealInv ==
  /\ real \in [left : [Flags -> Nat], status : SUBSET Flags]
  /\ \A f \in Flags : real.left[f] = IF ~Running(f) THEN 0
                                     ELSE IF Due(f) THEN Full(f) ELSE opm.count[f] - board.since
  /\ real.status = opm.status \union {f \in Flags : Due(f) /\ Enable(f) \in opm.control}

OpmInv == ChipInv /\ BoardInv /\ RealInv /\ writes \in 0..MaxWrites

\* A chip that knows what the timers know.
Knowing(c, r) ==
  [control |-> c.control, period |-> c.period, count |-> r.left, status |-> r.status, interrupt |-> r.status # {}]

LEMMA Reloaded ==
  ASSUME Ym2151Assumption, ChipInv, NEW f \in Flags
  PROVE  Full(f) \in Nat /\ Full(f) > 0
<1>1. \A a, b \in Nat : a > 0 /\ b > 0 => a * b \in Nat /\ a * b > 0
  OBVIOUS
<1> QED BY <1>1 DEF Ym2151Assumption, ChipInv, Healthy, Opm, Full

LEMMA Sinces ==
  ASSUME Ym2151Assumption, OpmInv
  PROVE  /\ board.since \in Nat /\ board.line \in Nat /\ board.since % Counted = board.since
         /\ \A f \in Flags : /\ opm.count[f] \in Nat /\ real.left[f] \in Nat
                             /\ Running(f) => board.since <= opm.count[f] /\ real.left[f] > 0
<1>1. board.since \in Nat /\ board.line \in Nat /\ board.due \in Nat \union {-1} /\ Counted \in Nat /\ Line \in Nat
  BY DEF Ym2151Assumption, OpmInv, BoardInv, Board
<1>2. board.since < Counted
  BY <1>1 DEF Ym2151Assumption, OpmInv, BoardInv
<1>3. ASSUME NEW f \in Flags
      PROVE  /\ opm.count[f] \in Nat /\ real.left[f] \in Nat
             /\ Running(f) => board.since <= opm.count[f] /\ real.left[f] > 0
  <2>1. opm.count[f] \in Nat /\ real.left[f] \in Nat
    BY DEF OpmInv, ChipInv, Healthy, RealInv, Opm
  <2>2. Running(f) => board.since <= opm.count[f]
    BY <1>1, <2>1 DEF OpmInv, BoardInv
  <2>3. Full(f) \in Nat /\ Full(f) > 0
    BY Reloaded DEF OpmInv
  <2>4. Running(f) => real.left[f] > 0
    BY <1>1, <2>1, <2>2, <2>3 DEF OpmInv, RealInv, Due
  <2> QED BY <2>1, <2>2, <2>4
<1>4. board.since % Counted = board.since
  BY <1>1, <1>2
<1> QED BY <1>1, <1>3, <1>4

\* A timer that is at zero starts again from its period.
LEMMA AgainIs ==
  ASSUME NEW n \in Nat, n > 0 PROVE Again(0, n) = n
<1>1. (0 - 0) \div n = 0
  BY SMT
<1>2. n * (0 + 1) = n
  OBVIOUS
<1> QED BY <1>1, <1>2 DEF Again

\* update_count: whenever the chip is told, it knows what real timers know.
LEMMA ToldIsTrue ==
  ASSUME Ym2151Assumption, OpmInv
  PROVE  UpToDate = Knowing(opm, real)
<1> DEFINE n == board.since
           out == {f \in Flags : opm.count[f] # 0 /\ opm.count[f] <= n}
           counts == [f \in Flags |-> IF f \in out THEN Again(opm.count[f] - n, opm.period[f] * Prescaler)
                                      ELSE IF opm.count[f] = 0 THEN 0 ELSE opm.count[f] - n]
           raised == {f \in out : Enable(f) \in opm.control}
           c == [opm EXCEPT !.count = counts]
<1>1. UpToDate = Raised(c, raised)
  BY Sinces, Zenon DEF UpToDate, Count
<1>2. out = {f \in Flags : Due(f)}
  BY Sinces DEF Due, Running
<1>3. counts = real.left
  <2>1. real.left = [f \in Flags |-> real.left[f]]
    BY DEF OpmInv, RealInv
  <2>2. ASSUME NEW f \in Flags PROVE counts[f] = real.left[f]
    <3>1. Full(f) \in Nat /\ Full(f) > 0
      BY Reloaded DEF OpmInv
    <3>2. real.left[f] = IF ~Running(f) THEN 0 ELSE IF Due(f) THEN Full(f) ELSE opm.count[f] - n
      BY DEF OpmInv, RealInv
    <3>3. opm.count[f] \in Nat /\ n \in Nat
      BY Sinces
    <3>4. CASE Due(f)
      <4>1. opm.count[f] - n = 0 /\ Running(f)
        BY <3>3, <3>4 DEF Due
      <4>2. Again(opm.count[f] - n, opm.period[f] * Prescaler) = Full(f)
        BY <3>1, <4>1, AgainIs DEF Full
      <4> QED BY <1>2, <3>2, <3>4, <4>1, <4>2
    <3>5. CASE ~Due(f)
      BY <1>2, <3>2, <3>5 DEF Running
    <3> QED BY <3>4, <3>5
  <2> QED BY <2>1, <2>2
<1>4. real.status = opm.status \union raised
  BY <1>2 DEF OpmInv, RealInv
<1> HIDE DEF counts, raised, out
<1>5. c = [control |-> opm.control, period |-> opm.period, count |-> real.left,
           status |-> opm.status, interrupt |-> opm.interrupt]
  BY <1>3 DEF OpmInv, ChipInv, Healthy, Opm
<1> HIDE DEF c
<1>6. opm.interrupt = (opm.status # {})
  BY DEF OpmInv, ChipInv, Healthy, Opm
<1>7. CASE raised \subseteq opm.status
  <2>1. Raised(c, raised) = c /\ real.status = opm.status
    BY <1>4, <1>5, <1>7 DEF Raised
  <2> QED BY <1>1, <1>5, <1>6, <2>1 DEF Knowing
<1>8. CASE ~(raised \subseteq opm.status)
  <2>1. Raised(c, raised) = [control |-> opm.control, period |-> opm.period, count |-> real.left,
           status |-> opm.status \union raised, interrupt |-> TRUE]
    BY <1>5, <1>8 DEF Raised
  <2>2. (real.status # {}) = TRUE
    BY <1>4, <1>8
  <2> QED BY <1>1, <1>4, <2>1, <2>2 DEF Knowing
<1> QED BY <1>7, <1>8


LEMMA NextIs ==
  ASSUME NEW c, Healthy(c)
  PROVE  /\ NextEvent(c) \in Nat
         /\ NextEvent(c) = 0 => \A f \in Flags : c.count[f] = 0
         /\ NextEvent(c) > 0 => \A f \in Flags : c.count[f] # 0 => NextEvent(c) <= c.count[f]
<1> DEFINE running == {c.count[f] : f \in {g \in Flags : c.count[g] > 0}}
<1>1. \A f \in Flags : c.count[f] \in Nat
  BY DEF Healthy, Opm
<1>2. running \subseteq Nat \ {0} /\ \A f \in Flags : c.count[f] # 0 => c.count[f] \in running
  BY <1>1
<1>3. CASE running = {}
  <2>1. NextEvent(c) = 0
    BY <1>3 DEF NextEvent
  <2> HIDE DEF running
  <2> QED BY <1>2, <1>3, <2>1
<1>4. CASE running # {}
  <2>1. \E n \in running : \A m \in running : n <= m
    <3>1. running \subseteq {c.count["A"], c.count["B"]}
      BY DEF Flags
    <3>2. \A m, n \in Nat : m <= n \/ n <= m
      OBVIOUS
    <3> HIDE DEF running
    <3>3. PICK n \in running : TRUE
      BY <1>4
    <3>4. CASE \A m \in running : n <= m
      BY <3>4
    <3>5. CASE \E m \in running : ~(n <= m)
      <4>1. PICK m \in running : ~(n <= m)
        BY <3>5
      <4>2. running \subseteq {m, n} /\ m <= n /\ m <= m
        BY <1>2, <3>1, <3>2, <4>1
      <4> QED BY <4>2
    <3> QED BY <3>4, <3>5
  <2>2. NextEvent(c) = CHOOSE n \in running : \A m \in running : n <= m
    BY <1>4 DEF NextEvent
  <2> HIDE DEF running
  <2>3. NextEvent(c) \in running /\ \A m \in running : NextEvent(c) <= m
    BY <2>1, <2>2
  <2> QED BY <1>2, <2>3
<1> QED BY <1>3, <1>4

\* What an event must be for timers that have left what they have.
InTime(due, left) ==
  /\ due \in Nat \union {-1}
  /\ due = -1 => \A f \in Flags : left[f] = 0
  /\ due # -1 => \A f \in Flags : left[f] # 0 => due <= left[f]

\* update_event registers the next timer to run out, if there is one.
LEMMA ScheduledIs ==
  ASSUME NEW c, Healthy(c), NEW b \in Board
  PROVE  Scheduled(b, c) \in Board /\ InTime(Scheduled(b, c).due, c.count)
         /\ Scheduled(b, c).since = b.since /\ Scheduled(b, c).line = b.line
<1> DEFINE due == IF NextEvent(c) > 0 THEN NextEvent(c) ELSE -1
<1>1. due \in Nat \union {-1} /\ InTime(due, c.count)
  BY NextIs DEF InTime
<1> HIDE DEF due
<1>2. Scheduled(b, c) = [b EXCEPT !.due = due]
  BY DEF Scheduled, due
<1> QED BY <1>1, <1>2 DEF Board

\* Where nothing is registered anew the event is still the right one.
LEMMA StillInTime ==
  ASSUME Ym2151Assumption, OpmInv PROVE InTime(board.due, real.left)
<1>1. board.due \in Nat \union {-1} /\ board.since \in Nat
  BY DEF OpmInv, BoardInv, Board
<1>2. ASSUME NEW f \in Flags
      PROVE  /\ board.due = -1 => real.left[f] = 0
             /\ board.due # -1 /\ real.left[f] # 0 => board.due <= real.left[f]
  <2>1. opm.count[f] \in Nat /\ real.left[f] \in Nat /\ (Running(f) => real.left[f] > 0)
    BY Sinces
  <2>2. real.left[f] = IF ~Running(f) THEN 0 ELSE IF Due(f) THEN Full(f) ELSE opm.count[f] - board.since
    BY DEF OpmInv, RealInv
  <2>3. /\ board.due = -1 => ~Running(f)
        /\ board.due # -1 /\ Running(f) => board.since + board.due <= opm.count[f]
    BY DEF OpmInv, BoardInv
  <2> QED BY <1>1, <2>1, <2>2, <2>3 DEF Due
<1> QED BY <1>1, <1>2 DEF InTime

\* A chip that has just been told of the time, with an event in time.
LEMMA Renewed ==
  ASSUME Ym2151Assumption, NEW c, Healthy(c), NEW b \in Board, NEW r,
         r.left = c.count, r.status = c.status, r \in [left : [Flags -> Nat], status : SUBSET Flags],
         b.since = 0, b.irq = c.interrupt, b.line <= Line, InTime(b.due, r.left),
         opm' = c, board' = b, real' = r, writes' \in 0..MaxWrites
  PROVE  OpmInv'
<1>1. ChipInv'
  BY DEF ChipInv, Healthy
<1>2. BoardInv'
  <2>1. b.line \in Nat /\ b.due \in Nat \union {-1}
    BY DEF Board
  <2> QED BY <2>1 DEF BoardInv, Running, InTime
<1>3. RealInv'
  <2>1. \A f \in Flags : c.count[f] - 0 = c.count[f] /\ c.count[f] \in Int
    BY DEF Healthy, Opm
  <2>2. \A f \in Flags : ~Due(f)'
    BY DEF Due, Running
  <2>3. \A f \in Flags : r.left[f] = IF ~Running(f)' THEN 0 ELSE c.count[f] - 0
    BY <2>1 DEF Running
  <2> QED BY <2>2, <2>3 DEF RealInv
<1> QED BY <1>1, <1>2, <1>3 DEF OpmInv

LEMMA KnowingIs ==
  ASSUME Ym2151Assumption, OpmInv
  PROVE  LET c == Knowing(opm, real)
         IN /\ Healthy(c) /\ c.count = real.left /\ c.status = real.status
            /\ c.control = opm.control /\ c.period = opm.period
<1> DEFINE c == Knowing(opm, real)
<1>1. /\ c.count = real.left /\ c.status = real.status /\ c.interrupt = (real.status # {})
      /\ c.control = opm.control /\ c.period = opm.period
  BY DEF Knowing
<1>2. c \in Opm
  <2>1. real.left \in [Flags -> Int] /\ real.status \subseteq Flags
    BY DEF OpmInv, RealInv
  <2> QED BY <2>1 DEF OpmInv, ChipInv, Healthy, Opm, Knowing
<1>3. ASSUME NEW f \in Flags
      PROVE  c.period[f] > 0 /\ c.count[f] >= 0 /\ (c.count[f] # 0 <=> Load(f) \in c.control)
  <2>1. /\ real.left[f] \in Nat /\ (Running(f) => real.left[f] > 0) /\ (~Running(f) => real.left[f] = 0)
    BY Sinces DEF OpmInv, RealInv
  <2>2. opm.period[f] > 0 /\ (Running(f) <=> Load(f) \in opm.control)
    BY DEF OpmInv, ChipInv, Healthy, Running
  <2> HIDE DEF c
  <2> QED BY <1>1, <2>1, <2>2
<1> HIDE DEF c
<1> QED BY <1>1, <1>2, <1>3 DEF Healthy, c

\* n clocks, up to the event: no timer runs out before the last of them.
LEMMA PassKeeps ==
  ASSUME Ym2151Assumption, OpmInv, NEW n \in Nat, n > 0, Pass(n)
  PROVE  OpmInv'
<1> DEFINE b == [board EXCEPT !.since = @ + n, !.line = @ - n, !.due = IF @ = -1 THEN -1 ELSE @ - n]
           left == [f \in Flags |-> RealLeft(f, n)]
           met == {f \in Flags : real.left[f] \in 1..n /\ Enable(f) \in opm.control}
<1>1. /\ opm' = opm /\ writes' = writes /\ board' = b
      /\ real' = [left |-> left, status |-> real.status \union met]
      /\ n <= board.line /\ (board.due = -1 \/ n <= board.due)
  BY DEF Pass
<1>2. board.since \in Nat /\ board.line \in Nat /\ board.due \in Nat \union {-1}
  BY DEF OpmInv, BoardInv, Board
<1>3. /\ b \in Board /\ b.since = board.since + n /\ b.line = board.line - n
      /\ b.due = (IF board.due = -1 THEN -1 ELSE board.due - n) /\ b.irq = board.irq
  <2>1. /\ board.since + n \in Nat /\ board.line - n \in 0..Line
        /\ (IF board.due = -1 THEN -1 ELSE board.due - n) \in Nat \union {-1}
    <3>1. board.line \in 0..Line /\ Line \in Nat
      BY DEF Ym2151Assumption, OpmInv, BoardInv, Board
    <3> QED BY <1>1, <1>2, <3>1
  <2> QED BY <2>1 DEF OpmInv, BoardInv, Board
<1> HIDE DEF b, left, met
<1>4. ASSUME NEW f \in Flags
      PROVE  /\ ~Due(f)
             /\ Running(f) => board.due # -1 /\ real.left[f] = opm.count[f] - board.since
                              /\ n <= real.left[f] /\ board.since + board.due <= opm.count[f]
             /\ ~Running(f) => real.left[f] = 0
             /\ opm.count[f] \in Nat
  <2>1. /\ Running(f) => board.due # -1
        /\ board.due # -1 /\ Running(f) => board.since + board.due <= opm.count[f]
    BY DEF OpmInv, BoardInv
  <2>2. real.left[f] = IF ~Running(f) THEN 0 ELSE IF Due(f) THEN Full(f) ELSE opm.count[f] - board.since
    BY DEF OpmInv, RealInv
  <2>3. opm.count[f] \in Nat
    BY Sinces
  <2>4. ~Due(f)
    BY <1>1, <1>2, <2>1, <2>3 DEF Due
  <2> QED BY <1>1, <1>2, <2>1, <2>2, <2>3, <2>4
<1>5. BoardInv'
  <2>1. b.since + b.line <= Line
    BY <1>2, <1>3 DEF OpmInv, BoardInv
  <2>2. \A f \in Flags : /\ Running(f) => b.due # -1
                         /\ b.due # -1 /\ Running(f) => b.since + b.due <= opm.count[f]
    BY <1>1, <1>2, <1>3, <1>4
  <2>3. b.irq = opm.interrupt
    BY <1>3 DEF OpmInv, BoardInv
  <2> QED BY <1>1, <1>3, <2>1, <2>2, <2>3 DEF BoardInv, Running
<1>6. ASSUME NEW f \in Flags
      PROVE  LET now == Running(f) /\ opm.count[f] = board.since + n
             IN /\ left[f] \in Nat
                /\ left[f] = IF ~Running(f) THEN 0 ELSE IF now THEN Full(f) ELSE opm.count[f] - (board.since + n)
                /\ (real.left[f] \in 1..n) <=> now
  <2>1. left[f] = IF real.left[f] = 0 THEN 0 ELSE IF real.left[f] > n THEN real.left[f] - n
                  ELSE Again(real.left[f] - n, Full(f))
    BY DEF left, RealLeft, Full
  <2>2. Full(f) \in Nat /\ Full(f) > 0
    BY Reloaded DEF OpmInv
  <2>3. CASE ~Running(f)
    BY <1>4, <2>1, <2>3
  <2>4. CASE Running(f) /\ real.left[f] = n
    <3>1. Again(real.left[f] - n, Full(f)) = Full(f)
      <4>1. real.left[f] - n = 0
        BY <2>4
      <4> QED BY <2>2, <4>1, AgainIs
    <3>2. opm.count[f] = board.since + n
      BY <1>2, <1>4, <2>4
    <3> QED BY <2>1, <2>2, <2>4, <3>1, <3>2
  <2>5. CASE Running(f) /\ real.left[f] # n
    <3>1. real.left[f] > n /\ real.left[f] = opm.count[f] - board.since /\ real.left[f] - n \in Nat
          /\ real.left[f] # 0 /\ opm.count[f] # board.since + n
      BY <1>2, <1>4, <2>5
    <3> QED BY <1>2, <1>4, <2>1, <2>5, <3>1
  <2> QED BY <2>3, <2>4, <2>5
<1>7. RealInv'
  <2>1. left \in [Flags -> Nat]
    BY <1>6 DEF left
  <2>2. \A f \in Flags : Running(f)' = Running(f) /\ Full(f)' = Full(f)
                         /\ Due(f)' = (Running(f) /\ opm.count[f] = board.since + n)
    BY <1>1, <1>3 DEF Running, Due, Full
  <2>3. real.status = opm.status
    BY <1>4 DEF OpmInv, RealInv
  <2>4. met = {f \in Flags : Due(f)' /\ Enable(f) \in opm.control}
    BY <1>6, <2>2 DEF met
  <2>5. met \subseteq Flags /\ opm.status \subseteq Flags
    BY DEF met, OpmInv, ChipInv, Healthy, Opm
  <2>6. real' \in [left : [Flags -> Nat], status : SUBSET Flags]
    BY <1>1, <2>1, <2>3, <2>5
  <2>7. \A f \in Flags : left[f] = IF ~Running(f)' THEN 0 ELSE IF Due(f)' THEN Full(f)'
                                   ELSE opm.count[f] - (board.since + n)
    BY <1>6, <2>2
  <2> QED BY <1>1, <1>3, <2>3, <2>4, <2>6, <2>7 DEF RealInv
<1>8. ChipInv'
  BY <1>1 DEF OpmInv, ChipInv
<1> QED BY <1>1, <1>5, <1>7, <1>8 DEF OpmInv

LEMMA NotifiedIs ==
  ASSUME NEW b \in Board, NEW c, Healthy(c)
  PROVE  /\ Notified(b, c) \in Board /\ Notified(b, c).since = 0 /\ Notified(b, c).irq = c.interrupt
         /\ Notified(b, c).line = b.line /\ Notified(b, c).due = b.due
<1>1. c.interrupt \in BOOLEAN
  BY DEF Healthy, Opm
<1> QED BY <1>1 DEF Notified, Board

\* The chip is told, and nothing else: each of these ends in this lemma.
LEMMA TellingKeeps ==
  ASSUME Ym2151Assumption, OpmInv, NEW b \in Board, opm' = UpToDate, board' = Notified(b, opm'),
         InTime(b.due, real.left), b.line <= Line, UNCHANGED <<real, writes>>
  PROVE  OpmInv'
<1> DEFINE c == Knowing(opm, real)
<1>1. opm' = c
  BY ToldIsTrue
<1>2. Healthy(c) /\ c.count = real.left /\ c.status = real.status
  BY KnowingIs
<1> HIDE DEF c
<1>3. /\ Notified(b, c) \in Board /\ Notified(b, c).since = 0 /\ Notified(b, c).irq = c.interrupt
      /\ Notified(b, c).line = b.line /\ Notified(b, c).due = b.due
  BY <1>2, NotifiedIs
<1>4. board' = Notified(b, c) /\ real \in [left : [Flags -> Nat], status : SUBSET Flags]
  BY <1>1 DEF OpmInv, RealInv
<1>5. writes' \in 0..MaxWrites
  BY DEF OpmInv
<1> DEFINE n == Notified(b, c)
<1>6. n \in Board /\ n.since = 0 /\ n.irq = c.interrupt /\ n.line <= Line /\ InTime(n.due, real.left) /\ board' = n
  BY <1>3, <1>4
<1> HIDE DEF n
<1> QED BY <1>1, <1>2, <1>4, <1>5, <1>6, Renewed

\* Writing a period changes neither what counts nor what is left of it.
LEMMA PeriodKeeps ==
  ASSUME Ym2151Assumption, OpmInv, NEW f \in Flags, NEW p \in Nat \ {0},
         writes' \in 0..MaxWrites, opm' = [UpToDate EXCEPT !.period[f] = p],
         board' = Notified([board EXCEPT !.busy = TRUE], opm'), UNCHANGED real
  PROVE  OpmInv'
<1> DEFINE c == Knowing(opm, real)
           periods == [c.period EXCEPT ![f] = p]
           d == [c EXCEPT !.period[f] = p]
           b == [board EXCEPT !.busy = TRUE]
<1>1. UpToDate = c
  BY ToldIsTrue
<1>2. Healthy(c) /\ c.count = real.left /\ c.status = real.status
  BY KnowingIs
<1> HIDE DEF c
<1>3. Healthy(d) /\ d.count = real.left /\ d.status = real.status /\ d.interrupt = c.interrupt
  <2>1. periods \in [Flags -> Nat] /\ \A g \in Flags : periods[g] > 0
    BY <1>2 DEF Healthy, Opm
  <2>2. d = [c EXCEPT !.period = periods]
    BY <1>2 DEF Healthy, Opm
  <2> HIDE DEF periods, d
  <2>3. d \in Opm /\ d.period = periods /\ d.count = c.count /\ d.status = c.status
        /\ d.control = c.control /\ d.interrupt = c.interrupt
    BY <1>2, <2>1, <2>2 DEF Healthy, Opm
  <2> QED BY <1>2, <2>1, <2>3 DEF Healthy
<1>4. b \in Board /\ b.line = board.line /\ b.due = board.due
  BY DEF OpmInv, BoardInv, Board
<1>5. opm' = d
  BY <1>1
<1> HIDE DEF d, b
<1>6. /\ Notified(b, d) \in Board /\ Notified(b, d).since = 0 /\ Notified(b, d).irq = d.interrupt
      /\ Notified(b, d).line = b.line /\ Notified(b, d).due = b.due
  BY <1>3, <1>4, NotifiedIs
<1>7. board' = Notified(b, d) /\ real \in [left : [Flags -> Nat], status : SUBSET Flags]
      /\ board.line <= Line /\ InTime(board.due, real.left)
  <2>1. board.line \in 0..Line
    BY DEF OpmInv, BoardInv, Board
  <2> QED BY <1>5, <2>1, StillInTime DEF b, OpmInv, RealInv, Ym2151Assumption
<1> DEFINE n == Notified(b, d)
<1>8. n \in Board /\ n.since = 0 /\ n.irq = d.interrupt /\ n.line <= Line /\ InTime(n.due, real.left) /\ board' = n
  BY <1>4, <1>6, <1>7
<1> HIDE DEF n
<1> QED BY <1>3, <1>5, <1>7, <1>8, Renewed

LEMMA LoweredIs ==
  ASSUME NEW c, Healthy(c), NEW flags
  PROVE  LET d == Lowered(c, flags)
         IN /\ Healthy(d) /\ d.status = c.status \ flags
            /\ d.count = c.count /\ d.period = c.period /\ d.control = c.control
<1>1. CASE flags \cap c.status = {}
  BY <1>1 DEF Lowered
<1>2. CASE flags \cap c.status # {}
  <2> DEFINE left == c.status \ flags
             asks == c.interrupt /\ left # {}
  <2>1. Lowered(c, flags) = [c EXCEPT !.status = left, !.interrupt = asks]
    BY <1>2 DEF Lowered
  <2>2. c \in Opm /\ left \subseteq Flags /\ asks \in BOOLEAN /\ (asks <=> left # {})
    BY <1>2 DEF Healthy, Opm
  <2> HIDE DEF left, asks
  <2>3. LET d == Lowered(c, flags)
        IN /\ d \in Opm /\ d.status = left /\ d.interrupt = asks
           /\ d.count = c.count /\ d.period = c.period /\ d.control = c.control
    BY <2>1, <2>2 DEF Opm
  <2> DEFINE d == Lowered(c, flags)
  <2> HIDE DEF d
  <2>4. /\ d \in Opm /\ d.status = left /\ d.interrupt = asks
        /\ d.count = c.count /\ d.period = c.period /\ d.control = c.control
    BY <2>3 DEF d
  <2>5. Healthy(d)
    BY <2>2, <2>4 DEF Healthy
  <2> QED BY <2>4, <2>5 DEF d, left
<1> QED BY <1>1, <1>2

\* Register 14h loads and stops the real timers as it does the chip's.
LEMMA ControlKeeps ==
  ASSUME Ym2151Assumption, OpmInv, WriteControl PROVE OpmInv'
<1> DEFINE c == Knowing(opm, real)
<1>1. UpToDate = c
  BY ToldIsTrue
<1>2. Healthy(c) /\ c.count = real.left /\ c.status = real.status /\ c.control = opm.control /\ c.period = opm.period
  BY KnowingIs
<1>3. PICK control \in Controls :
        /\ writes < MaxWrites /\ writes' = writes + 1
        /\ opm' = Controlled(c, control)
        /\ board' = Notified([Scheduled(board, Controlled(c, control)) EXCEPT !.busy = TRUE], Controlled(c, control))
        /\ real' = [left |-> [f \in Flags |->
                       IF Load(f) \notin control THEN 0
                       ELSE IF Load(f) \in opm.control THEN real.left[f] ELSE opm.period[f] * Prescaler],
                    status |-> real.status \ {f \in Flags : Clear(f) \in control}]
  BY <1>1, Zenon DEF WriteControl, Written
<1> DEFINE cleared == {f \in Flags : Clear(f) \in control}
           l == Lowered(c, cleared)
           counts == [f \in Flags |->
                        IF (Load(f) \in control) <=> (Load(f) \in c.control) THEN c.count[f]
                        ELSE IF Load(f) \in control THEN c.period[f] * Prescaler ELSE 0]
           left == [f \in Flags |-> IF Load(f) \notin control THEN 0
                       ELSE IF Load(f) \in opm.control THEN real.left[f] ELSE opm.period[f] * Prescaler]
           d == Controlled(c, control)
<1> HIDE DEF c
<1>4. d = [l EXCEPT !.control = control, !.count = counts]
  BY Zenon DEF Controlled
<1>5. Healthy(l) /\ l.status = c.status \ cleared /\ l.count = c.count /\ l.period = c.period /\ l.control = c.control
  BY <1>2, LoweredIs
<1>6. ASSUME NEW f \in Flags
      PROVE  counts[f] = left[f] /\ left[f] \in Nat /\ (left[f] # 0 <=> Load(f) \in control)
  <2>1. opm.period[f] * Prescaler \in Nat /\ opm.period[f] * Prescaler > 0
    BY Reloaded DEF OpmInv, Full
  <2>2. /\ real.left[f] \in Nat /\ c.count[f] = real.left[f] /\ (real.left[f] # 0 <=> Load(f) \in opm.control)
    BY <1>2, Sinces DEF Healthy
  <2> QED BY <1>2, <2>1, <2>2
<1>7. counts = left /\ left \in [Flags -> Nat]
  BY <1>6
<1>8. control \in SUBSET {"loadA", "loadB", "irqA", "irqB", "resetA", "resetB"}
  BY DEF Ym2151Assumption
<1> HIDE DEF l, counts, left, d, cleared
<1>9. d \in Opm /\ d.control = control /\ d.count = left /\ d.status = c.status \ cleared
      /\ d.period = c.period /\ d.interrupt = l.interrupt
  <2>1. l \in Opm /\ counts \in [Flags -> Int] /\ counts = left
    BY <1>5, <1>7 DEF Healthy
  <2>2. d \in Opm /\ d.control = control /\ d.count = counts /\ d.status = l.status
        /\ d.period = l.period /\ d.interrupt = l.interrupt
    BY <1>4, <1>8, <2>1 DEF Opm
  <2> QED BY <1>5, <2>1, <2>2
<1>10. Healthy(d)
  <2>1. \A f \in Flags : left[f] >= 0
    BY <1>7
  <2> QED BY <1>2, <1>5, <1>6, <1>9, <2>1 DEF Healthy
<1> DEFINE s == Scheduled(board, d)
           b == [s EXCEPT !.busy = TRUE]
           n == Notified(b, d)
<1>11. board \in Board /\ board.line <= Line
  BY DEF OpmInv, BoardInv, Board, Ym2151Assumption
<1>12. s \in Board /\ InTime(s.due, left) /\ s.line = board.line
  BY <1>9, <1>10, <1>11, ScheduledIs
<1> HIDE DEF s
<1>13. b \in Board /\ b.due = s.due /\ b.line = s.line
  BY <1>12 DEF Board
<1> HIDE DEF b
<1>14. n \in Board /\ n.since = 0 /\ n.irq = d.interrupt /\ n.line = b.line /\ n.due = b.due
  BY <1>10, <1>13, NotifiedIs
<1> HIDE DEF n
<1> DEFINE r == [left |-> left, status |-> c.status \ cleared]
<1>15. opm' = d /\ board' = n /\ real' = r
  BY <1>2, <1>3 DEF d, n, b, s, left, cleared
<1>16. /\ r.left = d.count /\ r.status = d.status /\ r \in [left : [Flags -> Nat], status : SUBSET Flags]
       /\ InTime(n.due, r.left) /\ n.line <= Line
  <2>1. c.status \subseteq Flags
    BY <1>2 DEF Healthy, Opm
  <2> QED BY <1>7, <1>9, <1>11, <1>12, <1>13, <1>14, <2>1
<1>17. writes' \in 0..MaxWrites
  BY <1>3 DEF OpmInv, Ym2151Assumption
<1> HIDE DEF r
<1> QED BY <1>10, <1>14, <1>15, <1>16, <1>17, Renewed

\* The chip as initialize and reset leave it: nothing counts.
LEMMA AtResetOK ==
  ASSUME Ym2151Assumption, NEW o, o = AtReset
  PROVE  Healthy(o) /\ \A f \in Flags : o.count[f] = 0
<1>1. \A a, c \in Nat : a > 0 /\ c > 0 => a * c \in Nat /\ a * c > 0
  OBVIOUS
<1>2. FullA \in Nat /\ FullA > 0 /\ UnitB \in Nat /\ UnitB > 0 /\ FullB \in Nat /\ FullB > 0
  BY DEF Ym2151Assumption
<1>3. UnitB * FullB \in Nat /\ UnitB * FullB > 0
  BY <1>1, <1>2
<1>4. FullA \in Nat /\ FullA > 0 /\ UnitB * FullB \in Nat /\ UnitB * FullB > 0
  BY <1>2, <1>3
<1> QED BY <1>4 DEF AtReset, Healthy, Opm, Flags, Load

LEMMA OpmInit == ASSUME Ym2151Assumption, Init PROVE OpmInv
<1>1. /\ opm = AtReset /\ writes = 0 /\ board = [since |-> 0, due |-> -1, irq |-> FALSE, busy |-> FALSE, line |-> Line]
      /\ real = [left |-> [f \in Flags |-> 0], status |-> {}]
  BY DEF Init
<1>2. board \in Board /\ board.since + board.line <= Line
  BY <1>1 DEF Board, Ym2151Assumption
<1>3. Healthy(opm) /\ \A f \in Flags : opm.count[f] = 0
  BY <1>1, AtResetOK
<1>4. opm.interrupt = FALSE /\ opm.status = {}
  BY <1>1 DEF AtReset
<1>5. BoardInv
  BY <1>1, <1>2, <1>3, <1>4 DEF BoardInv, Running
<1>6. RealInv
  BY <1>1, <1>3, <1>4 DEF RealInv, Running, Due
<1> QED BY <1>1, <1>3, <1>5, <1>6 DEF OpmInv, ChipInv, Ym2151Assumption

LEMMA ResetKeeps ==
  ASSUME Ym2151Assumption, OpmInv, Reset PROVE OpmInv'
<1> DEFINE b == [board EXCEPT !.due = -1, !.irq = FALSE, !.busy = FALSE]
<1>1. /\ opm' = AtReset /\ writes' = writes /\ board' = b
      /\ real' = [left |-> [f \in Flags |-> 0], status |-> {}]
  BY DEF Reset
<1>2. b \in Board /\ b.since + b.line <= Line /\ b.irq = FALSE /\ b.due = -1
  BY DEF OpmInv, BoardInv, Board
<1> HIDE DEF b
<1>3. Healthy(opm') /\ \A f \in Flags : opm'.count[f] = 0
  BY <1>1, AtResetOK
<1>4. opm'.interrupt = FALSE /\ opm'.status = {}
  BY <1>1 DEF AtReset
<1>5. BoardInv'
  BY <1>1, <1>2, <1>3, <1>4 DEF BoardInv, Running
<1>6. RealInv'
  BY <1>1, <1>3, <1>4 DEF RealInv, Running, Due
<1> QED BY <1>1, <1>3, <1>5, <1>6 DEF OpmInv, ChipInv, Healthy

LEMMA OpmNext == Ym2151Assumption /\ OpmInv /\ [Next]_vars => OpmInv'
<1> SUFFICES ASSUME Ym2151Assumption, OpmInv, [Next]_vars PROVE OpmInv'
  OBVIOUS
<1>1. board \in Board /\ board.line \in Nat /\ board.line <= Line /\ writes \in 0..MaxWrites /\ Line \in Nat
  BY DEF OpmInv, BoardInv, Board, Ym2151Assumption
<1>2. ASSUME NEW n \in Pieces \union {board.due, board.line}, n > 0, Pass(n) PROVE OpmInv'
  <2>1. n \in Nat
    BY <1>1, <1>2 DEF Ym2151Assumption, Board
  <2> QED BY <1>2, <2>1, PassKeeps
<1>3. CASE Vline
  <2> DEFINE b == [board EXCEPT !.line = Line]
  <2>1. b \in Board /\ b.due = board.due /\ b.line <= Line
    BY <1>1 DEF Board
  <2>2. opm' = UpToDate /\ board' = Notified(b, opm') /\ UNCHANGED <<real, writes>>
    BY <1>3 DEF Vline
  <2> HIDE DEF b
  <2> QED BY <2>1, <2>2, StillInTime, TellingKeeps
<1>4. CASE Fire
  <2> DEFINE b == [board EXCEPT !.due = -1]
             s == Scheduled(b, UpToDate)
  <2>1. b \in Board /\ b.line <= Line
    BY <1>1 DEF Board
  <2>2. opm' = UpToDate /\ board' = Notified(s, opm') /\ UNCHANGED <<real, writes>>
    BY <1>4 DEF Fire
  <2>3. Healthy(UpToDate) /\ UpToDate.count = real.left
    BY ToldIsTrue, KnowingIs
  <2> HIDE DEF b
  <2>4. s \in Board /\ InTime(s.due, real.left) /\ s.line <= Line
    BY <2>1, <2>3, ScheduledIs
  <2> HIDE DEF s
  <2> QED BY <2>2, <2>4, TellingKeeps
<1>5. CASE Read
  <2> DEFINE b == [board EXCEPT !.busy = FALSE]
  <2>1. b \in Board /\ b.due = board.due /\ b.line <= Line
    BY <1>1 DEF Board
  <2>2. opm' = UpToDate /\ board' = Notified(b, opm') /\ UNCHANGED <<real, writes>>
    BY <1>5 DEF Read
  <2> HIDE DEF b
  <2> QED BY <2>1, <2>2, StillInTime, TellingKeeps
<1>6. CASE WriteA
  <2>1. PICK v \in ValuesA : Written(SetTimerA(UpToDate, v), board) /\ UNCHANGED real
    BY <1>6 DEF WriteA
  <2>2. FullA - v \in Nat \ {0} /\ writes' \in 0..MaxWrites
    BY <1>1, <2>1 DEF Written, Ym2151Assumption
  <2>3. opm' = [UpToDate EXCEPT !.period["A"] = FullA - v] /\ board' = Notified([board EXCEPT !.busy = TRUE], opm')
    BY <2>1 DEF Written, SetTimerA
  <2> QED BY <2>1, <2>2, <2>3, PeriodKeeps DEF Flags
<1>7. CASE WriteB
  <2>1. PICK v \in ValuesB : Written(SetTimerB(UpToDate, v), board) /\ UNCHANGED real
    BY <1>7 DEF WriteB
  <2>2. UnitB * (FullB - v) \in Nat \ {0} /\ writes' \in 0..MaxWrites
    <3>1. \A a, c \in Nat : a > 0 /\ c > 0 => a * c \in Nat /\ a * c > 0
      OBVIOUS
    <3>2. UnitB \in Nat /\ UnitB > 0 /\ FullB - v \in Nat /\ FullB - v > 0
      BY DEF Ym2151Assumption
    <3>3. UnitB * (FullB - v) \in Nat /\ UnitB * (FullB - v) > 0
      BY <3>1, <3>2
    <3>4. writes' \in 0..MaxWrites
      BY <1>1, <2>1 DEF Written, Ym2151Assumption
    <3> HIDE DEF Flags
    <3> QED BY <3>3, <3>4
  <2>3. opm' = [UpToDate EXCEPT !.period["B"] = UnitB * (FullB - v)] /\ board' = Notified([board EXCEPT !.busy = TRUE], opm')
    BY <2>1 DEF Written, SetTimerB
  <2> QED BY <2>1, <2>2, <2>3, PeriodKeeps DEF Flags
<1>8. CASE WriteControl
  BY <1>8, ControlKeeps
<1>9. CASE Reset
  BY <1>9, ResetKeeps
<1>10. CASE UNCHANGED vars
  BY <1>10 DEF vars, OpmInv, ChipInv, BoardInv, RealInv, Running, Due, Full
<1> QED BY <1>2, <1>3, <1>4, <1>5, <1>6, <1>7, <1>8, <1>9, <1>10 DEF Next

\* For any prescaler, line, periods and writes, a status that is read is that of
\* timers which count by themselves, though the chip is told of the time only now
\* and then, no timer runs out before its event, and the request is there as long
\* as a flag is (update_count, update_event and update_interrupt in ym2151.cpp).
THEOREM TimersAreTrue ==
  ASSUME Ym2151Assumption
  PROVE  Spec => []TimersKeepTime
<1>1. OpmInv => TimersKeepTime
  <2> SUFFICES ASSUME OpmInv PROVE TimersKeepTime
    OBVIOUS
  <2>1. StatusIsTrue
    BY ToldIsTrue, KnowingIs DEF StatusIsTrue
  <2>2. InTime(board.due, real.left) /\ real.left \in [Flags -> Nat] /\ board.due \in Nat \union {-1}
    BY StillInTime DEF OpmInv, RealInv, BoardInv, Board
  <2>3. board.due # 0 => (board.irq <=> real.status # {})
    <3> SUFFICES ASSUME board.due # 0 PROVE board.irq <=> real.status # {}
      OBVIOUS
    <3>1. ASSUME NEW f \in Flags PROVE ~Due(f)
      <4>1. opm.count[f] \in Nat /\ board.since \in Nat
        BY Sinces
      <4>2. /\ board.due = -1 => ~Running(f)
            /\ board.due # -1 /\ Running(f) => board.since + board.due <= opm.count[f]
        BY DEF OpmInv, BoardInv
      <4> QED BY <2>2, <4>1, <4>2 DEF Due
    <3>2. real.status = opm.status
      BY <3>1 DEF OpmInv, RealInv
    <3>3. (opm.interrupt <=> opm.status # {}) /\ board.irq = opm.interrupt
      BY DEF OpmInv, ChipInv, Healthy, BoardInv
    <3> QED BY <3>2, <3>3
  <2>4. RequestInTime
    BY <2>2, <2>3 DEF RequestInTime, InTime
  <2> QED BY <2>1, <2>4 DEF TimersKeepTime
<1>2. Init => OpmInv
  BY OpmInit
<1>3. OpmInv /\ [Next]_vars => OpmInv'
  BY OpmNext
<1> QED BY <1>1, <1>2, <1>3, PTL DEF Spec

(* ------------------------------ envelopes ------------------------------ *)
\* The fields of an operator.
OpTypes == [phase : Phases, level : Int, next : Nat, rate : 0..63, curve : 0..7,
            tl : 0..127, latch : 0..127, shown : Nat,
            ar : 0..63, dr : 0..63, sr : 0..63, sl : 0..124, rr : 0..63, ks : 0..3,
            kc : Byte, kf : 0..63, pitch : Nat, scale : 0..31,
            keyon : BOOLEAN, changed : BOOLEAN, csm : BOOLEAN, latched : BOOLEAN, deaf : BOOLEAN]
\* What a function of an operator may be given: its level inside the table, and a release that goes on.
Kept(o) == o \in OpTypes /\ 8 * o.sl <= Top /\ o.next <= Top /\ o.rr >= 2 /\ o.pitch = Pitch(o.kc, o.kf)
Sane(o) == Kept(o) /\ o.level \in 0..(Top + 15)
\* The parameters have been used, but for what goes with the phase.
Used(o) == ~o.changed => (o.latched \/ o.shown = 8 * o.tl) /\ o.scale = Block(o.kc) \div 2^(3 - o.ks)
\* and what does.
InPhase(o) ==
  /\ ~o.changed => /\ o.rate = RateOf(o, o.phase) /\ (o.phase = "decay" => o.next = 8 * o.sl)
                   /\ (o.phase = "release" => o.rate >= 2)
  /\ o.phase = "off" => o.level = Bottom /\ o.rate = 0
  /\ o.phase \in {"sustain", "release"} => o.next = Top
KeyHeard(o) ==
  /\ o.keyon => o.phase # "release"
  /\ ~o.keyon => o.phase \in {"release", "off"}
  /\ o.deaf => o.keyon /\ o.phase = "off"
OpInv(o) == Sane(o) /\ Used(o) /\ InPhase(o) /\ KeyHeard(o)

OpFields == {"phase", "level", "next", "rate", "curve", "tl", "latch", "shown", "ar", "dr", "sr", "sl", "rr", "ks",
             "kc", "kf", "pitch", "scale", "keyon", "changed", "csm", "latched", "deaf"}
LEMMA OpShape ==
  ASSUME NEW o \in OpTypes PROVE DOMAIN o = OpFields
BY DEF OpTypes, OpFields

OpCounts(o) ==
  /\ o.phase \in Phases /\ o.level \in Int /\ o.next \in Nat /\ o.rate \in 0..63 /\ o.curve \in 0..7
  /\ o.tl \in 0..127 /\ o.latch \in 0..127 /\ o.shown \in Nat /\ o.ar \in 0..63 /\ o.dr \in 0..63
  /\ o.sr \in 0..63 /\ o.sl \in 0..124 /\ o.rr \in 0..63 /\ o.ks \in 0..3 /\ o.kc \in Byte /\ o.kf \in 0..63
  /\ o.pitch \in Nat /\ o.scale \in 0..31
OpFlags(o) ==
  o.keyon \in BOOLEAN /\ o.changed \in BOOLEAN /\ o.csm \in BOOLEAN /\ o.latched \in BOOLEAN /\ o.deaf \in BOOLEAN
OpTyped(o) == OpCounts(o) /\ OpFlags(o)
LEMMA OpIs ==
  ASSUME NEW o \in OpTypes PROVE OpTyped(o) /\ o = [x \in OpFields |-> o[x]]
BY DEF OpTypes, OpFields, OpTyped, OpCounts, OpFlags
LEMMA OpIsOne ==
  ASSUME NEW o, o = [x \in OpFields |-> o[x]], OpTyped(o) PROVE o \in OpTypes
BY DEF OpTypes, OpFields, OpTyped, OpCounts, OpFlags
LEMMA SmallPowers ==
  /\ \A n \in 0..7 : 2^n \in {1, 2, 4, 8, 16, 32, 64, 128}
  /\ \A n \in 0..4 : 2^n \in {1, 2, 4, 8, 16}
  /\ \A n \in 0..2 : 2^n \in {1, 2, 4}
<1>1. 2^0 = 1 /\ 2^1 = 2 /\ 2^2 = 4 /\ 2^3 = 8 /\ 2^4 = 16 /\ 2^5 = 32 /\ 2^6 = 64 /\ 2^7 = 128
  OBVIOUS
<1>2. \A n \in 0..7 : n = 0 \/ n = 1 \/ n = 2 \/ n = 3 \/ n = 4 \/ n = 5 \/ n = 6 \/ n = 7
  OBVIOUS
<1>3. \A n \in 0..4 : n = 0 \/ n = 1 \/ n = 2 \/ n = 3 \/ n = 4
  OBVIOUS
<1> QED BY <1>1, <1>2, <1>3

LEMMA RateFits ==
  ASSUME NEW o, o \in OpTypes, NEW phase \in Phases
  PROVE  /\ RateOf(o, phase) \in 0..63
         /\ phase = "off" => RateOf(o, phase) = 0
         /\ phase = "release" /\ o.rr >= 2 => RateOf(o, phase) >= 2
<1>1. /\ o.ar \in 0..63 /\ o.dr \in 0..63 /\ o.sr \in 0..63 /\ o.rr \in 0..63 /\ o.scale \in 0..31
  BY DEF OpTypes
<1>2. CASE phase = "release"
  <2>1. RateOf(o, phase) = Least(63, o.rr + o.scale)
    BY <1>2 DEF RateOf
  <2> QED BY <1>1, <1>2, <2>1 DEF Least
<1>3. CASE phase = "off"
  BY <1>3 DEF RateOf
<1>4. CASE phase \in {"attack", "decay", "sustain"}
  <2>1. PICK given \in 0..63 : RateOf(o, phase) = IF given = 0 THEN 0 ELSE Least(63, given + o.scale)
    BY <1>1, <1>4 DEF RateOf
  <2> QED BY <1>1, <1>4, <2>1 DEF Least
<1> QED BY <1>2, <1>3, <1>4 DEF Phases

LEMMA RateIsOf ==
  ASSUME NEW o, NEW r, NEW phase, r.ar = o.ar, r.dr = o.dr, r.sr = o.sr, r.rr = o.rr, r.scale = o.scale
  PROVE  RateOf(r, phase) = RateOf(o, phase)
BY DEF RateOf

LEMMA StepFits ==
  ASSUME NEW rate \in 0..63, NEW i \in 0..7
  PROVE  /\ DecayStep(rate, i) \in {0, 1, 2, 4, 8, 16}
         /\ AttackShift(rate, i) = -1 \/ AttackShift(rate, i) \in 0..4
<1>1. DecayStep(rate, i) \in {0, 1, 2, 4, 8, 16}
  <2>1. CASE rate >= 48 /\ rate < 60
    <3>1. (rate - 48) \div 4 \in 0..2
      BY <2>1
    <3>2. 2^((rate - 48) \div 4) \in {1, 2, 4}
      BY <3>1, SmallPowers
    <3>3. 1 + One(i \in Doubled[1 + (rate % 4)]) \in {1, 2}
      BY DEF One
    <3> QED BY <2>1, <3>2, <3>3 DEF DecayStep
  <2>2. CASE ~(rate >= 48 /\ rate < 60)
    BY <2>2 DEF DecayStep, One
  <2> QED BY <2>1, <2>2
<1>2. CASE DecayStep(rate, i) = 0
  BY <1>1, <1>2 DEF AttackShift
<1>3. CASE DecayStep(rate, i) # 0
  <2> DEFINE add == DecayStep(rate, i)
  <2>1. \E c \in 0..4 : 2^(4 - c) = add
    <3>1. 2^(4 - 4) = 1 /\ 2^(4 - 3) = 2 /\ 2^(4 - 2) = 4 /\ 2^(4 - 1) = 8 /\ 2^(4 - 0) = 16
      OBVIOUS
    <3> QED BY <1>1, <1>3, <3>1
  <2>2. AttackShift(rate, i) = CHOOSE c \in 0..4 : 2^(4 - c) = add
    BY <1>3 DEF AttackShift
  <2> HIDE DEF add
  <2>3. (CHOOSE c \in 0..4 : 2^(4 - c) = add) \in 0..4
    BY <2>1, Zenon
  <2> QED BY <1>1, <2>2, <2>3
<1> QED BY <1>1, <1>2, <1>3

LEMMA ScaleFits ==
  ASSUME NEW kc \in Byte, NEW ks \in 0..3
  PROVE  Block(kc) \div 2^(3 - ks) \in 0..31
<1>1. 2^(3 - ks) \in {1, 2, 4, 8, 16}
  <2>1. 3 - ks \in 0..4
    OBVIOUS
  <2> QED BY <2>1, SmallPowers
<1>2. Block(kc) \in 0..31
  BY DEF Block, Byte
<1> QED BY <1>1, <1>2

LEMMA PitchFits ==
  ASSUME NEW kc \in Byte, NEW kf \in 0..63
  PROVE  Pitch(kc, kf) \in Nat
<1>1. KeyCodes[1 + (kc % 16)] \in Nat
  BY DEF Byte, KeyCodes
<1>2. Fractions[1 + kf] \in Nat
  <2>1. \A i \in 1..64 : Fractions[i] \in Nat
    BY DEF Fractions
  <2> QED BY <2>1
<1>3. 2^Octave(kc) \in Nat
  <2>1. Octave(kc) \in 0..7
    BY DEF Octave, Byte
  <2>2. 2^Octave(kc) \in {1, 2, 4, 8, 16, 32, 64, 128}
    BY <2>1, SmallPowers
  <2> QED BY <2>2
<1> DEFINE base == 4 * ((KeyCodes[1 + (kc % 16)] + 2) \div 4)
           whole == base * Fractions[1 + kf]
<1>4. base \in Nat
  BY <1>1
<1> HIDE DEF base
<1>5. whole \in Nat
  BY <1>2, <1>4
<1>6. Pitch(kc, kf) = (whole \div 2^19) * 2^Octave(kc)
  BY DEF Pitch, base
<1> HIDE DEF whole
<1>7. whole \div 2^19 \in Nat
  BY <1>5
<1> QED BY <1>3, <1>6, <1>7

(* The phases. *)
KeyOf(o, r) == r.keyon = o.keyon /\ r.deaf = o.deaf
LEMMA OffGoes ==
  ASSUME FmOperatorAssumption, NEW o, Kept(o), Used(o)
  PROVE  LET r == Off(o)
         IN Sane(r) /\ Used(r) /\ InPhase(r) /\ KeyOf(o, r) /\ r.phase = "off" /\ r.level = Bottom
<1> DEFINE r == Off(o)
<1>1. o \in OpTypes /\ Bottom \in 0..Top /\ Top \in Nat /\ "off" \in Phases
  BY DEF Sane, Kept, FmOperatorAssumption, Phases
<1>2. r \in OpTypes
  <2>1. r = [x \in OpFields |-> r[x]]
    BY <1>1, OpIs, OpShape DEF Off
  <2>2. OpTyped(r)
    BY <1>1, OpIs, OpShape DEF OpTyped, OpCounts, OpFlags, OpFields, Off
  <2> QED BY <2>1, <2>2, OpIsOne
<1>3. /\ r.phase = "off" /\ r.level = Bottom /\ r.next = Bottom /\ r.rate = 0 /\ KeyOf(o, r)
      /\ r.sl = o.sl /\ r.rr = o.rr /\ r.pitch = o.pitch /\ r.kc = o.kc /\ r.kf = o.kf /\ r.changed = o.changed
      /\ r.latched = o.latched /\ r.shown = o.shown /\ r.tl = o.tl /\ r.scale = o.scale /\ r.ks = o.ks
  BY <1>1, OpShape DEF Off, OpFields, KeyOf
<1> HIDE DEF r
<1>4. Sane(r)
  BY <1>1, <1>2, <1>3 DEF Sane, Kept
<1>5. Used(r)
  BY <1>3 DEF Used
<1>6. InPhase(r)
  <2>1. RateOf(r, "off") = 0
    BY <1>1, <1>2, RateFits
  <2>2. r.rate = RateOf(r, r.phase)
    BY <1>3, <2>1
  <2> QED BY <1>3, <2>2 DEF InPhase
<1> QED BY <1>3, <1>4, <1>5, <1>6 DEF r

LEMMA ReleaseGoes ==
  ASSUME FmOperatorAssumption, NEW o, Kept(o), Used(o), o.level >= 0, o.phase = "attack" => o.level <= Top + 15
  PROVE  LET r == Release(o)
         IN /\ Sane(r) /\ Used(r) /\ InPhase(r) /\ KeyOf(o, r)
            /\ \/ (o.phase = "attack" \/ o.level < Bottom) /\ r.phase = "release" /\ r.level = o.level
               \/ ~(o.phase = "attack" \/ o.level < Bottom) /\ r.phase = "off"
<1>1. CASE ~(o.phase = "attack" \/ o.level < Bottom)
  BY <1>1, OffGoes DEF Release
<1>2. CASE o.phase = "attack" \/ o.level < Bottom
  <2> DEFINE rate == RateOf(o, "release")
             r == [o EXCEPT !.phase = "release", !.next = Top, !.rate = rate]
  <2>1. o \in OpTypes /\ Top \in Nat /\ "release" \in Phases
    BY DEF Sane, Kept, FmOperatorAssumption, Phases
  <2>2. rate \in 0..63 /\ rate >= 2
    BY <2>1, RateFits DEF Sane, Kept
  <2>3. RateOf(r, "release") = rate
    <3>1. r.ar = o.ar /\ r.dr = o.dr /\ r.sr = o.sr /\ r.rr = o.rr /\ r.scale = o.scale
      BY <2>1, OpShape DEF OpFields
    <3> HIDE DEF r
    <3> QED BY <3>1, RateIsOf
  <2>4. Release(o) = r
    BY <1>2 DEF Release
  <2> HIDE DEF rate
  <2>5. r \in OpTypes
    <3>1. r = [x \in OpFields |-> r[x]]
      BY <2>1, <2>2, OpIs, OpShape
    <3>2. OpTyped(r)
      BY <2>1, <2>2, OpIs, OpShape DEF OpTyped, OpCounts, OpFlags, OpFields
    <3> QED BY <3>1, <3>2, OpIsOne
  <2>6. /\ r.phase = "release" /\ r.level = o.level /\ r.next = Top /\ r.rate = rate /\ KeyOf(o, r)
        /\ r.sl = o.sl /\ r.rr = o.rr /\ r.pitch = o.pitch /\ r.kc = o.kc /\ r.kf = o.kf /\ r.changed = o.changed
        /\ r.latched = o.latched /\ r.shown = o.shown /\ r.tl = o.tl /\ r.scale = o.scale /\ r.ks = o.ks
    BY <2>1, OpShape DEF OpFields, KeyOf
  <2> HIDE DEF r
  <2>7. Sane(r)
    <3>1. o.level \in Int
      BY <2>1, OpIs DEF OpTyped, OpCounts, OpFlags
    <3>2. o.level <= Top + 15
      BY <1>2, <2>1, <3>1 DEF FmOperatorAssumption
    <3> QED BY <2>1, <2>5, <2>6, <3>1, <3>2 DEF Sane, Kept
  <2>8. Used(r)
    BY <2>6 DEF Used
  <2>9. InPhase(r)
    BY <2>2, <2>3, <2>6 DEF InPhase
  <2> QED BY <1>2, <2>4, <2>6, <2>7, <2>8, <2>9
<1> QED BY <1>1, <1>2

LEMMA SustainGoes ==
  ASSUME FmOperatorAssumption, NEW o, Kept(o), Used(o)
  PROVE  LET r == Sustain(o)
         IN Sane(r) /\ Used(r) /\ InPhase(r) /\ KeyOf(o, r) /\ r.phase = "sustain" /\ r.level = 8 * o.sl
<1> DEFINE rate == RateOf(o, "sustain")
           r == [o EXCEPT !.phase = "sustain", !.level = 8 * o.sl, !.next = Top, !.rate = rate]
<1>1. o \in OpTypes /\ Top \in Nat /\ "sustain" \in Phases /\ o.sl \in 0..124
  BY DEF Sane, Kept, FmOperatorAssumption, Phases, OpTypes
<1>2. rate \in 0..63
  BY <1>1, RateFits
<1>3. RateOf(r, "sustain") = rate
  <2>1. r.ar = o.ar /\ r.dr = o.dr /\ r.sr = o.sr /\ r.rr = o.rr /\ r.scale = o.scale
    BY <1>1, OpShape DEF OpFields
  <2> HIDE DEF r
  <2> QED BY <2>1, RateIsOf
<1>4. Sustain(o) = r
  BY DEF Sustain
<1> HIDE DEF rate
<1>5. r \in OpTypes
  <2>1. r = [x \in OpFields |-> r[x]]
    BY <1>1, <1>2, OpIs, OpShape
  <2>2. OpTyped(r)
    BY <1>1, <1>2, OpIs, OpShape DEF OpTyped, OpCounts, OpFlags, OpFields
  <2> QED BY <2>1, <2>2, OpIsOne
<1>6. /\ r.phase = "sustain" /\ r.level = 8 * o.sl /\ r.next = Top /\ r.rate = rate /\ KeyOf(o, r)
      /\ r.sl = o.sl /\ r.rr = o.rr /\ r.pitch = o.pitch /\ r.kc = o.kc /\ r.kf = o.kf /\ r.changed = o.changed
      /\ r.latched = o.latched /\ r.shown = o.shown /\ r.tl = o.tl /\ r.scale = o.scale /\ r.ks = o.ks
  BY <1>1, OpShape DEF OpFields, KeyOf
<1> HIDE DEF r
<1>7. Sane(r)
  BY <1>1, <1>5, <1>6 DEF Sane, Kept
<1>8. Used(r)
  BY <1>6 DEF Used
<1>9. InPhase(r)
  BY <1>2, <1>3, <1>6 DEF InPhase
<1> QED BY <1>4, <1>6, <1>7, <1>8, <1>9

LEMMA DecayGoes ==
  ASSUME FmOperatorAssumption, NEW o, Kept(o), Used(o)
  PROVE  LET r == Decay(o)
         IN /\ Sane(r) /\ Used(r) /\ InPhase(r) /\ KeyOf(o, r) /\ r.phase \in {"decay", "sustain"} /\ r.level = 0
<1>1. CASE o.sl = 0
  BY <1>1, SustainGoes DEF Decay
<1>2. CASE o.sl # 0
  <2> DEFINE rate == RateOf(o, "decay")
             r == [o EXCEPT !.phase = "decay", !.level = 0, !.next = 8 * o.sl, !.rate = rate]
  <2>1. o \in OpTypes /\ Top \in Nat /\ "decay" \in Phases /\ o.sl \in 0..124 /\ 8 * o.sl <= Top
    BY DEF Sane, Kept, FmOperatorAssumption, Phases, OpTypes
  <2>2. rate \in 0..63
    BY <2>1, RateFits
  <2>3. RateOf(r, "decay") = rate
    <3>1. r.ar = o.ar /\ r.dr = o.dr /\ r.sr = o.sr /\ r.rr = o.rr /\ r.scale = o.scale
      BY <2>1, OpShape DEF OpFields
    <3> HIDE DEF r
    <3> QED BY <3>1, RateIsOf
  <2>4. Decay(o) = r
    BY <1>2 DEF Decay
  <2> HIDE DEF rate
  <2>5. r \in OpTypes
    <3>1. r = [x \in OpFields |-> r[x]]
      BY <2>1, <2>2, OpIs, OpShape
    <3>2. OpTyped(r)
      BY <2>1, <2>2, OpIs, OpShape DEF OpTyped, OpCounts, OpFlags, OpFields
    <3> QED BY <3>1, <3>2, OpIsOne
  <2>6. /\ r.phase = "decay" /\ r.level = 0 /\ r.next = 8 * o.sl /\ r.rate = rate /\ KeyOf(o, r)
        /\ r.sl = o.sl /\ r.rr = o.rr /\ r.pitch = o.pitch /\ r.kc = o.kc /\ r.kf = o.kf /\ r.changed = o.changed
        /\ r.latched = o.latched /\ r.shown = o.shown /\ r.tl = o.tl /\ r.scale = o.scale /\ r.ks = o.ks
    BY <2>1, OpShape DEF OpFields, KeyOf
  <2> HIDE DEF r
  <2>7. Sane(r)
    BY <2>1, <2>5, <2>6 DEF Sane, Kept
  <2>8. Used(r)
    BY <2>6 DEF Used
  <2>9. InPhase(r)
    BY <2>2, <2>3, <2>6 DEF InPhase
  <2> QED BY <2>4, <2>6, <2>7, <2>8, <2>9
<1> QED BY <1>1, <1>2

LEMMA AttackGoes ==
  ASSUME FmOperatorAssumption, NEW o, Sane(o), Used(o)
  PROVE  LET r == Attack(o)
         IN /\ Sane(r) /\ Used(r) /\ InPhase(r) /\ KeyOf(o, r)
            /\ \/ r.phase = "attack" /\ r.level = o.level
               \/ r.phase \in {"decay", "sustain"} /\ r.level = 0
<1> DEFINE a == [o EXCEPT !.tl = o.latch, !.latched = @ \/ o.tl # o.latch]
<1>1. o \in OpTypes /\ Top \in Nat /\ "attack" \in Phases
  BY DEF Sane, Kept, FmOperatorAssumption, Phases
<1>2. a \in OpTypes
  <2>1. a = [x \in OpFields |-> a[x]]
    BY <1>1, OpIs, OpShape
  <2>2. OpTyped(a)
    BY <1>1, OpIs, OpShape DEF OpTyped, OpCounts, OpFlags, OpFields
  <2> QED BY <2>1, <2>2, OpIsOne
<1>3. /\ a.level = o.level /\ a.next = o.next /\ KeyOf(o, a) /\ a.tl = o.latch /\ a.latched = (o.latched \/ o.tl # o.latch)
      /\ a.sl = o.sl /\ a.rr = o.rr /\ a.pitch = o.pitch /\ a.kc = o.kc /\ a.kf = o.kf /\ a.changed = o.changed
      /\ a.shown = o.shown /\ a.scale = o.scale /\ a.ks = o.ks
  BY <1>1, OpShape DEF OpFields, KeyOf
<1>4. Attack(o) = IF o.ar + o.scale < 62 THEN [a EXCEPT !.phase = "attack", !.rate = RateOf(o, "attack")] ELSE Decay(a)
  BY DEF Attack
<1>5. RateOf(a, "attack") = RateOf(o, "attack")
  <2>1. a.ar = o.ar /\ a.dr = o.dr /\ a.sr = o.sr /\ a.rr = o.rr /\ a.scale = o.scale
    BY <1>1, OpShape DEF OpFields
  <2> HIDE DEF a
  <2> QED BY <2>1, RateIsOf
<1> HIDE DEF a
<1>6. Sane(a)
  BY <1>1, <1>2, <1>3 DEF Sane, Kept
<1>7. Used(a)
  BY <1>3 DEF Used
<1>8. CASE ~(o.ar + o.scale < 62)
  BY <1>3, <1>4, <1>6, <1>7, <1>8, DecayGoes DEF KeyOf, Sane
<1>9. CASE o.ar + o.scale < 62
  <2> DEFINE rate == RateOf(a, "attack")
             r == [a EXCEPT !.phase = "attack", !.rate = rate]
  <2>1. rate \in 0..63
    BY <1>1, <1>2, RateFits
  <2>2. RateOf(r, "attack") = rate
    <3>1. r.ar = a.ar /\ r.dr = a.dr /\ r.sr = a.sr /\ r.rr = a.rr /\ r.scale = a.scale
      BY <1>2, OpShape DEF OpFields
    <3> HIDE DEF r
    <3> QED BY <3>1, RateIsOf
  <2>3. Attack(o) = r
    BY <1>4, <1>5, <1>9
  <2> HIDE DEF rate
  <2>4. r \in OpTypes
    <3>1. r = [x \in OpFields |-> r[x]]
      BY <1>1, <1>2, <2>1, OpIs, OpShape
    <3>2. OpTyped(r)
      BY <1>1, <1>2, <2>1, OpIs, OpShape DEF OpTyped, OpCounts, OpFlags, OpFields
    <3> QED BY <3>1, <3>2, OpIsOne
  <2>5. /\ r.phase = "attack" /\ r.level = a.level /\ r.next = a.next /\ r.rate = rate /\ KeyOf(a, r)
        /\ r.sl = a.sl /\ r.rr = a.rr /\ r.pitch = a.pitch /\ r.kc = a.kc /\ r.kf = a.kf /\ r.changed = a.changed
        /\ r.latched = a.latched /\ r.shown = a.shown /\ r.tl = a.tl /\ r.scale = a.scale /\ r.ks = a.ks
    BY <1>2, OpShape DEF OpFields, KeyOf
  <2> HIDE DEF r
  <2>6. Sane(r)
    BY <1>6, <2>4, <2>5 DEF Sane, Kept
  <2>7. Used(r)
    BY <1>7, <2>5 DEF Used
  <2>8. InPhase(r)
    BY <2>1, <2>2, <2>5 DEF InPhase
  <2> QED BY <1>3, <2>3, <2>5, <2>6, <2>7, <2>8 DEF KeyOf
<1> QED BY <1>8, <1>9

(* What is done to an operator. *)
LEMMA PrepareKeeps ==
  ASSUME FmOperatorAssumption, NEW o, OpInv(o)
  PROVE  LET r == Prepared(o) IN OpInv(r) /\ r.level = o.level /\ r.phase = o.phase /\ KeyOf(o, r)
<1> DEFINE scale == Block(o.kc) \div 2^(3 - o.ks)
           p == [o EXCEPT !.changed = FALSE, !.scale = scale, !.shown = 8 * o.tl, !.latched = FALSE]
           rate == RateOf(p, o.phase)
           next == IF o.phase = "decay" THEN 8 * o.sl ELSE o.next
           r == [p EXCEPT !.rate = rate, !.next = next]
<1>1. /\ o \in OpTypes /\ Top \in Nat /\ o.phase \in Phases /\ o.kc \in Byte /\ o.ks \in 0..3 /\ o.tl \in 0..127
      /\ o.sl \in 0..124 /\ o.next \in Nat
  BY OpIs DEF OpInv, Sane, Kept, FmOperatorAssumption, OpTyped, OpCounts, OpFlags
<1>2. scale \in 0..31 /\ 8 * o.tl \in Nat
  <2>1. scale \in 0..31
    BY <1>1, ScaleFits, Zenon
  <2> QED BY <1>1, <2>1
<1>3. Prepared(o) = r
  <2>1. p.next = o.next
    BY <1>1, OpShape DEF OpFields
  <2> QED BY <2>1 DEF Prepared
<1> HIDE DEF scale
<1>4. p \in OpTypes
  <2>1. p = [x \in OpFields |-> p[x]]
    BY <1>1, <1>2, OpIs, OpShape
  <2>2. OpTyped(p)
    BY <1>1, <1>2, OpIs, OpShape DEF OpTyped, OpCounts, OpFlags, OpFields
  <2> QED BY <2>1, <2>2, OpIsOne
<1>5. /\ p.phase = o.phase /\ p.level = o.level /\ p.next = o.next /\ KeyOf(o, p) /\ p.scale = scale
      /\ p.sl = o.sl /\ p.rr = o.rr /\ p.pitch = o.pitch /\ p.kc = o.kc /\ p.kf = o.kf /\ p.changed = FALSE
      /\ p.shown = 8 * o.tl /\ p.tl = o.tl /\ p.ks = o.ks
  BY <1>1, OpShape DEF OpFields, KeyOf
<1> HIDE DEF p
<1>6. /\ rate \in 0..63 /\ (o.phase = "release" => rate >= 2) /\ (o.phase = "off" => rate = 0)
  BY <1>1, <1>4, <1>5, RateFits DEF OpInv, Sane, Kept
<1>7. RateOf(r, o.phase) = rate
  <2>1. r.ar = p.ar /\ r.dr = p.dr /\ r.sr = p.sr /\ r.rr = p.rr /\ r.scale = p.scale
    BY <1>4, OpShape DEF OpFields
  <2> HIDE DEF r
  <2> QED BY <2>1, RateIsOf
<1> HIDE DEF rate
<1>8. next \in Nat /\ next <= Top
  BY <1>1 DEF OpInv, Sane, Kept
<1>9. r \in OpTypes
  <2> HIDE DEF next
  <2>1. r = [x \in OpFields |-> r[x]]
    BY <1>4, OpIs, OpShape
  <2>2. OpTyped(r)
    BY <1>4, <1>6, <1>8, OpIs, OpShape DEF OpTyped, OpCounts, OpFlags, OpFields
  <2> QED BY <2>1, <2>2, OpIsOne
<1>10. /\ r.phase = p.phase /\ r.level = p.level /\ r.next = next /\ r.rate = rate /\ KeyOf(p, r) /\ r.scale = p.scale
       /\ r.sl = p.sl /\ r.rr = p.rr /\ r.pitch = p.pitch /\ r.kc = p.kc /\ r.kf = p.kf /\ r.changed = p.changed
       /\ r.shown = p.shown /\ r.tl = p.tl /\ r.ks = p.ks
  BY <1>4, OpShape DEF OpFields, KeyOf
<1> HIDE DEF r, next
<1>11. Sane(r)
  BY <1>5, <1>8, <1>9, <1>10 DEF OpInv, Sane, Kept
<1>12. Used(r)
  BY <1>5, <1>10 DEF Used, scale
<1>13. InPhase(r)
  BY <1>5, <1>6, <1>7, <1>10 DEF OpInv, InPhase, next
<1>14. KeyHeard(r)
  BY <1>5, <1>10 DEF OpInv, KeyHeard, KeyOf
<1> QED BY <1>3, <1>5, <1>10, <1>11, <1>12, <1>13, <1>14 DEF OpInv, KeyOf

LEMMA KeyOffKeeps ==
  ASSUME FmOperatorAssumption, NEW o, OpInv(o)
  PROVE  LET r == KeyOff(o)
         IN /\ OpInv(r) /\ ~r.keyon /\ r.phase \in {"release", "off"} /\ ~r.deaf
            /\ o.phase = "attack" => r.level = o.level
<1>1. CASE ~o.keyon
  BY <1>1, OpIs DEF KeyOff, OpInv, KeyHeard, Sane, Kept, OpTyped, OpCounts, OpFlags
<1>2. CASE o.keyon
  <2> DEFINE k == [o EXCEPT !.keyon = FALSE, !.deaf = FALSE]
  <2>1. o \in OpTypes
    BY DEF OpInv, Sane, Kept
  <2>2. k \in OpTypes
    <3>1. k = [x \in OpFields |-> k[x]]
      BY <2>1, OpIs, OpShape
    <3>2. OpTyped(k)
      BY <2>1, OpIs, OpShape DEF OpTyped, OpCounts, OpFlags, OpFields
    <3> QED BY <3>1, <3>2, OpIsOne
  <2>3. /\ k.phase = o.phase /\ k.level = o.level /\ k.next = o.next /\ k.keyon = FALSE /\ k.deaf = FALSE
        /\ k.sl = o.sl /\ k.rr = o.rr /\ k.pitch = o.pitch /\ k.kc = o.kc /\ k.kf = o.kf /\ k.changed = o.changed
        /\ k.latched = o.latched /\ k.shown = o.shown /\ k.tl = o.tl /\ k.scale = o.scale /\ k.ks = o.ks
    BY <2>1, OpShape DEF OpFields
  <2>4. KeyOff(o) = Release(k)
    BY <1>2 DEF KeyOff
  <2> HIDE DEF k
  <2>5. Kept(k) /\ Used(k) /\ k.level \in 0..(Top + 15)
    BY <2>2, <2>3 DEF OpInv, Sane, Kept, Used
  <2>6. k.level >= 0 /\ k.level <= Top + 15
    BY <2>5 DEF FmOperatorAssumption
  <2> DEFINE r == Release(k)
  <2>7. /\ Sane(r) /\ Used(r) /\ InPhase(r) /\ KeyOf(k, r) /\ r.phase \in {"release", "off"}
        /\ o.phase = "attack" => r.level = o.level
    BY <2>3, <2>5, <2>6, ReleaseGoes
  <2> HIDE DEF r
  <2>8. OpInv(r)
    BY <2>3, <2>7 DEF OpInv, KeyOf, KeyHeard
  <2> QED BY <2>3, <2>4, <2>7, <2>8 DEF KeyOf, r
<1> QED BY <1>1, <1>2

LEMMA KeyOnKeeps ==
  ASSUME FmOperatorAssumption, NEW o, OpInv(o)
  PROVE  LET r == KeyOn(o)
         IN /\ OpInv(r) /\ r.keyon
            /\ o.keyon => r = o
            /\ ~o.keyon => \/ r.phase = "attack" /\ r.level = o.level
                           \/ r.phase \in {"decay", "sustain"} /\ r.level = 0
<1>1. CASE o.keyon
  BY <1>1 DEF KeyOn
<1>2. CASE ~o.keyon
  <2> DEFINE k == [o EXCEPT !.keyon = TRUE]
  <2>1. o \in OpTypes /\ o.phase \in {"off", "release"} /\ o.keyon = FALSE /\ o.deaf = FALSE
    BY <1>2, OpIs DEF OpInv, Sane, Kept, KeyHeard, OpTyped, OpCounts, OpFlags
  <2>2. k \in OpTypes
    <3>1. k = [x \in OpFields |-> k[x]]
      BY <2>1, OpIs, OpShape
    <3>2. OpTyped(k)
      BY <2>1, OpIs, OpShape DEF OpTyped, OpCounts, OpFlags, OpFields
    <3> QED BY <3>1, <3>2, OpIsOne
  <2>3. /\ k.level = o.level /\ k.next = o.next /\ k.keyon = TRUE /\ k.deaf = FALSE
        /\ k.sl = o.sl /\ k.rr = o.rr /\ k.pitch = o.pitch /\ k.kc = o.kc /\ k.kf = o.kf /\ k.changed = o.changed
        /\ k.latched = o.latched /\ k.shown = o.shown /\ k.tl = o.tl /\ k.scale = o.scale /\ k.ks = o.ks
    BY <2>1, OpShape DEF OpFields
  <2>4. KeyOn(o) = Attack(k)
    BY <1>2, <2>1 DEF KeyOn
  <2> HIDE DEF k
  <2>5. Sane(k) /\ Used(k)
    BY <2>2, <2>3 DEF OpInv, Sane, Kept, Used
  <2> DEFINE r == Attack(k)
  <2>6. /\ Sane(r) /\ Used(r) /\ InPhase(r) /\ KeyOf(k, r)
        /\ \/ r.phase = "attack" /\ r.level = o.level
           \/ r.phase \in {"decay", "sustain"} /\ r.level = 0
    BY <2>3, <2>5, AttackGoes
  <2> HIDE DEF r
  <2>7. OpInv(r)
    BY <2>3, <2>6 DEF OpInv, KeyOf, KeyHeard
  <2> QED BY <1>2, <2>3, <2>4, <2>6, <2>7 DEF KeyOf, r
<1> QED BY <1>1, <1>2

\* What has changed is used from the next block.
LEMMA ChangedKeeps ==
  ASSUME NEW o, OpInv(o), NEW r \in OpTypes, r.changed, 8 * r.sl <= Top, r.rr >= 2, r.pitch = Pitch(r.kc, r.kf),
         r.phase = o.phase, r.level = o.level, r.next = o.next, r.rate = o.rate, KeyOf(o, r)
  PROVE  OpInv(r)
<1>1. Sane(r)
  BY DEF OpInv, Sane, Kept
<1>2. Used(r) /\ InPhase(r)
  BY DEF OpInv, Used, InPhase
<1>3. KeyHeard(r)
  BY DEF OpInv, KeyHeard, KeyOf
<1> QED BY <1>1, <1>2, <1>3 DEF OpInv

\* What is set besides the parameters changes nothing of them.
LEMMA AsideKeeps ==
  ASSUME NEW o, OpInv(o), NEW s \in OpTypes,
         /\ s.phase = o.phase /\ s.level = o.level /\ s.next = o.next /\ s.rate = o.rate /\ KeyOf(o, s)
         /\ s.sl = o.sl /\ s.rr = o.rr /\ s.pitch = o.pitch /\ s.kc = o.kc /\ s.kf = o.kf /\ s.changed = o.changed
         /\ s.latched = o.latched /\ s.shown = o.shown /\ s.tl = o.tl /\ s.scale = o.scale /\ s.ks = o.ks
         /\ s.ar = o.ar /\ s.dr = o.dr /\ s.sr = o.sr
  PROVE  OpInv(s)
<1>1. RateOf(s, s.phase) = RateOf(o, o.phase)
  BY RateIsOf
<1>2. Sane(s)
  BY DEF OpInv, Sane, Kept
<1>3. Used(s)
  BY DEF OpInv, Used
<1>4. InPhase(s)
  BY <1>1 DEF OpInv, InPhase
<1>5. KeyHeard(s)
  BY DEF OpInv, KeyHeard, KeyOf
<1> QED BY <1>2, <1>3, <1>4, <1>5 DEF OpInv

LEMMA SetKeeps ==
  ASSUME FmOperatorAssumption, NEW o, OpInv(o), NEW p \in Registers
  PROVE  LET r == Set(o, p[1], p[2])
         IN OpInv(r) /\ r.level = o.level /\ r.phase = o.phase /\ KeyOf(o, r)
<1> DEFINE v == p[2]
           r == Set(o, p[1], v)
<1>1. o \in OpTypes /\ v \in Byte /\ (p[1] = "sl/rr" => 8 * LevelOf(v) <= Top)
  BY DEF OpInv, Sane, Kept, FmOperatorAssumption
<1>2. /\ v % 128 \in 0..127 /\ v \div 64 \in 0..3 /\ 2 * (v % 32) \in 0..63 /\ LevelOf(v) \in 0..124
      /\ 4 * (v % 16) + 2 \in 2..63 /\ v \div 4 \in 0..63
  BY <1>1 DEF Byte, LevelOf
<1>3. /\ o.kc \in Byte /\ o.kf \in 0..63 /\ 8 * o.sl <= Top /\ o.rr >= 2 /\ o.pitch = Pitch(o.kc, o.kf)
  BY <1>1, OpIs DEF OpInv, Sane, Kept, OpTyped, OpCounts, OpFlags
<1> HIDE DEF v
<1>4. Pitch(v, o.kf) \in Nat /\ Pitch(o.kc, v \div 4) \in Nat
  BY <1>1, <1>2, <1>3, PitchFits
<1>5. CASE p[1] = "csm"
  <2> DEFINE csm == Is(v, 7)
             s == [o EXCEPT !.csm = csm]
  <2>1. csm \in BOOLEAN
    BY DEF Is
  <2>2. r = s
    BY <1>5 DEF Set
  <2> HIDE DEF csm
  <2>3. s \in OpTypes
    <3>1. s = [x \in OpFields |-> s[x]]
      BY <1>1, OpIs, OpShape
    <3>2. OpTyped(s)
      BY <1>1, <2>1, OpIs, OpShape DEF OpTyped, OpCounts, OpFlags, OpFields
    <3> QED BY <3>1, <3>2, OpIsOne
  <2>4. \A x \in OpFields : x # "csm" => s[x] = o[x]
    BY <1>1, OpShape
  <2>5. /\ s.phase = o.phase /\ s.level = o.level /\ s.next = o.next /\ s.rate = o.rate /\ KeyOf(o, s)
        /\ s.sl = o.sl /\ s.rr = o.rr /\ s.pitch = o.pitch /\ s.kc = o.kc /\ s.kf = o.kf /\ s.changed = o.changed
        /\ s.latched = o.latched /\ s.shown = o.shown /\ s.tl = o.tl /\ s.scale = o.scale /\ s.ks = o.ks
        /\ s.ar = o.ar /\ s.dr = o.dr /\ s.sr = o.sr
    BY <2>4 DEF OpFields, KeyOf
  <2> HIDE DEF s
  <2>6. OpInv(s)
    BY <2>3, <2>5, AsideKeeps
  <2> QED BY <2>2, <2>5, <2>6 DEF v
<1>6. CASE p[1] # "csm" /\ p[1] = "tl" /\ o.csm
  <2> DEFINE latch == v % 128
             s == [o EXCEPT !.latch = latch]
  <2>1. r = s
    BY <1>6 DEF Set
  <2>2. latch \in 0..127
    BY <1>2
  <2> HIDE DEF latch
  <2>3. s \in OpTypes
    <3>1. s = [x \in OpFields |-> s[x]]
      BY <1>1, OpIs, OpShape
    <3>2. OpTyped(s)
      BY <1>1, <2>2, OpIs, OpShape DEF OpTyped, OpCounts, OpFlags, OpFields
    <3> QED BY <3>1, <3>2, OpIsOne
  <2>4. \A x \in OpFields : x # "latch" => s[x] = o[x]
    BY <1>1, OpShape
  <2>5. /\ s.phase = o.phase /\ s.level = o.level /\ s.next = o.next /\ s.rate = o.rate /\ KeyOf(o, s)
        /\ s.sl = o.sl /\ s.rr = o.rr /\ s.pitch = o.pitch /\ s.kc = o.kc /\ s.kf = o.kf /\ s.changed = o.changed
        /\ s.latched = o.latched /\ s.shown = o.shown /\ s.tl = o.tl /\ s.scale = o.scale /\ s.ks = o.ks
        /\ s.ar = o.ar /\ s.dr = o.dr /\ s.sr = o.sr
    BY <2>4 DEF OpFields, KeyOf
  <2> HIDE DEF s
  <2>6. OpInv(s)
    BY <2>3, <2>5, AsideKeeps
  <2> QED BY <2>1, <2>5, <2>6 DEF v
<1>7. CASE p[1] # "csm" /\ ~(p[1] = "tl" /\ o.csm)
  <2> DEFINE low == v % 128  level == LevelOf(v)  rr == 4 * (v % 16) + 2  rate == 2 * (v % 32)
             ks == v \div 64  kf == v \div 4  note == Pitch(v, o.kf)  tune == Pitch(o.kc, kf)
  <2>1. \/ r = [o EXCEPT !.changed = TRUE, !.tl = low, !.latch = low]
        \/ r = [o EXCEPT !.changed = TRUE, !.ks = ks, !.ar = rate]
        \/ r = [o EXCEPT !.changed = TRUE, !.dr = rate]
        \/ r = [o EXCEPT !.changed = TRUE, !.sr = rate]
        \/ p[1] = "sl/rr" /\ r = [o EXCEPT !.changed = TRUE, !.sl = level, !.rr = rr]
        \/ r = [o EXCEPT !.changed = TRUE, !.kc = v, !.pitch = note]
        \/ r = [o EXCEPT !.changed = TRUE, !.kf = kf, !.pitch = tune]
    BY <1>1, <1>7 DEF Set
  <2>2. /\ low \in 0..127 /\ level \in 0..124 /\ rr \in 2..63 /\ rate \in 0..63 /\ ks \in 0..3 /\ kf \in 0..63
        /\ note \in Nat /\ tune \in Nat /\ (p[1] = "sl/rr" => 8 * level <= Top)
        /\ note = Pitch(v, o.kf) /\ tune = Pitch(o.kc, kf)
    BY <1>1, <1>2, <1>4
  <2> HIDE DEF r, low, level, rr, rate, ks, kf, note, tune
  <2>3. OpTyped(o)
    BY <1>1, OpIs
  <2>4. /\ r = [x \in OpFields |-> r[x]] /\ OpTyped(r)
        /\ r.changed /\ r.phase = o.phase /\ r.level = o.level /\ r.next = o.next /\ r.rate = o.rate /\ KeyOf(o, r)
        /\ 8 * r.sl <= Top /\ r.rr >= 2 /\ r.pitch = Pitch(r.kc, r.kf)
    <3>1. CASE r = [o EXCEPT !.changed = TRUE, !.tl = low, !.latch = low]
      <4>1. r = [x \in OpFields |-> r[x]]
        BY <1>1, <3>1, OpIs, OpShape
      <4>2. /\ r.phase = o.phase /\ r.level = o.level /\ r.next = o.next /\ r.rate = o.rate /\ r.curve = o.curve
            /\ r.shown = o.shown /\ r.ar = o.ar /\ r.dr = o.dr /\ r.sr = o.sr /\ r.sl = o.sl /\ r.rr = o.rr
            /\ r.ks = o.ks /\ r.kc = o.kc /\ r.kf = o.kf /\ r.pitch = o.pitch /\ r.scale = o.scale
            /\ r.keyon = o.keyon /\ r.csm = o.csm /\ r.latched = o.latched /\ r.deaf = o.deaf
        BY <1>1, <3>1, OpShape DEF OpFields
      <4>3. r.changed = TRUE /\ r.tl = low /\ r.latch = low
        BY <1>1, <3>1, OpShape DEF OpFields
      <4>4. OpCounts(r)
        BY <1>1, <2>2, <2>3, <4>2, <4>3 DEF OpTyped, OpCounts
      <4>5. OpTyped(r)
        BY <4>2, <4>3, <4>4, <2>3, Zenon DEF OpTyped, OpFlags
      <4>6. KeyOf(o, r) /\ 8 * r.sl <= Top /\ r.rr >= 2 /\ r.pitch = Pitch(r.kc, r.kf)
        BY <1>3, <2>2, <4>2, <4>3 DEF KeyOf
      <4> QED BY <4>1, <4>2, <4>3, <4>5, <4>6
    <3>2. CASE r = [o EXCEPT !.changed = TRUE, !.ks = ks, !.ar = rate]
      <4>1. r = [x \in OpFields |-> r[x]]
        BY <1>1, <3>2, OpIs, OpShape
      <4>2. /\ r.phase = o.phase /\ r.level = o.level /\ r.next = o.next /\ r.rate = o.rate /\ r.curve = o.curve
            /\ r.tl = o.tl /\ r.latch = o.latch /\ r.shown = o.shown /\ r.dr = o.dr /\ r.sr = o.sr /\ r.sl = o.sl
            /\ r.rr = o.rr /\ r.kc = o.kc /\ r.kf = o.kf /\ r.pitch = o.pitch /\ r.scale = o.scale
            /\ r.keyon = o.keyon /\ r.csm = o.csm /\ r.latched = o.latched /\ r.deaf = o.deaf
        BY <1>1, <3>2, OpShape DEF OpFields
      <4>3. r.changed = TRUE /\ r.ks = ks /\ r.ar = rate
        BY <1>1, <3>2, OpShape DEF OpFields
      <4>4. OpCounts(r)
        BY <1>1, <2>2, <2>3, <4>2, <4>3 DEF OpTyped, OpCounts
      <4>5. OpTyped(r)
        BY <4>2, <4>3, <4>4, <2>3, Zenon DEF OpTyped, OpFlags
      <4>6. KeyOf(o, r) /\ 8 * r.sl <= Top /\ r.rr >= 2 /\ r.pitch = Pitch(r.kc, r.kf)
        BY <1>3, <2>2, <4>2, <4>3 DEF KeyOf
      <4> QED BY <4>1, <4>2, <4>3, <4>5, <4>6
    <3>3. CASE r = [o EXCEPT !.changed = TRUE, !.dr = rate]
      <4>1. r = [x \in OpFields |-> r[x]]
        BY <1>1, <3>3, OpIs, OpShape
      <4>2. /\ r.phase = o.phase /\ r.level = o.level /\ r.next = o.next /\ r.rate = o.rate /\ r.curve = o.curve
            /\ r.tl = o.tl /\ r.latch = o.latch /\ r.shown = o.shown /\ r.ar = o.ar /\ r.sr = o.sr /\ r.sl = o.sl
            /\ r.rr = o.rr /\ r.ks = o.ks /\ r.kc = o.kc /\ r.kf = o.kf /\ r.pitch = o.pitch
            /\ r.scale = o.scale /\ r.keyon = o.keyon /\ r.csm = o.csm /\ r.latched = o.latched /\ r.deaf = o.deaf
        BY <1>1, <3>3, OpShape DEF OpFields
      <4>3. r.changed = TRUE /\ r.dr = rate
        BY <1>1, <3>3, OpShape DEF OpFields
      <4>4. OpCounts(r)
        BY <1>1, <2>2, <2>3, <4>2, <4>3 DEF OpTyped, OpCounts
      <4>5. OpTyped(r)
        BY <4>2, <4>3, <4>4, <2>3, Zenon DEF OpTyped, OpFlags
      <4>6. KeyOf(o, r) /\ 8 * r.sl <= Top /\ r.rr >= 2 /\ r.pitch = Pitch(r.kc, r.kf)
        BY <1>3, <2>2, <4>2, <4>3 DEF KeyOf
      <4> QED BY <4>1, <4>2, <4>3, <4>5, <4>6
    <3>4. CASE r = [o EXCEPT !.changed = TRUE, !.sr = rate]
      <4>1. r = [x \in OpFields |-> r[x]]
        BY <1>1, <3>4, OpIs, OpShape
      <4>2. /\ r.phase = o.phase /\ r.level = o.level /\ r.next = o.next /\ r.rate = o.rate /\ r.curve = o.curve
            /\ r.tl = o.tl /\ r.latch = o.latch /\ r.shown = o.shown /\ r.ar = o.ar /\ r.dr = o.dr /\ r.sl = o.sl
            /\ r.rr = o.rr /\ r.ks = o.ks /\ r.kc = o.kc /\ r.kf = o.kf /\ r.pitch = o.pitch
            /\ r.scale = o.scale /\ r.keyon = o.keyon /\ r.csm = o.csm /\ r.latched = o.latched /\ r.deaf = o.deaf
        BY <1>1, <3>4, OpShape DEF OpFields
      <4>3. r.changed = TRUE /\ r.sr = rate
        BY <1>1, <3>4, OpShape DEF OpFields
      <4>4. OpCounts(r)
        BY <1>1, <2>2, <2>3, <4>2, <4>3 DEF OpTyped, OpCounts
      <4>5. OpTyped(r)
        BY <4>2, <4>3, <4>4, <2>3, Zenon DEF OpTyped, OpFlags
      <4>6. KeyOf(o, r) /\ 8 * r.sl <= Top /\ r.rr >= 2 /\ r.pitch = Pitch(r.kc, r.kf)
        BY <1>3, <2>2, <4>2, <4>3 DEF KeyOf
      <4> QED BY <4>1, <4>2, <4>3, <4>5, <4>6
    <3>5. CASE p[1] = "sl/rr" /\ r = [o EXCEPT !.changed = TRUE, !.sl = level, !.rr = rr]
      <4>1. r = [x \in OpFields |-> r[x]]
        BY <1>1, <3>5, OpIs, OpShape
      <4>2. /\ r.phase = o.phase /\ r.level = o.level /\ r.next = o.next /\ r.rate = o.rate /\ r.curve = o.curve
            /\ r.tl = o.tl /\ r.latch = o.latch /\ r.shown = o.shown /\ r.ar = o.ar /\ r.dr = o.dr /\ r.sr = o.sr
            /\ r.ks = o.ks /\ r.kc = o.kc /\ r.kf = o.kf /\ r.pitch = o.pitch /\ r.scale = o.scale
            /\ r.keyon = o.keyon /\ r.csm = o.csm /\ r.latched = o.latched /\ r.deaf = o.deaf
        BY <1>1, <3>5, OpShape DEF OpFields
      <4>3. r.changed = TRUE /\ r.sl = level /\ r.rr = rr
        BY <1>1, <3>5, OpShape DEF OpFields
      <4>4. OpCounts(r)
        BY <1>1, <2>2, <2>3, <4>2, <4>3 DEF OpTyped, OpCounts
      <4>5. OpTyped(r)
        BY <4>2, <4>3, <4>4, <2>3, Zenon DEF OpTyped, OpFlags
      <4>6. KeyOf(o, r) /\ 8 * r.sl <= Top /\ r.rr >= 2 /\ r.pitch = Pitch(r.kc, r.kf)
        BY <1>3, <2>2, <3>5, <4>2, <4>3 DEF KeyOf
      <4> QED BY <4>1, <4>2, <4>3, <4>5, <4>6
    <3>6. CASE r = [o EXCEPT !.changed = TRUE, !.kc = v, !.pitch = note]
      <4>1. r = [x \in OpFields |-> r[x]]
        BY <1>1, <3>6, OpIs, OpShape
      <4>2. /\ r.phase = o.phase /\ r.level = o.level /\ r.next = o.next /\ r.rate = o.rate /\ r.curve = o.curve
            /\ r.tl = o.tl /\ r.latch = o.latch /\ r.shown = o.shown /\ r.ar = o.ar /\ r.dr = o.dr /\ r.sr = o.sr
            /\ r.sl = o.sl /\ r.rr = o.rr /\ r.ks = o.ks /\ r.kf = o.kf /\ r.scale = o.scale
            /\ r.keyon = o.keyon /\ r.csm = o.csm /\ r.latched = o.latched /\ r.deaf = o.deaf
        BY <1>1, <3>6, OpShape DEF OpFields
      <4>3. r.changed = TRUE /\ r.kc = v /\ r.pitch = note
        BY <1>1, <3>6, OpShape DEF OpFields
      <4>4. OpCounts(r)
        BY <1>1, <2>2, <2>3, <4>2, <4>3 DEF OpTyped, OpCounts
      <4>5. OpTyped(r)
        BY <4>2, <4>3, <4>4, <2>3, Zenon DEF OpTyped, OpFlags
      <4>6. KeyOf(o, r) /\ 8 * r.sl <= Top /\ r.rr >= 2 /\ r.pitch = Pitch(r.kc, r.kf)
        BY <1>3, <2>2, <4>2, <4>3 DEF KeyOf
      <4> QED BY <4>1, <4>2, <4>3, <4>5, <4>6
    <3>7. CASE r = [o EXCEPT !.changed = TRUE, !.kf = kf, !.pitch = tune]
      <4>1. r = [x \in OpFields |-> r[x]]
        BY <1>1, <3>7, OpIs, OpShape
      <4>2. /\ r.phase = o.phase /\ r.level = o.level /\ r.next = o.next /\ r.rate = o.rate /\ r.curve = o.curve
            /\ r.tl = o.tl /\ r.latch = o.latch /\ r.shown = o.shown /\ r.ar = o.ar /\ r.dr = o.dr /\ r.sr = o.sr
            /\ r.sl = o.sl /\ r.rr = o.rr /\ r.ks = o.ks /\ r.kc = o.kc /\ r.scale = o.scale
            /\ r.keyon = o.keyon /\ r.csm = o.csm /\ r.latched = o.latched /\ r.deaf = o.deaf
        BY <1>1, <3>7, OpShape DEF OpFields
      <4>3. r.changed = TRUE /\ r.kf = kf /\ r.pitch = tune
        BY <1>1, <3>7, OpShape DEF OpFields
      <4>4. OpCounts(r)
        BY <1>1, <2>2, <2>3, <4>2, <4>3 DEF OpTyped, OpCounts
      <4>5. OpTyped(r)
        BY <4>2, <4>3, <4>4, <2>3, Zenon DEF OpTyped, OpFlags
      <4>6. KeyOf(o, r) /\ 8 * r.sl <= Top /\ r.rr >= 2 /\ r.pitch = Pitch(r.kc, r.kf)
        BY <1>3, <2>2, <4>2, <4>3 DEF KeyOf
      <4> QED BY <4>1, <4>2, <4>3, <4>5, <4>6
    <3> QED BY <2>1, <3>1, <3>2, <3>3, <3>4, <3>5, <3>6, <3>7
  <2>5. OpInv(r)
    BY <2>4, OpIsOne, ChangedKeeps
  <2> QED BY <2>4, <2>5 DEF r, v
<1> QED BY <1>5, <1>6, <1>7 DEF v

LEMMA CurveKeeps ==
  ASSUME NEW o, OpInv(o), NEW curve \in 0..7
  PROVE  LET s == [o EXCEPT !.curve = curve]
         IN OpInv(s) /\ s.phase = o.phase /\ s.level = o.level /\ KeyOf(o, s)
<1> DEFINE s == [o EXCEPT !.curve = curve]
<1>1. o \in OpTypes
  BY DEF OpInv, Sane, Kept
<1>2. s \in OpTypes
  <2>1. s = [x \in OpFields |-> s[x]]
    BY <1>1, OpIs, OpShape
  <2>2. OpTyped(s)
    BY <1>1, OpIs, OpShape DEF OpTyped, OpCounts, OpFlags, OpFields
  <2> QED BY <2>1, <2>2, OpIsOne
<1>3. /\ s.phase = o.phase /\ s.level = o.level /\ s.next = o.next /\ s.rate = o.rate /\ KeyOf(o, s)
      /\ s.sl = o.sl /\ s.rr = o.rr /\ s.pitch = o.pitch /\ s.kc = o.kc /\ s.kf = o.kf /\ s.changed = o.changed
      /\ s.latched = o.latched /\ s.shown = o.shown /\ s.tl = o.tl /\ s.scale = o.scale /\ s.ks = o.ks
      /\ s.ar = o.ar /\ s.dr = o.dr /\ s.sr = o.sr
  BY <1>1, OpShape DEF OpFields, KeyOf
<1> HIDE DEF s
<1>4. OpInv(s)
  BY <1>2, <1>3, AsideKeeps
<1> QED BY <1>3, <1>4 DEF s

\* A step of the envelope, and where it ends.
LEMMA StepKeeps ==
  ASSUME FmOperatorAssumption, NEW o, OpInv(o), ~o.changed, o.phase # "off"
  PROVE  LET r == Stepped(o)
         IN /\ OpInv(r) /\ KeyOf(o, r)
            /\ r.phase = o.phase /\ o.phase # "attack" => r.level >= o.level
            /\ r.phase = "attack" => o.phase = "attack" /\ r.level <= o.level
            /\ o.phase = "decay" /\ r.phase = "sustain" => r.level <= o.level + 16
            /\ r.phase = "off" => o.phase = "release" \/ (o.phase = "sustain" /\ o.level + 16 >= o.next)
            /\ r.phase = "release" => o.phase = "release"
<1> DEFINE add == DecayStep(o.rate, o.curve)
           shift == AttackShift(o.rate, o.curve)
           level == IF o.phase # "attack" THEN o.level + add
                    ELSE IF shift = -1 THEN o.level ELSE o.level - (1 + (o.level \div 2^shift))
           went == [o EXCEPT !.level = level]
           shifted == IF o.phase = "attack" THEN (IF level <= 0 /\ shift # -1 THEN Decay(went) ELSE went)
                      ELSE IF level < o.next THEN went
                      ELSE IF o.phase = "decay" THEN Sustain(went)
                      ELSE IF o.phase = "sustain" THEN Release(went) ELSE Off(went)
           curve == (shifted.curve + 1) % 8
<1>1. /\ o \in OpTypes /\ o.phase \in Phases /\ o.level \in 0..(Top + 15) /\ o.rate \in 0..63 /\ o.curve \in 0..7
      /\ o.next \in Nat /\ o.next <= Top /\ Top \in Nat /\ o.sl \in 0..124
  BY OpIs DEF OpInv, Sane, Kept, OpTyped, OpCounts, FmOperatorAssumption
<1>2. add \in 0..16 /\ (shift = -1 \/ shift \in 0..4)
  BY <1>1, StepFits
<1>3. /\ level \in Int
      /\ o.phase # "attack" => level = o.level + add
      /\ o.phase = "attack" => level <= o.level /\ (level < 0 => shift # -1)
  <2>1. CASE o.phase = "attack" /\ shift # -1
    <3>1. 2^shift \in {1, 2, 4, 8, 16}
      BY <1>2, <2>1, SmallPowers
    <3>2. o.level \div 2^shift \in Nat
      BY <1>1, <3>1
    <3> HIDE DEF shift
    <3> QED BY <1>1, <2>1, <3>2
  <2>2. CASE ~(o.phase = "attack" /\ shift # -1)
    BY <1>1, <1>2, <2>2
  <2> QED BY <2>1, <2>2
<1>4. went \in OpTypes
  <2> HIDE DEF level
  <2>1. went = [x \in OpFields |-> went[x]]
    BY <1>1, OpIs, OpShape
  <2>2. OpTyped(went)
    BY <1>1, <1>3, OpIs, OpShape DEF OpTyped, OpCounts, OpFlags, OpFields
  <2> QED BY <2>1, <2>2, OpIsOne
<1>5. Stepped(o) = [shifted EXCEPT !.curve = curve]
  <2>1. went.level = level
    BY <1>1, OpShape DEF OpFields
  <2> QED BY <2>1 DEF Stepped
<1> HIDE DEF add, shift, level
<1>6. /\ went.phase = o.phase /\ went.level = level /\ went.next = o.next /\ went.rate = o.rate /\ KeyOf(o, went)
      /\ went.sl = o.sl /\ went.rr = o.rr /\ went.pitch = o.pitch /\ went.kc = o.kc /\ went.kf = o.kf
      /\ went.changed = o.changed /\ went.latched = o.latched /\ went.shown = o.shown /\ went.tl = o.tl
      /\ went.scale = o.scale /\ went.ks = o.ks /\ went.ar = o.ar /\ went.dr = o.dr /\ went.sr = o.sr
  BY <1>1, OpShape DEF OpFields, KeyOf
<1> HIDE DEF went
<1>7. Kept(went) /\ Used(went)
  BY <1>1, <1>4, <1>6 DEF OpInv, Sane, Kept, Used
<1>8. /\ o.keyon => o.phase # "release"
      /\ ~o.keyon => o.phase \in {"release", "off"}
      /\ o.deaf = FALSE
      /\ o.phase = "decay" => o.next = 8 * o.sl
  BY <1>1, OpIs DEF OpInv, KeyHeard, InPhase, OpTyped, OpFlags
<1> DEFINE Went(r) ==
      /\ OpInv(r) /\ KeyOf(o, r)
      /\ r.phase = o.phase /\ o.phase # "attack" => r.level >= o.level
      /\ r.phase = "attack" => o.phase = "attack" /\ r.level <= o.level
      /\ o.phase = "decay" /\ r.phase = "sustain" => r.level <= o.level + 16
      /\ r.phase = "off" => o.phase = "release" \/ (o.phase = "sustain" /\ o.level + 16 >= o.next)
      /\ r.phase = "release" => o.phase = "release"
<1>9. Went(shifted)
  <2>1. CASE o.phase = "attack" /\ level <= 0 /\ shift # -1
    <3>1. shifted = Decay(went)
      BY <2>1
    <3> HIDE DEF shifted
    <3>2. /\ Sane(shifted) /\ Used(shifted) /\ InPhase(shifted) /\ KeyOf(went, shifted)
          /\ shifted.phase \in {"decay", "sustain"}
      BY <1>7, <3>1, DecayGoes
    <3>3. KeyHeard(shifted) /\ KeyOf(o, shifted)
      BY <1>6, <1>8, <2>1, <3>2 DEF KeyHeard, KeyOf
    <3> QED BY <2>1, <3>2, <3>3 DEF OpInv
  <2>2. CASE (o.phase = "attack" /\ ~(level <= 0 /\ shift # -1)) \/ (o.phase # "attack" /\ level < o.next)
    <3>1. shifted = went
      BY <2>2
    <3> HIDE DEF shifted
    <3>2. level \in 0..(Top + 15)
      BY <1>1, <1>2, <1>3, <2>2
    <3>3. Sane(went)
      BY <1>6, <1>7, <3>2 DEF Sane
    <3>4. InPhase(went)
      <4>1. RateOf(went, went.phase) = RateOf(o, o.phase)
        BY <1>6, RateIsOf
      <4> QED BY <1>6, <4>1 DEF InPhase, OpInv
    <3>5. KeyHeard(went)
      BY <1>6, <1>8 DEF KeyHeard, KeyOf
    <3>6. OpInv(went)
      BY <1>7, <3>3, <3>4, <3>5 DEF OpInv
    <3>7. o.phase # "attack" => level >= o.level
      BY <1>1, <1>2, <1>3
    <3>8. /\ went.phase = o.phase /\ o.phase # "attack" => went.level >= o.level
          /\ went.phase = "attack" => o.phase = "attack" /\ went.level <= o.level
      BY <1>3, <1>6, <3>7
    <3> QED BY <1>6, <3>1, <3>6, <3>8
  <2>3. CASE o.phase = "decay" /\ ~(level < o.next)
    <3>1. shifted = Sustain(went)
      BY <2>3
    <3> HIDE DEF shifted
    <3>2. /\ Sane(shifted) /\ Used(shifted) /\ InPhase(shifted) /\ KeyOf(went, shifted)
          /\ shifted.phase = "sustain" /\ shifted.level = 8 * o.sl
      BY <1>6, <1>7, <3>1, SustainGoes
    <3>3. KeyHeard(shifted) /\ KeyOf(o, shifted)
      BY <1>6, <1>8, <2>3, <3>2 DEF KeyHeard, KeyOf
    <3>4. 8 * o.sl <= o.level + 16
      BY <1>1, <1>2, <1>3, <1>8, <2>3
    <3> QED BY <2>3, <3>2, <3>3, <3>4 DEF OpInv
  <2>4. CASE o.phase = "sustain" /\ ~(level < o.next)
    <3>1. shifted = Release(went)
      BY <2>4
    <3>2. o.next = Top
      BY <2>4 DEF OpInv, InPhase
    <3>3. level >= Top /\ ~(level < Bottom) /\ level >= 0
      BY <1>1, <1>3, <2>4, <3>2 DEF FmOperatorAssumption
    <3> HIDE DEF shifted
    <3>4. Release(went) = Off(went)
      BY <1>6, <2>4, <3>3 DEF Release
    <3>5. /\ Sane(shifted) /\ Used(shifted) /\ InPhase(shifted) /\ KeyOf(went, shifted) /\ shifted.phase = "off"
      BY <1>7, <3>1, <3>4, OffGoes
    <3>6. KeyHeard(shifted) /\ KeyOf(o, shifted)
      BY <1>6, <1>8, <2>4, <3>5 DEF KeyHeard, KeyOf
    <3>7. o.level + 16 >= o.next
      BY <1>1, <1>2, <1>3, <2>4
    <3> QED BY <2>4, <3>5, <3>6, <3>7 DEF OpInv
  <2>5. CASE o.phase = "release" /\ ~(level < o.next)
    <3>1. shifted = Off(went)
      BY <2>5
    <3> HIDE DEF shifted
    <3>2. /\ Sane(shifted) /\ Used(shifted) /\ InPhase(shifted) /\ KeyOf(went, shifted) /\ shifted.phase = "off"
      BY <1>7, <3>1, OffGoes
    <3>3. KeyHeard(shifted) /\ KeyOf(o, shifted)
      BY <1>6, <1>8, <2>5, <3>2 DEF KeyHeard, KeyOf
    <3> QED BY <2>5, <3>2, <3>3 DEF OpInv
  <2> QED BY <1>1, <2>1, <2>2, <2>3, <2>4, <2>5 DEF Phases
<1> HIDE DEF shifted
<1>10. curve \in 0..7
  <2>1. shifted.curve \in 0..7
    BY <1>9, OpIs DEF OpInv, Sane, Kept, OpTyped, OpCounts
  <2> QED BY <2>1
<1> HIDE DEF curve
<1>11. LET s == [shifted EXCEPT !.curve = curve]
       IN OpInv(s) /\ s.phase = shifted.phase /\ s.level = shifted.level /\ KeyOf(shifted, s)
  BY <1>9, <1>10, CurveKeeps
<1> DEFINE r == [shifted EXCEPT !.curve = curve]
<1>12. Stepped(o) = r /\ OpInv(r) /\ r.phase = shifted.phase /\ r.level = shifted.level /\ KeyOf(o, r)
  BY <1>5, <1>9, <1>11 DEF KeyOf
<1> HIDE DEF r
<1> QED BY <1>9, <1>12

(* The chip is reset, and the whole. *)
LEMMA BlankIsOne == Blank \in OpTypes /\ Blank.pitch = Pitch(0, 0)
<1>1. Pitch(0, 0) \in Nat
  BY PitchFits DEF Byte
<1> DEFINE pitch == Pitch(0, 0)
<1>2. Blank = [phase |-> "off", level |-> 0, next |-> 0, rate |-> 0, curve |-> 0, tl |-> 127, latch |-> 127, shown |-> 0,
               ar |-> 0, dr |-> 0, sr |-> 0, sl |-> 0, rr |-> 2, ks |-> 0, kc |-> 0, kf |-> 0, pitch |-> pitch,
               scale |-> 0, keyon |-> FALSE, changed |-> TRUE, csm |-> FALSE, latched |-> FALSE, deaf |-> FALSE]
  BY DEF Blank
<1> HIDE DEF pitch
<1> QED BY <1>1, <1>2 DEF OpTypes, Phases, Byte, pitch

\* What has just been reset has no level and no rates, and no key but one that is not heard.
LEMMA FreshKeeps ==
  ASSUME FmOperatorAssumption, NEW b \in OpTypes, b.changed = TRUE, b.sl = 0, b.next = 0, b.rr = 2,
         b.pitch = Pitch(b.kc, b.kf), b.keyon = b.deaf
  PROVE  LET r == Off(b) IN OpInv(r) /\ r.phase = "off" /\ KeyOf(b, r)
<1> DEFINE r == Off(b)
<1>1. Kept(b) /\ Used(b)
  BY DEF Kept, Used, FmOperatorAssumption
<1>2. Sane(r) /\ Used(r) /\ InPhase(r) /\ KeyOf(b, r) /\ r.phase = "off"
  BY <1>1, OffGoes
<1> HIDE DEF r
<1>3. KeyHeard(r)
  BY <1>2 DEF KeyHeard, KeyOf
<1> QED BY <1>2, <1>3 DEF OpInv, r

\* One conjunct of GoesItsWay for each step of it.
FmInv == OpInv(op) /\ sets \in 0..MaxSets /\ keys \in 0..MaxKeys
LEMMA FmStarts ==
  ASSUME FmOperatorAssumption, FmInit PROVE FmInv
<1>1. Blank \in OpTypes /\ Blank.pitch = Pitch(0, 0)
  BY BlankIsOne
<1>2. /\ Blank.changed = TRUE /\ Blank.sl = 0 /\ Blank.next = 0 /\ Blank.rr = 2 /\ Blank.kc = 0 /\ Blank.kf = 0
      /\ Blank.keyon = FALSE /\ Blank.deaf = FALSE
  BY DEF Blank
<1>3. OpInv(Off(Blank))
  BY <1>1, <1>2, FreshKeeps
<1> QED BY <1>3 DEF FmInit, FmInv, FmOperatorAssumption

LEMMA FmGoes ==
  ASSUME FmOperatorAssumption, FmInv, [FmNext]_fmVars PROVE FmInv' /\ (GoesItsWay \/ UNCHANGED fmVars)
<1>1. /\ OpInv(op) /\ op.keyon \in BOOLEAN /\ op.level \in 0..(Top + 15) /\ op.phase \in Phases
      /\ op.shown \in Nat /\ op.scale \in 0..31 /\ Top \in Nat /\ Bottom \in Nat
  BY OpIs DEF FmInv, OpInv, Sane, Kept, OpTyped, OpCounts, OpFlags, FmOperatorAssumption
<1>2. CASE SetReg
  <2>1. OpInv(op') /\ op'.level = op.level /\ op'.phase = op.phase /\ KeyOf(op, op')
    BY <1>1, <1>2, SetKeeps DEF SetReg
  <2>2. FmInv'
    BY <1>2, <2>1 DEF SetReg, FmInv, FmOperatorAssumption
  <2>3. GoesItsWay
    BY <1>1, <2>1 DEF GoesItsWay, KeyOf
  <2> QED BY <2>2, <2>3
<1>3. CASE Key(TRUE)
  <2>1. CASE op.csm
    <3>1. op' = op
      BY <1>3, <2>1 DEF Key
    <3>2. FmInv'
      BY <1>3, <3>1 DEF Key, FmInv, FmOperatorAssumption
    <3>3. GoesItsWay
      BY <1>1, <3>1 DEF GoesItsWay
    <3> QED BY <3>2, <3>3
  <2>2. CASE ~op.csm
    <3>1. op' = KeyOn(op) /\ keys' = keys + 1 /\ sets' = sets /\ keys < MaxKeys
      BY <1>3, <2>2 DEF Key
    <3>2. /\ OpInv(op') /\ op'.keyon
          /\ op.keyon => op' = op
          /\ ~op.keyon => \/ op'.phase = "attack" /\ op'.level = op.level
                          \/ op'.phase \in {"decay", "sustain"} /\ op'.level = 0
      BY <1>1, <3>1, KeyOnKeeps
    <3>3. FmInv'
      BY <3>1, <3>2 DEF FmInv, FmOperatorAssumption
    <3>4. keys' # keys
      BY <3>1 DEF FmInv, FmOperatorAssumption
    <3>5. op.keyon => GoesItsWay
      BY <1>1, <3>2 DEF GoesItsWay
    <3>6. ~op.keyon => op.phase \in {"release", "off"}
      BY <1>1 DEF OpInv, KeyHeard
    <3>7. ~op.keyon => GoesItsWay
      BY <1>1, <3>2, <3>4, <3>6 DEF GoesItsWay
    <3> QED BY <3>3, <3>5, <3>7
  <2> QED BY <2>1, <2>2
<1>4. CASE Key(FALSE)
  <2>1. op' = KeyOff(op) /\ keys' = keys + 1 /\ sets' = sets /\ keys < MaxKeys
    BY <1>4 DEF Key
  <2>2. /\ OpInv(op') /\ ~op'.keyon /\ op'.phase \in {"release", "off"}
    BY <1>1, <2>1, KeyOffKeeps
  <2>3. FmInv'
    BY <2>1, <2>2 DEF FmInv, FmOperatorAssumption
  <2>4. keys' # keys
    BY <2>1 DEF FmInv, FmOperatorAssumption
  <2>5. GoesItsWay
    BY <2>2, <2>4 DEF GoesItsWay
  <2> QED BY <2>3, <2>5
<1>5. CASE Csm
  <2> DEFINE up == KeyOff(op)
  <2>1. op' = KeyOn(up) /\ keys' = keys + 1 /\ sets' = sets /\ keys < MaxKeys
    BY <1>5 DEF Csm
  <2>2. /\ OpInv(up) /\ ~up.keyon /\ up.phase \in {"release", "off"}
        /\ op.phase = "attack" => up.level = op.level
    BY <1>1, KeyOffKeeps
  <2> HIDE DEF up
  <2>3. /\ OpInv(op') /\ op'.keyon
        /\ \/ op'.phase = "attack" /\ op'.level = up.level
           \/ op'.phase \in {"decay", "sustain"} /\ op'.level = 0
    BY <2>1, <2>2, KeyOnKeeps
  <2>4. FmInv'
    BY <2>1, <2>3 DEF FmInv, FmOperatorAssumption
  <2>5. keys' # keys
    BY <2>1 DEF FmInv, FmOperatorAssumption
  <2>6. GoesItsWay
    BY <1>1, <2>2, <2>3, <2>5 DEF GoesItsWay
  <2> QED BY <2>4, <2>6
<1>6. CASE Prepare
  <2>1. OpInv(op') /\ op'.level = op.level /\ op'.phase = op.phase /\ KeyOf(op, op')
    BY <1>1, <1>6, PrepareKeeps DEF Prepare
  <2>2. FmInv'
    BY <1>6, <2>1 DEF Prepare, FmInv
  <2>3. GoesItsWay
    BY <1>1, <2>1 DEF GoesItsWay, KeyOf
  <2> QED BY <2>2, <2>3
<1>7. CASE EnvelopeStep
  <2>1. /\ OpInv(op') /\ KeyOf(op, op')
        /\ op'.phase = op.phase /\ op.phase # "attack" => op'.level >= op.level
        /\ op'.phase = "attack" => op.phase = "attack" /\ op'.level <= op.level
        /\ op.phase = "decay" /\ op'.phase = "sustain" => op'.level <= op.level + 16
        /\ op'.phase = "off" => op.phase = "release" \/ (op.phase = "sustain" /\ op.level + 16 >= op.next)
        /\ op'.phase = "release" => op.phase = "release"
    BY <1>1, <1>7, StepKeeps DEF EnvelopeStep
  <2>2. FmInv'
    BY <1>7, <2>1 DEF EnvelopeStep, FmInv
  <2>3. op.keyon => op.phase # "release"
    BY <1>1 DEF OpInv, KeyHeard
  <2>4. GoesItsWay
    BY <2>1, <2>3 DEF GoesItsWay, KeyOf
  <2> QED BY <2>2, <2>4
<1>8. CASE FmReset
  <2>1. PICK first \in BOOLEAN : keys < MaxKeys /\ keys' = keys + 1 /\ op' = AtFmReset(op, op.keyon /\ ~first) /\ UNCHANGED sets
    BY <1>8 DEF FmReset
  <2>2. PICK keyon \in BOOLEAN : keyon = (op.keyon /\ ~first)
    BY <1>1
  <2> DEFINE b == [Blank EXCEPT !.shown = op.shown, !.scale = op.scale, !.keyon = keyon, !.deaf = keyon]
  <2>3. b \in OpTypes
    <3>1. Blank \in OpTypes
      BY BlankIsOne
    <3>2. b = [x \in OpFields |-> b[x]]
      BY <1>1, <3>1, OpIs, OpShape
    <3>3. OpTyped(b)
      BY <1>1, <3>1, OpIs, OpShape DEF OpTyped, OpCounts, OpFlags, OpFields
    <3> QED BY <3>2, <3>3, OpIsOne
  <2>4. /\ b.changed = TRUE /\ b.sl = 0 /\ b.next = 0 /\ b.rr = 2 /\ b.pitch = Pitch(b.kc, b.kf)
        /\ b.keyon = keyon /\ b.deaf = keyon
    <3>1. Blank \in OpTypes /\ Blank.pitch = Pitch(0, 0)
      BY BlankIsOne
    <3>2. Blank.changed = TRUE /\ Blank.sl = 0 /\ Blank.next = 0 /\ Blank.rr = 2 /\ Blank.kc = 0 /\ Blank.kf = 0
      BY DEF Blank
    <3> QED BY <3>1, <3>2, OpShape DEF OpFields
  <2>5. op' = Off(b)
    BY <2>1, <2>2 DEF AtFmReset
  <2> HIDE DEF b
  <2>6. OpInv(op') /\ op'.phase = "off" /\ op'.keyon = keyon /\ op'.deaf = keyon
    <3> DEFINE r == Off(b)
    <3>1. OpInv(r) /\ r.phase = "off" /\ KeyOf(b, r)
      BY <2>3, <2>4, FreshKeeps
    <3> QED BY <2>4, <2>5, <3>1 DEF KeyOf
  <2>7. FmInv'
    BY <2>1, <2>6 DEF FmInv, FmOperatorAssumption
  <2>8. keys' # keys
    BY <2>1 DEF FmInv, FmOperatorAssumption
  <2>9. GoesItsWay
    BY <1>1, <2>2, <2>6, <2>8 DEF GoesItsWay
  <2> QED BY <2>7, <2>9
<1>9. CASE UNCHANGED fmVars
  BY <1>9 DEF FmInv, fmVars
<1> QED BY <1>2, <1>3, <1>4, <1>5, <1>6, <1>7, <1>8, <1>9 DEF FmNext

(* The pitch and the connections. *)
Base(kc) == 4 * ((KeyCodes[1 + (kc % 16)] + 2) \div 4)
LEMMA BaseFits ==
  ASSUME NEW kc \in Byte PROVE Base(kc) \in Nat
<1>1. KeyCodes[1 + (kc % 16)] \in Nat
  BY DEF Byte, KeyCodes
<1> QED BY <1>1 DEF Base

LEMMA FractionsRise ==
  /\ \A i \in 1..64 : Fractions[i] \in Nat
  /\ \A i \in 1..63 : Fractions[i] <= Fractions[i + 1]
BY DEF Fractions

LEMMA OctavesDouble ==
  ASSUME NEW kc \in Byte, Octave(kc) < 7
  PROVE  2^Octave(kc + 16) = 2 * 2^Octave(kc)
<1>1. Octave(kc) \in 0..6 /\ Octave(kc + 16) = Octave(kc) + 1
  BY DEF Octave, Byte
<1>2. /\ 2^1 = 2 * 2^0 /\ 2^2 = 2 * 2^1 /\ 2^3 = 2 * 2^2 /\ 2^4 = 2 * 2^3 /\ 2^5 = 2 * 2^4
      /\ 2^6 = 2 * 2^5 /\ 2^7 = 2 * 2^6
  OBVIOUS
<1>3. \A n \in 0..6 : 2^(n + 1) = 2 * 2^n
  <2> SUFFICES ASSUME NEW n \in 0..6 PROVE 2^(n + 1) = 2 * 2^n
    OBVIOUS
  <2>1. \/ n = 0 /\ n + 1 = 1
        \/ n = 1 /\ n + 1 = 2
        \/ n = 2 /\ n + 1 = 3
        \/ n = 3 /\ n + 1 = 4
        \/ n = 4 /\ n + 1 = 5
        \/ n = 5 /\ n + 1 = 6
        \/ n = 6 /\ n + 1 = 7
    OBVIOUS
  <2> QED BY <1>2, <2>1, Zenon
<1> QED BY <1>1, <1>3

LEMMA PitchOfOctave ==
  ASSUME NEW kc \in Byte, NEW kf \in 0..63, Octave(kc) < 7
  PROVE  Pitch(kc + 16, kf) = 2 * Pitch(kc, kf)
<1> DEFINE whole == (Base(kc) * Fractions[1 + kf]) \div 2^19
<1>1. (kc + 16) % 16 = kc % 16
  BY DEF Byte
<1>2. Pitch(kc, kf) = whole * 2^Octave(kc)
  BY DEF Pitch, Base
<1>3. Pitch(kc + 16, kf) = whole * 2^Octave(kc + 16)
  BY <1>1 DEF Pitch, Base
<1>4. whole \in Nat
  <2> DEFINE product == Base(kc) * Fractions[1 + kf]
  <2>1. Base(kc) \in Nat /\ Fractions[1 + kf] \in Nat
    BY BaseFits, FractionsRise
  <2>2. product \in Nat
    BY <2>1
  <2> HIDE DEF product
  <2>3. product \div 2^19 \in Nat
    BY <2>2
  <2> QED BY <2>3 DEF product
<1> HIDE DEF whole
<1>5. 2^Octave(kc) \in Nat
  <2>1. Octave(kc) \in 0..7
    BY DEF Octave, Byte
  <2> DEFINE power == 2^Octave(kc)
  <2>2. power \in {1, 2, 4, 8, 16, 32, 64, 128}
    BY <2>1, SmallPowers
  <2> QED BY <2>2
<1> DEFINE power == 2^Octave(kc)
<1>6. Pitch(kc + 16, kf) = whole * (2 * power)
  BY <1>3, OctavesDouble
<1>7. Pitch(kc, kf) = whole * power /\ power \in Nat
  BY <1>2, <1>5
<1> HIDE DEF power
<1> QED BY <1>4, <1>6, <1>7

LEMMA PitchOfFraction ==
  ASSUME NEW kc \in Byte, NEW kf \in 0..62
  PROVE  Pitch(kc, kf + 1) >= Pitch(kc, kf)
<1> DEFINE b == Base(kc)  f == Fractions[1 + kf]  g == Fractions[2 + kf]  power == 2^Octave(kc)
<1>1. b \in Nat /\ f \in Nat /\ g \in Nat /\ f <= g
  <2>1. 1 + kf \in 1..63 /\ 2 + kf \in 1..64 /\ (1 + kf) + 1 = 2 + kf /\ 1 + kf \in 1..64
    OBVIOUS
  <2>2. f <= g
    BY <2>1, FractionsRise
  <2> QED BY <2>1, <2>2, BaseFits, FractionsRise
<1>2. power \in Nat
  <2>1. Octave(kc) \in 0..7
    BY DEF Octave, Byte
  <2>2. power \in {1, 2, 4, 8, 16, 32, 64, 128}
    BY <2>1, SmallPowers
  <2> QED BY <2>2
<1>3. 1 + (kf + 1) = 2 + kf
  OBVIOUS
<1>4. Pitch(kc, kf) = ((b * f) \div 2^19) * power /\ Pitch(kc, kf + 1) = ((b * g) \div 2^19) * power
  BY <1>3 DEF Pitch, Base
<1> HIDE DEF b, f, g, power
<1> DEFINE x == b * f  y == b * g
<1>5. x \in Nat /\ y \in Nat /\ x <= y
  BY <1>1
<1> HIDE DEF x, y
<1> DEFINE u == x \div 2^19  w == y \div 2^19
<1>6. u \in Nat /\ w \in Nat /\ u <= w
  BY <1>5
<1>7. Pitch(kc, kf) = u * power /\ Pitch(kc, kf + 1) = w * power
  BY <1>4 DEF x, y
<1> HIDE DEF u, w
<1> QED BY <1>2, <1>6, <1>7

LEMMA PitchOfNote ==
  ASSUME NEW kc \in Byte, kc % 4 \notin {2, 3}
  PROVE  Pitch(kc + 1, 0) >= Pitch(kc, 63)
<1>1. /\ kc % 16 \in {0, 1, 4, 5, 8, 9, 12, 13} /\ (kc + 1) % 16 = (kc % 16) + 1 /\ Octave(kc + 1) = Octave(kc)
  BY DEF Byte, Octave
<1> DEFINE n == kc % 16  power == 2^Octave(kc)
           u == ((4 * ((KeyCodes[1 + n] + 2) \div 4)) * 69370) \div 2^19
           w == ((4 * ((KeyCodes[2 + n] + 2) \div 4)) * 65536) \div 2^19
<1>2. Fractions[1] = 65536 /\ Fractions[64] = 69370
  BY DEF Fractions
<1>3. Pitch(kc, 63) = u * power /\ Pitch(kc + 1, 0) = w * power
  <2>1. 1 + ((kc + 1) % 16) = 2 + n
    BY <1>1
  <2> QED BY <1>1, <1>2, <2>1 DEF Pitch
<1>4. power \in Nat
  <2>1. Octave(kc) \in 0..7
    BY DEF Octave, Byte
  <2>2. power \in {1, 2, 4, 8, 16, 32, 64, 128}
    BY <2>1, SmallPowers
  <2> QED BY <2>2
<1>5. u \in Nat /\ w \in Nat /\ u <= w
  <2>1. n = 0 \/ n = 1 \/ n = 4 \/ n = 5 \/ n = 8 \/ n = 9 \/ n = 12 \/ n = 13
    BY <1>1
  <2> HIDE DEF n
  <2>2. 2^19 = 524288
    OBVIOUS
  <2> QED BY <2>1, <2>2 DEF KeyCodes
<1> HIDE DEF power, u, w
<1> QED BY <1>3, <1>4, <1>5

\* What is in a place, before and after the second and the third have put theirs.
InFirst(i) == IF i = 0 THEN {1} ELSE {}
InSecond(i, to) == InFirst(i) \union (IF i = to THEN {2} ELSE {})
InThird(i, to, later) == InSecond(i, to) \union (IF i = later THEN {3} ELSE {})
LEMMA PlacesAre ==
  ASSUME NEW a \in 0..7, NEW p, p = Places[a + 1], \A k \in 1..6 : p[k] \in 0..3
  PROVE  ByPlaces(a) = [by |-> << InFirst(p[1]), InSecond(p[3], p[2]), InThird(p[5], p[2], p[4]) >>,
                        heard |-> InThird(p[6], p[2], p[4]) \union {4}]
<1> DEFINE first == [i \in 0..3 |-> IF i = 0 THEN {1} ELSE {}]
           second == Put(first, p[2], 2)
           third == Put(second, p[4], 3)
<1>1. p[1] \in 0..3 /\ p[2] \in 0..3 /\ p[3] \in 0..3 /\ p[4] \in 0..3 /\ p[5] \in 0..3 /\ p[6] \in 0..3
  OBVIOUS
<1>2. DOMAIN first = 0..3 /\ \A i \in 0..3 : first[i] = InFirst(i)
  BY DEF InFirst
<1> HIDE DEF first
<1>3. DOMAIN second = 0..3 /\ \A i \in 0..3 : second[i] = InSecond(i, p[2])
  BY <1>1, <1>2 DEF Put, InSecond
<1> HIDE DEF second
<1>4. \A i \in 0..3 : third[i] = InThird(i, p[2], p[4])
  BY <1>1, <1>3 DEF Put, InThird
<1> HIDE DEF third
<1>5. ByPlaces(a) = [by |-> << first[p[1]], second[p[3]], third[p[5]] >>, heard |-> third[p[6]] \union {4}]
  BY DEF ByPlaces, first, second, third
<1> QED BY <1>1, <1>2, <1>3, <1>4, <1>5

LEMMA ConnectionsAre == ConnectionsAgree
<1> SUFFICES ASSUME NEW a \in 0..7 PROVE Wired(a) = ByPlaces(a)
  BY DEF ConnectionsAgree
<1>1. CASE a = 0
  <2> DEFINE p == <<0, 1, 1, 2, 2, 3>>
  <2>1. p = Places[a + 1] /\ \A k \in 1..6 : p[k] \in 0..3
    BY <1>1 DEF Places
  <2>2. InFirst(0) = {1} /\ InSecond(1, 1) = {2}
    BY DEF InFirst, InSecond
  <2>3. InThird(2, 1, 2) = {3} /\ InThird(3, 1, 2) \union {4} = {4}
    BY DEF InFirst, InSecond, InThird
  <2>4. Wired(a) = [by |-> << {1}, {2}, {3} >>, heard |-> {4}]
    BY <1>1 DEF Wired
  <2> QED BY <2>1, <2>2, <2>3, <2>4, PlacesAre
<1>2. CASE a = 1
  <2> DEFINE p == <<1, 0, 0, 1, 1, 2>>
  <2>1. p = Places[a + 1] /\ \A k \in 1..6 : p[k] \in 0..3
    BY <1>2 DEF Places
  <2>2. InFirst(1) = {} /\ InSecond(0, 0) = {1, 2}
    BY DEF InFirst, InSecond
  <2>3. InThird(1, 0, 1) = {3} /\ InThird(2, 0, 1) \union {4} = {4}
    BY DEF InFirst, InSecond, InThird
  <2>4. Wired(a) = [by |-> << {}, {1, 2}, {3} >>, heard |-> {4}]
    BY <1>2 DEF Wired
  <2> QED BY <2>1, <2>2, <2>3, <2>4, PlacesAre
<1>3. CASE a = 2
  <2> DEFINE p == <<1, 1, 1, 0, 0, 2>>
  <2>1. p = Places[a + 1] /\ \A k \in 1..6 : p[k] \in 0..3
    BY <1>3 DEF Places
  <2>2. InFirst(1) = {} /\ InSecond(1, 1) = {2}
    BY DEF InFirst, InSecond
  <2>3. InThird(0, 1, 0) = {1, 3} /\ InThird(2, 1, 0) \union {4} = {4}
    BY DEF InFirst, InSecond, InThird
  <2>4. Wired(a) = [by |-> << {}, {2}, {1, 3} >>, heard |-> {4}]
    BY <1>3 DEF Wired
  <2> QED BY <2>1, <2>2, <2>3, <2>4, PlacesAre
<1>4. CASE a = 3
  <2> DEFINE p == <<0, 1, 2, 1, 1, 2>>
  <2>1. p = Places[a + 1] /\ \A k \in 1..6 : p[k] \in 0..3
    BY <1>4 DEF Places
  <2>2. InFirst(0) = {1} /\ InSecond(2, 1) = {}
    BY DEF InFirst, InSecond
  <2>3. InThird(1, 1, 1) = {2, 3} /\ InThird(2, 1, 1) \union {4} = {4}
    BY DEF InFirst, InSecond, InThird
  <2>4. Wired(a) = [by |-> << {1}, {}, {2, 3} >>, heard |-> {4}]
    BY <1>4 DEF Wired
  <2> QED BY <2>1, <2>2, <2>3, <2>4, PlacesAre
<1>5. CASE a = 4
  <2> DEFINE p == <<0, 1, 2, 2, 2, 1>>
  <2>1. p = Places[a + 1] /\ \A k \in 1..6 : p[k] \in 0..3
    BY <1>5 DEF Places
  <2>2. InFirst(0) = {1} /\ InSecond(2, 1) = {}
    BY DEF InFirst, InSecond
  <2>3. InThird(2, 1, 2) = {3} /\ InThird(1, 1, 2) \union {4} = {2, 4}
    BY DEF InFirst, InSecond, InThird
  <2>4. Wired(a) = [by |-> << {1}, {}, {3} >>, heard |-> {2, 4}]
    BY <1>5 DEF Wired
  <2> QED BY <2>1, <2>2, <2>3, <2>4, PlacesAre
<1>6. CASE a = 5
  <2> DEFINE p == <<0, 1, 0, 1, 0, 1>>
  <2>1. p = Places[a + 1] /\ \A k \in 1..6 : p[k] \in 0..3
    BY <1>6 DEF Places
  <2>2. InFirst(0) = {1} /\ InSecond(0, 1) = {1}
    BY DEF InFirst, InSecond
  <2>3. InThird(0, 1, 1) = {1} /\ InThird(1, 1, 1) \union {4} = {2, 3, 4}
    BY DEF InFirst, InSecond, InThird
  <2>4. Wired(a) = [by |-> << {1}, {1}, {1} >>, heard |-> {2, 3, 4}]
    BY <1>6 DEF Wired
  <2> QED BY <2>1, <2>2, <2>3, <2>4, PlacesAre
<1>7. CASE a = 6
  <2> DEFINE p == <<0, 1, 2, 1, 2, 1>>
  <2>1. p = Places[a + 1] /\ \A k \in 1..6 : p[k] \in 0..3
    BY <1>7 DEF Places
  <2>2. InFirst(0) = {1} /\ InSecond(2, 1) = {}
    BY DEF InFirst, InSecond
  <2>3. InThird(2, 1, 1) = {} /\ InThird(1, 1, 1) \union {4} = {2, 3, 4}
    BY DEF InFirst, InSecond, InThird
  <2>4. Wired(a) = [by |-> << {1}, {}, {} >>, heard |-> {2, 3, 4}]
    BY <1>7 DEF Wired
  <2> QED BY <2>1, <2>2, <2>3, <2>4, PlacesAre
<1>8. CASE a = 7
  <2> DEFINE p == <<1, 0, 1, 0, 1, 0>>
  <2>1. p = Places[a + 1] /\ \A k \in 1..6 : p[k] \in 0..3
    BY <1>8 DEF Places
  <2>2. InFirst(1) = {} /\ InSecond(1, 0) = {}
    BY DEF InFirst, InSecond
  <2>3. InThird(1, 0, 0) = {} /\ InThird(0, 0, 0) \union {4} = {1, 2, 3, 4}
    BY DEF InFirst, InSecond, InThird
  <2>4. Wired(a) = [by |-> << {}, {}, {} >>, heard |-> {1, 2, 3, 4}]
    BY <1>8 DEF Wired
  <2> QED BY <2>1, <2>2, <2>3, <2>4, PlacesAre
<1> QED BY <1>1, <1>2, <1>3, <1>4, <1>5, <1>6, <1>7, <1>8

\* The type, and each part of ToneIsRight.
LEMMA ToneFollows ==
  ASSUME FmOperatorAssumption, FmInv PROVE FmTypeOK /\ ToneIsRight
<1>1. OpInv(op) /\ op \in OpTypes /\ op.kc \in Byte /\ op.kf \in 0..63 /\ op.level \in 0..(Top + 15)
  BY OpIs DEF FmInv, OpInv, Sane, Kept, OpTyped, OpCounts
<1>2. FmTypeOK
  BY <1>1 DEF FmInv, FmTypeOK, OpTypes
<1>3. KeyIsHeard
  BY <1>1 DEF OpInv, KeyHeard, KeyIsHeard
<1>4. HeardAsSet
  BY <1>1 DEF OpInv, Used, InPhase, HeardAsSet
<1>5. LevelFits
  BY <1>1 DEF OpInv, InPhase, LevelFits
<1>6. PitchIsRight
  <2>1. op.pitch = Pitch(op.kc, op.kf)
    BY <1>1 DEF OpInv, Sane, Kept
  <2>2. Octave(op.kc) < 7 => Pitch(op.kc + 16, op.kf) = 2 * op.pitch
    BY <1>1, <2>1, PitchOfOctave
  <2>3. op.kf < 63 => Pitch(op.kc, op.kf + 1) >= op.pitch
    BY <1>1, <2>1, PitchOfFraction
  <2>4. op.kc % 4 \notin {2, 3} => Pitch(op.kc + 1, 0) >= Pitch(op.kc, 63)
    BY <1>1, PitchOfNote
  <2> QED BY <2>1, <2>2, <2>3, <2>4 DEF PitchIsRight
<1> QED BY <1>2, <1>3, <1>4, <1>5, <1>6, ConnectionsAre DEF ToneIsRight

\* Whatever parameters are set, keys struck and let go, and resets made, and in
\* whatever order with the blocks: an operator's envelope goes as its parameters
\* say and never leaves its table (Operator::EGCalc, ShiftPhase, KeyOn, KeyOff).
THEOREM EnvelopesAreTrue ==
  ASSUME FmOperatorAssumption PROVE FmSpec => [](FmTypeOK /\ ToneIsRight) /\ [][GoesItsWay]_fmVars
<1>1. FmInit => FmInv
  BY FmStarts
<1>2. FmInv /\ [FmNext]_fmVars => FmInv' /\ [GoesItsWay]_fmVars
  BY FmGoes
<1>3. FmInv => FmTypeOK /\ ToneIsRight
  BY ToneFollows
<1> QED BY <1>1, <1>2, <1>3, PTL DEF FmSpec
===============================================================================

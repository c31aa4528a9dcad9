------------------------------- MODULE KeyInput -------------------------------
(***************************************************************************)
(* From the host's keyboard to the guest's sub CPU.                        *)
(*                                                                         *)
(* The application's thread turns key events into bx1_key_down / key_up;   *)
(* EMU forwards them to OSD, unless romaji-to-kana is on or the auto key   *)
(* is typing; OSD::key_change keeps key_status, merges left and right      *)
(* modifiers and tells the sub CPU, which keeps the modifiers and the kana *)
(* lock.  The auto key types from auto_key_buffer, a phase per frame, on   *)
(* the emulation thread.  Every bx1_* call and every frame is one step;    *)
(* setRomajiToKana and the release of every key are several calls, and     *)
(* frames may run between them.                                            *)
(***************************************************************************)
EXTENDS Naturals, Sequences

CONSTANTS HostKeys,  \* keys the user presses
          TextKeys,  \* keys of pasted text and of romaji
          BufSize    \* room in auto_key_buffer (65536 in the code)

Sides    == [Shift |-> {"LShift", "RShift"}, Ctrl |-> {"LCtrl", "RCtrl"}]
Generics == {"Shift", "Ctrl"}
Arrows   == {"Left"}  \* stands for what romaji lets through: cursor, F1-F12...

ASSUME KeyInputAssumption ==
  /\ HostKeys \subseteq {"LShift", "RShift", "LCtrl", "RCtrl", "A", "Left", "Kana"}
  /\ TextKeys \subseteq {"A", "Return"}
  /\ BufSize \in Nat

VARIABLES
  focused, held,    \* the window has the focus; keys the user holds in it
  op, releasing,    \* what the application's thread is in the middle of
  checked,          \* the Romaji to Kana menu item
  lockEngagedByUs,
  romaji,           \* config.romaji_to_kana
  phase, autoShift, \* auto_key_phase, auto_key_shift
  buf,              \* auto_key_buffer
  down,             \* OSD::key_status
  guestMods,        \* key_shift and key_ctrl of the sub CPU
  kanaLock,         \* its key_kana_locked, and who locked it (history)
  loaded            \* the sub CPU is a saved state's (history)

hostVars  == <<focused, held>>
menuVars  == <<op, releasing, checked, lockEngagedByUs>>
autoVars  == <<phase, autoShift, buf>>
guestVars == <<down, guestMods, kanaLock, loaded>>
vars == <<hostVars, menuVars, romaji, autoVars, guestVars>>

OnOps  == {"onRunning", "onStop", "onLocked", "onDown", "onUp", "onSet", "onMark"}
OffOps == {"offSet", "offLocked", "offDown", "offUp", "offEnd"}
Keys   == HostKeys \union TextKeys \union Generics \union Arrows
            \union {"LShift", "Kana", "F2"}
Entry  == [key : TextKeys \union Arrows \union {"F2"}, shift : BOOLEAN]

TypeOK ==
  /\ focused \in BOOLEAN /\ held \subseteq HostKeys
  /\ op \in {"idle"} \union OnOps \union OffOps
  /\ releasing \subseteq HostKeys
  /\ checked \in BOOLEAN /\ lockEngagedByUs \in BOOLEAN /\ romaji \in BOOLEAN
  /\ phase \in {0, 1, 3, 8, 10, 30} /\ autoShift \in BOOLEAN
  /\ buf \in Seq(Entry)
  /\ down \subseteq Keys /\ guestMods \subseteq Generics
  /\ kanaLock \in {"off", "us", "user"}
  /\ loaded \in BOOLEAN

Init ==
  /\ focused = TRUE /\ held = {} /\ op = "idle" /\ releasing = {}
  /\ checked = FALSE /\ lockEngagedByUs = FALSE /\ romaji = FALSE
  /\ phase = 0 /\ autoShift = FALSE /\ buf = <<>>
  /\ down = {} /\ guestMods = {} /\ kanaLock = "off"
  /\ loaded = FALSE

-----------------------------------------------------------------------------
(* OSD::key_change, and what the sub CPU makes of it.                      *)

\* Mutant: the generic key goes up with either side.
EitherSideOff(k) == {g \in Generics : k \in Sides[g] \intersect down}

\* The generic modifiers that go down, or up, with key k.
MergedOn(k)  == {g \in Generics : k \in Sides[g] /\ Sides[g] \intersect down = {}}
MergedOff(k) == {g \in Generics : k \in Sides[g] /\ Sides[g] \intersect down = {k}}

Toggled(who) == IF kanaLock = "off" THEN who ELSE "off"

\* The sub CPU is not told of repeats, but of the key that was down already.
KeyPressed(k, repeat, who) ==
  /\ down' = down \union {k} \union MergedOn(k)
  /\ guestMods' = guestMods \union MergedOn(k)
  /\ kanaLock' = IF k = "Kana" /\ ~repeat THEN Toggled(who) ELSE kanaLock
  /\ UNCHANGED loaded

KeyLifted(k) ==
  /\ down' = down \ ({k} \union MergedOff(k))
  /\ guestMods' = guestMods \ MergedOff(k)
  /\ UNCHANGED <<kanaLock, loaded>>

-----------------------------------------------------------------------------
(* EMU: the auto key, and the host's keys.                                 *)

IsAutoKeyRunning == phase # 0

\* FIFO::write drops what does not fit.
Written(entry) == IF Len(buf) < BufSize THEN Append(buf, entry) ELSE buf

\* Mutant: auto_key_shift is left set.
StopAutoKeyShifted ==
  /\ phase' = 0 /\ UNCHANGED autoShift
  /\ IF autoShift THEN KeyLifted("LShift") ELSE UNCHANGED guestVars

\* stop_auto_key.  The buffer stays as it is.
StopAutoKey ==
  /\ phase' = 0 /\ autoShift' = FALSE
  /\ IF autoShift THEN KeyLifted("LShift") ELSE UNCHANGED guestVars

\* A character or a cursor key: into the buffer, and start_auto_key if idle.
Feed(entry) ==
  /\ buf' = Written(entry)
  /\ phase' = IF IsAutoKeyRunning THEN phase ELSE 1
  /\ autoShift' = (IsAutoKeyRunning /\ autoShift)

Typed(k, shift) == [key |-> k, shift |-> shift]

\* Mutant: romaji feeds every key to the auto key.
KeyDownUnsifted(k, repeat, who) ==
  \/ /\ romaji /\ ~repeat
     /\ Feed(Typed(k, FALSE)) /\ UNCHANGED guestVars
  \/ /\ ~romaji /\ ~IsAutoKeyRunning
     /\ KeyPressed(k, repeat, who) /\ UNCHANGED autoVars
  \/ /\ IF romaji THEN repeat ELSE IsAutoKeyRunning
     /\ UNCHANGED <<autoVars, guestVars>>

\* EMU::key_down.  shift_pressed never holds: the host sends the left and
\* right codes, never the generic one it watches.
KeyDown(k, repeat, who) ==
  \/ /\ romaji /\ ~repeat /\ k \in Arrows
     /\ Feed(Typed(k, FALSE)) /\ UNCHANGED guestVars
  \/ /\ ~romaji /\ ~IsAutoKeyRunning
     /\ KeyPressed(k, repeat, who) /\ UNCHANGED autoVars
  \/ /\ IF romaji THEN repeat \/ k \notin Arrows ELSE IsAutoKeyRunning
     /\ UNCHANGED <<autoVars, guestVars>>

KeyUp(k) ==
  /\ IF romaji \/ IsAutoKeyRunning THEN UNCHANGED guestVars ELSE KeyLifted(k)
  /\ UNCHANGED autoVars

(* update_auto_key, at the phases at which it acts; between them it only   *)
(* counts.  An empty buffer counts on to the end.                          *)
AutoKeyShift ==
  /\ phase = 1 /\ phase' = 3
  /\ IF buf = <<>> \/ Head(buf).shift = autoShift THEN UNCHANGED guestVars
     ELSE IF autoShift THEN KeyLifted("LShift")
                       ELSE KeyPressed("LShift", FALSE, "user")
  /\ autoShift' = IF buf = <<>> THEN autoShift ELSE Head(buf).shift
  /\ UNCHANGED buf

AutoKeyDown ==
  /\ phase = 3 /\ phase' = 8
  /\ IF buf = <<>> THEN UNCHANGED guestVars
                   ELSE KeyPressed(Head(buf).key, FALSE, "user")
  /\ UNCHANGED <<autoShift, buf>>

AutoKeyUp ==
  /\ phase = 8 /\ phase' = 10
  /\ IF buf = <<>> THEN UNCHANGED guestVars ELSE KeyLifted(Head(buf).key)
  /\ UNCHANGED <<autoShift, buf>>

\* The next key, or the end.
GoOn(left) ==
  IF left = <<>> THEN StopAutoKey ELSE phase' = 1 /\ UNCHANGED <<autoShift, guestVars>>

\* A Return waits for the guest to take the line in.
AutoKeyRead ==
  /\ phase = 10
  /\ buf' = IF buf = <<>> THEN buf ELSE Tail(buf)
  /\ IF buf # <<>> /\ Head(buf).key = "Return"
     THEN phase' = 30 /\ UNCHANGED <<autoShift, guestVars>>
     ELSE GoOn(buf')

AutoKeyLine == phase = 30 /\ GoOn(buf) /\ UNCHANGED buf

UpdateAutoKey ==
  /\ AutoKeyShift \/ AutoKeyDown \/ AutoKeyUp \/ AutoKeyRead \/ AutoKeyLine
  /\ UNCHANGED <<hostVars, menuVars, romaji>>

-----------------------------------------------------------------------------
(* The application's thread: the host's keyboard.                          *)

Idle == op = "idle" /\ releasing = {}

PressKey(k) ==
  /\ Idle /\ focused /\ k \notin held
  /\ held' = held \union {k}
  /\ KeyDown(k, FALSE, "user")
  /\ UNCHANGED <<focused, menuVars, romaji>>

RepeatKey(k) ==
  /\ Idle /\ k \in held
  /\ KeyDown(k, TRUE, "user")
  /\ UNCHANGED <<hostVars, menuVars, romaji>>

ReleaseKey(k) ==
  /\ Idle /\ k \in held
  /\ held' = held \ {k}
  /\ KeyUp(k)
  /\ UNCHANGED <<focused, menuVars, romaji>>

\* TextInput: what a character becomes is data, here a key or nothing yet.
TypeChar(k, shift) ==
  /\ Idle /\ focused /\ romaji
  /\ Feed(Typed(k, shift))
  /\ UNCHANGED <<hostVars, menuVars, romaji, guestVars>>

\* The keys the user still holds come up where the window does not see it.
FocusLost ==
  /\ Idle /\ focused
  /\ focused' = FALSE /\ held' = {}
  /\ releasing' = HostKeys
  /\ UNCHANGED <<op, checked, lockEngagedByUs, romaji, autoVars, guestVars>>

\* In the order of the key map.
ReleaseLost(k) ==
  /\ k \in releasing /\ k = CHOOSE next \in releasing : TRUE
  /\ releasing' = releasing \ {k}
  /\ KeyUp(k)
  /\ UNCHANGED <<hostVars, op, checked, lockEngagedByUs, romaji>>

FocusGained ==
  /\ Idle /\ ~focused /\ focused' = TRUE
  /\ UNCHANGED <<held, menuVars, romaji, autoVars, guestVars>>

-----------------------------------------------------------------------------
(* The menus.                                                              *)

Texts == UNION {[1..n -> [key : TextKeys, shift : BOOLEAN]]
                  : n \in 1..BufSize}

\* bx1_start_auto_key: a new list, and start_auto_key whatever is going on.
Paste(text) ==
  /\ Idle
  /\ buf' = text /\ phase' = 1 /\ autoShift' = FALSE
  /\ UNCHANGED <<hostVars, menuVars, romaji, guestVars>>

CutShort == StopAutoKey /\ UNCHANGED buf

StopPaste ==
  /\ Idle
  /\ CutShort
  /\ UNCHANGED <<hostVars, menuVars, romaji>>

\* EMU::special_reset: the NMI.  The sub CPU does not see it.
Nmi ==
  /\ Idle
  /\ CutShort
  /\ romaji' = FALSE
  /\ UNCHANGED <<hostVars, menuVars>>

\* EMU::reset.  PSUB::reset clears its modifiers and locks; key_status stays.
Reset ==
  /\ Idle
  /\ phase' = 0 /\ autoShift' = FALSE
  /\ down' = IF autoShift THEN down \ ({"LShift"} \union MergedOff("LShift")) ELSE down
  /\ guestMods' = {} /\ kanaLock' = "off" /\ loaded' = FALSE
  /\ romaji' = FALSE
  /\ UNCHANGED <<hostVars, menuVars, buf>>

\* The modifiers the keyboard can set, and a state can have been saved with.
Settable == {g \in Generics : Sides[g] \intersect (HostKeys \union {"LShift"}) # {}}

\* Load State stops the auto key; the sub CPU is that of the state.
LoadState ==
  /\ Idle
  /\ phase' = 0 /\ autoShift' = FALSE
  /\ down' = IF autoShift THEN down \ ({"LShift"} \union MergedOff("LShift")) ELSE down
  /\ guestMods' \in SUBSET Settable /\ kanaLock' \in {"off", "user"}
  /\ loaded' = TRUE
  /\ UNCHANGED <<hostVars, menuVars, romaji, buf>>

-----------------------------------------------------------------------------
(* setRomajiToKana, a call at a time.                                      *)

Go(from, to) == op = from /\ op' = to /\ UNCHANGED <<hostVars, releasing, checked>>

ClickRomaji ==
  /\ Idle
  /\ checked' = ~checked
  /\ op' = IF checked THEN "offSet" ELSE "onRunning"
  /\ UNCHANGED <<hostVars, releasing, lockEngagedByUs, romaji, autoVars, guestVars>>

\* Mutant: the poll follows the flag with the check mark only.
StatusPollMark ==
  /\ Idle /\ checked /\ ~romaji
  /\ checked' = FALSE
  /\ UNCHANGED <<hostVars, op, releasing, lockEngagedByUs, romaji, autoVars, guestVars>>

\* The status timer finds that a reset or an NMI has switched romaji off.
StatusPoll ==
  /\ Idle /\ checked /\ ~romaji
  /\ checked' = FALSE
  /\ op' = "offSet"
  /\ UNCHANGED <<hostVars, releasing, lockEngagedByUs, romaji, autoVars, guestVars>>

\* Mutant: a paste in flight is left running.
OnRunningIgnored ==
  /\ Go("onRunning", "onLocked")
  /\ UNCHANGED <<lockEngagedByUs, romaji, autoVars, guestVars>>

OnRunning ==
  /\ Go("onRunning", IF IsAutoKeyRunning THEN "onStop" ELSE "onLocked")
  /\ UNCHANGED <<lockEngagedByUs, romaji, autoVars, guestVars>>

OnStop ==
  /\ Go("onStop", "onLocked")
  /\ CutShort
  /\ UNCHANGED <<lockEngagedByUs, romaji>>

\* Mutant: the lock is taken for this module's even when it was the user's.
OnLockedOurs ==
  /\ Go("onLocked", IF kanaLock = "off" THEN "onDown" ELSE "onSet")
  /\ lockEngagedByUs' = TRUE
  /\ UNCHANGED <<romaji, autoVars, guestVars>>

OnLocked ==
  /\ Go("onLocked", IF kanaLock = "off" THEN "onDown" ELSE "onSet")
  /\ lockEngagedByUs' = (kanaLock = "off")
  /\ UNCHANGED <<romaji, autoVars, guestVars>>

\* The kana key, pressed and released, before romaji is on or after it is off.
ToggleDown ==
  /\ Go("onDown", "onUp") \/ Go("offDown", "offUp")
  /\ KeyDown("Kana", FALSE, "us")
  /\ UNCHANGED <<lockEngagedByUs, romaji>>

ToggleUp ==
  /\ Go("onUp", "onSet") \/ Go("offUp", "offEnd")
  /\ KeyUp("Kana")
  /\ UNCHANGED <<lockEngagedByUs, romaji>>

OnSet ==
  /\ Go("onSet", "onMark")
  /\ romaji' = TRUE
  /\ UNCHANGED <<lockEngagedByUs, autoVars, guestVars>>

\* bx1KeyChar(startMarker): the core's own kana key, if the lock is off.
OnMark ==
  /\ Go("onMark", "idle")
  /\ IF romaji /\ kanaLock = "off" THEN Feed(Typed("F2", FALSE))
                                   ELSE UNCHANGED autoVars
  /\ UNCHANGED <<lockEngagedByUs, romaji, guestVars>>

OffSet ==
  /\ Go("offSet", "offLocked")
  /\ romaji' = FALSE
  /\ UNCHANGED <<lockEngagedByUs, autoVars, guestVars>>

OffLocked ==
  /\ Go("offLocked", IF lockEngagedByUs /\ kanaLock # "off" THEN "offDown"
                                                            ELSE "offEnd")
  /\ UNCHANGED <<lockEngagedByUs, romaji, autoVars, guestVars>>

OffEnd ==
  /\ Go("offEnd", "idle")
  /\ lockEngagedByUs' = FALSE
  /\ UNCHANGED <<romaji, autoVars, guestVars>>

Romaji == \/ OnRunning \/ OnStop \/ OnLocked \/ ToggleDown \/ ToggleUp
          \/ OnSet \/ OnMark \/ OffSet \/ OffLocked \/ OffEnd

Keyboard == \/ \E k \in HostKeys : \/ PressKey(k) \/ RepeatKey(k) \/ ReleaseKey(k)
                                   \/ ReleaseLost(k)
            \/ \E k \in TextKeys, shift \in BOOLEAN : TypeChar(k, shift)
            \/ FocusLost \/ FocusGained

Menus == \/ \E text \in Texts : Paste(text)
         \/ StopPaste \/ Nmi \/ Reset \/ LoadState \/ ClickRomaji \/ StatusPoll

Next == UpdateAutoKey \/ Keyboard \/ Menus \/ Romaji

Spec == Init /\ [][Next]_vars

\* Frames run, calls return, and the main loop gets to its status timer.
Fairness ==
  /\ WF_vars(UpdateAutoKey) /\ WF_vars(Romaji)
  /\ WF_vars(\E k \in HostKeys : ReleaseLost(k)) /\ SF_vars(StatusPoll)

FairSpec == Spec /\ Fairness

-----------------------------------------------------------------------------
\* "Merges left/right modifier keys into their generic counterpart": it is
\* down while either side is, and a guest that saw the keys go down itself
\* has no modifier that is not.
ModifiersMerged ==
  \A g \in Generics : /\ g \in down <=> Sides[g] \intersect down # {}
                      /\ g \in guestMods /\ ~loaded => g \in down

\* While the auto key counts on Shift, Shift is down: nothing the user does
\* takes it away, and it goes up when the auto key stops.
AutoShiftIsDown == autoShift => "LShift" \in down

\* What the machine hears of the modifiers is what is held down.
ModifiersHold == ModifiersMerged /\ AutoShiftIsDown

\* "Engaged while it is on": romaji never goes without the kana lock, a
\* paste in flight or a frame between the calls notwithstanding.  A loaded
\* state brings a lock of its own and leaves romaji on.
RomajiHasItsLock == romaji /\ op = "idle" /\ ~loaded => kanaLock # "off"

\* "The lock is only released again if this module is the one that engaged
\* it": what romaji will give back when it goes off is never the user's lock.
OnlyOursIsReleased ==
  romaji /\ op = "idle" /\ lockEngagedByUs /\ ~loaded => kanaLock = "us"

\* The kana lock is romaji's while romaji is on.
LockIsRomajis == RomajiHasItsLock /\ OnlyOursIsReleased

\* An NMI does not leave "the guest locked in kana, with nothing in the app
\* able to release it" - unless the auto key swallows the key press.
LockIsGivenBack ==
  checked /\ ~romaji /\ op = "idle" /\ lockEngagedByUs /\ kanaLock = "us"
    ~> kanaLock # "us" \/ IsAutoKeyRunning

\* "A key held down when focus moves away" is not "a permanently stuck key":
\* once the release is through and the auto key idle, no key is down.
NoStuckKey == ~focused /\ Idle /\ ~IsAutoKeyRunning => down = {}
=============================================================================

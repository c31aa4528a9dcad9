---------------------------- MODULE KeyInputProofs ----------------------------
(***************************************************************************)
(* What holds of the keyboard's path for every set of keys and every size  *)
(* of the auto key's buffer; and of what the sub CPU tells a program, for  *)
(* every set of commands and of keys.                                      *)
(***************************************************************************)
EXTENDS KeyInput, SubCpu, SequenceTheorems, TLAPS

\* The keys that reach OSD::key_change: never a generic modifier.
Codes == HostKeys \union TextKeys \union Arrows \union {"LShift", "Kana", "F2"}

LEMMA CodesAreKeys == Codes \subseteq Keys /\ Codes \intersect Generics = {}
BY KeyInputAssumption DEF Codes, Keys, Generics, Arrows

LEMMA HeadIsEntry ==
  ASSUME NEW b \in Seq(Entry), b # <<>>
  PROVE  /\ Head(b) \in Entry /\ Tail(b) \in Seq(Entry)
         /\ Head(b).key \in Codes
         /\ Head(b).key # "Kana" /\ Head(b).key # "LShift"
         /\ Head(b).shift \in BOOLEAN
<1>1. Head(b) \in Entry /\ Tail(b) \in Seq(Entry)
  OBVIOUS
<1>2. Head(b).key \in TextKeys \union Arrows \union {"F2"}
  BY <1>1 DEF Entry
<1>3. Head(b).shift \in BOOLEAN
  BY <1>1 DEF Entry
<1> QED
  BY <1>1, <1>2, <1>3, KeyInputAssumption DEF Codes, Arrows

LEMMA TextIsEntries == Texts \subseteq Seq(Entry)
<1> SUFFICES ASSUME NEW text \in Texts PROVE text \in Seq(Entry)
  OBVIOUS
<1>1. PICK n \in 1..BufSize :
        text \in [1..n -> [key : TextKeys, shift : BOOLEAN]]
  BY DEF Texts
<1>2. [key : TextKeys, shift : BOOLEAN] \subseteq Entry
  BY DEF Entry
<1>3. text \in [1..n -> Entry]
  BY <1>1, <1>2
<1> QED
  BY <1>1, <1>3, KeyInputAssumption

-----------------------------------------------------------------------------
(* What a key does to the guest.                                           *)

GuestOK == /\ down \subseteq Keys /\ guestMods \subseteq Generics
           /\ kanaLock \in {"off", "us", "user"} /\ loaded \in BOOLEAN

LEMMA PressedOK ==
  ASSUME NEW k \in Codes, NEW repeat \in BOOLEAN, NEW who \in {"us", "user"},
         KeyPressed(k, repeat, who)
  PROVE  /\ GuestOK => GuestOK'
         /\ ModifiersMerged => ModifiersMerged'
         /\ "LShift" \in down => "LShift" \in down'
         /\ k \in down'
         /\ k # "Kana" => kanaLock' = kanaLock
         /\ loaded' = loaded
<1> USE CodesAreKeys
<1>1. GuestOK => GuestOK'
  BY DEF GuestOK, KeyPressed, MergedOn, Toggled, Keys
<1>2. ASSUME ModifiersMerged, NEW g \in Generics
      PROVE  /\ g \in down' <=> Sides[g] \intersect down' # {}
             /\ g \in guestMods' /\ ~loaded' => g \in down'
  <2>1. Sides[g] \intersect Generics = {} /\ k \notin Generics
    BY DEF Sides, Generics
  <2>2. g \in down <=> Sides[g] \intersect down # {}
    BY <1>2 DEF ModifiersMerged
  <2>3. g \in guestMods /\ ~loaded => g \in down
    BY <1>2 DEF ModifiersMerged
  <2>4. g \in down' <=> g \in down \/ g \in MergedOn(k)
    BY <2>1 DEF KeyPressed
  <2>5. Sides[g] \intersect down' = {} <=> Sides[g] \intersect down = {} /\ k \notin Sides[g]
    BY <2>1 DEF KeyPressed, MergedOn
  <2> QED
    BY <2>2, <2>3, <2>4, <2>5 DEF KeyPressed, MergedOn
<1>3. ModifiersMerged => ModifiersMerged'
  BY <1>2 DEF ModifiersMerged
<1> QED
  BY <1>1, <1>3 DEF KeyPressed

LEMMA DownLifted ==
  ASSUME NEW k \in Codes, down' = down \ ({k} \union MergedOff(k)),
         ModifiersMerged, NEW g \in Generics
  PROVE  /\ g \in down' <=> Sides[g] \intersect down' # {}
         /\ g \in down /\ g \notin MergedOff(k) => g \in down'
<1>1. Sides[g] \intersect Generics = {} /\ k \notin Generics
  BY CodesAreKeys DEF Sides, Generics
<1>2. g \in down <=> Sides[g] \intersect down # {}
  BY DEF ModifiersMerged
<1>3. g \in down' <=> g \in down /\ g \notin MergedOff(k)
  BY <1>1
<1>4. Sides[g] \intersect down' = (Sides[g] \intersect down) \ {k}
  BY <1>1 DEF MergedOff
<1>5. g \in MergedOff(k) <=> Sides[g] \intersect down = {k}
  BY DEF MergedOff
<1> QED
  BY <1>2, <1>3, <1>4, <1>5

LEMMA LiftedOK ==
  ASSUME NEW k \in Codes, KeyLifted(k)
  PROVE  /\ GuestOK => GuestOK'
         /\ ModifiersMerged => ModifiersMerged'
         /\ k # "LShift" /\ "LShift" \in down => "LShift" \in down'
         /\ UNCHANGED <<kanaLock, loaded>>
<1>1. GuestOK => GuestOK'
  BY DEF GuestOK, KeyLifted
<1>2. ASSUME ModifiersMerged, NEW g \in Generics
      PROVE  /\ g \in down' <=> Sides[g] \intersect down' # {}
             /\ g \in guestMods' /\ ~loaded' => g \in down'
  <2>1. g \in guestMods /\ ~loaded => g \in down
    BY <1>2 DEF ModifiersMerged
  <2> QED
    BY <1>2, <2>1, DownLifted DEF KeyLifted
<1>3. ModifiersMerged => ModifiersMerged'
  BY <1>2 DEF ModifiersMerged
<1>4. k # "LShift" /\ "LShift" \in down => "LShift" \in down'
  BY DEF KeyLifted, MergedOff, Generics
<1> QED
  BY <1>1, <1>3, <1>4 DEF KeyLifted

-----------------------------------------------------------------------------
(* Type correctness.  The guest's part is GuestOK; AutoOK is the rest.     *)

AutoOK == /\ phase \in {0, 1, 3, 8, 10, 30} /\ autoShift \in BOOLEAN
          /\ buf \in Seq(Entry)
MenuOK == /\ focused \in BOOLEAN /\ held \subseteq HostKeys
          /\ op \in {"idle"} \union OnOps \union OffOps
          /\ releasing \subseteq HostKeys
          /\ checked \in BOOLEAN /\ lockEngagedByUs \in BOOLEAN /\ romaji \in BOOLEAN

LEMMA TypeParts == TypeOK <=> AutoOK /\ MenuOK /\ GuestOK
BY DEF TypeOK, AutoOK, MenuOK, GuestOK

\* What every step keeps of the auto key: Shift is down while it counts on
\* it, and it counts on it only while it is running.
ShiftInv == AutoShiftIsDown /\ (autoShift => IsAutoKeyRunning)

\* The machine's half of the invariant, which every action that touches the
\* auto key or the guest keeps on its own.
KeysInv == AutoOK /\ GuestOK /\ ModifiersMerged /\ ShiftInv

LEMMA FeedOK ==
  ASSUME KeysInv, NEW entry \in Entry, Feed(entry), UNCHANGED guestVars
  PROVE  KeysInv'
<1>1. buf' \in Seq(Entry)
  BY DEF KeysInv, AutoOK, Feed, Written
<1>2. AutoOK'
  BY <1>1 DEF KeysInv, AutoOK, Feed, IsAutoKeyRunning
<1>3. GuestOK' /\ ModifiersMerged'
  BY DEF KeysInv, GuestOK, ModifiersMerged, guestVars
<1>4. ShiftInv'
  BY DEF KeysInv, AutoOK, ShiftInv, AutoShiftIsDown, Feed, IsAutoKeyRunning, guestVars
<1> QED
  BY <1>2, <1>3, <1>4 DEF KeysInv

LEMMA StopOK ==
  ASSUME KeysInv, StopAutoKey, buf' \in Seq(Entry)
  PROVE  KeysInv' /\ UNCHANGED <<kanaLock, loaded>> /\ ~IsAutoKeyRunning'
<1>1. AutoOK' /\ ShiftInv' /\ ~IsAutoKeyRunning'
  BY DEF KeysInv, AutoOK, ShiftInv, AutoShiftIsDown, StopAutoKey, IsAutoKeyRunning
<1>2. CASE autoShift
  <2>1. KeyLifted("LShift") /\ "LShift" \in Codes
    BY <1>2 DEF StopAutoKey, Codes
  <2> QED
    BY <1>1, <2>1, LiftedOK DEF KeysInv
<1>3. CASE ~autoShift
  <2>1. UNCHANGED guestVars
    BY <1>3 DEF StopAutoKey
  <2> QED
    BY <1>1, <2>1 DEF KeysInv, GuestOK, ModifiersMerged, guestVars
<1> QED
  BY <1>2, <1>3

LEMMA KeyDownOK ==
  ASSUME KeysInv, NEW k \in HostKeys \union {"Kana"}, NEW repeat \in BOOLEAN,
         NEW who \in {"us", "user"}, KeyDown(k, repeat, who)
  PROVE  /\ KeysInv'
         /\ romaji => kanaLock' = kanaLock
         /\ loaded' = loaded
         /\ ~romaji => (IsAutoKeyRunning' <=> IsAutoKeyRunning)
<1>1. k \in Codes
  BY DEF Codes
<1>2. CASE romaji /\ ~repeat /\ k \in Arrows /\ Feed(Typed(k, FALSE)) /\ UNCHANGED guestVars
  <2>1. Typed(k, FALSE) \in Entry
    BY <1>2 DEF Typed, Entry
  <2>2. KeysInv'
    BY <1>2, <2>1, FeedOK
  <2> QED
    BY <1>2, <2>2 DEF guestVars
<1>3. CASE ~romaji /\ ~IsAutoKeyRunning /\ KeyPressed(k, repeat, who) /\ UNCHANGED autoVars
  <2>1. AutoOK' /\ (IsAutoKeyRunning' <=> IsAutoKeyRunning)
    BY <1>3 DEF KeysInv, AutoOK, autoVars, IsAutoKeyRunning
  <2>2. ShiftInv'
    BY <1>1, <1>3, PressedOK
       DEF KeysInv, AutoOK, ShiftInv, AutoShiftIsDown, autoVars, IsAutoKeyRunning
  <2> QED
    BY <1>1, <1>3, <2>1, <2>2, PressedOK DEF KeysInv
<1>4. CASE UNCHANGED <<autoVars, guestVars>>
  BY <1>4 DEF KeysInv, AutoOK, GuestOK, ModifiersMerged, ShiftInv, AutoShiftIsDown,
              IsAutoKeyRunning, autoVars, guestVars
<1> QED
  BY <1>2, <1>3, <1>4 DEF KeyDown

LEMMA KeyUpOK ==
  ASSUME KeysInv, NEW k \in HostKeys \union {"Kana"}, KeyUp(k)
  PROVE  KeysInv' /\ UNCHANGED <<kanaLock, loaded>> /\ phase' = phase
<1>1. k \in Codes
  BY DEF Codes
<1>2. AutoOK' /\ phase' = phase
  BY DEF KeysInv, AutoOK, KeyUp, autoVars
<1>3. CASE romaji \/ IsAutoKeyRunning
  <2>1. UNCHANGED guestVars
    BY <1>3 DEF KeyUp
  <2> QED
    BY <1>2, <2>1 DEF KeysInv, GuestOK, ModifiersMerged, ShiftInv, AutoShiftIsDown,
                      IsAutoKeyRunning, KeyUp, autoVars, guestVars
<1>4. CASE ~(romaji \/ IsAutoKeyRunning)
  <2>1. KeyLifted(k)
    BY <1>4 DEF KeyUp
  <2>2. ShiftInv'
    BY <1>4 DEF KeysInv, ShiftInv, AutoShiftIsDown, IsAutoKeyRunning, KeyUp, autoVars
  <2> QED
    BY <1>1, <1>2, <2>1, <2>2, LiftedOK DEF KeysInv
<1> QED
  BY <1>3, <1>4
-----------------------------------------------------------------------------

LEMMA FrameOK ==
  ASSUME KeysInv, UpdateAutoKey
  PROVE  KeysInv' /\ UNCHANGED <<kanaLock, loaded>> /\ IsAutoKeyRunning
<1> USE HeadIsEntry DEF KeysInv
<1>1. buf \in Seq(Entry)
  BY DEF AutoOK, UpdateAutoKey, AutoKeyShift, AutoKeyDown, AutoKeyUp, AutoKeyRead,
         AutoKeyLine
<1>2. ASSUME buf # <<>>, NEW k, k = Head(buf).key
      PROVE  k \in Codes /\ k # "Kana" /\ k # "LShift"
  BY <1>1, <1>2
<1>3. ASSUME UNCHANGED guestVars
      PROVE  GuestOK' /\ ModifiersMerged' /\ UNCHANGED <<kanaLock, loaded>>
  BY <1>3 DEF GuestOK, ModifiersMerged, guestVars
<1>4. CASE AutoKeyShift
  <2>1. AutoOK' /\ IsAutoKeyRunning /\ IsAutoKeyRunning'
    BY <1>1, <1>4 DEF AutoOK, AutoKeyShift, IsAutoKeyRunning
  <2>2. CASE buf = <<>> \/ Head(buf).shift = autoShift
    <3>1. UNCHANGED guestVars /\ autoShift' = autoShift
      BY <1>4, <2>2 DEF AutoKeyShift
    <3> QED
      BY <1>3, <2>1, <3>1 DEF ShiftInv, AutoShiftIsDown, guestVars
  <2>3. CASE buf # <<>> /\ Head(buf).shift # autoShift /\ autoShift
    <3>1. KeyLifted("LShift") /\ "LShift" \in Codes /\ autoShift' = Head(buf).shift
      BY <1>4, <2>3 DEF AutoKeyShift, Codes
    <3>2. Head(buf).shift \in BOOLEAN
      BY <1>1, <2>3
    <3>3. ~autoShift'
      BY <2>3, <3>1, <3>2
    <3> QED
      BY <2>1, <3>1, <3>3, LiftedOK DEF ShiftInv, AutoShiftIsDown
  <2>4. CASE buf # <<>> /\ Head(buf).shift # autoShift /\ ~autoShift
    <3>1. KeyPressed("LShift", FALSE, "user") /\ "LShift" \in Codes
      BY <1>4, <2>4 DEF AutoKeyShift, Codes
    <3> QED
      BY <2>1, <3>1, PressedOK DEF ShiftInv, AutoShiftIsDown
  <2> QED
    BY <2>2, <2>3, <2>4
<1>5. CASE AutoKeyDown
  <2>1. AutoOK' /\ IsAutoKeyRunning /\ IsAutoKeyRunning' /\ autoShift' = autoShift
    BY <1>1, <1>5 DEF AutoOK, AutoKeyDown, IsAutoKeyRunning
  <2>2. CASE buf = <<>>
    BY <1>3, <1>5, <2>1, <2>2 DEF AutoKeyDown, ShiftInv, AutoShiftIsDown, guestVars
  <2>3. CASE buf # <<>>
    <3> DEFINE k == Head(buf).key
    <3>1. KeyPressed(k, FALSE, "user") /\ k \in Codes /\ k # "Kana"
      BY <1>2, <1>5, <2>3 DEF AutoKeyDown
    <3> HIDE DEF k
    <3> QED
      BY <2>1, <3>1, PressedOK DEF ShiftInv, AutoShiftIsDown
  <2> QED
    BY <2>2, <2>3
<1>6. CASE AutoKeyUp
  <2>1. AutoOK' /\ IsAutoKeyRunning /\ IsAutoKeyRunning' /\ autoShift' = autoShift
    BY <1>1, <1>6 DEF AutoOK, AutoKeyUp, IsAutoKeyRunning
  <2>2. CASE buf = <<>>
    BY <1>3, <1>6, <2>1, <2>2 DEF AutoKeyUp, ShiftInv, AutoShiftIsDown, guestVars
  <2>3. CASE buf # <<>>
    <3> DEFINE k == Head(buf).key
    <3>1. KeyLifted(k) /\ k \in Codes /\ k # "LShift"
      BY <1>2, <1>6, <2>3 DEF AutoKeyUp
    <3> HIDE DEF k
    <3> QED
      BY <2>1, <3>1, LiftedOK DEF ShiftInv, AutoShiftIsDown
  <2> QED
    BY <2>2, <2>3
<1>7. ASSUME buf' \in Seq(Entry), NEW left, GoOn(left)
      PROVE  KeysInv' /\ UNCHANGED <<kanaLock, loaded>>
  <2>1. CASE StopAutoKey
    BY <1>1, <1>7, <2>1, StopOK
  <2>2. CASE phase' = 1 /\ UNCHANGED <<autoShift, guestVars>>
    BY <1>1, <1>3, <1>7, <2>2
       DEF AutoOK, ShiftInv, AutoShiftIsDown, IsAutoKeyRunning, guestVars
  <2> QED
    BY <1>7, <2>1, <2>2 DEF GoOn
<1>8. CASE AutoKeyRead
  <2>1. buf' \in Seq(Entry)
    BY <1>1, <1>8 DEF AutoKeyRead
  <2>2. CASE GoOn(buf')
    BY <1>7, <1>8, <2>1, <2>2 DEF AutoKeyRead, IsAutoKeyRunning
  <2>3. CASE phase' = 30 /\ UNCHANGED <<autoShift, guestVars>>
    BY <1>1, <1>3, <1>8, <2>1, <2>3
       DEF AutoOK, ShiftInv, AutoShiftIsDown, IsAutoKeyRunning, guestVars, AutoKeyRead
  <2> QED
    BY <1>8, <2>2, <2>3 DEF AutoKeyRead
<1>9. CASE AutoKeyLine
  BY <1>1, <1>7, <1>9 DEF AutoKeyLine, IsAutoKeyRunning
<1> QED
  BY <1>4, <1>5, <1>6, <1>8, <1>9 DEF UpdateAutoKey
-----------------------------------------------------------------------------

\* The Shift of a stopped auto key goes up in key_status.
LEMMA ShiftTakenBack ==
  ASSUME KeysInv, NEW g \in Generics,
         down' = IF autoShift THEN down \ ({"LShift"} \union MergedOff("LShift")) ELSE down
  PROVE  g \in down' <=> Sides[g] \intersect down' # {}
<1>1. CASE autoShift
  <2>1. down' = down \ ({"LShift"} \union MergedOff("LShift")) /\ "LShift" \in Codes
    BY <1>1 DEF Codes
  <2> QED
    BY <2>1, DownLifted DEF KeysInv
<1>2. CASE ~autoShift
  BY <1>2 DEF KeysInv, ModifiersMerged
<1> QED
  BY <1>1, <1>2

LEMMA ResetOK ==
  ASSUME KeysInv, Reset
  PROVE  KeysInv'
<1>1. AutoOK' /\ ShiftInv'
  BY DEF KeysInv, AutoOK, ShiftInv, AutoShiftIsDown, Reset
<1>2. GuestOK'
  BY DEF KeysInv, GuestOK, Reset
<1>3. ASSUME NEW g \in Generics
      PROVE  g \in down' <=> Sides[g] \intersect down' # {}
  BY <1>3, ShiftTakenBack DEF Reset
<1>4. ModifiersMerged'
  BY <1>3 DEF ModifiersMerged, Reset
<1> QED
  BY <1>1, <1>2, <1>4 DEF KeysInv

LEMMA LoadOK ==
  ASSUME KeysInv, LoadState
  PROVE  KeysInv'
<1>1. AutoOK' /\ ShiftInv'
  BY DEF KeysInv, AutoOK, ShiftInv, AutoShiftIsDown, LoadState
<1>2. GuestOK'
  BY DEF KeysInv, GuestOK, LoadState, Settable
<1>3. ASSUME NEW g \in Generics
      PROVE  g \in down' <=> Sides[g] \intersect down' # {}
  BY <1>3, ShiftTakenBack DEF LoadState
<1>4. loaded'
  BY DEF LoadState
<1>5. ModifiersMerged'
  BY <1>3, <1>4 DEF ModifiersMerged
<1> QED
  BY <1>1, <1>2, <1>5 DEF KeysInv

-----------------------------------------------------------------------------
(* The kana lock.  What setRomajiToKana knows at each of its calls: from   *)
(* the moment it has stopped the auto key no frame can start it again, so  *)
(* the kana key it presses is not swallowed.                               *)

LockHeld == kanaLock # "off" /\ (lockEngagedByUs => kanaLock = "us")

LockInv ==
  /\ romaji => checked \/ op = "offSet"
  /\ op \in OnOps => checked
  /\ op \in OnOps \ {"onMark"} => ~romaji
  /\ op \in OffOps \ {"offSet"} => ~romaji
  /\ op \in {"onLocked", "onDown", "onUp", "onSet"} => ~IsAutoKeyRunning
  /\ op = "onDown" => kanaLock = "off" /\ lockEngagedByUs
  /\ op \in {"onUp", "onSet", "onMark"} => LockHeld
  /\ romaji /\ op = "idle" /\ ~loaded => LockHeld

IInv == MenuOK /\ KeysInv /\ LockInv

LEMMA InitInv == Init => IInv
<1> SUFFICES ASSUME Init PROVE IInv
  OBVIOUS
<1>1. MenuOK /\ LockInv
  BY DEF Init, MenuOK, LockInv, OnOps, OffOps
<1>2. <<>> \in Seq(Entry)
  OBVIOUS
<1>4. AutoOK /\ GuestOK /\ ShiftInv
  BY <1>2 DEF Init, AutoOK, GuestOK, ShiftInv, AutoShiftIsDown
<1>3. ModifiersMerged
  BY DEF Init, ModifiersMerged
<1> QED
  BY <1>1, <1>3, <1>4 DEF IInv, KeysInv

\* A step that leaves the application's thread where it is.
LEMMA LockStays ==
  ASSUME LockInv, UNCHANGED <<op, checked, lockEngagedByUs, romaji, loaded>>,
         romaji \/ op # "idle" => kanaLock' = kanaLock,
         op = "idle" \/ IsAutoKeyRunning \/ ~IsAutoKeyRunning'
  PROVE  LockInv'
BY DEF LockInv, LockHeld, OnOps, OffOps

LEMMA KeyboardInv ==
  ASSUME IInv, Keyboard
  PROVE  IInv'
<1> USE DEF IInv, Idle
<1>1. ASSUME NEW k \in HostKeys, PressKey(k)
      PROVE  IInv'
  <2>1. MenuOK'
    BY <1>1 DEF MenuOK, PressKey, menuVars
  <2>2. KeysInv' /\ (romaji => kanaLock' = kanaLock) /\ loaded' = loaded
    BY <1>1, KeyDownOK DEF PressKey
  <2> QED
    BY <1>1, <2>1, <2>2, LockStays DEF PressKey, menuVars
<1>2. ASSUME NEW k \in HostKeys, RepeatKey(k)
      PROVE  IInv'
  <2>1. MenuOK'
    BY <1>2 DEF MenuOK, RepeatKey, hostVars, menuVars
  <2>2. KeysInv' /\ (romaji => kanaLock' = kanaLock) /\ loaded' = loaded
    BY <1>2, KeyDownOK DEF RepeatKey
  <2> QED
    BY <1>2, <2>1, <2>2, LockStays DEF RepeatKey, menuVars
<1>3. ASSUME NEW k \in HostKeys, ReleaseKey(k)
      PROVE  IInv'
  <2>1. MenuOK'
    BY <1>3 DEF MenuOK, ReleaseKey, menuVars
  <2>2. KeysInv' /\ UNCHANGED <<kanaLock, loaded>>
    BY <1>3, KeyUpOK DEF ReleaseKey
  <2> QED
    BY <1>3, <2>1, <2>2, LockStays DEF ReleaseKey, menuVars
<1>4. ASSUME NEW k \in HostKeys, ReleaseLost(k)
      PROVE  IInv'
  <2>1. MenuOK'
    BY <1>4 DEF MenuOK, ReleaseLost, hostVars
  <2>2. KeysInv' /\ UNCHANGED <<kanaLock, loaded>> /\ phase' = phase
    BY <1>4, KeyUpOK DEF ReleaseLost
  <2> QED
    BY <1>4, <2>1, <2>2, LockStays DEF ReleaseLost, IsAutoKeyRunning
<1>5. ASSUME NEW k \in TextKeys, NEW shift \in BOOLEAN, TypeChar(k, shift)
      PROVE  IInv'
  <2>1. Typed(k, shift) \in Entry
    BY DEF Typed, Entry
  <2>2. MenuOK'
    BY <1>5 DEF MenuOK, TypeChar, hostVars, menuVars
  <2>3. KeysInv'
    BY <1>5, <2>1, FeedOK DEF TypeChar
  <2> QED
    BY <1>5, <2>2, <2>3, LockStays DEF TypeChar, menuVars, guestVars
<1>6. ASSUME FocusLost \/ FocusGained
      PROVE  IInv'
  <2>1. MenuOK'
    BY <1>6 DEF MenuOK, FocusLost, FocusGained, menuVars
  <2>2. UNCHANGED <<op, checked, lockEngagedByUs, romaji, autoVars, guestVars>>
    BY <1>6 DEF FocusLost, FocusGained, menuVars
  <2>3. KeysInv'
    BY <2>2 DEF KeysInv, AutoOK, GuestOK, ModifiersMerged, ShiftInv, AutoShiftIsDown,
                IsAutoKeyRunning, autoVars, guestVars
  <2> QED
    BY <2>1, <2>2, <2>3, LockStays DEF autoVars, guestVars, IsAutoKeyRunning
<1> QED
  BY <1>1, <1>2, <1>3, <1>4, <1>5, <1>6 DEF Keyboard
-----------------------------------------------------------------------------

LEMMA MenusInv ==
  ASSUME IInv, Menus
  PROVE  IInv'
<1> USE DEF IInv, Idle
<1>1. ASSUME NEW text \in Texts, Paste(text)
      PROVE  IInv'
  <2>1. MenuOK'
    BY <1>1 DEF MenuOK, Paste, hostVars, menuVars
  <2>2. AutoOK' /\ ShiftInv'
    BY <1>1, TextIsEntries DEF Paste, AutoOK, KeysInv, ShiftInv, AutoShiftIsDown
  <2>3. GuestOK' /\ ModifiersMerged'
    BY <1>1 DEF Paste, KeysInv, GuestOK, ModifiersMerged, guestVars
  <2> QED
    BY <1>1, <2>1, <2>2, <2>3, LockStays DEF Paste, KeysInv, menuVars, guestVars
<1>2. ASSUME CutShort
      PROVE  KeysInv' /\ UNCHANGED <<kanaLock, loaded>> /\ ~IsAutoKeyRunning'
  BY <1>2, StopOK DEF CutShort, KeysInv, AutoOK
<1>3. CASE StopPaste
  <2>1. MenuOK'
    BY <1>3 DEF MenuOK, StopPaste, hostVars, menuVars
  <2> QED
    BY <1>2, <1>3, <2>1, LockStays DEF StopPaste, menuVars
<1>4. CASE Nmi
  <2>1. MenuOK'
    BY <1>4 DEF MenuOK, Nmi, hostVars, menuVars
  <2>2. LockInv'
    BY <1>4 DEF LockInv, Nmi, menuVars, OnOps, OffOps
  <2> QED
    BY <1>2, <1>4, <2>1, <2>2 DEF Nmi
<1>5. CASE Reset
  <2>1. MenuOK'
    BY <1>5 DEF MenuOK, Reset, hostVars, menuVars
  <2>2. LockInv'
    BY <1>5 DEF LockInv, Reset, menuVars, OnOps, OffOps
  <2> QED
    BY <1>5, <2>1, <2>2, ResetOK
<1>9. CASE LoadState
  <2>1. MenuOK'
    BY <1>9 DEF MenuOK, LoadState, hostVars, menuVars
  <2>2. LockInv'
    BY <1>9 DEF LockInv, LockHeld, LoadState, menuVars, OnOps, OffOps
  <2> QED
    BY <1>9, <2>1, <2>2, LoadOK
<1>6. ASSUME UNCHANGED <<autoVars, guestVars>>
      PROVE  KeysInv'
  BY <1>6 DEF KeysInv, AutoOK, GuestOK, ModifiersMerged, ShiftInv, AutoShiftIsDown,
              IsAutoKeyRunning, autoVars, guestVars
<1>7. CASE ClickRomaji
  <2>1. MenuOK'
    BY <1>7 DEF MenuOK, ClickRomaji, hostVars, OnOps, OffOps
  <2>2. LockInv'
    BY <1>7 DEF LockInv, ClickRomaji, OnOps, OffOps
  <2> QED
    BY <1>6, <1>7, <2>1, <2>2 DEF ClickRomaji
<1>8. CASE StatusPoll
  <2>1. MenuOK'
    BY <1>8 DEF MenuOK, StatusPoll, hostVars, OffOps
  <2>2. LockInv'
    BY <1>8 DEF LockInv, StatusPoll, OnOps, OffOps
  <2> QED
    BY <1>6, <1>8, <2>1, <2>2 DEF StatusPoll
<1> QED
  BY <1>1, <1>3, <1>4, <1>5, <1>7, <1>8, <1>9 DEF Menus

LEMMA RomajiInv ==
  ASSUME IInv, Romaji
  PROVE  IInv'
<1> USE DEF IInv, Go
<1>1. ASSUME UNCHANGED <<autoVars, guestVars>>
      PROVE  KeysInv' /\ UNCHANGED <<kanaLock, loaded>> /\ phase' = phase
  BY <1>1 DEF KeysInv, AutoOK, GuestOK, ModifiersMerged, ShiftInv, AutoShiftIsDown,
              IsAutoKeyRunning, autoVars, guestVars
<1>2. CASE OnRunning
  <2>1. MenuOK'
    BY <1>2 DEF MenuOK, OnRunning, hostVars, OnOps
  <2>2. LockInv'
    BY <1>1, <1>2 DEF LockInv, OnRunning, OnOps, OffOps, IsAutoKeyRunning
  <2> QED
    BY <1>1, <1>2, <2>1, <2>2 DEF OnRunning
<1>3. CASE OnStop
  <2>1. MenuOK'
    BY <1>3 DEF MenuOK, OnStop, hostVars, OnOps
  <2>2. KeysInv' /\ ~IsAutoKeyRunning'
    BY <1>3, StopOK DEF OnStop, CutShort, KeysInv, AutoOK
  <2>3. LockInv'
    BY <1>3, <2>2 DEF LockInv, OnStop, OnOps, OffOps
  <2> QED
    BY <2>1, <2>2, <2>3
<1>4. CASE OnLocked
  <2>1. MenuOK'
    BY <1>4 DEF MenuOK, OnLocked, hostVars, OnOps
  <2>2. LockInv'
    BY <1>1, <1>4 DEF LockInv, LockHeld, OnLocked, OnOps, OffOps, IsAutoKeyRunning
  <2> QED
    BY <1>1, <1>4, <2>1, <2>2 DEF OnLocked
<1>5. CASE ToggleDown
  <2>1. MenuOK'
    BY <1>5 DEF MenuOK, ToggleDown, hostVars, OnOps, OffOps
  <2>2. KeysInv' /\ (~romaji => (IsAutoKeyRunning' <=> IsAutoKeyRunning))
    BY <1>5, KeyDownOK DEF ToggleDown
  <2>3. CASE op = "onDown"
    <3>1. ~romaji /\ ~IsAutoKeyRunning /\ kanaLock = "off" /\ lockEngagedByUs /\ checked
      BY <2>3 DEF LockInv, OnOps
    <3>2. KeyPressed("Kana", FALSE, "us")
      BY <1>5, <3>1 DEF ToggleDown, KeyDown
    <3>3. kanaLock' = "us"
      BY <3>1, <3>2 DEF KeyPressed, Toggled
    <3> QED
      BY <1>5, <2>1, <2>2, <2>3, <3>1, <3>3
         DEF ToggleDown, LockInv, LockHeld, OnOps, OffOps
  <2>4. CASE op = "offDown"
    <3>1. ~romaji
      BY <2>4 DEF LockInv, OffOps
    <3> QED
      BY <1>5, <2>1, <2>2, <2>4, <3>1 DEF ToggleDown, LockInv, LockHeld, OnOps, OffOps
  <2> QED
    BY <1>5, <2>3, <2>4 DEF ToggleDown
<1>6. CASE ToggleUp
  <2>1. MenuOK'
    BY <1>6 DEF MenuOK, ToggleUp, hostVars, OnOps, OffOps
  <2>2. KeysInv' /\ UNCHANGED <<kanaLock, loaded>> /\ phase' = phase
    BY <1>6, KeyUpOK DEF ToggleUp
  <2>3. LockInv'
    BY <1>6, <2>2 DEF LockInv, LockHeld, ToggleUp, OnOps, OffOps, IsAutoKeyRunning
  <2> QED
    BY <2>1, <2>2, <2>3
<1>7. CASE OnSet
  <2>1. MenuOK'
    BY <1>7 DEF MenuOK, OnSet, hostVars, OnOps
  <2>2. LockInv'
    BY <1>1, <1>7 DEF LockInv, LockHeld, OnSet, OnOps, OffOps
  <2> QED
    BY <1>1, <1>7, <2>1, <2>2 DEF OnSet
<1>8. CASE OnMark
  <2>1. MenuOK'
    BY <1>8 DEF MenuOK, OnMark, hostVars
  <2>2. kanaLock # "off"
    BY <1>8 DEF LockInv, LockHeld, OnMark
  <2>3. UNCHANGED <<autoVars, guestVars>>
    BY <1>8, <2>2 DEF OnMark
  <2>4. LockInv'
    BY <1>1, <1>8, <2>3 DEF LockInv, LockHeld, OnMark, OnOps, OffOps
  <2> QED
    BY <1>1, <2>1, <2>3, <2>4
<1>9. CASE OffSet \/ OffLocked \/ OffEnd
  <2>1. MenuOK'
    BY <1>9 DEF MenuOK, OffSet, OffLocked, OffEnd, hostVars, OffOps
  <2>2. UNCHANGED <<autoVars, guestVars>>
    BY <1>9 DEF OffSet, OffLocked, OffEnd
  <2>3. LockInv'
    BY <1>9 DEF LockInv, OffSet, OffLocked, OffEnd, OnOps, OffOps
  <2> QED
    BY <1>1, <2>1, <2>2, <2>3
<1> QED
  BY <1>2, <1>3, <1>4, <1>5, <1>6, <1>7, <1>8, <1>9 DEF Romaji

LEMMA NextInv == IInv /\ [Next]_vars => IInv'
<1> SUFFICES ASSUME IInv, [Next]_vars PROVE IInv'
  OBVIOUS
<1>1. CASE UpdateAutoKey
  <2>1. MenuOK'
    BY <1>1 DEF UpdateAutoKey, IInv, MenuOK, hostVars, menuVars
  <2>2. KeysInv' /\ UNCHANGED <<kanaLock, loaded>> /\ IsAutoKeyRunning
    BY <1>1, FrameOK DEF IInv
  <2> QED
    BY <1>1, <2>1, <2>2, LockStays DEF UpdateAutoKey, IInv, menuVars
<1>2. CASE UNCHANGED vars
  BY <1>2 DEF vars, hostVars, menuVars, autoVars, guestVars, IInv, MenuOK, KeysInv, AutoOK,
              GuestOK, ModifiersMerged, ShiftInv, AutoShiftIsDown, IsAutoKeyRunning,
              LockInv, LockHeld
<1> QED
  BY <1>1, <1>2, KeyboardInv, MenusInv, RomajiInv DEF Next

-----------------------------------------------------------------------------
(* The theorems.                                                           *)

\* Left and right modifiers stay merged, and the Shift the auto key counts
\* on stays down (OSD::key_change, EMU::key_up, EMU::update_auto_key).
THEOREM KeysAreMerged ==
  Spec => [](TypeOK /\ ModifiersHold)
<1>1. Init => IInv
  BY InitInv
<1>2. IInv /\ [Next]_vars => IInv'
  BY NextInv
<1>3. IInv => TypeOK /\ ModifiersHold
  BY TypeParts DEF IInv, KeysInv, ShiftInv, ModifiersHold
<1> QED
  BY <1>1, <1>2, <1>3, PTL DEF Spec

\* setRomajiToKana never leaves romaji on without the kana lock, and never
\* takes the user's lock for its own, whatever frames run between its calls.
THEOREM RomajiIsLocked ==
  Spec => []LockIsRomajis
<1>1. Init => IInv
  BY InitInv
<1>2. IInv /\ [Next]_vars => IInv'
  BY NextInv
<1>3. IInv => LockIsRomajis
  BY DEF IInv, LockInv, LockIsRomajis, LockHeld, RomajiHasItsLock, OnlyOursIsReleased
<1> QED
  BY <1>1, <1>2, <1>3, PTL DEF Spec

(* --------------------------- the sub CPU's bytes ------------------------ *)
Tags == {"0", "255", Up} \union DOMAIN Commands \union Pressed
Tagged == {<<x>> : x \in Tags} \union (Tags \X (0..9)) \union (Tags \X BOOLEAN)
SubRecords ==
  [ibf : BOOLEAN, inbuf : Tagged, obf : BOOLEAN, outbuf : Tagged, mode : DOMAIN Commands,
   cmdlen : 0..3, datalen : 0..3, datap : Rows \X (1..4), databuf : [Rows -> [1..8 -> Tagged]],
   keyBuf : Seq(Pressed \union {Up}), keyPrev : Pressed \union {NoKey}, keyBreak : Pressed \union {NoKey},
   ctrl : BOOLEAN, repeating : BOOLEAN, stop : BOOLEAN, iei : BOOLEAN, intr : BOOLEAN]
ProgRecords ==
  [at : {"idle", "write", "taken", "read", "handler"}, cmd : DOMAIN Commands, sent : 0..4, got : Seq(Tagged)]

\* The bytes from the (n+1)st of d on are the one that is offered and those to come.
Offers(s) == IF s.obf THEN 0 ELSE 1
Follows(s, d, n) ==
  /\ Len(d) = n + Offers(s) + s.datalen
  /\ ~s.obf => s.outbuf = d[n + 1]
  /\ \A j \in 1..s.datalen : s.databuf[s.datap[1]][s.datap[2] + j - 1] = d[n + Offers(s) + j]

\* No command is under way: nothing is to come, or a key and its vector, or a
\* request that a command without an answer has left up.
Quiet(s, d) ==
  /\ s.cmdlen = 0
  /\ \/ ~s.intr /\ s.datalen = 0 /\ s.obf
     \/ s.intr /\ ~s.obf /\ s.datalen = 2 /\ Follows(s, d, 0)
     \/ s.intr /\ s.obf /\ s.datalen = 0 /\ d = <<>>

\* The parameters before the r-th that came are in their row.
Landed(s, c, r) ==
  c # "vector" => \A i \in 1..(r - 1) : s.databuf[RowOf(c)][i] = <<c, i>>

\* A command of which r bytes have been taken.
TakenSoFar(s, d, c, r) ==
  IF r = 0 THEN s.cmdlen = 0
  ELSE IF r <= Params(c)
  THEN /\ s.mode = c /\ s.cmdlen = Params(c) - (r - 1) /\ s.datap = <<RowOf(c), r>>
       /\ Landed(s, c, r)
  ELSE /\ s.cmdlen = 0 /\ Landed(s, c, r)
       /\ IF AnswerOf(c) = 0 THEN Quiet(s, d) ELSE Follows(s, d, 0) /\ Len(d) = AnswerOf(c)

Sending(s, p, d) ==
  /\ p.sent \in 1..(Params(p.cmd) + 1) /\ (p.at = "taken" <=> p.sent = Params(p.cmd) + 1)
  /\ TakenSoFar(s, d, p.cmd, IF s.ibf THEN p.sent - 1 ELSE p.sent)
  /\ s.ibf => IF p.sent = 1 THEN s.inbuf = <<p.cmd>>
              ELSE p.cmd # "vector" => s.inbuf = <<p.cmd, p.sent - 1>>

Receiving(s, p, d) ==
  /\ ~s.ibf /\ s.cmdlen = 0
  /\ Len(d) = (IF p.at = "read" THEN AnswerOf(p.cmd) ELSE 3) /\ Len(p.got) < Len(d)
  /\ \A i \in 1..Len(p.got) : p.got[i] = d[i]
  /\ Follows(s, d, Len(p.got))

InTurn(s, p, d) ==
  \/ p.at = "idle" /\ ~s.ibf /\ Quiet(s, d)
  \/ p.at = "write" /\ p.sent = 0 /\ p.got = <<>> /\ ~s.ibf /\ Quiet(s, d)
  \/ p.at \in {"write", "taken"} /\ p.sent > 0 /\ p.got = <<>> /\ Sending(s, p, d)
  \/ p.at \in {"read", "handler"} /\ Receiving(s, p, d)

Bounded(s) ==
  /\ s.datap[2] + s.cmdlen <= 4 /\ (s.cmdlen = 0 => s.datap[2] + s.datalen <= 4)
  /\ Len(s.keyBuf) <= KeyRoom
Held(s, u) ==
  /\ s.repeating => s.keyPrev \in u.held
  /\ s.stop = (s.keyBreak # NoKey)
  /\ s.stop => s.keyBreak \in u.held
PsubInv ==
  /\ sub \in SubRecords /\ Bounded(sub)
  /\ prog \in ProgRecords /\ due \in Seq(Tagged) /\ user \in [held : SUBSET Pressed, presses : Nat]
  /\ Held(sub, user)
  /\ InTurn(sub, prog, due)

(* ------------------------------ commands ------------------------------- *)
LEMMA CommandNames ==
  DOMAIN Commands = {"reset", "set", "read", "game", "vector", "key", "tv", "tvRead", "cmt", "cmtStatus",
                     "cmtSensor", "setDate", "date", "setTime", "time"}
  BY DEF Commands

LEMMA CommandFacts ==
  ASSUME NEW c \in DOMAIN Commands
  PROVE  /\ Params(c) \in 0..3 /\ AnswerOf(c) \in 0..3 /\ (Params(c) > 0 => AnswerOf(c) = 0)
         /\ RowOf(c) \in Rows
         /\ Params(c) > 0 => RowOf(c) \notin {"key", "tvRead"}
         /\ Params(c) > 0 /\ c # "vector" => RowOf(c) # "vector"
<1> DEFINE Fits(k) ==
      /\ Params(k) \in 0..3 /\ AnswerOf(k) \in 0..3 /\ (Params(k) > 0 => AnswerOf(k) = 0)
      /\ Params(k) > 0 => RowOf(k) \notin {"key", "tvRead"}
      /\ Params(k) > 0 /\ k # "vector" => RowOf(k) # "vector"
<1>1. RowOf(c) \in Rows
  BY DEF Rows
<1>2. Fits("reset") /\ Fits("set") /\ Fits("read") /\ Fits("game") /\ Fits("vector")
  BY DEF Commands, Params, AnswerOf, RowOf
<1>3. Fits("key") /\ Fits("tv") /\ Fits("tvRead") /\ Fits("cmt") /\ Fits("cmtStatus")
  BY DEF Commands, Params, AnswerOf, RowOf
<1>4. Fits("cmtSensor") /\ Fits("setDate") /\ Fits("date") /\ Fits("setTime") /\ Fits("time")
  BY DEF Commands, Params, AnswerOf, RowOf
<1> HIDE DEF Fits
<1>5. Fits(c)
  BY <1>2, <1>3, <1>4, CommandNames
<1> QED BY <1>1, <1>5 DEF Fits

LEMMA CommandRows ==
  /\ RowOf("key") = "key" /\ AnswerOf("key") = 2 /\ Params("key") = 0 /\ Params("reset") = 0 /\ AnswerOf("reset") = 0
  /\ RowOf("vector") = "vector" /\ Params("vector") = 1 /\ RowOf("tv") = "tv" /\ RowOf("tvRead") = "tvRead"
  /\ {"key", "reset", "vector", "tv", "tvRead"} \subseteq DOMAIN Commands
  /\ {"key", "vector", "tv", "tvRead"} \subseteq Rows
<1>1. /\ RowOf("key") = "key" /\ AnswerOf("key") = 2 /\ Params("key") = 0 /\ Params("reset") = 0 /\ AnswerOf("reset") = 0
      /\ RowOf("vector") = "vector" /\ Params("vector") = 1 /\ RowOf("tv") = "tv" /\ RowOf("tvRead") = "tvRead"
  BY DEF Commands, Params, AnswerOf, RowOf
<1>2. {"key", "reset", "vector", "tv", "tvRead"} \subseteq DOMAIN Commands
  BY CommandNames
<1>3. {"key", "vector", "tv", "tvRead"} \subseteq Rows
  BY <1>1, <1>2 DEF Rows
<1> QED BY <1>1, <1>2, <1>3

LEMMA TaggedIs ==
  /\ \A x \in Tags : <<x>> \in Tagged /\ \A b \in BOOLEAN : <<x, b>> \in Tagged
  /\ \A x \in Tags, i \in 0..9 : <<x, i>> \in Tagged
  /\ \A v \in Tagged : v[1] \in Tags
  /\ None \in Tagged /\ <<"255">> \in Tagged /\ <<"vector", 1>> \in Tagged
<1>1. "vector" \in Tags /\ "0" \in Tags /\ "255" \in Tags
  BY CommandNames DEF Tags
<1>2. \A x \in Tags : <<x>> \in Tagged /\ \A b \in BOOLEAN : <<x, b>> \in Tagged
  BY DEF Tagged
<1>3. \A x \in Tags, i \in 0..9 : <<x, i>> \in Tagged
  BY DEF Tagged
<1>4. ASSUME NEW v \in Tagged PROVE v[1] \in Tags
  <2>1. CASE v \in {<<x>> : x \in Tags}
    BY <2>1
  <2>2. CASE v \in Tags \X (0..9)
    BY <2>2
  <2>3. CASE v \in Tags \X BOOLEAN
    BY <2>3
  <2> QED BY <1>4, <2>1, <2>2, <2>3 DEF Tagged
<1>5. None \in Tagged /\ <<"255">> \in Tagged
  BY <1>1, <1>2 DEF None
<1>6. <<"vector", 1>> \in Tagged
  <2>1. 1 \in 0..9
    OBVIOUS
  <2> QED BY <2>1, <1>1, <1>3, Zenon
<1> QED BY <1>2, <1>3, <1>4, <1>5, <1>6, Zenon

(* ---------------------- what the sub CPU does to itself ----------------- *)
\* What the bytes that come and go rest on, and what is kept of the keys.
SameBytes(s, m) ==
  /\ m.ibf = s.ibf /\ m.inbuf = s.inbuf /\ m.obf = s.obf /\ m.outbuf = s.outbuf /\ m.mode = s.mode
  /\ m.cmdlen = s.cmdlen /\ m.datalen = s.datalen /\ m.datap = s.datap /\ m.intr = s.intr
SameKeys(s, m) ==
  /\ m.keyPrev = s.keyPrev /\ m.keyBreak = s.keyBreak /\ m.ctrl = s.ctrl
  /\ m.repeating = s.repeating /\ m.stop = s.stop /\ m.iei = s.iei
SameRows(s, m) == \A r \in Rows \ {"key", "tvRead"} : m.databuf[r] = s.databuf[r]

\* m is s but for byte i of row r, which is x.
IsPut(s, m, r, i, x) ==
  /\ m \in SubRecords /\ SameBytes(s, m) /\ SameKeys(s, m) /\ m.keyBuf = s.keyBuf
  /\ m.databuf[r][i] = x
  /\ \A q \in Rows : q # r => m.databuf[q] = s.databuf[q]
  /\ \A j \in 1..8 : j # i => m.databuf[r][j] = s.databuf[r][j]
LEMMA PutIs ==
  ASSUME NEW s \in SubRecords, NEW r, r \in Rows, NEW i, i \in 1..8, NEW x, x \in Tagged
  PROVE  IsPut(s, Put(s, r, i, x), r, i, x)
<1> DEFINE row == [s.databuf[r] EXCEPT ![i] = x]
           rows == [s.databuf EXCEPT ![r] = row]
           m == Put(s, r, i, x)
<1>1. s.databuf \in [Rows -> [1..8 -> Tagged]] /\ s.databuf[r] \in [1..8 -> Tagged]
  BY DEF SubRecords
<1>2. row \in [1..8 -> Tagged] /\ row[i] = x /\ \A j \in 1..8 : j # i => row[j] = s.databuf[r][j]
  BY <1>1
<1>3. m = [s EXCEPT !.databuf = rows]
  BY DEF Put
<1> HIDE DEF row
<1>4. rows \in [Rows -> [1..8 -> Tagged]] /\ rows[r] = row /\ \A q \in Rows : q # r => rows[q] = s.databuf[q]
  BY <1>1, <1>2
<1> HIDE DEF rows, m
<1>5. m \in SubRecords /\ m.databuf = rows
  BY <1>3, <1>4 DEF SubRecords
<1>6. SameBytes(s, m)
  BY <1>3 DEF SameBytes, SubRecords
<1>7. SameKeys(s, m) /\ m.keyBuf = s.keyBuf
  BY <1>3 DEF SameKeys, SubRecords
<1>8. IsPut(s, m, r, i, x)
  BY <1>2, <1>4, <1>5, <1>6, <1>7 DEF IsPut
<1> QED BY <1>8 DEF m

LEMMA TakenIs ==
  ASSUME NEW s \in SubRecords, NEW e \in Pressed \union {Up}
  PROVE  LET m == Taken(s, e)
         IN m \in SubRecords /\ SameBytes(s, m) /\ SameKeys(s, m) /\ m.keyBuf = s.keyBuf /\ SameRows(s, m)
<1> DEFINE x == <<e>>
           p == Put(s, "key", 1, x)
           m == Put(p, "key", 2, x)
<1>1. x \in Tagged /\ "key" \in Rows /\ 1 \in 1..8 /\ 2 \in 1..8
  <2>1. e \in Tags
    BY DEF Tags
  <2>2. x \in Tagged
    BY <2>1, TaggedIs
  <2> QED BY <2>2, CommandRows
<1> HIDE DEF x
<1>2. /\ p \in SubRecords /\ SameBytes(s, p) /\ SameKeys(s, p) /\ p.keyBuf = s.keyBuf
      /\ \A q \in Rows : q # "key" => p.databuf[q] = s.databuf[q]
  BY <1>1, PutIs DEF IsPut
<1> HIDE DEF p
<1>3. /\ m \in SubRecords /\ SameBytes(p, m) /\ SameKeys(p, m) /\ m.keyBuf = p.keyBuf
      /\ \A q \in Rows : q # "key" => m.databuf[q] = p.databuf[q]
  BY <1>1, <1>2, PutIs DEF IsPut
<1>4. Taken(s, e) = m
  BY DEF Taken, p, x
<1> HIDE DEF m
<1>5. SameBytes(s, m)
  BY <1>2, <1>3 DEF SameBytes
<1>6. SameKeys(s, m)
  BY <1>2, <1>3 DEF SameKeys
<1>7. SameRows(s, m)
  BY <1>2, <1>3 DEF SameRows
<1> QED BY <1>2, <1>3, <1>4, <1>5, <1>6, <1>7

LEMMA DrainedIs ==
  ASSUME NEW s \in SubRecords
  PROVE  LET m == Drained(s)
         IN m \in SubRecords /\ SameBytes(s, m) /\ SameKeys(s, m) /\ m.keyBuf = <<>> /\ SameRows(s, m)
<1>1. s.keyBuf \in Seq(Pressed \union {Up})
  BY DEF SubRecords
<1>2. CASE s.keyBuf = <<>>
  BY <1>2 DEF Drained, SameBytes, SameKeys, SameRows
<1>3. CASE s.keyBuf # <<>>
  <2> DEFINE e == s.keyBuf[Len(s.keyBuf)]
             t == Taken(s, e)
             m == [t EXCEPT !.keyBuf = <<>>]
  <2>1. e \in Pressed \union {Up}
    BY <1>1, <1>3
  <2> HIDE DEF e
  <2>2. t \in SubRecords /\ SameBytes(s, t) /\ SameKeys(s, t) /\ SameRows(s, t)
    BY <2>1, TakenIs
  <2>3. Drained(s) = m
    BY <1>3 DEF Drained, e
  <2> HIDE DEF t
  <2>4. <<>> \in Seq(Pressed \union {Up})
    OBVIOUS
  <2>5. m \in SubRecords /\ m.keyBuf = <<>> /\ m.databuf = t.databuf
    BY <2>2, <2>4 DEF SubRecords
  <2>6. SameBytes(s, m) /\ SameKeys(s, m)
    <3>1. SameBytes(t, m)
      BY <2>2 DEF SameBytes, SubRecords
    <3>2. SameKeys(t, m)
      BY <2>2 DEF SameKeys, SubRecords
    <3> HIDE DEF m
    <3>3. SameBytes(s, m)
      BY <2>2, <3>1 DEF SameBytes
    <3>4. SameKeys(s, m)
      BY <2>2, <3>2 DEF SameKeys
    <3> QED BY <3>3, <3>4
  <2>7. SameRows(s, m)
    BY <2>2, <2>5 DEF SameRows
  <2> QED BY <2>3, <2>5, <2>6, <2>7
<1> QED BY <1>2, <1>3

LEMMA KeyDataIs ==
  ASSUME NEW s \in SubRecords
  PROVE  LET m == KeyData(s)
         IN /\ m \in SubRecords /\ SameBytes(s, m) /\ SameKeys(s, m) /\ SameRows(s, m)
            /\ Len(m.keyBuf) <= Len(s.keyBuf)
<1> DEFINE n == IF Vector(s) = None \/ s.keyBuf = <<>> THEN Drained(s)
                ELSE [Taken(s, Head(s.keyBuf)) EXCEPT !.keyBuf = Tail(@)]
           x == <<n.databuf["key"][1][1], s.ctrl>>
           m == Put(n, "key", 1, x)
<1>1. s.keyBuf \in Seq(Pressed \union {Up})
  BY DEF SubRecords
<1>2. n \in SubRecords /\ SameBytes(s, n) /\ SameKeys(s, n) /\ SameRows(s, n) /\ Len(n.keyBuf) <= Len(s.keyBuf)
  <2>1. CASE Vector(s) = None \/ s.keyBuf = <<>>
    <3>1. n = Drained(s)
      BY <2>1
    <3> HIDE DEF n
    <3>2. n.keyBuf = <<>> /\ Len(<<>>) = 0 /\ Len(s.keyBuf) \in Nat
      BY <1>1, <3>1, DrainedIs
    <3> QED BY <3>1, <3>2, DrainedIs
  <2>2. CASE ~(Vector(s) = None \/ s.keyBuf = <<>>)
    <3> DEFINE e == Head(s.keyBuf)
               t == Taken(s, e)
               rest == Tail(s.keyBuf)
    <3>1. e \in Pressed \union {Up} /\ rest \in Seq(Pressed \union {Up}) /\ Len(rest) <= Len(s.keyBuf)
      BY <1>1, <2>2
    <3> HIDE DEF e, rest
    <3>2. t \in SubRecords /\ SameBytes(s, t) /\ SameKeys(s, t) /\ SameRows(s, t) /\ t.keyBuf = s.keyBuf
      BY <3>1, TakenIs
    <3>3. n = [t EXCEPT !.keyBuf = rest]
      BY <2>2, <3>2 DEF e, rest
    <3> HIDE DEF t, n
    <3>4. n \in SubRecords /\ n.keyBuf = rest /\ n.databuf = t.databuf
      BY <3>1, <3>2, <3>3 DEF SubRecords
    <3>5. SameBytes(t, n)
      BY <3>2, <3>3 DEF SameBytes, SubRecords
    <3>6. SameKeys(t, n)
      BY <3>2, <3>3 DEF SameKeys, SubRecords
    <3>7. SameBytes(s, n)
      BY <3>2, <3>5 DEF SameBytes
    <3>8. SameKeys(s, n)
      BY <3>2, <3>6 DEF SameKeys
    <3>9. SameRows(s, n)
      BY <3>2, <3>4 DEF SameRows
    <3> QED BY <3>1, <3>4, <3>7, <3>8, <3>9
  <2> QED BY <2>1, <2>2
<1> HIDE DEF n
<1>3. x \in Tagged /\ "key" \in Rows
  <2>1. n.databuf["key"][1] \in Tagged /\ s.ctrl \in BOOLEAN
    BY <1>2, CommandRows DEF SubRecords
  <2> QED BY <2>1, TaggedIs, CommandRows
<1> HIDE DEF x
<1>4. /\ m \in SubRecords /\ SameBytes(n, m) /\ SameKeys(n, m) /\ m.keyBuf = n.keyBuf
      /\ \A q \in Rows : q # "key" => m.databuf[q] = n.databuf[q]
  BY <1>2, <1>3, PutIs DEF IsPut
<1>5. KeyData(s) = m
  BY DEF KeyData, n, x
<1> HIDE DEF m
<1>6. SameBytes(s, m)
  BY <1>2, <1>4 DEF SameBytes
<1>7. SameKeys(s, m)
  BY <1>2, <1>4 DEF SameKeys
<1>8. SameRows(s, m)
  BY <1>2, <1>4 DEF SameRows
<1> QED BY <1>2, <1>4, <1>5, <1>6, <1>7, <1>8

LEMMA ProcessIs ==
  ASSUME NEW s \in SubRecords
  PROVE  LET m == ProcessCmd(s)
         IN /\ m \in SubRecords /\ SameKeys(s, m) /\ SameRows(s, m) /\ Len(m.keyBuf) <= Len(s.keyBuf)
            /\ m.ibf = s.ibf /\ m.inbuf = s.inbuf /\ m.obf = s.obf /\ m.outbuf = s.outbuf
            /\ m.mode = s.mode /\ m.cmdlen = s.cmdlen /\ m.datalen = AnswerOf(s.mode)
            /\ m.datap = IF s.mode = "reset" THEN s.datap ELSE <<RowOf(s.mode), 1>>
            /\ m.intr = IF s.mode = "vector" THEN FALSE ELSE s.intr
            /\ s.mode = "vector" => m.keyBuf = <<>>
<1> DEFINE c == s.mode
           len == AnswerOf(c)
           at == IF c = "reset" THEN s.datap ELSE <<RowOf(c), 1>>
           n == [s EXCEPT !.datalen = len, !.datap = at]
           m == ProcessCmd(s)
<1>1. c \in DOMAIN Commands /\ s.datap \in Rows \X (1..4) /\ s.keyBuf \in Seq(Pressed \union {Up})
  BY DEF SubRecords
<1>2. len \in 0..3 /\ at \in Rows \X (1..4)
  BY <1>1, CommandFacts
<1>3. ProcessCmd(s) = IF c = "vector" THEN [Drained(n) EXCEPT !.intr = FALSE]
                      ELSE IF c = "key" THEN KeyData(n)
                      ELSE IF c = "tv" THEN [n EXCEPT !.databuf["tvRead"] = s.databuf["tv"]]
                      ELSE n
  BY DEF ProcessCmd
<1> HIDE DEF len, at, m
<1>4. /\ n \in SubRecords /\ n.databuf = s.databuf /\ n.keyBuf = s.keyBuf
      /\ n.ibf = s.ibf /\ n.inbuf = s.inbuf /\ n.obf = s.obf /\ n.outbuf = s.outbuf
      /\ n.mode = s.mode /\ n.cmdlen = s.cmdlen /\ n.datalen = len /\ n.datap = at /\ n.intr = s.intr
  BY <1>2 DEF SubRecords
<1>5. SameKeys(s, n)
  BY DEF SameKeys, SubRecords
<1> HIDE DEF n
<1>6. Len(s.keyBuf) \in Nat
  BY <1>1
<1>7. CASE c = "vector"
  <2> DEFINE d == Drained(n)
  <2>1. d \in SubRecords /\ SameBytes(n, d) /\ SameKeys(n, d) /\ d.keyBuf = <<>> /\ SameRows(n, d)
    BY <1>4, DrainedIs
  <2>2. m = [d EXCEPT !.intr = FALSE]
    BY <1>3, <1>7 DEF m
  <2> HIDE DEF d
  <2>3. m \in SubRecords /\ m.keyBuf = <<>> /\ m.databuf = d.databuf /\ m.intr = FALSE
    BY <2>1, <2>2 DEF SubRecords
  <2>4. SameKeys(d, m)
    BY <2>1, <2>2 DEF SameKeys, SubRecords
  <2>5. /\ m.ibf = d.ibf /\ m.inbuf = d.inbuf /\ m.obf = d.obf /\ m.outbuf = d.outbuf
        /\ m.mode = d.mode /\ m.cmdlen = d.cmdlen /\ m.datalen = d.datalen /\ m.datap = d.datap
    BY <2>1, <2>2 DEF SubRecords
  <2>6. SameKeys(s, m)
    BY <1>5, <2>1, <2>4 DEF SameKeys
  <2>7. SameRows(s, m)
    BY <1>4, <2>1, <2>3 DEF SameRows
  <2>8. /\ m.ibf = s.ibf /\ m.inbuf = s.inbuf /\ m.obf = s.obf /\ m.outbuf = s.outbuf
        /\ m.mode = s.mode /\ m.cmdlen = s.cmdlen /\ m.datalen = len /\ m.datap = at
    BY <1>4, <2>1, <2>5 DEF SameBytes
  <2>9. Len(m.keyBuf) <= Len(s.keyBuf)
    BY <1>6, <2>3
  <2> QED BY <1>7, <2>3, <2>6, <2>7, <2>8, <2>9 DEF m, len, at
<1>8. CASE c = "key"
  <2>1. m = KeyData(n)
    BY <1>3, <1>8 DEF m
  <2>2. m \in SubRecords /\ SameBytes(n, m) /\ SameKeys(n, m) /\ SameRows(n, m) /\ Len(m.keyBuf) <= Len(n.keyBuf)
    BY <1>4, <2>1, KeyDataIs
  <2>3. SameKeys(s, m)
    BY <1>5, <2>2 DEF SameKeys
  <2>4. SameRows(s, m)
    BY <1>4, <2>2 DEF SameRows
  <2> QED BY <1>4, <1>8, <2>2, <2>3, <2>4 DEF m, len, at, SameBytes
<1>9. CASE c \notin {"vector", "key"}
  <2> DEFINE rows == IF c = "tv" THEN [s.databuf EXCEPT !["tvRead"] = s.databuf["tv"]] ELSE s.databuf
  <2>1. rows \in [Rows -> [1..8 -> Tagged]] /\ \A r \in Rows \ {"key", "tvRead"} : rows[r] = s.databuf[r]
    BY CommandRows DEF SubRecords
  <2>2. m = [n EXCEPT !.databuf = rows]
    <3>1. CASE c = "tv"
      BY <1>3, <1>4, <3>1 DEF m
    <3>2. CASE c # "tv"
      <4>1. m = n /\ rows = n.databuf
        BY <1>3, <1>4, <1>9, <3>2 DEF m
      <4> QED BY <1>4, <4>1 DEF SubRecords
    <3> QED BY <3>1, <3>2
  <2> HIDE DEF rows
  <2>3. m \in SubRecords /\ m.databuf = rows
    BY <1>4, <2>1, <2>2 DEF SubRecords
  <2>4. SameBytes(n, m) /\ m.keyBuf = n.keyBuf
    BY <1>4, <2>2 DEF SameBytes, SubRecords
  <2>5. SameKeys(n, m)
    BY <1>4, <2>2 DEF SameKeys, SubRecords
  <2>6. SameKeys(s, m)
    BY <1>5, <2>5 DEF SameKeys
  <2>7. SameRows(s, m)
    BY <2>1, <2>3 DEF SameRows
  <2>8. /\ m.ibf = s.ibf /\ m.inbuf = s.inbuf /\ m.obf = s.obf /\ m.outbuf = s.outbuf
        /\ m.mode = s.mode /\ m.cmdlen = s.cmdlen /\ m.datalen = len /\ m.datap = at /\ m.intr = s.intr
    BY <1>4, <2>4 DEF SameBytes
  <2>9. Len(m.keyBuf) <= Len(s.keyBuf)
    BY <1>4, <1>6, <2>4
  <2> QED BY <1>9, <2>3, <2>6, <2>7, <2>8, <2>9 DEF m, len, at
<1> QED BY <1>7, <1>8, <1>9

\* What the program is offered: the next byte, or a key's vector, or nothing.
Steady(s, m) ==
  /\ m \in SubRecords /\ SameKeys(s, m) /\ SameRows(s, m) /\ Len(m.keyBuf) <= Len(s.keyBuf)
  /\ m.ibf = s.ibf /\ m.inbuf = s.inbuf /\ m.cmdlen = s.cmdlen
NextByte(s, m) ==
  /\ s.datalen > 0 /\ ~m.obf /\ m.outbuf = s.databuf[s.datap[1]][s.datap[2]]
  /\ m.datap = <<s.datap[1], s.datap[2] + 1>> /\ m.datalen = s.datalen - 1
  /\ m.databuf = s.databuf /\ m.intr = s.intr
KeyPosted(s, m) ==
  /\ s.datalen = 0 /\ ~s.intr /\ s.keyBuf # <<>>
  /\ m.intr /\ ~m.obf /\ m.datalen = 2 /\ m.datap[2] = 1

LEMMA OfferedIs ==
  ASSUME NEW s \in SubRecords, s.datap[2] + s.datalen <= 4
  PROVE  LET m == Offered(s)
         IN Steady(s, m) /\ (NextByte(s, m) \/ KeyPosted(s, m) \/ (s.datalen = 0 /\ m = s))
<1> DEFINE m == Offered(s)
<1>1. /\ s.datap \in Rows \X (1..4) /\ s.datap[1] \in Rows /\ s.datap[2] \in 1..4 /\ s.datalen \in 0..3
      /\ s.keyBuf \in Seq(Pressed \union {Up}) /\ s.databuf \in [Rows -> [1..8 -> Tagged]]
  BY DEF SubRecords
<1>2. CASE s.datalen > 0
  <2> DEFINE out == s.databuf[s.datap[1]][s.datap[2]]
             to == <<s.datap[1], s.datap[2] + 1>>
             left == s.datalen - 1
             a == [s EXCEPT !.outbuf = out, !.obf = FALSE]
             b == [a EXCEPT !.datap = to, !.datalen = left]
  <2>1. out \in Tagged /\ to \in Rows \X (1..4) /\ left \in 0..3
    BY <1>1, <1>2
  <2>2. m = b
    <3>1. m = [s EXCEPT !.outbuf = out, !.obf = FALSE, !.datap[2] = @ + 1, !.datalen = @ - 1]
      BY <1>2 DEF Offered
    <3>2. [s.datap EXCEPT ![2] = @ + 1] = to
      BY <1>1
    <3> HIDE DEF out, to, left, m
    <3> QED BY <3>1, <3>2 DEF SubRecords, left
  <2> HIDE DEF out, to, left, m
  <2>3. a \in SubRecords /\ SameKeys(s, a) /\ a.keyBuf = s.keyBuf /\ a.databuf = s.databuf
        /\ a.ibf = s.ibf /\ a.inbuf = s.inbuf /\ a.cmdlen = s.cmdlen /\ a.intr = s.intr /\ a.obf = FALSE /\ a.outbuf = out
    BY <2>1 DEF SubRecords, SameKeys
  <2> HIDE DEF a
  <2>4. b \in SubRecords /\ SameKeys(a, b) /\ b.keyBuf = a.keyBuf /\ b.databuf = a.databuf
        /\ b.ibf = a.ibf /\ b.inbuf = a.inbuf /\ b.cmdlen = a.cmdlen /\ b.intr = a.intr /\ b.obf = a.obf
        /\ b.outbuf = a.outbuf /\ b.datap = to /\ b.datalen = left
    BY <2>1, <2>3 DEF SubRecords, SameKeys
  <2> HIDE DEF b
  <2>5. SameKeys(s, b)
    BY <2>3, <2>4 DEF SameKeys
  <2>6. Len(b.keyBuf) <= Len(s.keyBuf)
    BY <1>1, <2>3, <2>4
  <2>7. Steady(s, b)
    BY <2>3, <2>4, <2>5, <2>6 DEF Steady, SameRows
  <2>8. NextByte(s, b)
    BY <1>2, <2>3, <2>4 DEF NextByte, out, to, left
  <2> QED BY <2>2, <2>7, <2>8 DEF m
<1>3. CASE ~(s.datalen > 0) /\ s.keyBuf # <<>> /\ Vector(s) # None /\ ~s.intr /\ s.iei
  <2> DEFINE v == Vector(s)
             a == [s EXCEPT !.outbuf = v, !.obf = FALSE]
             b == [a EXCEPT !.intr = TRUE, !.mode = "key"]
  <2>1. v \in Tagged /\ "key" \in DOMAIN Commands /\ "key" # "reset" /\ "key" # "vector"
    BY <1>1, CommandRows DEF Vector
  <2>2. m = ProcessCmd(b)
    BY <1>3 DEF Offered
  <2> HIDE DEF v, m
  <2>3. a \in SubRecords /\ SameKeys(s, a) /\ a.keyBuf = s.keyBuf /\ a.databuf = s.databuf
        /\ a.ibf = s.ibf /\ a.inbuf = s.inbuf /\ a.cmdlen = s.cmdlen /\ a.obf = FALSE
    BY <2>1 DEF SubRecords, SameKeys
  <2> HIDE DEF a
  <2>4. b \in SubRecords /\ SameKeys(a, b) /\ b.keyBuf = a.keyBuf /\ b.databuf = a.databuf
        /\ b.ibf = a.ibf /\ b.inbuf = a.inbuf /\ b.cmdlen = a.cmdlen /\ b.obf = a.obf /\ b.intr = TRUE /\ b.mode = "key"
    BY <2>1, <2>3 DEF SubRecords, SameKeys
  <2> HIDE DEF b
  <2>5. /\ m \in SubRecords /\ SameKeys(b, m) /\ SameRows(b, m) /\ Len(m.keyBuf) <= Len(b.keyBuf)
        /\ m.ibf = b.ibf /\ m.inbuf = b.inbuf /\ m.obf = b.obf /\ m.cmdlen = b.cmdlen
        /\ m.datalen = AnswerOf(b.mode)
        /\ m.datap = (IF b.mode = "reset" THEN b.datap ELSE <<RowOf(b.mode), 1>>)
        /\ m.intr = (IF b.mode = "vector" THEN FALSE ELSE b.intr)
    BY <2>2, <2>4, ProcessIs
  <2>6. SameKeys(s, m)
    BY <2>3, <2>4, <2>5 DEF SameKeys
  <2>7. SameRows(s, m)
    BY <2>3, <2>4, <2>5 DEF SameRows
  <2>8. m.datalen = 2 /\ m.datap[2] = 1 /\ m.intr = TRUE /\ m.obf = FALSE
    BY <2>1, <2>3, <2>4, <2>5, CommandRows
  <2>9. Steady(s, m)
    BY <2>3, <2>4, <2>5, <2>6, <2>7 DEF Steady
  <2>10. KeyPosted(s, m)
    BY <1>1, <1>3, <2>8 DEF KeyPosted
  <2> QED BY <2>9, <2>10 DEF m
<1>4. CASE ~(s.datalen > 0) /\ ~(s.keyBuf # <<>> /\ Vector(s) # None /\ ~s.intr /\ s.iei)
  <2>1. m = s /\ s.datalen = 0
    BY <1>1, <1>4 DEF Offered
  <2>2. Steady(s, s)
    BY <1>1 DEF Steady, SameKeys, SameRows
  <2> HIDE DEF m
  <2> QED BY <2>1, <2>2 DEF m
<1> QED BY <1>2, <1>3, <1>4

\* What is to come of an answer, as the sequence that is due.
LEMMA WaitingIs ==
  ASSUME NEW s \in SubRecords
  PROVE  LET w == Waiting(s)
         IN /\ w \in Seq(Tagged) /\ Len(w) = s.datalen
            /\ \A j \in 1..s.datalen : w[j] = s.databuf[s.datap[1]][s.datap[2] + j - 1]
<1> DEFINE row == s.databuf[s.datap[1]]
           a == s.datap[2]
           n == s.datalen
           b == a + n - 1
           w == SubSeq(row, a, b)
<1>1. row \in [1..8 -> Tagged] /\ a \in 1..4 /\ n \in 0..3
  BY DEF SubRecords
<1>2. Waiting(s) = IF n = 0 THEN <<>> ELSE w
  BY Zenon DEF Waiting
<1> HIDE DEF row, a, n
<1>3. a \in Int /\ b \in Int /\ \A j \in a..b : row[j] \in Tagged
  BY <1>1
<1>4. CASE n = 0
  <2>1. Waiting(s) = <<>>
    BY <1>2, <1>4
  <2> QED BY <1>4, <2>1 DEF n
<1>5. CASE n > 0
  <2>1. w \in Seq(Tagged) /\ Len(w) = (IF a <= b THEN b - a + 1 ELSE 0) /\ \A j \in 1..(b - a + 1) : w[j] = row[a + j - 1]
    BY <1>3, SubSeqProperties
  <2>2. Waiting(s) = w
    <3>1. n # 0
      BY <1>5
    <3> QED BY <1>2, <3>1, Zenon
  <2> HIDE DEF w
  <2>3. b - a + 1 = n /\ a <= b
    BY <1>1, <1>5
  <2> HIDE DEF b
  <2>4. w \in Seq(Tagged) /\ Len(w) = n /\ \A j \in 1..n : w[j] = row[a + j - 1]
    BY <2>1, <2>3
  <2> QED BY <2>2, <2>4 DEF n, a, row
<1> QED BY <1>1, <1>4, <1>5

\* A byte that has come.
ComesOf(s) == IF s.cmdlen = 0 THEN s.inbuf[1] ELSE s.mode
LeftOf(s) == IF s.cmdlen = 0 THEN Params(ComesOf(s)) ELSE s.cmdlen - 1
Receipt(s, m, c, left) ==
  /\ m \in SubRecords /\ SameKeys(s, m) /\ m.keyBuf = s.keyBuf
  /\ m.inbuf = s.inbuf /\ m.mode = c /\ m.cmdlen = left /\ m.datalen = s.datalen /\ m.intr = s.intr
  /\ m.datap[2] <= 4
  /\ left > 0 => m.datap = (IF s.cmdlen = 0 THEN <<RowOf(c), 1>> ELSE <<s.datap[1], s.datap[2] + 1>>)
  /\ \A r \in Rows : \A i \in 1..8 : s.cmdlen = 0 \/ s.datap # <<r, i>> => m.databuf[r][i] = s.databuf[r][i]
  /\ s.cmdlen > 0 => m.databuf[s.datap[1]][s.datap[2]] = s.inbuf
Worked(q, m, c) ==
  /\ m \in SubRecords /\ SameKeys(q, m) /\ SameRows(q, m) /\ Len(m.keyBuf) <= Len(q.keyBuf)
  /\ m.inbuf = q.inbuf /\ m.cmdlen = 0 /\ m.datalen = AnswerOf(c) /\ m.datap[2] + m.datalen <= 4
  /\ m.intr = (IF c = "vector" THEN FALSE ELSE q.intr)
  /\ c = "vector" => m.keyBuf = <<>>
LEMMA StoredIs ==
  ASSUME NEW s \in SubRecords, NEW r \in Rows, NEW i \in 1..4, s.datap = <<r, i>>,
         s.cmdlen > 0, i + s.cmdlen <= 4, NEW t, IsPut(s, t, r, i, s.inbuf), NEW q,
         q = [t EXCEPT !.datap[2] = @ + 1, !.cmdlen = @ - 1]
  PROVE  Receipt(s, q, s.mode, s.cmdlen - 1)
<1> DEFINE n == s.cmdlen - 1
           to == <<r, i + 1>>
<1>1. s.cmdlen \in 0..3 /\ s.inbuf \in Tagged /\ s.mode \in DOMAIN Commands
  BY DEF SubRecords
<1>2. i \in 1..8 /\ s.datap[1] = r /\ s.datap[2] = i /\ to \in Rows \X (1..4) /\ n \in 0..3
  BY <1>1
<1>4. /\ t \in SubRecords /\ SameBytes(s, t) /\ SameKeys(s, t) /\ t.keyBuf = s.keyBuf
      /\ t.databuf[r][i] = s.inbuf
      /\ \A k \in Rows : k # r => t.databuf[k] = s.databuf[k]
      /\ \A j \in 1..8 : j # i => t.databuf[r][j] = s.databuf[r][j]
  BY DEF IsPut
<1>5. q = [t EXCEPT !.datap = to, !.cmdlen = n]
  <2>1. t.datap = <<r, i>> /\ t.cmdlen = s.cmdlen
    BY <1>4 DEF SameBytes
  <2>2. q = [t EXCEPT !.datap[2] = @ + 1, !.cmdlen = @ - 1]
    OBVIOUS
  <2>3. [t.datap EXCEPT ![2] = @ + 1] = to
    BY <2>1
  <2> HIDE DEF to
  <2> QED BY <1>4, <2>1, <2>2, <2>3 DEF SubRecords
<1> HIDE DEF to, n
<1>6. q \in SubRecords /\ q.databuf = t.databuf /\ q.datap = to /\ q.cmdlen = n /\ q.keyBuf = t.keyBuf
      /\ q.inbuf = t.inbuf /\ q.mode = t.mode /\ q.datalen = t.datalen /\ q.intr = t.intr
  BY <1>2, <1>4, <1>5 DEF SubRecords
<1>7. SameKeys(t, q)
  BY <1>4, <1>5 DEF SameKeys, SubRecords
<1>8. SameKeys(s, q)
  BY <1>4, <1>7 DEF SameKeys
<1>9. q.datap[2] <= 4 /\ q.datap = <<s.datap[1], s.datap[2] + 1>>
  BY <1>2, <1>6 DEF to
<1>10. \A k \in Rows : \A j \in 1..8 : s.datap # <<k, j>> => q.databuf[k][j] = s.databuf[k][j]
  BY <1>4, <1>6
<1>11. q.inbuf = s.inbuf /\ q.mode = s.mode /\ q.datalen = s.datalen /\ q.intr = s.intr /\ q.keyBuf = s.keyBuf
  BY <1>4, <1>6 DEF SameBytes
<1>12. q.databuf[s.datap[1]][s.datap[2]] = s.inbuf
  BY <1>2, <1>4, <1>6
<1> QED BY <1>1, <1>6, <1>8, <1>9, <1>10, <1>11, <1>12 DEF Receipt, n

LEMMA ReceivedIs ==
  ASSUME NEW s \in SubRecords, Bounded(s), s.cmdlen = 0 => s.inbuf[1] \in DOMAIN Commands,
         NEW c, c = ComesOf(s), NEW left, left = LeftOf(s)
  PROVE  /\ c \in DOMAIN Commands /\ left \in 0..3
         /\ \E q : Receipt(s, q, c, left) /\ IF left = 0 THEN Worked(q, Received(s), c) ELSE Received(s) = q
<1> DEFINE m == Received(s)
           q == IF s.cmdlen > 0
                THEN [Put(s, s.datap[1], s.datap[2], s.inbuf) EXCEPT !.datap[2] = @ + 1, !.cmdlen = @ - 1]
                ELSE [s EXCEPT !.mode = s.inbuf[1], !.cmdlen = Params(s.inbuf[1]),
                               !.datap = IF Params(s.inbuf[1]) > 0 THEN <<RowOf(s.inbuf[1]), 1>> ELSE @]
<1>1. /\ s.datap \in Rows \X (1..4) /\ s.datap[1] \in Rows /\ s.datap[2] \in 1..4 /\ s.cmdlen \in 0..3
      /\ s.inbuf \in Tagged /\ s.mode \in DOMAIN Commands /\ s.keyBuf \in Seq(Pressed \union {Up})
  BY DEF SubRecords
<1>2. s.datap[2] + s.cmdlen <= 4 /\ (s.cmdlen = 0 => s.datap[2] + s.datalen <= 4)
  BY DEF Bounded
<1>3. m = IF q.cmdlen = 0 THEN ProcessCmd(q) ELSE q
  BY DEF Received
<1>4. c \in DOMAIN Commands /\ left \in 0..3
  BY <1>1, CommandFacts DEF ComesOf, LeftOf
<1>5. Receipt(s, q, c, left)
  <2>1. CASE s.cmdlen > 0
    <3>1. PICK r \in Rows, i \in 1..4 : s.datap = <<r, i>>
      BY <1>1
    <3> DEFINE t == Put(s, s.datap[1], s.datap[2], s.inbuf)
    <3>2. q = [t EXCEPT !.datap[2] = @ + 1, !.cmdlen = @ - 1]
      BY <2>1
    <3>3. c = s.mode /\ left = s.cmdlen - 1 /\ i + s.cmdlen <= 4
      BY <1>1, <1>2, <2>1, <3>1 DEF ComesOf, LeftOf
    <3>4. IsPut(s, t, r, i, s.inbuf)
      <4>1. r \in Rows /\ i \in 1..8 /\ t = Put(s, r, i, s.inbuf)
        BY <3>1
      <4> HIDE DEF t
      <4> QED BY <1>1, <4>1, PutIs
    <3> HIDE DEF q, m, t
    <3> QED BY <2>1, <3>1, <3>2, <3>3, <3>4, StoredIs
  <2>2. CASE s.cmdlen = 0
    <3> DEFINE n == Params(c)
               to == IF n > 0 THEN <<RowOf(c), 1>> ELSE s.datap
    <3>1. n \in 0..3 /\ to \in Rows \X (1..4)
      BY <1>1, <1>4, CommandFacts
    <3>2. q = [s EXCEPT !.mode = c, !.cmdlen = n, !.datap = to]
      BY <2>2 DEF ComesOf
    <3>3. left = n
      BY <2>2 DEF LeftOf
    <3> HIDE DEF n, to, q
    <3>4. q \in SubRecords /\ q.databuf = s.databuf /\ q.datap = to /\ q.cmdlen = n /\ q.keyBuf = s.keyBuf
          /\ q.inbuf = s.inbuf /\ q.mode = c /\ q.datalen = s.datalen /\ q.intr = s.intr
      BY <1>4, <3>1, <3>2 DEF SubRecords
    <3>5. SameKeys(s, q)
      BY <3>2 DEF SameKeys, SubRecords
    <3>6. q.datap[2] <= 4
      BY <3>1, <3>4
    <3>7. n > 0 => q.datap = <<RowOf(c), 1>>
      BY <3>4 DEF to
    <3> QED BY <2>2, <3>3, <3>4, <3>5, <3>6, <3>7 DEF Receipt
  <2> QED BY <1>1, <2>1, <2>2
<1> HIDE DEF q, m
<1>6. CASE left # 0
  <2>1. m = q
    BY <1>3, <1>5, <1>6 DEF Receipt
  <2> QED BY <1>4, <1>5, <1>6, <2>1 DEF m
<1>7. CASE left = 0
  <2>1. q.cmdlen = 0 /\ q \in SubRecords /\ q.mode = c /\ q.datap[2] <= 4
    BY <1>5, <1>7 DEF Receipt
  <2>2. m = ProcessCmd(q)
    BY <1>3, <2>1
  <2>3. /\ m \in SubRecords /\ SameKeys(q, m) /\ SameRows(q, m) /\ Len(m.keyBuf) <= Len(q.keyBuf)
        /\ m.inbuf = q.inbuf /\ m.cmdlen = q.cmdlen /\ m.datalen = AnswerOf(q.mode)
        /\ m.datap = (IF q.mode = "reset" THEN q.datap ELSE <<RowOf(q.mode), 1>>)
        /\ m.intr = (IF q.mode = "vector" THEN FALSE ELSE q.intr)
        /\ q.mode = "vector" => m.keyBuf = <<>>
    BY <2>1, <2>2, ProcessIs
  <2>4. m.datap[2] + m.datalen <= 4
    <3>1. CASE c = "reset"
      <4>1. m.datap = q.datap /\ m.datalen = 0 /\ q.datap[2] \in 1..4
        BY <2>1, <2>3, <3>1, CommandRows DEF SubRecords
      <4> QED BY <4>1
    <3>2. CASE c # "reset"
      <4>1. m.datap[2] = 1 /\ m.datalen \in 0..3
        BY <1>4, <2>1, <2>3, <3>2, CommandFacts
      <4> QED BY <4>1
    <3> QED BY <3>1, <3>2
  <2>5. Worked(q, m, c)
    BY <2>1, <2>3, <2>4 DEF Worked
  <2> QED BY <1>4, <1>5, <1>7, <2>5 DEF m
<1> QED BY <1>6, <1>7

\* What is due after the sub CPU has looked: an interrupt's bytes, or those of
\* the command that came.
Due(s, m, d) == IF m.intr /\ ~s.intr THEN <<m.outbuf>> \o Waiting(m)
                ELSE IF s.ibf THEN Waiting(m) ELSE d

LEMMA DueIs ==
  ASSUME NEW s \in SubRecords, NEW m \in SubRecords, NEW d \in Seq(Tagged)
  PROVE  /\ Due(s, m, d) \in Seq(Tagged)
         /\ ~(m.intr /\ ~s.intr) => Due(s, m, d) = IF s.ibf THEN Waiting(m) ELSE d
         /\ m.intr /\ ~s.intr /\ ~m.obf => Follows(m, Due(s, m, d), 0)
         /\ m.obf => Follows(m, Waiting(m), 0)
<1> DEFINE w == Waiting(m)
           v == <<m.outbuf>>
           e == v \o w
<1>1. m.outbuf \in Tagged /\ m.datalen \in 0..3 /\ m.obf \in BOOLEAN
  BY DEF SubRecords
<1>2. /\ w \in Seq(Tagged) /\ Len(w) = m.datalen
      /\ \A j \in 1..m.datalen : w[j] = m.databuf[m.datap[1]][m.datap[2] + j - 1]
  BY WaitingIs
<1>3. v \in Seq(Tagged) /\ Len(v) = 1 /\ v[1] = m.outbuf
  BY <1>1
<1>4. Due(s, m, d) = IF m.intr /\ ~s.intr THEN e ELSE IF s.ibf THEN w ELSE d
  BY DEF Due
<1> HIDE DEF w, v
<1>5. e \in Seq(Tagged) /\ Len(e) = 1 + m.datalen /\ e[1] = m.outbuf /\ \A j \in 1..m.datalen : e[1 + j] = w[j]
  <2>0. /\ v \o w \in Seq(Tagged) /\ Len(v \o w) = Len(v) + Len(w)
        /\ \A i \in 1..(Len(v) + Len(w)) : (v \o w)[i] = IF i <= Len(v) THEN v[i] ELSE w[i - Len(v)]
    BY <1>2, <1>3, ConcatProperties, Zenon
  <2>1. e \in Seq(Tagged) /\ Len(e) = 1 + m.datalen
    BY <1>2, <1>3, <2>0
  <2>2. \A i \in 1..(1 + m.datalen) : e[i] = IF i <= 1 THEN v[i] ELSE w[i - 1]
    BY <1>2, <1>3, <2>0
  <2> HIDE DEF e
  <2>3. e[1] = m.outbuf
    <3>1. 1 \in 1..(1 + m.datalen)
      BY <1>1
    <3> QED BY <1>3, <2>2, <3>1
  <2>4. ASSUME NEW j \in 1..m.datalen PROVE e[1 + j] = w[j]
    <3>1. 1 + j \in 1..(1 + m.datalen) /\ ~(1 + j <= 1) /\ 1 + j - 1 = j
      BY <1>1
    <3> QED BY <2>2, <3>1
  <2> QED BY <2>1, <2>3, <2>4
<1> HIDE DEF e
<1>6. ~m.obf => Follows(m, e, 0)
  BY <1>1, <1>2, <1>5 DEF Follows, Offers
<1>7. m.obf => Follows(m, w, 0)
  BY <1>1, <1>2 DEF Follows, Offers
<1> QED BY <1>2, <1>4, <1>5, <1>6, <1>7 DEF w

LEMMA FollowsOn ==
  ASSUME NEW s \in SubRecords, NEW m \in SubRecords, NextByte(s, m), s.obf,
         NEW d \in Seq(Tagged), NEW n \in Nat, Follows(s, d, n)
  PROVE  Follows(m, d, n)
<1> DEFINE row == s.databuf[s.datap[1]]
           a == s.datap[2]
           k == s.datalen
<1>1. a \in 1..4 /\ k \in 0..3 /\ s.datap \in Rows \X (1..4)
  BY DEF SubRecords
<1>2. Len(d) = n + k /\ \A j \in 1..k : row[a + j - 1] = d[n + j]
  BY <1>1 DEF Follows, Offers
<1>3. /\ k > 0 /\ ~m.obf /\ m.outbuf = row[a] /\ m.datap = <<s.datap[1], a + 1>> /\ m.datalen = k - 1
      /\ m.databuf[m.datap[1]] = row
  BY DEF NextByte
<1> HIDE DEF row, a, k
<1>4. row[a] = d[n + 1]
  <2>1. 1 \in 1..k /\ a + 1 - 1 = a
    BY <1>1, <1>3
  <2>2. row[a + 1 - 1] = d[n + 1]
    BY <1>2, <2>1
  <2> QED BY <2>1, <2>2
<1>5. \A j \in 1..(k - 1) : row[a + 1 + j - 1] = d[n + 1 + j]
  <2>1. ASSUME NEW j \in 1..(k - 1) PROVE row[a + 1 + j - 1] = d[n + 1 + j]
    <3>1. j + 1 \in 1..k /\ a + (j + 1) - 1 = a + 1 + j - 1 /\ n + (j + 1) = n + 1 + j
      BY <1>1, <2>1
    <3>2. row[a + (j + 1) - 1] = d[n + (j + 1)]
      BY <1>2, <3>1
    <3> QED BY <3>1, <3>2
  <2> QED BY <2>1
<1>6. m.datap[2] = a + 1 /\ Offers(m) = 1
  BY <1>3 DEF Offers
<1>7. Len(d) = n + Offers(m) + m.datalen
  BY <1>1, <1>2, <1>3, <1>6
<1>8. m.outbuf = d[n + 1]
  BY <1>3, <1>4
<1>9. \A j \in 1..m.datalen : m.databuf[m.datap[1]][m.datap[2] + j - 1] = d[n + Offers(m) + j]
  BY <1>3, <1>5, <1>6
<1> QED BY <1>7, <1>8, <1>9 DEF Follows

LEMMA OfferedBound ==
  ASSUME SubCpuAssumption, NEW s \in SubRecords, Bounded(s), s.cmdlen = 0
  PROVE  /\ Bounded(Offered(s)) /\ Steady(s, Offered(s))
         /\ NextByte(s, Offered(s)) \/ KeyPosted(s, Offered(s)) \/ (s.datalen = 0 /\ Offered(s) = s)
<1> DEFINE m == Offered(s)
<1>1. s.datap[2] + s.datalen <= 4 /\ s.datap[2] \in 1..4 /\ s.datalen \in 0..3 /\ Len(s.keyBuf) <= KeyRoom
  BY DEF Bounded, SubRecords
<1>2. Steady(s, m) /\ (NextByte(s, m) \/ KeyPosted(s, m) \/ (s.datalen = 0 /\ m = s))
  BY <1>1, OfferedIs
<1> HIDE DEF m
<1>3. m.cmdlen = 0 /\ Len(m.keyBuf) <= Len(s.keyBuf) /\ m \in SubRecords
  BY <1>2 DEF Steady
<1>4. Len(m.keyBuf) <= KeyRoom
  <2>1. Len(m.keyBuf) \in Nat /\ Len(s.keyBuf) \in Nat /\ KeyRoom \in Nat
    BY <1>3 DEF SubRecords, SubCpuAssumption
  <2> QED BY <1>1, <1>3, <2>1
<1>5. m.datap[2] + m.datalen <= 4 /\ m.datap[2] <= 4
  <2>1. CASE NextByte(s, m)
    <3>1. m.datap[2] = s.datap[2] + 1 /\ m.datalen = s.datalen - 1 /\ s.datalen > 0
      BY <2>1 DEF NextByte
    <3> QED BY <1>1, <3>1
  <2>2. CASE KeyPosted(s, m)
    BY <2>2 DEF KeyPosted
  <2>3. CASE m = s
    BY <1>1, <2>3
  <2> QED BY <1>2, <2>1, <2>2, <2>3
<1>6. Bounded(m)
  <2>1. m.datap[2] \in 1..4
    BY <1>3 DEF SubRecords
  <2> QED BY <1>3, <1>4, <1>5, <2>1 DEF Bounded
<1> QED BY <1>2, <1>6 DEF m

\* Nothing is under way: a key's interrupt may come of it.
LEMMA QuietOn ==
  ASSUME SubCpuAssumption, NEW s \in SubRecords, NEW w \in SubRecords, Bounded(w), NEW d \in Seq(Tagged),
         w.cmdlen = 0, w.datalen = 0, w.obf, w.intr = s.intr \/ (~w.intr /\ w.keyBuf = <<>>),
         w.intr => s.ibf \/ d = <<>>,
         NEW m, m = Offered(w)
  PROVE  Quiet(m, Due(s, m, d))
<1>1. Steady(w, m) /\ (NextByte(w, m) \/ KeyPosted(w, m) \/ m = w)
  BY OfferedBound
<1>2. m \in SubRecords /\ m.cmdlen = 0 /\ m.datalen \in 0..3
  BY <1>1 DEF Steady, SubRecords
<1>3. CASE KeyPosted(w, m)
  <2>1. ~w.intr /\ w.keyBuf # <<>> /\ m.intr /\ ~m.obf /\ m.datalen = 2
    BY <1>3 DEF KeyPosted
  <2>2. ~s.intr
    BY <2>1
  <2>3. Follows(m, Due(s, m, d), 0)
    BY <1>2, <2>1, <2>2, DueIs
  <2> QED BY <1>2, <2>1, <2>3 DEF Quiet
<1>4. CASE m = w
  <2>1. ~(m.intr /\ ~s.intr)
    BY <1>4
  <2>2. Due(s, m, d) = IF s.ibf THEN Waiting(m) ELSE d
    BY <1>2, <2>1, DueIs
  <2>3. Waiting(m) = <<>>
    BY <1>4 DEF Waiting
  <2>4. m.intr => Due(s, m, d) = <<>>
    BY <1>4, <2>2, <2>3
  <2> QED BY <1>2, <1>4, <2>4 DEF Quiet
<1>5. CASE NextByte(w, m)
  BY <1>5 DEF NextByte
<1> QED BY <1>1, <1>3, <1>4, <1>5

LEMMA LandedOn ==
  ASSUME NEW s \in SubRecords, NEW m \in SubRecords, SameRows(s, m),
         NEW c \in DOMAIN Commands, NEW r \in 1..(Params(c) + 1), Landed(s, c, r)
  PROVE  Landed(m, c, r)
<1>1. Params(c) \in 0..3 /\ RowOf(c) \in Rows /\ (Params(c) > 0 => RowOf(c) \notin {"key", "tvRead"})
  BY CommandFacts
<1>2. CASE Params(c) = 0
  <2>1. 1..(r - 1) = {}
    BY <1>1, <1>2
  <2> QED BY <2>1 DEF Landed
<1>3. CASE Params(c) > 0
  <2>1. m.databuf[RowOf(c)] = s.databuf[RowOf(c)]
    BY <1>1, <1>3 DEF SameRows
  <2> QED BY <2>1 DEF Landed
<1> QED BY <1>1, <1>2, <1>3

\* The sub CPU looks, and there is no byte for it.
Stays(s, m) ==
  \/ ~s.obf /\ m = s
  \/ s.obf /\ m = Offered(s)
LEMMA DrivenNoByte ==
  ASSUME NEW s \in SubRecords, ~s.ibf, NEW m, m = Driven(s)
  PROVE  Stays(s, m)
<1> QED BY DEF Driven, Stays, SubRecords

LEMMA QuietStays ==
  ASSUME SubCpuAssumption, NEW s \in SubRecords, Bounded(s), NEW d \in Seq(Tagged), Quiet(s, d),
         ~s.ibf, NEW m, Stays(s, m)
  PROVE  /\ m \in SubRecords /\ Bounded(m) /\ SameKeys(s, m) /\ SameRows(s, m) /\ ~m.ibf
         /\ Quiet(m, Due(s, m, d))
<1>1. CASE ~s.obf /\ m = s
  <2>1. Due(s, m, d) = d
    BY <1>1 DEF Due
  <2> QED BY <1>1, <2>1 DEF SameKeys, SameRows
<1>2. CASE s.obf /\ m = Offered(s)
  <2>1. s.cmdlen = 0 /\ s.datalen = 0 /\ (s.intr => d = <<>>)
    BY <1>2 DEF Quiet
  <2>2. Bounded(m) /\ Steady(s, m)
    BY <1>2, <2>1, OfferedBound
  <2>3. Quiet(m, Due(s, m, d))
    BY <1>2, <2>1, QuietOn
  <2> QED BY <2>2, <2>3 DEF Steady
<1> QED BY <1>1, <1>2 DEF Stays

LEMMA FollowsStays ==
  ASSUME SubCpuAssumption, NEW s \in SubRecords, Bounded(s), NEW d \in Seq(Tagged), NEW n \in Nat,
         Follows(s, d, n), Len(d) > n, s.cmdlen = 0, ~s.ibf, NEW m, Stays(s, m)
  PROVE  /\ m \in SubRecords /\ Bounded(m) /\ SameKeys(s, m) /\ SameRows(s, m) /\ ~m.ibf /\ m.cmdlen = 0
         /\ Due(s, m, d) = d /\ Follows(m, d, n)
<1>1. CASE ~s.obf /\ m = s
  <2>1. Due(s, m, d) = d
    BY <1>1 DEF Due
  <2> QED BY <1>1, <2>1 DEF SameKeys, SameRows
<1>2. CASE s.obf /\ m = Offered(s)
  <2>1. s.datalen > 0
    <3>1. Len(d) = n + 0 + s.datalen /\ s.datalen \in 0..3
      BY <1>2 DEF Follows, Offers, SubRecords
    <3> QED BY <3>1
  <2>2. Bounded(m) /\ Steady(s, m) /\ (NextByte(s, m) \/ KeyPosted(s, m) \/ s.datalen = 0)
    BY <1>2, OfferedBound
  <2>3. NextByte(s, m)
    BY <2>1, <2>2 DEF KeyPosted
  <2>4. m \in SubRecords /\ m.intr = s.intr /\ m.ibf = s.ibf /\ m.cmdlen = s.cmdlen
    BY <2>2, <2>3 DEF Steady, NextByte
  <2>5. Due(s, m, d) = d
    BY <2>4 DEF Due
  <2>6. Follows(m, d, n)
    BY <1>2, <2>3, <2>4, FollowsOn
  <2> QED BY <2>2, <2>4, <2>5, <2>6 DEF Steady
<1> QED BY <1>1, <1>2 DEF Stays

\* The sub CPU looks, and there is a byte for it.
Heard(q) == [q EXCEPT !.ibf = FALSE, !.obf = TRUE]
LEMMA HeardIs ==
  ASSUME NEW q \in SubRecords, NEW m, m = Heard(q)
  PROVE  /\ m \in SubRecords /\ ~m.ibf /\ m.obf /\ SameKeys(q, m) /\ m.databuf = q.databuf
         /\ m.mode = q.mode /\ m.cmdlen = q.cmdlen /\ m.datalen = q.datalen /\ m.datap = q.datap
         /\ m.intr = q.intr /\ m.keyBuf = q.keyBuf
<1>1. SameKeys(q, m)
  BY DEF Heard, SameKeys, SubRecords
<1> QED BY <1>1 DEF Heard, SubRecords

LEMMA DrivenByte ==
  ASSUME NEW s \in SubRecords, s.ibf
  PROVE  LET w == Heard(Received(s))
         IN Driven(s) = IF w.cmdlen > 0 \/ w.datalen > 0 THEN w ELSE Offered(w)
<1> QED BY DEF Driven, Heard

\* A byte of the program's command is taken, and the command is done with the last.
LEMMA TakesByte ==
  ASSUME NEW s \in SubRecords, NEW d \in Seq(Tagged), NEW c \in DOMAIN Commands,
         NEW r \in 0..3, r <= Params(c), TakenSoFar(s, d, c, r),
         IF r = 0 THEN s.inbuf = <<c>> ELSE c # "vector" => s.inbuf = <<c, r>>
  PROVE  /\ s.cmdlen = 0 => s.inbuf[1] \in DOMAIN Commands
         /\ ComesOf(s) = c /\ LeftOf(s) = Params(c) - r
         /\ \A q : Receipt(s, q, c, Params(c) - r) =>
              /\ Landed(q, c, r + 1)
              /\ r < Params(c) => q.datap = <<RowOf(c), r + 1>>
<1>1. Params(c) \in 0..3 /\ RowOf(c) \in Rows
  BY CommandFacts
<1>2. CASE r = 0
  <2>1. s.cmdlen = 0 /\ s.inbuf = <<c>> /\ s.inbuf[1] = c
    BY <1>2 DEF TakenSoFar
  <2>2. ComesOf(s) = c
    BY <2>1 DEF ComesOf
  <2>3. LeftOf(s) = Params(c) - r
    BY <1>1, <1>2, <2>1, <2>2 DEF LeftOf
  <2>4. ASSUME NEW q, Receipt(s, q, c, Params(c) - r)
        PROVE  Landed(q, c, r + 1) /\ (r < Params(c) => q.datap = <<RowOf(c), r + 1>>)
    <3>1. 1..(r + 1 - 1) = {}
      BY <1>2
    <3>2. Landed(q, c, r + 1)
      BY <3>1 DEF Landed
    <3>3. r < Params(c) => q.datap = <<RowOf(c), 1>>
      BY <1>1, <1>2, <2>1, <2>4 DEF Receipt
    <3> QED BY <1>2, <3>2, <3>3
  <2> QED BY <2>1, <2>2, <2>3, <2>4
<1>3. CASE r > 0
  <2>1. s.mode = c /\ s.cmdlen = Params(c) - (r - 1) /\ s.datap = <<RowOf(c), r>> /\ Landed(s, c, r)
    BY <1>3 DEF TakenSoFar
  <2>2. s.cmdlen > 0 /\ s.datap[1] = RowOf(c) /\ s.datap[2] = r /\ (c # "vector" => s.inbuf = <<c, r>>)
    BY <1>1, <1>3, <2>1
  <2>3. ComesOf(s) = c
    BY <2>1, <2>2 DEF ComesOf
  <2>4. LeftOf(s) = Params(c) - r
    BY <1>1, <2>1, <2>2 DEF LeftOf
  <2>5. ASSUME NEW q, Receipt(s, q, c, Params(c) - r)
        PROVE  Landed(q, c, r + 1) /\ (r < Params(c) => q.datap = <<RowOf(c), r + 1>>)
    <3>1. /\ q.databuf[RowOf(c)][r] = s.inbuf
          /\ \A i \in 1..8 : s.datap # <<RowOf(c), i>> => q.databuf[RowOf(c)][i] = s.databuf[RowOf(c)][i]
      BY <1>1, <2>2, <2>5 DEF Receipt
    <3>2. ASSUME c # "vector", NEW i \in 1..(r + 1 - 1) PROVE q.databuf[RowOf(c)][i] = <<c, i>>
      <4>1. CASE i = r
        BY <2>2, <3>1, <3>2, <4>1
      <4>2. CASE i # r
        <5>1. i \in 1..8 /\ i \in 1..(r - 1) /\ s.datap # <<RowOf(c), i>>
          BY <1>3, <2>1, <4>2
        <5>2. s.databuf[RowOf(c)][i] = <<c, i>>
          BY <2>1, <3>2, <5>1 DEF Landed
        <5> QED BY <3>1, <5>1, <5>2
      <4> QED BY <4>1, <4>2
    <3>3. Landed(q, c, r + 1)
      BY <3>2 DEF Landed
    <3>4. r < Params(c) => q.datap = <<RowOf(c), r + 1>>
      BY <1>1, <2>2, <2>5 DEF Receipt
    <3> QED BY <3>3, <3>4
  <2> QED BY <2>2, <2>3, <2>4, <2>5
<1> QED BY <1>2, <1>3

LEMMA SendingOn ==
  ASSUME SubCpuAssumption, NEW s \in SubRecords, Bounded(s), s.ibf, NEW p \in ProgRecords,
         NEW d \in Seq(Tagged), p.sent > 0, Sending(s, p, d), NEW m, m = Driven(s)
  PROVE  m \in SubRecords /\ Bounded(m) /\ SameKeys(s, m) /\ ~m.ibf /\ Sending(m, p, Due(s, m, d))
<1> DEFINE c == p.cmd
           r == p.sent - 1
           left == Params(c) - r
           x == Received(s)
           e == Due(s, m, d)
<1>1. /\ c \in DOMAIN Commands /\ p.sent \in 1..(Params(c) + 1) /\ p.sent \in 0..4
      /\ TakenSoFar(s, d, c, r)
      /\ IF p.sent = 1 THEN s.inbuf = <<c>> ELSE c # "vector" => s.inbuf = <<c, r>>
      /\ p.at = "taken" <=> p.sent = Params(c) + 1
  BY DEF Sending, ProgRecords
<1>2. Params(c) \in 0..3 /\ AnswerOf(c) \in 0..3 /\ (Params(c) > 0 => AnswerOf(c) = 0)
  BY <1>1, CommandFacts
<1>3. /\ r \in 0..3 /\ r <= Params(c) /\ (r = 0 <=> p.sent = 1) /\ r + 1 = p.sent /\ left \in 0..3
      /\ r + 1 \in 1..(Params(c) + 1)
  BY <1>1, <1>2
<1> HIDE DEF c
<1>4. IF r = 0 THEN s.inbuf = <<c>> ELSE c # "vector" => s.inbuf = <<c, r>>
  BY <1>1, <1>3
<1> HIDE DEF r
<1>5. /\ s.cmdlen = 0 => s.inbuf[1] \in DOMAIN Commands
      /\ ComesOf(s) = c /\ LeftOf(s) = left
      /\ \A q : Receipt(s, q, c, left) =>
           /\ Landed(q, c, r + 1)
           /\ r < Params(c) => q.datap = <<RowOf(c), r + 1>>
  BY <1>1, <1>3, <1>4, TakesByte
<1> HIDE DEF left, x
<1>6. PICK q : Receipt(s, q, c, left) /\ IF left = 0 THEN Worked(q, x, c) ELSE x = q
  BY <1>5, ReceivedIs DEF x
<1>7. Landed(q, c, r + 1) /\ (r < Params(c) => q.datap = <<RowOf(c), r + 1>>)
  BY <1>5, <1>6
<1>8. Len(s.keyBuf) \in Nat /\ Len(s.keyBuf) <= KeyRoom /\ KeyRoom \in Nat
  BY DEF Bounded, SubRecords, SubCpuAssumption
<1>9. /\ q \in SubRecords /\ SameKeys(s, q) /\ q.keyBuf = s.keyBuf /\ q.mode = c /\ q.cmdlen = left
      /\ q.intr = s.intr
  BY <1>6 DEF Receipt
<1>10. CASE left > 0
  <2>1. x = q /\ r < Params(c)
    BY <1>2, <1>3, <1>6, <1>10 DEF left
  <2>2. m = Heard(q)
    <3>1. Heard(q).cmdlen = left
      BY <1>9 DEF Heard, SubRecords
    <3> QED BY <1>10, <2>1, <3>1, DrivenByte DEF x
  <2>3. /\ m \in SubRecords /\ ~m.ibf /\ m.obf /\ SameKeys(q, m) /\ m.databuf = q.databuf
        /\ m.mode = q.mode /\ m.cmdlen = q.cmdlen /\ m.datap = q.datap /\ m.intr = q.intr /\ m.keyBuf = q.keyBuf
    BY <1>9, <2>2, HeardIs
  <2>4. SameKeys(s, m)
    BY <1>9, <2>3 DEF SameKeys
  <2>5. m.datap = <<RowOf(c), r + 1>> /\ m.cmdlen = left /\ m.mode = c
    BY <1>7, <1>9, <2>1, <2>3
  <2>6. Bounded(m)
    <3>1. m.datap[2] = r + 1 /\ r + 1 + left <= 4
      BY <1>2, <1>3, <2>5 DEF left
    <3> QED BY <1>3, <1>8, <1>9, <1>10, <2>3, <2>5, <3>1 DEF Bounded
  <2>7. Landed(m, c, r + 1)
    BY <1>7, <2>3 DEF Landed
  <2>8. TakenSoFar(m, e, c, r + 1)
    <3>1. r + 1 # 0 /\ r + 1 <= Params(c) /\ left = Params(c) - (r + 1 - 1)
      BY <1>2, <1>3, <2>1 DEF left
    <3>2. /\ m.mode = c /\ m.cmdlen = Params(c) - (r + 1 - 1) /\ m.datap = <<RowOf(c), r + 1>>
          /\ Landed(m, c, r + 1)
      BY <2>5, <2>7, <3>1
    <3> DEFINE k == r + 1
    <3>3. k # 0 /\ k <= Params(c) /\ m.mode = c /\ m.cmdlen = Params(c) - (k - 1)
      BY <1>2, <1>3, <3>1, <3>2
    <3>4. m.datap = <<RowOf(c), k>> /\ Landed(m, c, k)
      BY <3>2
    <3> HIDE DEF k
    <3>5. TakenSoFar(m, e, c, k)
      BY <3>3, <3>4, Zenon DEF TakenSoFar
    <3> QED BY <3>5 DEF k
  <2>9. Sending(m, p, e)
    BY <1>1, <1>3, <2>3, <2>8 DEF Sending, c
  <2> QED BY <2>3, <2>4, <2>6, <2>9
<1>11. CASE left = 0
  <2> DEFINE w == Heard(x)
  <2>1. Worked(q, x, c) /\ r = Params(c)
    BY <1>2, <1>3, <1>6, <1>11 DEF left
  <2>2. /\ x \in SubRecords /\ SameKeys(q, x) /\ SameRows(q, x) /\ Len(x.keyBuf) <= Len(q.keyBuf)
        /\ x.cmdlen = 0 /\ x.datalen = AnswerOf(c) /\ x.datap[2] + x.datalen <= 4
        /\ x.intr = (IF c = "vector" THEN FALSE ELSE q.intr)
        /\ c = "vector" => x.keyBuf = <<>>
    BY <2>1 DEF Worked
  <2>3. /\ w \in SubRecords /\ ~w.ibf /\ w.obf /\ SameKeys(x, w) /\ w.databuf = x.databuf
        /\ w.cmdlen = 0 /\ w.datalen = AnswerOf(c) /\ w.datap = x.datap
        /\ w.intr = x.intr /\ w.keyBuf = x.keyBuf
    BY <2>2, HeardIs
  <2>4. m = IF w.cmdlen > 0 \/ w.datalen > 0 THEN w ELSE Offered(w)
    BY DrivenByte DEF x
  <2> HIDE DEF w
  <2>5. SameKeys(s, w) /\ SameRows(q, w)
    <3>1. SameKeys(s, w)
      BY <1>9, <2>2, <2>3 DEF SameKeys
    <3>2. SameRows(q, w)
      BY <2>2, <2>3 DEF SameRows
    <3> QED BY <3>1, <3>2
  <2>6. Bounded(w)
    <3>1. w.datap[2] \in 1..4 /\ Len(w.keyBuf) \in Nat
      BY <2>3 DEF SubRecords
    <3>2. Len(w.keyBuf) <= KeyRoom
      BY <1>8, <1>9, <2>2, <2>3, <3>1
    <3>3. w.datap[2] + w.datalen <= 4 /\ w.datap[2] + 0 <= 4
      BY <2>2, <2>3, <3>1
    <3> QED BY <2>3, <3>2, <3>3 DEF Bounded
  <2>7. Landed(w, c, r + 1)
    BY <1>1, <1>3, <1>7, <1>9, <2>3, <2>5, LandedOn
  <2>8. CASE AnswerOf(c) > 0
    <3>1. m = w /\ Params(c) = 0
      BY <1>2, <2>3, <2>4, <2>8
    <3>2. c # "vector" /\ w.intr = s.intr
      <4>1. c # "vector"
        BY <3>1, CommandRows
      <4>2. x.intr = q.intr
        BY <2>2, <4>1, Zenon
      <4> QED BY <1>9, <2>3, <4>1, <4>2
    <3>3. e = Waiting(m)
      BY <3>1, <3>2 DEF Due
    <3>4. Follows(m, e, 0)
      BY <2>3, <3>1, <3>3, DueIs
    <3>5. Len(e) = AnswerOf(c)
      BY <2>3, <3>1, <3>3, WaitingIs
    <3>6. TakenSoFar(m, e, c, r + 1)
      <4>1. r + 1 # 0 /\ ~(r + 1 <= Params(c)) /\ AnswerOf(c) # 0
        BY <1>2, <1>3, <2>1, <2>8
      <4> QED BY <2>3, <2>7, <3>1, <3>4, <3>5, <4>1 DEF TakenSoFar
    <3>7. Sending(m, p, e)
      BY <1>1, <1>3, <2>3, <3>1, <3>6 DEF Sending, c
    <3> QED BY <2>3, <2>5, <2>6, <3>1, <3>7
  <2>9. CASE AnswerOf(c) = 0
    <3>1. m = Offered(w)
      BY <2>3, <2>4, <2>9
    <3>2. w.intr = s.intr \/ (~w.intr /\ w.keyBuf = <<>>)
      BY <1>9, <2>2, <2>3
    <3>3. Quiet(m, e)
      BY <2>3, <2>6, <2>9, <3>1, <3>2, QuietOn
    <3>4. Bounded(m) /\ Steady(w, m)
      BY <2>3, <2>6, <3>1, OfferedBound
    <3>5. m \in SubRecords /\ SameKeys(w, m) /\ SameRows(w, m) /\ ~m.ibf /\ m.cmdlen = 0
      BY <2>3, <3>4 DEF Steady
    <3>6. Landed(m, c, r + 1)
      BY <1>1, <1>3, <2>3, <2>7, <3>5, LandedOn
    <3>7. SameKeys(s, m)
      BY <2>5, <3>5 DEF SameKeys
    <3>8. TakenSoFar(m, e, c, r + 1)
      <4>1. r + 1 # 0 /\ ~(r + 1 <= Params(c))
        BY <1>2, <1>3, <2>1
      <4> QED BY <2>9, <3>3, <3>5, <3>6, <4>1 DEF TakenSoFar
    <3>9. Sending(m, p, e)
      BY <1>1, <1>3, <3>5, <3>8 DEF Sending, c
    <3> QED BY <3>4, <3>5, <3>7, <3>9
  <2> QED BY <1>2, <2>8, <2>9
<1> QED BY <1>3, <1>10, <1>11

LEMMA DrivenIs ==
  ASSUME SubCpuAssumption, NEW s \in SubRecords, Bounded(s), NEW p \in ProgRecords, NEW d \in Seq(Tagged),
         InTurn(s, p, d), ~(p.at = "write" /\ p.sent > 0 /\ ~s.ibf), NEW m, m = Driven(s)
  PROVE  /\ m \in SubRecords /\ Bounded(m) /\ SameKeys(s, m)
         /\ InTurn(m, p, Due(s, m, d)) /\ Due(s, m, d) \in Seq(Tagged)
<1>1. CASE p.at \in {"idle", "write"} /\ ~s.ibf /\ Quiet(s, d) /\ (p.at = "write" => p.sent = 0 /\ p.got = <<>>)
  <2>1. Stays(s, m)
    BY <1>1, DrivenNoByte
  <2>2. m \in SubRecords /\ Bounded(m) /\ SameKeys(s, m) /\ ~m.ibf /\ Quiet(m, Due(s, m, d))
    BY <1>1, <2>1, QuietStays
  <2> QED BY <1>1, <2>2, DueIs DEF InTurn
<1>2. CASE p.at \in {"write", "taken"} /\ p.sent > 0 /\ p.got = <<>> /\ Sending(s, p, d)
  <2>1. CASE s.ibf
    <3>1. m \in SubRecords /\ Bounded(m) /\ SameKeys(s, m) /\ ~m.ibf /\ Sending(m, p, Due(s, m, d))
      BY <1>2, <2>1, SendingOn
    <3> QED BY <1>2, <3>1, DueIs DEF InTurn
  <2>2. CASE ~s.ibf
    <3> DEFINE c == p.cmd
               k == Params(c) + 1
    <3>1. c \in DOMAIN Commands /\ p.at = "taken" /\ p.sent = k /\ TakenSoFar(s, d, c, k)
      BY <1>2, <2>2 DEF Sending, ProgRecords
    <3>2. Params(c) \in 0..3 /\ AnswerOf(c) \in 0..3 /\ k # 0 /\ ~(k <= Params(c)) /\ k \in 1..k
      BY <3>1, CommandFacts
    <3> HIDE DEF c, k
    <3>3. s.cmdlen = 0 /\ Landed(s, c, k) /\ IF AnswerOf(c) = 0 THEN Quiet(s, d) ELSE Follows(s, d, 0) /\ Len(d) = AnswerOf(c)
      BY <3>1, <3>2 DEF TakenSoFar
    <3>4. Stays(s, m)
      BY <2>2, DrivenNoByte
    <3>5. /\ m \in SubRecords /\ Bounded(m) /\ SameKeys(s, m) /\ SameRows(s, m) /\ ~m.ibf /\ m.cmdlen = 0
          /\ IF AnswerOf(c) = 0 THEN Quiet(m, Due(s, m, d))
             ELSE Follows(m, Due(s, m, d), 0) /\ Len(Due(s, m, d)) = AnswerOf(c)
      <4>1. CASE AnswerOf(c) = 0
        <5>1. /\ m \in SubRecords /\ Bounded(m) /\ SameKeys(s, m) /\ SameRows(s, m) /\ ~m.ibf
              /\ Quiet(m, Due(s, m, d))
          BY <2>2, <3>3, <3>4, <4>1, QuietStays
        <5> QED BY <4>1, <5>1 DEF Quiet
      <4>2. CASE AnswerOf(c) # 0
        <5>1. Follows(s, d, 0) /\ Len(d) = AnswerOf(c) /\ Len(d) > 0
          BY <3>2, <3>3, <4>2
        <5>2. /\ m \in SubRecords /\ Bounded(m) /\ SameKeys(s, m) /\ SameRows(s, m) /\ ~m.ibf /\ m.cmdlen = 0
              /\ Due(s, m, d) = d /\ Follows(m, d, 0)
          BY <2>2, <3>3, <3>4, <5>1, FollowsStays
        <5> QED BY <4>2, <5>1, <5>2
      <4> QED BY <4>1, <4>2
    <3>6. Landed(m, c, k)
      <4>1. k \in 1..(Params(c) + 1)
        BY <3>2 DEF k
      <4> QED BY <3>1, <3>3, <3>5, <4>1, LandedOn
    <3>7. TakenSoFar(m, Due(s, m, d), c, k)
      BY <3>2, <3>5, <3>6 DEF TakenSoFar
    <3>8. Sending(m, p, Due(s, m, d))
      BY <1>2, <3>1, <3>5, <3>7 DEF Sending, c
    <3> QED BY <1>2, <3>5, <3>8, DueIs DEF InTurn
  <2> QED BY <2>1, <2>2
<1>3. CASE p.at \in {"read", "handler"} /\ Receiving(s, p, d)
  <2> DEFINE n == Len(p.got)
  <2>1. n \in Nat
    BY DEF ProgRecords
  <2>2. ~s.ibf /\ s.cmdlen = 0 /\ Len(d) > n /\ Follows(s, d, n)
    <3>1. ~s.ibf /\ s.cmdlen = 0 /\ n < Len(d) /\ Follows(s, d, n)
      BY <1>3 DEF Receiving
    <3> QED BY <2>1, <3>1
  <2> HIDE DEF n
  <2>3. Stays(s, m)
    BY <2>2, DrivenNoByte
  <2>4. /\ m \in SubRecords /\ Bounded(m) /\ SameKeys(s, m) /\ ~m.ibf /\ m.cmdlen = 0
        /\ Due(s, m, d) = d /\ Follows(m, d, n)
    BY <2>1, <2>2, <2>3, FollowsStays
  <2>5. Receiving(m, p, d)
    BY <1>3, <2>4 DEF Receiving, n
  <2> QED BY <1>3, <2>4, <2>5 DEF InTurn
<1> QED BY <1>1, <1>2, <1>3 DEF InTurn

(* ------------------------------- the keys ------------------------------- *)
\* A key has changed nothing of the bytes that come and go.
KeysOnly(s, m) ==
  m \in SubRecords /\ SameBytes(s, m) /\ m.databuf = s.databuf /\ Bounded(m)

SameTurn(s, m) ==
  /\ m.obf = s.obf /\ m.outbuf = s.outbuf /\ m.mode = s.mode /\ m.cmdlen = s.cmdlen
  /\ m.datalen = s.datalen /\ m.datap = s.datap /\ m.intr = s.intr /\ m.databuf = s.databuf

LEMMA SameTurnIs ==
  ASSUME NEW s, NEW m, SameTurn(s, m), NEW d
  PROVE  /\ Quiet(s, d) => Quiet(m, d)
         /\ \A n : Follows(s, d, n) => Follows(m, d, n)
         /\ \A c, r : TakenSoFar(s, d, c, r) => TakenSoFar(m, d, c, r)
<1>1. Quiet(s, d) => Quiet(m, d)
  BY DEF Quiet, Follows, Offers, SameTurn
<1>2. \A n : Follows(s, d, n) => Follows(m, d, n)
  BY DEF Follows, Offers, SameTurn
<1>3. ASSUME NEW c, NEW r, TakenSoFar(s, d, c, r) PROVE TakenSoFar(m, d, c, r)
  <2>1. Landed(s, c, r) => Landed(m, c, r)
    BY DEF Landed, SameTurn
  <2>2. m.mode = s.mode /\ m.cmdlen = s.cmdlen /\ m.datap = s.datap
    BY DEF SameTurn
  <2> QED BY <1>1, <1>2, <1>3, <2>1, <2>2 DEF TakenSoFar
<1> QED BY <1>1, <1>2, <1>3

LEMMA KeysOnlyIs ==
  ASSUME NEW s \in SubRecords, NEW m \in SubRecords, SameBytes(s, m), m.databuf = s.databuf,
         NEW p, NEW d, InTurn(s, p, d)
  PROVE  InTurn(m, p, d)
<1>1. SameTurn(s, m) /\ m.ibf = s.ibf /\ m.inbuf = s.inbuf
  BY DEF SameTurn, SameBytes
<1>2. /\ Quiet(s, d) => Quiet(m, d)
      /\ \A n : Follows(s, d, n) => Follows(m, d, n)
      /\ \A c, r : TakenSoFar(s, d, c, r) => TakenSoFar(m, d, c, r)
  BY <1>1, SameTurnIs
<1>3. m.cmdlen = s.cmdlen
  BY <1>1 DEF SameTurn
<1>4. Sending(s, p, d) => Sending(m, p, d)
  BY <1>1, <1>2 DEF Sending
<1>5. Receiving(s, p, d) => Receiving(m, p, d)
  BY <1>1, <1>2, <1>3 DEF Receiving
<1> QED BY <1>1, <1>2, <1>4, <1>5 DEF InTurn

LEMMA BoundedStays ==
  ASSUME NEW s \in SubRecords, NEW m \in SubRecords, SameBytes(s, m), Bounded(s), Len(m.keyBuf) <= KeyRoom
  PROVE  Bounded(m)
  BY DEF Bounded, SameBytes

LEMMA BufferedIs ==
  ASSUME SubCpuAssumption, NEW s \in SubRecords, Bounded(s), NEW e \in Pressed \union {Up}
  PROVE  KeysOnly(s, Buffered(s, e)) /\ SameKeys(s, Buffered(s, e))
<1>1. s.keyBuf \in Seq(Pressed \union {Up}) /\ Len(s.keyBuf) <= KeyRoom /\ KeyRoom \in Nat
  BY DEF SubRecords, Bounded, SubCpuAssumption
<1>2. CASE Len(s.keyBuf) < KeyRoom
  <2> DEFINE q == Append(s.keyBuf, e)
             m == [s EXCEPT !.keyBuf = q]
  <2>1. Buffered(s, e) = m
    BY <1>2 DEF Buffered
  <2>2. q \in Seq(Pressed \union {Up}) /\ Len(q) <= KeyRoom
    BY <1>1, <1>2
  <2> HIDE DEF q
  <2>3. m \in SubRecords /\ m.keyBuf = q /\ m.databuf = s.databuf
    BY <2>2 DEF SubRecords
  <2>4. SameBytes(s, m)
    BY DEF SameBytes, SubRecords
  <2>5. SameKeys(s, m)
    BY DEF SameKeys, SubRecords
  <2> HIDE DEF m
  <2>6. Bounded(m)
    BY <2>2, <2>3, <2>4, BoundedStays
  <2> QED BY <2>1, <2>3, <2>4, <2>5, <2>6 DEF KeysOnly
<1>3. CASE ~(Len(s.keyBuf) < KeyRoom)
  BY <1>3 DEF Buffered, KeysOnly, SameBytes, SameKeys
<1> QED BY <1>2, <1>3

LEMMA BufferedAfresh ==
  ASSUME SubCpuAssumption, NEW s \in SubRecords, Bounded(s), NEW e \in Pressed \union {Up},
         NEW m, m = Buffered(IF Vector(s) = None THEN [s EXCEPT !.keyBuf = <<>>] ELSE s, e)
  PROVE  KeysOnly(s, m) /\ SameKeys(s, m)
<1> DEFINE t == IF Vector(s) = None THEN [s EXCEPT !.keyBuf = <<>>] ELSE s
<1>1. KeysOnly(s, t) /\ SameKeys(s, t)
  <2>1. CASE Vector(s) = None
    <3> DEFINE u == [s EXCEPT !.keyBuf = <<>>]
    <3>1. <<>> \in Seq(Pressed \union {Up}) /\ Len(<<>>) = 0 /\ 0 <= KeyRoom
      BY DEF SubCpuAssumption
    <3>2. u \in SubRecords /\ u.keyBuf = <<>> /\ u.databuf = s.databuf
      BY <3>1 DEF SubRecords
    <3>3. SameBytes(s, u)
      BY DEF SameBytes, SubRecords
    <3>4. SameKeys(s, u)
      BY DEF SameKeys, SubRecords
    <3>5. t = u
      BY <2>1
    <3> HIDE DEF u, t
    <3>6. Bounded(u)
      BY <3>1, <3>2, <3>3, BoundedStays
    <3> QED BY <3>2, <3>3, <3>4, <3>5, <3>6 DEF KeysOnly
  <2>2. CASE Vector(s) # None
    <3>1. t = s
      BY <2>2
    <3> HIDE DEF t
    <3> QED BY <3>1 DEF KeysOnly, SameBytes, SameKeys
  <2> QED BY <2>1, <2>2
<1>2. m = Buffered(t, e)
  OBVIOUS
<1> HIDE DEF t
<1>3. t \in SubRecords /\ Bounded(t)
  BY <1>1 DEF KeysOnly
<1>4. KeysOnly(t, m) /\ SameKeys(t, m)
  BY <1>2, <1>3, BufferedIs
<1> QED BY <1>1, <1>4 DEF KeysOnly, SameBytes, SameKeys

LEMMA KeysOnlyTwice ==
  ASSUME NEW a, NEW b, NEW c, KeysOnly(a, b), KeysOnly(b, c)
  PROVE  KeysOnly(a, c)
BY DEF KeysOnly, SameBytes

OnlyCtrl(s, m) ==
  /\ KeysOnly(s, m) /\ m.keyPrev = s.keyPrev /\ m.keyBreak = s.keyBreak
  /\ m.repeating = s.repeating /\ m.stop = s.stop
LEMMA CtrlIs ==
  ASSUME NEW s \in SubRecords, Bounded(s), NEW k
  PROVE  \A b \in BOOLEAN : OnlyCtrl(s, IF IsCtrl(k) THEN [s EXCEPT !.ctrl = b] ELSE s)
<1> SUFFICES ASSUME NEW b \in BOOLEAN PROVE OnlyCtrl(s, IF IsCtrl(k) THEN [s EXCEPT !.ctrl = b] ELSE s)
  OBVIOUS
<1> DEFINE m == IF IsCtrl(k) THEN [s EXCEPT !.ctrl = b] ELSE s
<1>0. SUFFICES OnlyCtrl(s, m)
  OBVIOUS
<1>1. CASE IsCtrl(k)
  <2>1. m = [s EXCEPT !.ctrl = b]
    BY <1>1
  <2>2. m \in SubRecords /\ m.databuf = s.databuf /\ m.keyBuf = s.keyBuf
    BY <2>1 DEF SubRecords
  <2>3. SameBytes(s, m)
    BY <2>1 DEF SameBytes, SubRecords
  <2>4. m.keyPrev = s.keyPrev /\ m.keyBreak = s.keyBreak /\ m.repeating = s.repeating /\ m.stop = s.stop
    BY <2>1 DEF SubRecords
  <2>5. Bounded(m)
    BY <2>2, <2>3 DEF Bounded, SameBytes
  <2> QED BY <2>2, <2>3, <2>4, <2>5 DEF KeysOnly, OnlyCtrl
<1>2. CASE ~IsCtrl(k)
  BY <1>2 DEF KeysOnly, SameBytes, OnlyCtrl
<1> QED BY <1>1, <1>2

LEMMA DownIs ==
  ASSUME SubCpuAssumption, NEW s \in SubRecords, Bounded(s), NEW k \in Pressed, NEW u, NEW v,
         u.held \subseteq v.held, k \in v.held, Held(s, u), NEW m, m = Down(s, k)
  PROVE  KeysOnly(s, m) /\ Held(m, v)
<1> DEFINE a == IF IsCtrl(k) THEN [s EXCEPT !.ctrl = TRUE] ELSE s
           n == Buffered(IF Vector(a) = None THEN [a EXCEPT !.keyBuf = <<>>] ELSE a, k)
           isStop == k = "break" /\ a.ctrl
           rep == k # "f1"
           st == n.stop \/ isStop
           kb == IF isStop THEN k ELSE n.keyBreak
           q == [n EXCEPT !.keyPrev = k, !.repeating = rep]
           z == [q EXCEPT !.stop = st, !.keyBreak = kb]
<1>1. /\ KeysOnly(s, a) /\ a.keyPrev = s.keyPrev /\ a.keyBreak = s.keyBreak
      /\ a.repeating = s.repeating /\ a.stop = s.stop
  <2>1. OnlyCtrl(s, a)
    BY CtrlIs, Zenon
  <2> QED BY <2>1, Zenon DEF OnlyCtrl
<1>2. m = IF HasCode(a, k)
          THEN [n EXCEPT !.keyPrev = k, !.repeating = (k # "f1"),
                         !.stop = @ \/ isStop, !.keyBreak = IF isStop THEN k ELSE @]
          ELSE IF a.keyPrev = NoKey /\ IsCtrl(k) THEN Buffered(a, Up) ELSE a
  BY Zenon DEF Down
<1> HIDE DEF a
<1>3. a \in SubRecords /\ Bounded(a)
  BY <1>1 DEF KeysOnly
<1>4. KeysOnly(a, n) /\ SameKeys(a, n)
  BY <1>3, BufferedAfresh
<1> HIDE DEF n
<1>5. KeysOnly(s, n) /\ n \in SubRecords /\ Bounded(n)
  <2>1. KeysOnly(s, n)
    BY <1>1, <1>4, KeysOnlyTwice
  <2> QED BY <2>1 DEF KeysOnly
<1>6. n.keyPrev = s.keyPrev /\ n.keyBreak = s.keyBreak /\ n.repeating = s.repeating /\ n.stop = s.stop
  BY <1>1, <1>4 DEF SameKeys
<1>7. /\ s.repeating => s.keyPrev \in v.held
      /\ s.stop = (s.keyBreak # NoKey) /\ (s.stop => s.keyBreak \in v.held)
  BY DEF Held
<1>8. CASE HasCode(a, k)
  <2>1. rep \in BOOLEAN /\ st \in BOOLEAN /\ kb \in Pressed \union {NoKey}
    BY <1>5 DEF SubRecords
  <2>2. m = z
    BY <1>2, <1>5, <1>8 DEF SubRecords
  <2>3. isStop => k # NoKey
    BY DEF NoKey
  <2>4. (st <=> n.stop \/ isStop) /\ kb = IF isStop THEN k ELSE n.keyBreak
    OBVIOUS
  <2> HIDE DEF rep, st, kb, isStop
  <2>5. q \in SubRecords /\ q.databuf = n.databuf /\ q.keyBuf = n.keyBuf /\ q.keyPrev = k
    BY <1>5, <2>1 DEF SubRecords
  <2>6. SameBytes(n, q)
    BY <1>5 DEF SameBytes, SubRecords
  <2> HIDE DEF q
  <2>7. z \in SubRecords /\ z.databuf = q.databuf /\ z.keyBuf = q.keyBuf /\ z.keyPrev = q.keyPrev
        /\ z.keyBreak = kb
    BY <2>1, <2>5 DEF SubRecords
  <2>8. z.stop = st
    BY <2>5 DEF SubRecords
  <2>9. SameBytes(q, z)
    BY <2>5 DEF SameBytes, SubRecords
  <2> HIDE DEF z
  <2>10. KeysOnly(n, z)
    <3>1. SameBytes(n, z)
      BY <2>6, <2>9 DEF SameBytes
    <3>2. Bounded(z)
      BY <1>5, <2>5, <2>7, <3>1 DEF Bounded, SameBytes
    <3> QED BY <2>5, <2>7, <3>1, <3>2 DEF KeysOnly
  <2>11. Held(z, v)
    <3>1. z.stop <=> (z.keyBreak # NoKey)
      BY <1>6, <1>7, <2>3, <2>4, <2>7, <2>8
    <3>2. z.stop \in BOOLEAN
      BY <2>7 DEF SubRecords
    <3>3. z.stop = (z.keyBreak # NoKey)
      BY <3>1, <3>2
    <3>4. z.stop => z.keyBreak \in v.held
      BY <1>6, <1>7, <2>4, <2>7, <2>8
    <3> QED BY <2>5, <2>7, <3>3, <3>4 DEF Held
  <2>12. KeysOnly(s, z)
    BY <1>5, <2>10, KeysOnlyTwice
  <2> QED BY <2>2, <2>11, <2>12
<1>9. CASE ~HasCode(a, k) /\ a.keyPrev = NoKey /\ IsCtrl(k)
  <2>1. m = Buffered(a, Up)
    BY <1>2, <1>9
  <2>2. KeysOnly(a, m) /\ SameKeys(a, m)
    BY <1>3, <2>1, BufferedIs
  <2>3. KeysOnly(s, m)
    BY <1>1, <2>2, KeysOnlyTwice
  <2>4. Held(m, v)
    BY <1>1, <1>7, <2>2 DEF SameKeys, Held
  <2> QED BY <2>3, <2>4
<1>10. CASE ~HasCode(a, k) /\ ~(a.keyPrev = NoKey /\ IsCtrl(k))
  <2>1. m = a
    BY <1>2, <1>10
  <2> QED BY <1>1, <1>7, <2>1 DEF Held
<1> QED BY <1>8, <1>9, <1>10

LEMMA WentUpIs ==
  ASSUME SubCpuAssumption, NEW s \in SubRecords, Bounded(s), NEW k \in Pressed, NEW u, NEW v,
         v.held = u.held \ {k}, Held(s, u), NEW m, m = WentUp(s, k)
  PROVE  KeysOnly(s, m) /\ Held(m, v)
<1> DEFINE a == IF IsCtrl(k) THEN [s EXCEPT !.ctrl = FALSE] ELSE s
           b == Buffered(IF Vector(a) = None THEN [a EXCEPT !.keyBuf = <<>>] ELSE a, Up)
           q == [b EXCEPT !.keyPrev = NoKey, !.repeating = FALSE]
           last == k = a.keyPrev \/ (a.keyPrev = NoKey /\ IsCtrl(k))
           n == IF last THEN q ELSE a
           z == [n EXCEPT !.stop = FALSE, !.keyBreak = NoKey]
<1>1. /\ KeysOnly(s, a) /\ a.keyPrev = s.keyPrev /\ a.keyBreak = s.keyBreak
      /\ a.repeating = s.repeating /\ a.stop = s.stop
  <2>1. OnlyCtrl(s, a)
    BY CtrlIs, Zenon
  <2> QED BY <2>1, Zenon DEF OnlyCtrl
<1>2. m = IF k = a.keyBreak THEN z ELSE n
  BY Zenon DEF WentUp
<1> HIDE DEF a
<1>3. a \in SubRecords /\ Bounded(a)
  BY <1>1 DEF KeysOnly
<1>4. KeysOnly(a, b) /\ SameKeys(a, b)
  BY <1>3, BufferedAfresh
<1> HIDE DEF b
<1>5. b \in SubRecords /\ Bounded(b) /\ SameBytes(a, b) /\ b.databuf = a.databuf
  BY <1>4 DEF KeysOnly
<1>6. q \in SubRecords /\ q.databuf = b.databuf /\ q.keyBuf = b.keyBuf /\ q.keyPrev = NoKey
      /\ q.keyBreak = b.keyBreak
  BY <1>5 DEF SubRecords
<1>7. q.repeating = FALSE /\ q.stop = b.stop
  BY <1>5 DEF SubRecords
<1>8. SameBytes(b, q)
  BY <1>5 DEF SameBytes, SubRecords
<1> HIDE DEF q
<1>9. KeysOnly(a, q)
  <2>1. Bounded(q)
    BY <1>5, <1>6, <1>8 DEF Bounded, SameBytes
  <2> QED BY <1>5, <1>6, <1>8, <2>1 DEF KeysOnly, SameBytes
<1>10. n = q \/ (n = a /\ k # a.keyPrev)
  OBVIOUS
<1> HIDE DEF n
<1>11. KeysOnly(s, n) /\ n \in SubRecords /\ Bounded(n)
  <2>1. KeysOnly(s, n)
    BY <1>1, <1>9, <1>10, KeysOnlyTwice
  <2> QED BY <2>1 DEF KeysOnly
<1>12. n.keyBreak = s.keyBreak /\ n.stop = s.stop
  BY <1>1, <1>4, <1>6, <1>7, <1>10 DEF SameKeys
<1>13. n.repeating => n.keyPrev \in v.held
  <2>1. CASE n = q
    BY <1>7, <2>1
  <2>2. CASE n = a /\ k # a.keyPrev
    BY <1>1, <2>2 DEF Held
  <2> QED BY <1>10, <2>1, <2>2
<1>14. CASE k = a.keyBreak
  <2>1. m = z
    BY <1>2, <1>14
  <2>2. z \in SubRecords /\ z.databuf = n.databuf /\ z.keyBuf = n.keyBuf /\ z.keyBreak = NoKey
        /\ z.keyPrev = n.keyPrev
    BY <1>11 DEF SubRecords
  <2>3. z.stop = FALSE /\ z.repeating = n.repeating
    BY <1>11 DEF SubRecords
  <2>4. SameBytes(n, z)
    BY <1>11 DEF SameBytes, SubRecords
  <2> HIDE DEF z
  <2>5. Bounded(z)
    BY <1>11, <2>2, <2>4 DEF Bounded, SameBytes
  <2>6. KeysOnly(s, z)
    <3>1. KeysOnly(n, z)
      BY <2>2, <2>4, <2>5 DEF KeysOnly
    <3> QED BY <1>11, <3>1, KeysOnlyTwice
  <2>7. Held(z, v)
    BY <1>13, <2>2, <2>3 DEF Held
  <2> QED BY <2>1, <2>6, <2>7
<1>15. CASE k # a.keyBreak
  <2>1. m = n
    BY <1>2, <1>15
  <2>2. n.stop => n.keyBreak \in v.held
    BY <1>1, <1>12, <1>15 DEF Held
  <2>3. n.stop = (n.keyBreak # NoKey)
    BY <1>12 DEF Held
  <2> QED BY <1>11, <1>13, <2>1, <2>2, <2>3 DEF Held
<1> QED BY <1>14, <1>15

(* ----------------------------- the program ------------------------------ *)
LEMMA WriteOn ==
  ASSUME NEW s \in SubRecords, Bounded(s), NEW p \in ProgRecords, NEW d, InTurn(s, p, d),
         p.at = "write", ~s.ibf, NEW byte,
         IF p.sent = 0 THEN byte = <<p.cmd>>
         ELSE byte \in {None, <<"vector", 1>>} \/ byte = <<p.cmd, p.sent>>,
         p.sent > 0 /\ p.cmd # "vector" => byte = <<p.cmd, p.sent>>,
         NEW m, m = [s EXCEPT !.inbuf = byte, !.ibf = TRUE],
         NEW q, q = [p EXCEPT !.sent = @ + 1, !.at = IF p.sent = Params(p.cmd) THEN "taken" ELSE @]
  PROVE  m \in SubRecords /\ Bounded(m) /\ SameKeys(s, m) /\ q \in ProgRecords /\ InTurn(m, q, d)
<1> DEFINE c == p.cmd
           n == p.sent
           at == IF n = Params(c) THEN "taken" ELSE "write"
<1>1. c \in DOMAIN Commands /\ n \in 0..4 /\ p.got \in Seq(Tagged) /\ Params(c) \in 0..3
  BY CommandFacts DEF ProgRecords
<1>2. p.got = <<>> /\ n <= Params(c) /\ TakenSoFar(s, d, c, n)
  <2>1. CASE n = 0
    <3>1. p.got = <<>> /\ s.cmdlen = 0
      BY <2>1 DEF InTurn, Quiet
    <3> QED BY <1>1, <2>1, <3>1 DEF TakenSoFar
  <2>2. CASE n > 0
    <3>1. p.got = <<>> /\ Sending(s, p, d)
      BY <2>2 DEF InTurn
    <3>2. n \in 1..(Params(c) + 1) /\ n # Params(c) + 1 /\ TakenSoFar(s, d, c, n)
      BY <3>1 DEF Sending
    <3> QED BY <1>1, <3>1, <3>2
  <2> QED BY <1>1, <2>1, <2>2
<1>3. byte \in Tagged
  <2>1. c \in Tags /\ n \in 0..9
    BY <1>1 DEF Tags
  <2>2. <<c>> \in Tagged /\ <<c, n>> \in Tagged
    BY <2>1, TaggedIs
  <2> QED BY <2>2, TaggedIs
<1>4. /\ m \in SubRecords /\ m.ibf /\ m.inbuf = byte /\ m.keyBuf = s.keyBuf
  BY <1>3 DEF SubRecords
<1>5. SameTurn(s, m)
  BY DEF SameTurn, SubRecords
<1>6. SameKeys(s, m)
  BY DEF SameKeys, SubRecords
<1>7. Bounded(m)
  BY <1>4, <1>5 DEF Bounded, SameTurn
<1>8. q = [p EXCEPT !.sent = n + 1, !.at = at]
  BY DEF ProgRecords
<1> HIDE DEF c, n, at
<1>9. q \in ProgRecords /\ q.sent = n + 1 /\ q.at = at /\ q.cmd = c /\ q.got = <<>>
  <2>1. n + 1 \in 0..4 /\ at \in {"write", "taken"}
    BY <1>1, <1>2 DEF at
  <2> QED BY <1>2, <1>8, <2>1 DEF ProgRecords, c
<1>10. TakenSoFar(m, d, c, n)
  BY <1>2, <1>5, SameTurnIs
<1>11. Sending(m, q, d)
  <2>1. q.sent \in 1..(Params(c) + 1) /\ q.sent - 1 = n /\ (q.sent = 1 <=> n = 0)
    BY <1>1, <1>2, <1>9
  <2>2. q.at = "taken" <=> q.sent = Params(c) + 1
    BY <1>1, <1>9 DEF at
  <2>3. IF q.sent = 1 THEN m.inbuf = <<c>> ELSE c # "vector" => m.inbuf = <<c, n>>
    BY <1>1, <1>4, <2>1 DEF c, n
  <2> QED BY <1>4, <1>9, <1>10, <2>1, <2>2, <2>3 DEF Sending
<1>12. q.sent > 0 /\ q.at \in {"write", "taken"}
  BY <1>1, <1>9 DEF at
<1> QED BY <1>4, <1>6, <1>7, <1>9, <1>11, <1>12 DEF InTurn

LEMMA SeeTakenOn ==
  ASSUME NEW s \in SubRecords, NEW p \in ProgRecords, NEW d, InTurn(s, p, d), p.at = "taken", ~s.ibf,
         NEW q, q = IF AnswerOf(p.cmd) = 0 THEN AtRest ELSE [p EXCEPT !.at = "read"]
  PROVE  q \in ProgRecords /\ InTurn(s, q, d)
<1> DEFINE c == p.cmd
           k == Params(c) + 1
<1>1. c \in DOMAIN Commands /\ p.got = <<>> /\ p.sent = k /\ TakenSoFar(s, d, c, k)
  BY DEF InTurn, Sending, ProgRecords
<1>2. Params(c) \in 0..3 /\ AnswerOf(c) \in 0..3 /\ k # 0 /\ ~(k <= Params(c))
  BY <1>1, CommandFacts
<1> HIDE DEF c, k
<1>3. s.cmdlen = 0 /\ IF AnswerOf(c) = 0 THEN Quiet(s, d) ELSE Follows(s, d, 0) /\ Len(d) = AnswerOf(c)
  BY <1>1, <1>2 DEF TakenSoFar
<1>4. CASE AnswerOf(c) = 0
  <2>1. q = AtRest
    BY <1>4 DEF c
  <2>2. q \in ProgRecords /\ q.at = "idle"
    BY <2>1, CommandRows DEF AtRest, ProgRecords
  <2> QED BY <1>3, <1>4, <2>2 DEF InTurn
<1>5. CASE AnswerOf(c) # 0
  <2>1. q = [p EXCEPT !.at = "read"]
    BY <1>5 DEF c
  <2>2. q \in ProgRecords /\ q.at = "read" /\ q.cmd = c /\ q.got = <<>>
    BY <1>1, <2>1 DEF ProgRecords, c
  <2>3. Receiving(s, q, d)
    <3>1. Len(q.got) = 0 /\ Follows(s, d, Len(q.got)) /\ Len(d) = AnswerOf(c) /\ Len(q.got) < Len(d)
      BY <1>2, <1>3, <1>5, <2>2
    <3> QED BY <1>3, <2>2, <3>1 DEF Receiving
  <2> QED BY <2>2, <2>3 DEF InTurn
<1> QED BY <1>4, <1>5

LEMMA ReadIo8Is ==
  ASSUME NEW s \in SubRecords, Bounded(s), NEW m, m = ReadIo8(s)
  PROVE  /\ m \in SubRecords /\ Bounded(m) /\ SameKeys(s, m) /\ m.obf /\ ~m.intr /\ m.ibf = s.ibf
         /\ m.cmdlen = s.cmdlen /\ m.datalen = s.datalen /\ m.datap = s.datap /\ m.databuf = s.databuf
<1>1. /\ m \in SubRecords /\ m.obf /\ ~m.intr /\ m.ibf = s.ibf /\ m.keyBuf = s.keyBuf
      /\ m.cmdlen = s.cmdlen /\ m.datalen = s.datalen /\ m.datap = s.datap /\ m.databuf = s.databuf
  BY DEF ReadIo8, SubRecords
<1>2. SameKeys(s, m)
  BY DEF ReadIo8, SameKeys, SubRecords
<1>3. Bounded(m)
  BY <1>1 DEF Bounded
<1> QED BY <1>1, <1>2, <1>3

\* A byte is read: the next one is to come.
AsRead(s, m) ==
  /\ s \in SubRecords /\ m \in SubRecords /\ ~s.obf /\ m.obf
  /\ m.datalen = s.datalen /\ m.datap = s.datap /\ m.databuf = s.databuf
ReadOne(s, m, d, n) == s.outbuf = d[n + 1] /\ Follows(m, d, n + 1) /\ Len(d) = n + 1 + m.datalen
LEMMA ReadsNext ==
  ASSUME NEW s, NEW m, AsRead(s, m), NEW d, NEW n, n \in Nat, Follows(s, d, n)
  PROVE  ReadOne(s, m, d, n)
<1>0. /\ s \in SubRecords /\ m \in SubRecords /\ ~s.obf /\ m.obf
      /\ m.datalen = s.datalen /\ m.datap = s.datap /\ m.databuf = s.databuf
  BY DEF AsRead
<1>1. s.datalen \in 0..3 /\ Offers(s) = 1 /\ Offers(m) = 0
  BY <1>0 DEF SubRecords, Offers
<1>2. /\ Len(d) = n + 1 + s.datalen /\ s.outbuf = d[n + 1]
      /\ \A j \in 1..s.datalen : s.databuf[s.datap[1]][s.datap[2] + j - 1] = d[n + 1 + j]
  <2>1. /\ Len(d) = n + Offers(s) + s.datalen /\ (~s.obf => s.outbuf = d[n + 1])
        /\ \A j \in 1..s.datalen : s.databuf[s.datap[1]][s.datap[2] + j - 1] = d[n + Offers(s) + j]
    BY Zenon DEF Follows
  <2> QED BY <1>0, <1>1, <2>1
<1>3. \A j \in 1..m.datalen : m.databuf[m.datap[1]][m.datap[2] + j - 1] = d[n + 1 + 0 + j]
  BY <1>0, <1>1, <1>2
<1>4. Len(d) = n + 1 + 0 + m.datalen
  BY <1>0, <1>1, <1>2
<1> QED BY <1>0, <1>1, <1>2, <1>3, <1>4 DEF Follows, ReadOne

Reads(s, p, m, q) ==
  /\ p.at \in {"read", "handler"} /\ ~s.obf /\ m = ReadIo8(s)
  /\ LET got == Append(p.got, s.outbuf)
         last == IF p.at = "read" THEN AnswerOf(p.cmd) ELSE 1 + AnswerOf("key")
     IN q = IF Len(got) = last THEN AtRest ELSE [p EXCEPT !.got = got]
LEMMA ReadOn ==
  ASSUME NEW s \in SubRecords, Bounded(s), NEW p \in ProgRecords, NEW d \in Seq(Tagged), InTurn(s, p, d),
         NEW m, NEW q, Reads(s, p, m, q)
  PROVE  m \in SubRecords /\ Bounded(m) /\ SameKeys(s, m) /\ q \in ProgRecords /\ InTurn(m, q, d)
<1> DEFINE n == Len(p.got)
           got == Append(p.got, s.outbuf)
           last == IF p.at = "read" THEN AnswerOf(p.cmd) ELSE 1 + AnswerOf("key")
<1>0. /\ p.at \in {"read", "handler"} /\ ~s.obf /\ m = ReadIo8(s)
      /\ q = IF Len(got) = last THEN AtRest ELSE [p EXCEPT !.got = got]
  BY DEF Reads
<1>1. /\ m \in SubRecords /\ Bounded(m) /\ SameKeys(s, m) /\ m.obf /\ ~m.intr /\ m.ibf = s.ibf
      /\ m.cmdlen = s.cmdlen /\ m.datalen = s.datalen /\ m.datap = s.datap /\ m.databuf = s.databuf
  BY <1>0, ReadIo8Is
<1>2. /\ ~s.ibf /\ s.cmdlen = 0 /\ n < Len(d) /\ Follows(s, d, n)
      /\ \A i \in 1..n : p.got[i] = d[i]
      /\ Len(d) = IF p.at = "read" THEN AnswerOf(p.cmd) ELSE 3
  BY <1>0 DEF InTurn, Receiving
<1>3. p.got \in Seq(Tagged) /\ n \in Nat /\ s.outbuf \in Tagged
  BY DEF ProgRecords, SubRecords
<1>4. got \in Seq(Tagged) /\ Len(got) = n + 1 /\ got[n + 1] = s.outbuf /\ \A i \in 1..n : got[i] = p.got[i]
  BY <1>3
<1> HIDE DEF n, got
<1>5. s.outbuf = d[n + 1] /\ Follows(m, d, n + 1) /\ Len(d) = n + 1 + m.datalen
  <2>1. AsRead(s, m)
    BY <1>0, <1>1 DEF AsRead
  <2>2. ReadOne(s, m, d, n)
    BY <1>2, <1>3, <2>1, ReadsNext
  <2> QED BY <2>2 DEF ReadOne
<1>6. last = Len(d)
  BY <1>0, <1>2, CommandRows
<1>7. Len(d) \in Nat /\ m.datalen \in Nat
  BY <1>1 DEF SubRecords
<1>8. CASE Len(got) = last
  <2>1. q \in ProgRecords /\ q.at = "idle"
    BY <1>0, <1>8, CommandRows DEF AtRest, ProgRecords
  <2>2. m.datalen = 0
    BY <1>3, <1>4, <1>5, <1>6, <1>7, <1>8
  <2> QED BY <1>1, <1>2, <2>1, <2>2 DEF InTurn, Quiet
<1>9. CASE Len(got) # last
  <2>1. q = [p EXCEPT !.got = got]
    BY <1>0, <1>9
  <2>2. q \in ProgRecords /\ q.at = p.at /\ q.cmd = p.cmd /\ q.got = got
    BY <1>4, <2>1 DEF ProgRecords
  <2>3. \A i \in 1..Len(got) : got[i] = d[i]
    BY <1>2, <1>3, <1>4, <1>5
  <2>4. Len(got) < Len(d)
    BY <1>2, <1>3, <1>4, <1>6, <1>7, <1>9
  <2>5. Receiving(m, q, d)
    BY <1>0, <1>1, <1>2, <1>4, <1>5, <2>2, <2>3, <2>4 DEF Receiving
  <2> QED BY <1>0, <1>1, <2>2, <2>5 DEF InTurn
<1> QED BY <1>8, <1>9

LEMMA HandlerStarts ==
  ASSUME NEW m, ~m.ibf, m.cmdlen = 0, NEW d, Len(d) = 3, Follows(m, d, 1), NEW v, v \in Tagged, v = d[1],
         NEW q, q = [at |-> "handler", cmd |-> "reset", sent |-> 0, got |-> <<v>>]
  PROVE  q \in ProgRecords /\ InTurn(m, q, d)
<1> DEFINE got == <<v>>
<1>1. got \in Seq(Tagged) /\ Len(got) = 1 /\ got[1] = v
  OBVIOUS
<1>2. "reset" \in DOMAIN Commands
  BY CommandRows
<1> HIDE DEF got
<1>3. q.at = "handler" /\ q.got = got
  BY DEF got
<1>4. q \in ProgRecords
  BY <1>1, <1>2 DEF ProgRecords, got
<1>5. \A i \in 1..Len(got) : got[i] = d[i]
  BY <1>1
<1>6. Len(got) < Len(d) /\ Follows(m, d, Len(got))
  BY <1>1
<1>7. Receiving(m, q, d)
  BY <1>3, <1>5, <1>6 DEF Receiving
<1> QED BY <1>3, <1>4, <1>7 DEF InTurn

LEMMA AcknowledgeOn ==
  ASSUME NEW s \in SubRecords, Bounded(s), NEW p \in ProgRecords, NEW d \in Seq(Tagged), InTurn(s, p, d),
         p.at = "idle", s.intr, NEW m, m = ReadIo8(s),
         NEW q, q = IF d = <<>> THEN AtRest ELSE [AtRest EXCEPT !.at = "handler", !.got = <<s.outbuf>>]
  PROVE  m \in SubRecords /\ Bounded(m) /\ SameKeys(s, m) /\ q \in ProgRecords /\ InTurn(m, q, d)
<1>1. /\ m \in SubRecords /\ Bounded(m) /\ SameKeys(s, m) /\ m.obf /\ ~m.intr /\ m.ibf = s.ibf
      /\ m.cmdlen = s.cmdlen /\ m.datalen = s.datalen /\ m.datap = s.datap /\ m.databuf = s.databuf
  BY ReadIo8Is
<1>2. /\ ~s.ibf /\ s.cmdlen = 0
      /\ \/ ~s.obf /\ s.datalen = 2 /\ Follows(s, d, 0)
         \/ s.obf /\ s.datalen = 0 /\ d = <<>>
  BY DEF InTurn, Quiet
<1>3. CASE s.obf /\ s.datalen = 0 /\ d = <<>>
  <2>1. q \in ProgRecords /\ q.at = "idle"
    BY <1>3, CommandRows DEF AtRest, ProgRecords
  <2> QED BY <1>1, <1>2, <1>3, <2>1 DEF InTurn, Quiet
<1>4. CASE ~s.obf /\ s.datalen = 2 /\ Follows(s, d, 0)
  <2>1. s.outbuf = d[0 + 1] /\ Follows(m, d, 0 + 1) /\ Len(d) = 0 + 1 + m.datalen
    <3>1. AsRead(s, m) /\ 0 \in Nat /\ Follows(s, d, 0)
      BY <1>1, <1>4 DEF AsRead
    <3>2. ReadOne(s, m, d, 0)
      BY <3>1, ReadsNext
    <3> QED BY <3>2 DEF ReadOne
  <2>2. s.outbuf = d[1] /\ Follows(m, d, 1) /\ Len(d) = 3
    BY <1>1, <1>4, <2>1
  <2>3. d # <<>>
    <3>1. ~(Len(d) = 0)
      BY <2>2
    <3> QED BY <3>1, EmptySeq, Zenon
  <2>4. q = [at |-> "handler", cmd |-> "reset", sent |-> 0, got |-> <<s.outbuf>>]
    BY <2>3 DEF AtRest
  <2>5. ~m.ibf /\ m.cmdlen = 0 /\ s.outbuf \in Tagged
    BY <1>1, <1>2 DEF SubRecords
  <2>6. q \in ProgRecords /\ InTurn(m, q, d)
    BY <2>2, <2>4, <2>5, HandlerStarts
  <2> QED BY <1>1, <2>6
<1> QED BY <1>2, <1>3, <1>4

(* ------------------------------ the steps ------------------------------- *)
LEMMA HeldStays ==
  ASSUME NEW s, NEW m, NEW u, SameKeys(s, m), Held(s, u)
  PROVE  Held(m, u)
BY DEF SameKeys, Held

LEMMA StartsInTurn ==
  ASSUME SubCpuAssumption
  PROVE  PsubAtReset \in SubRecords /\ Bounded(PsubAtReset) /\ AtRest \in ProgRecords
         /\ <<>> \in Seq(Tagged) /\ InTurn(PsubAtReset, AtRest, <<>>)
         /\ \A u : Held(PsubAtReset, u)
<1> DEFINE rows == [Zero EXCEPT !["key"][1] = <<"255">>]
<1>1. rows \in [Rows -> [1..8 -> Tagged]]
  <2>1. Zero \in [Rows -> [1..8 -> Tagged]]
    BY TaggedIs DEF Zero
  <2>2. Zero["key"] \in [1..8 -> Tagged]
    BY <2>1, CommandRows
  <2> DEFINE row == [Zero["key"] EXCEPT ![1] = <<"255">>]
  <2>3. row \in [1..8 -> Tagged]
    BY <2>2, TaggedIs
  <2>4. rows = [Zero EXCEPT !["key"] = row]
    OBVIOUS
  <2> HIDE DEF row, rows
  <2> QED BY <2>1, <2>3, <2>4
<1>2. RowOf("set") = "timer" /\ "set" \in DOMAIN Commands
  BY CommandNames DEF Commands, RowOf
<1>3. <<"timer", 1>> \in Rows \X (1..4)
  BY <1>2, CommandFacts
<1>4. "reset" \in DOMAIN Commands
  BY CommandRows
<1> DEFINE s == PsubAtReset
<1>5. s = [ibf |-> FALSE, inbuf |-> None, obf |-> TRUE, outbuf |-> None, mode |-> "reset",
           cmdlen |-> 0, datalen |-> 0, datap |-> <<"timer", 1>>, databuf |-> rows,
           keyBuf |-> <<>>, keyPrev |-> NoKey, keyBreak |-> NoKey, ctrl |-> FALSE,
           repeating |-> FALSE, stop |-> FALSE, iei |-> TRUE, intr |-> FALSE]
  BY DEF PsubAtReset
<1> HIDE DEF rows, s
<1>6. s \in SubRecords
  <2>1. None \in Tagged /\ <<>> \in Seq(Pressed \union {Up}) /\ NoKey \in Pressed \union {NoKey}
    BY TaggedIs
  <2>2. 0 \in 0..3 /\ TRUE \in BOOLEAN /\ FALSE \in BOOLEAN
    OBVIOUS
  <2> QED BY <1>1, <1>3, <1>4, <1>5, <2>1, <2>2 DEF SubRecords
<1>7. /\ ~s.ibf /\ s.obf /\ ~s.intr /\ s.cmdlen = 0 /\ s.datalen = 0 /\ s.datap = <<"timer", 1>>
      /\ s.keyBuf = <<>> /\ ~s.repeating /\ s.stop = FALSE /\ s.keyBreak = NoKey
  BY <1>5
<1>8. Bounded(s)
  <2>1. Len(s.keyBuf) = 0 /\ 0 <= KeyRoom
    BY <1>7 DEF SubCpuAssumption
  <2> QED BY <1>7, <2>1 DEF Bounded
<1>9. AtRest \in ProgRecords /\ AtRest.at = "idle"
  BY <1>4 DEF AtRest, ProgRecords
<1>10. InTurn(s, AtRest, <<>>)
  BY <1>7, <1>9 DEF InTurn, Quiet
<1>11. \A u : Held(s, u)
  BY <1>7 DEF Held
<1> QED BY <1>6, <1>8, <1>9, <1>10, <1>11 DEF s

LEMMA PsubStarts ==
  ASSUME SubCpuAssumption, PsubInit
  PROVE  PsubInv
<1>1. user \in [held : SUBSET Pressed, presses : Nat]
  BY DEF PsubInit
<1> QED BY <1>1, StartsInTurn DEF PsubInit, PsubInv

\* What a key has left is in turn.
LEMMA KeyStep ==
  ASSUME PsubInv, KeysOnly(sub, sub'), Held(sub', user'), UNCHANGED <<prog, due>>,
         user' \in [held : SUBSET Pressed, presses : Nat]
  PROVE  PsubInv'
<1>1. InTurn(sub', prog, due)
  BY KeysOnlyIs DEF PsubInv, KeysOnly
<1> QED BY <1>1 DEF PsubInv, KeysOnly

\* What the sub CPU and the program have done together is in turn.
LEMMA ByteStep ==
  ASSUME PsubInv, SameKeys(sub, sub'), sub' \in SubRecords, Bounded(sub'), prog' \in ProgRecords,
         due' \in Seq(Tagged), InTurn(sub', prog', due'), UNCHANGED user
  PROVE  PsubInv'
<1>1. Held(sub', user)
  BY HeldStays DEF PsubInv
<1> QED BY <1>1 DEF PsubInv

LEMMA PsubSteps ==
  ASSUME SubCpuAssumption, Prompt, PsubInv, [PsubNext]_subVars
  PROVE  PsubInv'
<1>1. /\ sub \in SubRecords /\ Bounded(sub) /\ prog \in ProgRecords /\ due \in Seq(Tagged)
      /\ user \in [held : SUBSET Pressed, presses : Nat] /\ Held(sub, user) /\ InTurn(sub, prog, due)
  BY DEF PsubInv
<1>2. CASE Drive
  <2>1. sub' = Driven(sub) /\ ~(prog.at = "write" /\ prog.sent > 0 /\ ~sub.ibf)
        /\ due' = Due(sub, sub', due) /\ UNCHANGED <<user, prog>>
    BY <1>2 DEF Drive, Due
  <2>2. sub' \in SubRecords /\ Bounded(sub') /\ SameKeys(sub, sub') /\ InTurn(sub', prog, due') /\ due' \in Seq(Tagged)
    BY <1>1, <2>1, DrivenIs
  <2> QED BY <1>1, <2>1, <2>2, ByteStep
<1>3. CASE WriteIo8
  <2>1. PICK byte \in IF prog.sent = 0 THEN {<<prog.cmd>>}
                      ELSE IF prog.cmd = "vector" THEN {None, <<"vector", 1>>} ELSE {<<prog.cmd, prog.sent>>} :
          sub' = [sub EXCEPT !.inbuf = byte, !.ibf = TRUE]
    BY <1>3 DEF WriteIo8
  <2>2. /\ prog.at = "write" /\ ~sub.ibf /\ UNCHANGED <<user, due>>
        /\ prog' = [prog EXCEPT !.sent = @ + 1, !.at = IF prog.sent = Params(prog.cmd) THEN "taken" ELSE @]
    BY <1>3 DEF WriteIo8
  <2>3. IF prog.sent = 0 THEN byte = <<prog.cmd>>
        ELSE byte \in {None, <<"vector", 1>>} \/ byte = <<prog.cmd, prog.sent>>
    BY <2>1
  <2>4. prog.sent > 0 /\ prog.cmd # "vector" => byte = <<prog.cmd, prog.sent>>
    <3>1. prog.sent \in 0..4
      BY <1>1 DEF ProgRecords
    <3> QED BY <2>1, <3>1
  <2>5. /\ sub' \in SubRecords /\ Bounded(sub') /\ SameKeys(sub, sub') /\ prog' \in ProgRecords
        /\ InTurn(sub', prog', due)
    BY <1>1, <2>1, <2>2, <2>3, <2>4, WriteOn
  <2> QED BY <1>1, <2>2, <2>5, ByteStep
<1>4. CASE SeeTaken
  <2>1. prog' \in ProgRecords /\ InTurn(sub, prog', due)
    BY <1>1, <1>4, SeeTakenOn DEF SeeTaken
  <2>2. UNCHANGED <<sub, user, due>>
    BY <1>4 DEF SeeTaken
  <2> QED BY <1>1, <2>1, <2>2 DEF PsubInv
<1>5. CASE ReadAnswer
  <2>1. Reads(sub, prog, sub', prog') /\ UNCHANGED <<user, due>>
    BY <1>5 DEF ReadAnswer, Reads
  <2>2. /\ sub' \in SubRecords /\ Bounded(sub') /\ SameKeys(sub, sub') /\ prog' \in ProgRecords
        /\ InTurn(sub', prog', due)
    BY <1>1, <2>1, ReadOn
  <2> QED BY <1>1, <2>1, <2>2, ByteStep
<1>6. CASE Acknowledge
  <2>1. /\ prog.at = "idle" /\ sub.intr /\ sub' = ReadIo8(sub) /\ UNCHANGED <<user, due>>
        /\ prog' = IF due = <<>> THEN AtRest ELSE [AtRest EXCEPT !.at = "handler", !.got = <<sub.outbuf>>]
    BY <1>6 DEF Acknowledge
  <2>2. /\ sub' \in SubRecords /\ Bounded(sub') /\ SameKeys(sub, sub') /\ prog' \in ProgRecords
        /\ InTurn(sub', prog', due)
    BY <1>1, <2>1, AcknowledgeOn
  <2> QED BY <1>1, <2>1, <2>2, ByteStep
<1>7. CASE SetIei
  <2>1. UNCHANGED <<user, prog, due>> /\ sub' = [sub EXCEPT !.iei = ~@]
    BY <1>7 DEF SetIei
  <2>2. sub' \in SubRecords /\ sub'.databuf = sub.databuf /\ sub'.keyBuf = sub.keyBuf
    BY <1>1, <2>1 DEF SubRecords
  <2>3. SameBytes(sub, sub')
    BY <1>1, <2>1 DEF SameBytes, SubRecords
  <2>4. Held(sub', user)
    BY <1>1, <2>1 DEF Held, SubRecords
  <2>5. Bounded(sub')
    BY <1>1, <2>2, <2>3 DEF Bounded, SameBytes
  <2>6. KeysOnly(sub, sub')
    BY <2>2, <2>3, <2>5 DEF KeysOnly
  <2> QED BY <1>1, <2>1, <2>4, <2>6, KeyStep
<1>8. CASE Repeat
  <2> DEFINE t == [sub EXCEPT !.repeating = FALSE]
             k == sub.keyPrev
  <2>1. sub.repeating /\ sub' = Down(t, k) /\ UNCHANGED <<user, prog, due>>
    BY <1>8 DEF Repeat
  <2>2. k \in user.held /\ k \in Pressed
    BY <1>1, <2>1 DEF Held
  <2>3. t \in SubRecords /\ t.databuf = sub.databuf /\ t.keyBuf = sub.keyBuf
    BY <1>1 DEF SubRecords
  <2>4. SameBytes(sub, t)
    BY <1>1 DEF SameBytes, SubRecords
  <2>5. Held(t, user)
    BY <1>1 DEF Held, SubRecords
  <2> HIDE DEF t, k
  <2>6. KeysOnly(sub, t) /\ Bounded(t)
    <3>1. Bounded(t)
      BY <1>1, <2>3, <2>4 DEF Bounded, SameBytes
    <3> QED BY <2>3, <2>4, <3>1 DEF KeysOnly
  <2>7. KeysOnly(t, sub') /\ Held(sub', user)
    BY <2>1, <2>2, <2>3, <2>5, <2>6, DownIs
  <2>8. KeysOnly(sub, sub')
    BY <2>6, <2>7, KeysOnlyTwice
  <2> QED BY <1>1, <2>1, <2>7, <2>8, KeyStep
<1>9. CASE PsubReset
  <2>1. sub' = PsubAtReset /\ prog' = AtRest /\ due' = <<>> /\ UNCHANGED user
    BY <1>9 DEF PsubReset
  <2> QED BY <1>1, <2>1, StartsInTurn DEF PsubInv
<1>10. ASSUME NEW c \in Asked, Ask(c) PROVE PsubInv'
  <2>1. /\ prog.at = "idle" /\ prog' = [AtRest EXCEPT !.at = "write", !.cmd = c] /\ UNCHANGED <<sub, user, due>>
    BY <1>10 DEF Ask
  <2>2. c \in DOMAIN Commands
    BY DEF SubCpuAssumption
  <2>3. prog' = [at |-> "write", cmd |-> c, sent |-> 0, got |-> <<>>]
    BY <2>1 DEF AtRest
  <2>4. prog' \in ProgRecords /\ prog'.at = "write" /\ prog'.sent = 0 /\ prog'.got = <<>>
    BY <2>2, <2>3 DEF ProgRecords
  <2>5. ~sub.ibf /\ Quiet(sub, due)
    BY <1>1, <2>1 DEF InTurn
  <2>6. InTurn(sub, prog', due)
    BY <2>4, <2>5 DEF InTurn
  <2> QED BY <1>1, <2>1, <2>4, <2>6 DEF PsubInv
<1>11. ASSUME NEW k \in Pressed, Press(k) PROVE PsubInv'
  <2>1. /\ user' = [held |-> user.held \union {k}, presses |-> user.presses + 1]
        /\ sub' = Down(sub, k) /\ UNCHANGED <<prog, due>>
    BY <1>11 DEF Press
  <2>2. user' \in [held : SUBSET Pressed, presses : Nat]
    BY <1>1, <2>1
  <2>3. user.held \subseteq user'.held /\ k \in user'.held
    BY <2>1
  <2>4. KeysOnly(sub, sub') /\ Held(sub', user')
    BY <1>1, <2>1, <2>3, DownIs
  <2> QED BY <1>1, <2>1, <2>2, <2>4, KeyStep
<1>12. ASSUME NEW k \in Pressed, Release(k) PROVE PsubInv'
  <2>1. user' = [user EXCEPT !.held = @ \ {k}] /\ sub' = WentUp(sub, k) /\ UNCHANGED <<prog, due>>
    BY <1>12 DEF Release
  <2>2. user' \in [held : SUBSET Pressed, presses : Nat] /\ user'.held = user.held \ {k}
    BY <1>1, <2>1
  <2>3. KeysOnly(sub, sub') /\ Held(sub', user')
    BY <1>1, <2>1, <2>2, WentUpIs
  <2> QED BY <1>1, <2>1, <2>2, <2>3, KeyStep
<1>13. CASE UNCHANGED subVars
  BY <1>1, <1>13 DEF subVars, PsubInv
<1> QED BY <1>2, <1>3, <1>4, <1>5, <1>6, <1>7, <1>8, <1>9, <1>10, <1>11, <1>12, <1>13 DEF PsubNext

LEMMA PsubHolds ==
  ASSUME SubCpuAssumption, PsubInv
  PROVE  PsubTypeOK /\ AnswersAreWhole /\ ParametersLand /\ KeysAreHeld
<1>1. /\ sub \in SubRecords /\ Bounded(sub) /\ prog \in ProgRecords /\ due \in Seq(Tagged)
      /\ user \in [held : SUBSET Pressed, presses : Nat] /\ Held(sub, user) /\ InTurn(sub, prog, due)
  BY DEF PsubInv
<1>2. PsubTypeOK
  <2>1. sub.datap \in Rows \X (1..9)
    BY <1>1 DEF SubRecords
  <2> QED BY <1>1, <2>1 DEF PsubTypeOK, SubRecords, ProgRecords, Bounded
<1>3. ASSUME prog.at \in {"read", "handler"} PROVE prog.got = SubSeq(due, 1, Len(prog.got))
  <2> DEFINE g == prog.got
             n == Len(g)
             h == SubSeq(due, 1, n)
  <2>1. n < Len(due) /\ \A i \in 1..n : g[i] = due[i]
    BY <1>1, <1>3 DEF InTurn, Receiving
  <2>2. g \in Seq(Tagged) /\ n \in Nat
    BY <1>1 DEF ProgRecords
  <2>3. \A i \in 1..n : due[i] \in Tagged
    BY <1>1, <2>1, <2>2
  <2> HIDE DEF g, n
  <2>4. h \in Seq(Tagged) /\ Len(h) = (IF 1 <= n THEN n - 1 + 1 ELSE 0) /\ \A i \in 1..(n - 1 + 1) : h[i] = due[1 + i - 1]
    BY <2>2, <2>3, SubSeqProperties
  <2>5. Len(h) = n /\ \A i \in 1..n : h[i] = due[i]
    BY <2>2, <2>4
  <2> HIDE DEF h
  <2>6. g = h
    BY <2>1, <2>2, <2>4, <2>5, SeqEqual DEF n
  <2> QED BY <2>6 DEF g, h, n
<1>4. ASSUME prog.at = "taken", ~sub.ibf, prog.cmd \in {"set", "setDate", "setTime"}
      PROVE  \A i \in 1..Params(prog.cmd) : sub.databuf[RowOf(prog.cmd)][i] = <<prog.cmd, i>>
  <2> DEFINE c == prog.cmd
             k == Params(c) + 1
  <2>1. c \in DOMAIN Commands /\ prog.sent = k /\ TakenSoFar(sub, due, c, k)
    BY <1>1, <1>4 DEF InTurn, Sending, ProgRecords
  <2>2. Params(c) \in 0..3 /\ k # 0 /\ ~(k <= Params(c)) /\ k - 1 = Params(c)
    BY <2>1, CommandFacts
  <2> HIDE DEF k
  <2>3. Landed(sub, c, k)
    BY <2>1, <2>2 DEF TakenSoFar
  <2> QED BY <1>4, <2>2, <2>3 DEF Landed
<1>5. KeysAreHeld
  BY <1>1 DEF Held, KeysAreHeld
<1> QED BY <1>2, <1>3, <1>4, <1>5 DEF AnswersAreWhole, ParametersLand

\* The program reads its answers and its interrupts' bytes whole, its parameters
\* land, and only a key that is down is repeated (psub.cpp), as long as a program
\* sends a parameter before the sub CPU looks again.
THEOREM AnswersComeWhole ==
  ASSUME SubCpuAssumption, Prompt
  PROVE  PsubSpec => [](PsubTypeOK /\ AnswersAreWhole /\ ParametersLand /\ KeysAreHeld)
<1>1. PsubInit => PsubInv
  BY PsubStarts
<1>2. PsubInv /\ [PsubNext]_subVars => PsubInv'
  BY PsubSteps
<1>3. PsubInv => PsubTypeOK /\ AnswersAreWhole /\ ParametersLand /\ KeysAreHeld
  BY PsubHolds
<1> QED BY <1>1, <1>2, <1>3, PTL DEF PsubSpec

==============================================================================

------------------------------ MODULE TapeDeck -------------------------------
(***************************************************************************)
(* The data recorder (vm/datarec.cpp), whom it tells of itself             *)
(* (vm/x1/psub.cpp or the sub CPU's pins, vm/x1/sub.cpp), the tape that    *)
(* emu.cpp changes after half a second, and saved states in the midst of a *)
(* recording. A tape is a sequence of levels; files of recordings are kept *)
(* as the entries that the code writes, and read back as load_*_image      *)
(* does. Signals are calls: set_remote goes on when the sub CPU knows.     *)
(***************************************************************************)
EXTENDS Integers, Sequences, FiniteSets, SequencesExt

CONSTANTS
  SubCpus,     \* "psub", "sub", "sub262": with the ROM that stops by its PLAY line
  Reels,       \* tapes that can be opened; <<>> is a file that cannot
  Formats,     \* of recordings: "wav", "tap", "t77", "cas"
  RoomFor,     \* buffer_length of a recording, in entries (1048576 bytes)
  MaxRun,      \* samples in one entry: 0x7f, or 0x7fff for t77
  Window,      \* samples that APSS looks at (two seconds)
  Wait,        \* frames until a changed tape is in (half a second)
  MaxSamples,  \* bound: samples of a recording
  MaxChanges   \* bound: tapes changed or closed, states saved, resets

TapeDeckAssumption ==
  /\ Reels \subseteq Seq(BOOLEAN) /\ {RoomFor, MaxRun, Wait, MaxSamples, MaxChanges} \subseteq Nat \ {0}
  /\ Window \in Nat \ {0, 1} /\ RoomFor % 2 = 0

VARIABLES
  deck,   \* DATAREC
  teller, \* what PSUB or SUB knows of it
  tape,   \* the file that was recorded last, and what should be in it
  media,  \* EMU::tape_status
  saved,  \* a saved state
  changes \* how often the tape was changed or a state saved

tapeVars == <<deck, teller, tape, media, saved, changes>>
State == [deck |-> deck, teller |-> teller, tape |-> tape]
NoState == [none |-> TRUE]

(* ------------------------------ recordings ----------------------------- *)
Runs(format) == format \in {"t77", "cas"}
Pack(format) == IF format = "tap" THEN 2 ELSE 1    \* 8 samples to a byte of a tap
Packed(bits, n) ==
  [i \in 1..((Len(bits) + n - 1) \div n) |->
     [j \in 1..n |-> (i - 1) * n + j <= Len(bits) /\ bits[(i - 1) * n + j]]]

\* What is in the file once the buffer is written, too.
Written(t, buf) == t.file \o (IF Runs(t.format) THEN buf ELSE Packed(buf, Pack(t.format)))

\* load_wav_image, load_tap_image, load_t77_image, load_cas_image.
Loaded(format, file) ==
  FlattenSeq([i \in DOMAIN file |->
    IF Runs(format) THEN [j \in 1..file[i].count |-> file[i].level] ELSE file[i]])

\* A sample goes into the buffer, which goes into the file when it is full.
Put(s, level) ==
  LET b == s.deck.buf
      run == b[Len(b)]
      next == [level |-> level, count |-> 1]
      longer == [b EXCEPT ![Len(b)].count = @ + 1]
      full == Len(b) = RoomFor
      Flushed(buf) == [s EXCEPT !.tape.file = Written(s.tape, b), !.deck.buf = buf]
  IN IF ~Runs(s.tape.format)
     THEN IF Len(b) + 1 = RoomFor
          THEN [s EXCEPT !.tape.file = Written(s.tape, Append(b, level)), !.deck.buf = <<>>]
          ELSE [s EXCEPT !.deck.buf = Append(b, level)]
     ELSE IF run.level # level \/ (s.tape.format = "cas" /\ run.count = MaxRun)
     THEN IF full THEN Flushed(<<next>>) ELSE [s EXCEPT !.deck.buf = Append(b, next)]
     ELSE IF run.count < MaxRun THEN [s EXCEPT !.deck.buf = longer] ELSE s

(* -------------------------------- signals ------------------------------ *)
AtEnd(d) == IF d.rec THEN FALSE ELSE d.ptr = Len(d.reel)
Rate(d) == IF d.ff = 0 THEN "normal" ELSE "fast"

\* outputs_remote and outputs_end; SUB looks at the end and at APSS only.
Told(s) ==
  IF s.teller.kind = "psub"
  THEN [s EXCEPT !.teller.eot = AtEnd(s.deck),
                 !.teller.status = IF ~s.deck.remote /\ (s.teller.play \/ s.teller.rec)
                                   THEN "stop" ELSE @]
  ELSE [s EXCEPT !.teller.eot = AtEnd(s.deck)]
ToldOfApss(s, on) == IF s.teller.kind = "psub" THEN s ELSE [s EXCEPT !.teller.apss = on]

UpdateEvent(s) ==
  LET d == s.deck
  IN Told([s EXCEPT !.deck.event =
             IF ~(d.remote /\ (d.play \/ d.rec)) THEN "none"
             ELSE IF d.event # "none" THEN d.event ELSE Rate(d)])
SetRemote(s, on) ==
  IF s.deck.remote = on THEN s ELSE UpdateEvent([s EXCEPT !.deck.remote = on])

\* Mutant: the event is not registered anew.
SetFfRewKept(s, v) ==
  IF s.deck.ff = v THEN s
  ELSE UpdateEvent([s EXCEPT !.deck.ff = v, !.deck.apss.signals = FALSE])
SetFfRew(s, v) ==
  IF s.deck.ff = v THEN s
  ELSE UpdateEvent([s EXCEPT !.deck.event = "none", !.deck.ff = v, !.deck.apss.signals = FALSE])

(* -------------------------------- the deck ----------------------------- *)
NoTape == [format |-> "wav", file |-> <<>>, taken |-> <<>>, open |-> FALSE]
NoApss == [ptr |-> 0, heard |-> {}, remain |-> 0, signals |-> FALSE]
Toward0(n) == IF n > 0 THEN n - 1 ELSE IF n < 0 THEN n + 1 ELSE 0

\* Silence, or a steady level, after signals is the gap before a program.
\* apss_ptr counts on; what it tells apart is its place, and the first round.
ApssLooks(s) ==
  LET a == s.deck.apss
      i == a.ptr % Window
      heard == IF s.deck.in THEN a.heard \union {i} ELSE a.heard \ {i}
      ptr == IF a.ptr + 1 = 3 * Window THEN 2 * Window ELSE a.ptr + 1
      steady == LET n == 10 * Cardinality(heard) IN n > 9 * Window \/ n < Window
      m == [s EXCEPT !.deck.apss.heard = heard, !.deck.apss.ptr = ptr]
  IN IF ptr < Window \/ steady = ~a.signals THEN m
     ELSE IF steady
     THEN ToldOfApss([m EXCEPT !.deck.apss.remain = Toward0(@), !.deck.apss.signals = FALSE], TRUE)
     ELSE ToldOfApss([m EXCEPT !.deck.apss.signals = TRUE], FALSE)

\* event_callback, while a tape plays.
PlayTick(s) ==
  LET d == s.deck
      length == Len(d.reel)
      ptr == IF d.ff < 0 THEN (IF d.ptr > 0 THEN d.ptr - 1 ELSE 0)
             ELSE (IF d.ptr < length THEN d.ptr + 1 ELSE length)
      stops == ptr = (IF d.ff < 0 THEN 0 ELSE length)
      level == ~stops /\ (IF d.ptr < length THEN d.reel[d.ptr + 1] ELSE d.in)
      m == [s EXCEPT !.deck.ptr = ptr]
      n == UpdateEvent(IF stops THEN SetRemote(m, FALSE) ELSE m)
  IN ApssLooks([n EXCEPT !.deck.in = level])

\* do_apss: the tape runs on, event by event, within the call, at most from end
\* to end. What remains is read only here.
Search(s) ==
  LET n == Len(s.deck.reel)
      after[i \in 0..n] == IF i = 0 THEN s
                           ELSE LET p == after[i - 1]
                                IN IF p.deck.apss.remain = 0 \/ ~p.deck.remote THEN p ELSE PlayTick(p)
  IN after[n]
DoApss(s, v) ==
  LET start == SetFfRew(SetRemote(SetFfRew(s, 0), TRUE), v)
      found == IF s.deck.play THEN Search([start EXCEPT !.deck.apss.remain = v]) ELSE s
  IN SetFfRew(SetRemote([found EXCEPT !.deck.apss.remain = 0], FALSE), 0)

CloseFile(s) ==
  [s EXCEPT !.tape = IF s.deck.rec THEN [s.tape EXCEPT !.file = Written(s.tape, s.deck.buf), !.open = FALSE]
                       ELSE @,
            !.deck.buf = <<>>]
CloseDeck(s) ==
  LET m == SetRemote(CloseFile(s), FALSE)
  IN UpdateEvent([m EXCEPT !.deck.play = FALSE, !.deck.rec = FALSE, !.deck.ptr = 0,
                           !.deck.reel = <<>>, !.deck.in = FALSE])
PlayFile(s, reel) ==
  LET m == CloseDeck(s)
  IN IF reel = <<>> THEN m
     ELSE UpdateEvent(ToldOfApss([m EXCEPT !.deck.play = TRUE, !.deck.reel = reel,
                                           !.deck.in = Head(reel), !.deck.apss = NoApss,
                                           !.tape = NoTape], FALSE))
RecFile(s, format, out) ==
  LET m == CloseDeck(s)
  IN UpdateEvent([m EXCEPT
       !.deck.rec = TRUE,
       !.deck.buf = IF Runs(format) THEN <<[level |-> out, count |-> 0]>> ELSE <<>>,
       !.tape = [format |-> format, file |-> <<>>, taken |-> <<>>, open |-> TRUE]])

(* ------------------------- the sub CPU and the VM ---------------------- *)
TellerCloses(s) ==
  IF s.teller.kind # "psub"
  THEN [s EXCEPT !.teller.play = FALSE, !.teller.rec = FALSE, !.teller.eot = FALSE, !.teller.apss = FALSE]
  ELSE IF s.teller.play \/ s.teller.rec
  THEN SetRemote([s EXCEPT !.teller.status = "eject", !.teller.play = FALSE, !.teller.rec = FALSE], FALSE)
  ELSE s
\* play_tape and rec_tape of PSUB and SUB
TellerHas(s, play, rec) ==
  LET m == [s EXCEPT !.teller.play = play, !.teller.rec = rec]
  IN IF s.teller.kind # "psub" THEN [m EXCEPT !.teller.eot = FALSE, !.teller.apss = FALSE]
     ELSE SetRemote([m EXCEPT !.teller.status = IF play \/ rec THEN "stop" ELSE "eject"], FALSE)

PushPlay(s) == SetRemote(SetFfRew(SetRemote(s, FALSE), 0), TRUE)
\* VM::play_tape and rec_tape: a deck that runs goes on.
Changed(s, m) ==
  TellerHas(TellerCloses(IF (m.deck.play \/ m.deck.rec) /\ s.deck.remote THEN PushPlay(m) ELSE m),
            m.deck.play, m.deck.rec)
VmPlay(s, reel) == Changed(s, PlayFile(s, reel))
VmRec(s, format, out) == Changed(s, RecFile(s, format, out))
VmClose(s) == TellerCloses(SetRemote(CloseDeck(s), FALSE))

(* -------------------------------- actions ------------------------------ *)
NewDeck == [play |-> FALSE, rec |-> FALSE, remote |-> FALSE, ff |-> 0, event |-> "none",
            in |-> FALSE, ptr |-> 0, reel |-> <<>>, buf |-> <<>>, apss |-> NoApss]
NewTeller(kind) == [kind |-> kind, play |-> FALSE, rec |-> FALSE, eot |-> FALSE, apss |-> FALSE,
                    status |-> "eject"]
NoMedia == [what |-> "none", reel |-> <<>>, wait |-> 0]

TapeInit == /\ deck = NewDeck /\ tape = NoTape /\ media = NoMedia /\ saved = NoState /\ changes = 0
            /\ \E kind \in SubCpus : teller = NewTeller(kind)

Bounded == changes < MaxChanges /\ changes' = changes + 1
Becomes(s) == deck' = s.deck /\ teller' = s.teller /\ tape' = s.tape

Play == deck.event # "none" /\ deck.play /\ Becomes(PlayTick(State)) /\ UNCHANGED <<media, saved, changes>>
Record(level) ==
  /\ deck.event # "none" /\ deck.rec /\ Len(tape.taken) < MaxSamples
  /\ Becomes(Put([State EXCEPT !.tape.taken = Append(@, level)], level)) /\ UNCHANGED <<media, saved, changes>>

\* The program: commands to PSUB (0xe9), pins of the other sub CPU.
Moving(s, cmd) ==
  CASE cmd = "play" \/ cmd = "rec" -> SetRemote(SetFfRew(s, 0), TRUE)
    [] cmd = "fwd" -> SetRemote(SetFfRew(s, 1), TRUE)
    [] cmd = "rew" -> SetRemote(SetFfRew(s, -1), TRUE)
    [] OTHER -> DoApss(s, IF cmd = "apss+" THEN 1 ELSE -1)
Cmt(cmd) ==
  /\ teller.kind = "psub" /\ teller.status # cmd
  /\ LET fits == IF cmd = "rec" THEN ~teller.play /\ teller.rec ELSE teller.play
         s == IF cmd = "eject" THEN VmClose(State)
              ELSE IF cmd = "stop" THEN SetRemote(State, FALSE)
              ELSE IF fits THEN Moving(State, cmd) ELSE State
         status == IF cmd \in {"eject", "stop"} THEN cmd
                   ELSE IF fits THEN (IF cmd \in {"apss+", "apss-"} THEN "stop" ELSE cmd)
                   ELSE IF teller.play \/ teller.rec THEN "stop" ELSE "eject"
     IN Becomes([s EXCEPT !.teller.status = status])
  /\ IF cmd = "eject" THEN media' = NoMedia /\ Bounded ELSE UNCHANGED <<media, changes>>
  /\ UNCHANGED saved
Pin(cmd) ==
  /\ teller.kind # "psub"
  /\ Becomes(IF cmd = "eject" THEN VmClose(State)
             ELSE IF cmd = "stop" THEN SetRemote(State, FALSE)
             ELSE IF cmd = "playOff"
             THEN (IF teller.kind = "sub262" THEN SetRemote(State, FALSE) ELSE State)
             ELSE Moving(State, cmd))
  /\ IF cmd = "eject" THEN media' = NoMedia /\ Bounded ELSE UNCHANGED <<media, changes>>
  /\ UNCHANGED saved

\* The window: EMU::push_*, play_tape, rec_tape, close_tape.
Push(button) ==
  /\ Becomes(LET off == SetRemote(State, FALSE)
             IN CASE button = "play" -> PushPlay(State)
                  [] button = "stop" -> off
                  [] button = "fwd" -> SetRemote(SetFfRew(off, 1), TRUE)
                  [] button = "rew" -> SetRemote(SetFfRew(off, -1), TRUE)
                  [] OTHER -> DoApss(State, IF button = "apss+" THEN 1 ELSE -1))
  /\ UNCHANGED <<media, saved, changes>>

Vm(s, m, out) == IF m.what = "play" THEN VmPlay(s, m.reel) ELSE VmRec(s, m.what, out)
Change(what, reel) ==
  /\ LET m == [what |-> what, reel |-> reel,
               wait |-> IF deck.play \/ deck.rec THEN Wait ELSE media.wait]
     IN /\ \E out \in BOOLEAN :
             Becomes(IF deck.play \/ deck.rec THEN VmClose(State)
                     ELSE IF media.wait = 0 THEN Vm(State, m, out) ELSE State)
        /\ media' = m
  /\ Bounded /\ UNCHANGED saved
CloseTape == Bounded /\ Becomes(VmClose(State)) /\ media' = NoMedia /\ UNCHANGED saved
UpdateMedia ==
  /\ media.wait > 0 /\ media' = [media EXCEPT !.wait = @ - 1]
  /\ IF media.wait = 1 /\ media.what # "none"
     THEN \E out \in BOOLEAN : Becomes(Vm(State, media, out))
     ELSE UNCHANGED <<deck, teller, tape>>
  /\ UNCHANGED <<saved, changes>>
\* VM::reset: the recorder is reset before the sub CPU.
Reset == /\ Becomes([CloseDeck(State) EXCEPT !.teller = NewTeller(teller.kind)])
         /\ Bounded /\ UNCHANGED <<media, saved>>

\* Bound: states are saved while a tape is recorded.
Save == /\ deck.rec /\ saved = NoState /\ Bounded
        /\ saved' = [deck |-> deck, teller |-> teller, tape |-> tape, media |-> media]
        /\ UNCHANGED <<deck, teller, tape, media>>
\* restore_media forgets a recording; process_state writes its file anew.
Load == /\ saved # NoState
        /\ Becomes([deck |-> saved.deck, teller |-> saved.teller, tape |-> saved.tape])
        /\ media' = IF saved.media.what = "play" THEN saved.media
                    ELSE [saved.media EXCEPT !.what = "none"]
        /\ UNCHANGED <<saved, changes>>

Commands == {"eject", "stop", "play", "fwd", "rew", "apss+", "apss-", "rec"}
TapeNext ==
  \/ Play \/ \E level \in BOOLEAN : Record(level)
  \/ \E cmd \in Commands : Cmt(cmd)
  \/ \E cmd \in {"eject", "stop", "play", "playOff", "fwd", "rew"} : Pin(cmd)
  \/ \E button \in Commands \ {"eject", "rec"} : Push(button)
  \/ \E reel \in Reels : Change("play", reel)
  \/ \E format \in Formats : Change(format, <<>>)
  \/ CloseTape \/ UpdateMedia \/ Reset \/ Save \/ Load

TapeSpec == TapeInit /\ [][TapeNext]_tapeVars

(* ------------------------------ properties ----------------------------- *)
TapeTypeOK ==
  /\ deck.ptr \in 0..Len(deck.reel) /\ deck.ff \in -1..1 /\ ~(deck.play /\ deck.rec)
  /\ deck.apss.heard \subseteq 0..(Window - 1) /\ deck.event \in {"none", "normal", "fast"}
  /\ media.wait \in 0..Wait /\ Len(deck.buf) <= RoomFor

\* The recorder's event runs exactly while its tape does, at its speed; and the
\* sub CPU knows the tape: what it says of the end is true, and when it says
\* that the tape moves it does.
Followed ==
  /\ deck.event = (IF deck.remote /\ (deck.play \/ deck.rec) THEN Rate(deck) ELSE "none")
  /\ teller.play = deck.play /\ teller.rec = deck.rec
  /\ deck.play \/ deck.rec => teller.eot = AtEnd(deck)
  /\ teller.status \in {"play", "fwd", "rew", "rec"} => deck.event # "none"
  /\ ~deck.play => ~deck.in

\* Read back, a recording is what was sampled, whenever its file is closed and
\* its state saved and loaded; a t77's runs are cut, a tap's last byte filled.
Kept(taken, format) ==
  SelectSeq([i \in DOMAIN taken |-> [at |-> i, level |-> taken[i]]],
            LAMBDA e : \/ format # "t77" \/ e.at <= MaxRun
                       \/ \E j \in (e.at - MaxRun)..e.at : taken[j] # e.level)
RecordingIsWhole ==
  LET file == IF tape.open THEN Written(tape, deck.buf) ELSE tape.file
      back == Loaded(tape.format, file)
      kept == Kept(tape.taken, tape.format)
  IN /\ Len(back) \in Len(kept)..(Len(kept) + Pack(tape.format) - 1)
     /\ \A i \in DOMAIN back : back[i] = (i <= Len(kept) /\ kept[i].level)
=============================================================================

-------------------------------- MODULE SubCpu --------------------------------
(***************************************************************************)
(* The sub CPU (PSUB, vm/x1/psub.cpp) and a program that talks to it: a    *)
(* command and its parameters go in through one byte (ibf: it is there),   *)
(* the answer or a key's interrupt vector comes out through another (obf:  *)
(* it has been read), and the sub CPU looks at both every 400 us (Drive).  *)
(*                                                                         *)
(* The program keeps interrupts off from the byte it sends first to the    *)
(* one it reads last, and looks for an answer only when its last byte has  *)
(* been taken. A byte is a tag that tells it from the others.              *)
(***************************************************************************)
EXTENDS Integers, Sequences, FiniteSets

CONSTANTS
  Asked,    \* the commands the program sends
  Pressed,  \* the keys the user presses
  MaxKeys,  \* bound: how often
  KeyRoom,  \* room in key_buf (8 in the code)
  Prompt    \* a parameter is sent before the sub CPU looks again

VARIABLES sub, user, prog, due

subVars == <<sub, user, prog, due>>

(* ------------------------------ commands ------------------------------- *)
\* The row of databuf a command works on, the bytes it takes and those it
\* answers: d0 to d7 ("set"), d8 to df, and 00, e3 to ef by what they do.
Commands ==
  [reset |-> <<"", 0, 0>>, set |-> <<"timer", 2, 0>>, read |-> <<"timer", 0, 2>>,
   game |-> <<"game", 0, 3>>, vector |-> <<"vector", 1, 0>>, key |-> <<"key", 0, 2>>,
   tv |-> <<"tv", 1, 0>>, tvRead |-> <<"tvRead", 0, 1>>, cmt |-> <<"cmt", 1, 0>>,
   cmtStatus |-> <<"cmtStatus", 0, 1>>, cmtSensor |-> <<"cmtSensor", 0, 1>>,
   setDate |-> <<"date", 3, 0>>, date |-> <<"dateNow", 0, 3>>,
   setTime |-> <<"time", 3, 0>>, time |-> <<"timeNow", 0, 3>>]
RowOf(c)    == Commands[c][1]
Params(c)   == Commands[c][2]
AnswerOf(c) == Commands[c][3]
Rows == {RowOf(c) : c \in DOMAIN Commands}
None == <<"0">>  \* the byte 0
Zero == [r \in Rows |-> [i \in 1..8 |-> None]]

SubCpuAssumption == /\ Asked \subseteq DOMAIN Commands
                    /\ {MaxKeys, KeyRoom} \subseteq Nat \ {0}
                    /\ Prompt \in BOOLEAN

(* ---------------------------- the sub CPU ------------------------------ *)
\* CTRL makes no code of its own; with it BREAK is STOP and the keypad's comma
\* (keycode_c, 0x6c) has no code either.
IsCtrl(k) == k = "ctrl"
HasCode(s, k) == ~IsCtrl(k) /\ ~(k = "comma" /\ s.ctrl)
NoKey == "none"
Up == "up"  \* 0xff in key_buf: the last key went up

Vector(s) == s.databuf["vector"][1]
Buffered(s, e) == IF Len(s.keyBuf) < KeyRoom THEN [s EXCEPT !.keyBuf = Append(@, e)] ELSE s

\* A byte goes to its place in a row.
Put(s, row, i, byte) == [s EXCEPT !.databuf[row][i] = byte]
\* An entry of key_buf in its row, flags and code; e6 puts today's flags to it.
Taken(s, e) == Put(Put(s, "key", 1, <<e>>), "key", 2, <<e>>)
Drained(s) ==
  IF s.keyBuf = <<>> THEN s
  ELSE [Taken(s, s.keyBuf[Len(s.keyBuf)]) EXCEPT !.keyBuf = <<>>]
KeyData(s) ==
  LET n == IF Vector(s) = None \/ s.keyBuf = <<>> THEN Drained(s)
           ELSE [Taken(s, Head(s.keyBuf)) EXCEPT !.keyBuf = Tail(@)]
  IN Put(n, "key", 1, <<n.databuf["key"][1][1], s.ctrl>>)

\* process_cmd; the clock, the tape and the pads are data of their rows.
ProcessCmd(s) ==
  LET c == s.mode
      m == [s EXCEPT !.datalen = AnswerOf(c),
                     !.datap = IF c = "reset" THEN @ ELSE <<RowOf(c), 1>>]
  IN IF c = "vector" THEN [Drained(m) EXCEPT !.intr = FALSE]
     ELSE IF c = "key" THEN KeyData(m)
     ELSE IF c = "tv" THEN [m EXCEPT !.databuf["tvRead"] = s.databuf["tv"]]
     ELSE m

\* What a command has for the program to read, from where datap is on.
Waiting(s) == IF s.datalen = 0 THEN <<>>
              ELSE SubSeq(s.databuf[s.datap[1]], s.datap[2], s.datap[2] + s.datalen - 1)

\* A byte has come: a parameter of the command, or the next command.
Received(s) ==
  LET m == IF s.cmdlen > 0
           THEN [Put(s, s.datap[1], s.datap[2], s.inbuf) EXCEPT !.datap[2] = @ + 1, !.cmdlen = @ - 1]
           ELSE [s EXCEPT !.mode = s.inbuf[1], !.cmdlen = Params(s.inbuf[1]),
                          !.datap = IF Params(s.inbuf[1]) > 0 THEN <<RowOf(s.inbuf[1]), 1>>
                                    ELSE @]
  IN IF m.cmdlen = 0 THEN ProcessCmd(m) ELSE m

\* The next byte of an answer, or a key's interrupt.
Offered(s) ==
  IF s.datalen > 0
  THEN [s EXCEPT !.outbuf = s.databuf[s.datap[1]][s.datap[2]], !.obf = FALSE,
                 !.datap[2] = @ + 1, !.datalen = @ - 1]
  ELSE IF s.keyBuf # <<>> /\ Vector(s) # None /\ ~s.intr /\ s.iei
  THEN ProcessCmd([s EXCEPT !.outbuf = Vector(s), !.obf = FALSE, !.intr = TRUE, !.mode = "key"])
  ELSE s

\* Mutant: a byte that is still unread is replaced by the next one.
DrivenUnread(s) ==
  IF ~s.ibf THEN Offered(s)
  ELSE LET m == [Received(s) EXCEPT !.ibf = FALSE, !.obf = TRUE]
       IN IF m.cmdlen > 0 \/ m.datalen > 0 THEN m ELSE Offered(m)

\* event_callback(EVENT_DRIVE)
Driven(s) ==
  IF ~s.ibf THEN IF s.obf THEN Offered(s) ELSE s
  ELSE LET m == [Received(s) EXCEPT !.ibf = FALSE, !.obf = TRUE]
       IN IF m.cmdlen > 0 \/ m.datalen > 0 THEN m ELSE Offered(m)

PsubAtReset ==
  [ibf |-> FALSE, inbuf |-> None, obf |-> TRUE, outbuf |-> None, mode |-> "reset",
   cmdlen |-> 0, datalen |-> 0, datap |-> <<"timer", 1>>, databuf |-> [Zero EXCEPT !["key"][1] = <<"255">>],
   keyBuf |-> <<>>, keyPrev |-> NoKey, keyBreak |-> NoKey, ctrl |-> FALSE,
   repeating |-> FALSE, stop |-> FALSE, iei |-> TRUE, intr |-> FALSE]

(* ------------------------------- keys ---------------------------------- *)
\* key_down: without a code it is told only in turbo, and when it is alone. A
\* function key (0x70 to 0x87) is not repeated.
Down(s, k) ==
  LET m == IF IsCtrl(k) THEN [s EXCEPT !.ctrl = TRUE] ELSE s
      n == Buffered(IF Vector(m) = None THEN [m EXCEPT !.keyBuf = <<>>] ELSE m, k)
      isStop == k = "break" /\ m.ctrl
  IN IF HasCode(m, k)
     THEN [n EXCEPT !.keyPrev = k, !.repeating = (k # "f1"),
                    !.stop = @ \/ isStop, !.keyBreak = IF isStop THEN k ELSE @]
     ELSE IF m.keyPrev = NoKey /\ IsCtrl(k) THEN Buffered(m, Up) ELSE m

\* key_up
WentUp(s, k) ==
  LET m == IF IsCtrl(k) THEN [s EXCEPT !.ctrl = FALSE] ELSE s
      n == IF k = m.keyPrev \/ (m.keyPrev = NoKey /\ IsCtrl(k))
           THEN [Buffered(IF Vector(m) = None THEN [m EXCEPT !.keyBuf = <<>>] ELSE m, Up)
                   EXCEPT !.keyPrev = NoKey, !.repeating = FALSE]
           ELSE m
  IN IF k = m.keyBreak THEN [n EXCEPT !.stop = FALSE, !.keyBreak = NoKey] ELSE n

(* ------------------------------ actions -------------------------------- *)
AtRest == [at |-> "idle", cmd |-> "reset", sent |-> 0, got |-> <<>>]

PsubInit == /\ sub = PsubAtReset /\ prog = AtRest /\ due = <<>>
            /\ user = [held |-> {}, presses |-> 0]

\* What the bytes that are offered from now on should be: those of the answer
\* that was worked out, or the vector and the key of an interrupt.
Drive ==
  /\ Prompt => ~(prog.at = "write" /\ prog.sent > 0 /\ ~sub.ibf)
  /\ sub' = Driven(sub)
  /\ due' = IF sub'.intr /\ ~sub.intr THEN <<sub'.outbuf>> \o Waiting(sub')
            ELSE IF sub.ibf THEN Waiting(sub') ELSE due
  /\ UNCHANGED <<user, prog>>

ReadIo8(s) == [s EXCEPT !.obf = TRUE, !.intr = FALSE]

\* The program: it waits for ibf to be clear before each byte it sends.
Ask(c) == /\ prog.at = "idle" /\ ~sub.ibf
          /\ prog' = [AtRest EXCEPT !.at = "write", !.cmd = c]
          /\ UNCHANGED <<sub, user, due>>

WriteIo8 ==
  /\ prog.at = "write" /\ ~sub.ibf
  /\ \E byte \in IF prog.sent = 0 THEN {<<prog.cmd>>}
                 ELSE IF prog.cmd = "vector" THEN {None, <<"vector", 1>>} ELSE {<<prog.cmd, prog.sent>>} :
       sub' = [sub EXCEPT !.inbuf = byte, !.ibf = TRUE]
  /\ prog' = [prog EXCEPT !.sent = @ + 1,
                          !.at = IF prog.sent = Params(prog.cmd) THEN "taken" ELSE @]
  /\ UNCHANGED <<user, due>>

SeeTaken == /\ prog.at = "taken" /\ ~sub.ibf
            /\ prog' = IF AnswerOf(prog.cmd) = 0 THEN AtRest ELSE [prog EXCEPT !.at = "read"]
            /\ UNCHANGED <<sub, user, due>>

\* The program, or its handler of the key's interrupt, reads a byte.
ReadAnswer ==
  /\ prog.at \in {"read", "handler"} /\ ~sub.obf
  /\ sub' = ReadIo8(sub)
  /\ LET got == Append(prog.got, sub.outbuf)
         last == IF prog.at = "read" THEN AnswerOf(prog.cmd) ELSE 1 + AnswerOf("key")
     IN prog' = IF Len(got) = last THEN AtRest ELSE [prog EXCEPT !.got = got]
  /\ UNCHANGED <<user, due>>

\* get_intr_ack. When a command came after the vector was offered, its key is
\* gone (due is the command's answer): the handler has nothing to read.
Acknowledge ==
  /\ prog.at = "idle" /\ sub.intr /\ sub.iei
  /\ sub' = ReadIo8(sub)
  /\ prog' = IF due = <<>> THEN AtRest ELSE [AtRest EXCEPT !.at = "handler", !.got = <<sub.outbuf>>]
  /\ UNCHANGED <<user, due>>

SetIei == /\ sub' = [sub EXCEPT !.iei = ~@] /\ UNCHANGED <<user, prog, due>>

Press(k) == /\ k \notin user.held /\ user.presses < MaxKeys
            /\ user' = [held |-> user.held \union {k}, presses |-> user.presses + 1]
            /\ sub' = Down(sub, k) /\ UNCHANGED <<prog, due>>
Release(k) == /\ k \in user.held
              /\ user' = [user EXCEPT !.held = @ \ {k}]
              /\ sub' = WentUp(sub, k) /\ UNCHANGED <<prog, due>>
Repeat == /\ sub.repeating
          /\ sub' = Down([sub EXCEPT !.repeating = FALSE], sub.keyPrev)
          /\ UNCHANGED <<user, prog, due>>
PsubReset == /\ sub' = PsubAtReset /\ prog' = AtRest /\ due' = <<>> /\ UNCHANGED user

PsubNext == \/ Drive \/ WriteIo8 \/ SeeTaken \/ ReadAnswer \/ Acknowledge \/ SetIei
            \/ Repeat \/ PsubReset
            \/ \E c \in Asked : Ask(c)
            \/ \E k \in Pressed : Press(k) \/ Release(k)

PsubSpec == PsubInit /\ [][PsubNext]_subVars

(* Bytes that are not there, and what is due to nobody, are one state.      *)
InUse == <<[sub EXCEPT !.inbuf = IF sub.ibf THEN @ ELSE None,
                       !.outbuf = IF sub.obf THEN None ELSE @], user, prog,
           IF prog.at \in {"read", "handler"} \/ sub.ibf \/ sub.intr \/ sub.datalen > 0
           THEN due ELSE <<>>>>

(* ----------------------------- properties ------------------------------ *)
PsubTypeOK ==
  /\ sub.cmdlen \in 0..3 /\ sub.datalen \in 0..3 /\ sub.mode \in DOMAIN Commands
  /\ sub.datap \in Rows \X (1..9) /\ Len(sub.keyBuf) <= KeyRoom
  /\ user.held \subseteq Pressed /\ prog.at \in {"idle", "write", "taken", "read", "handler"}

\* What the program has read is its answer so far, whatever keys come; and what
\* its handler has read is the vector, and one key's two bytes.
AnswersAreWhole ==
  prog.at \in {"read", "handler"} => prog.got = SubSeq(due, 1, Len(prog.got))

\* A parameter that was sent is where its command looks for it.
ParametersLand ==
  prog.at = "taken" /\ ~sub.ibf /\ prog.cmd \in {"set", "setDate", "setTime"} =>
    \A i \in 1..Params(prog.cmd) : sub.databuf[RowOf(prog.cmd)][i] = <<prog.cmd, i>>

\* Only a key that is down is repeated, and BREAK's line is low only while the
\* key that pulled it is.
KeysAreHeld ==
  /\ sub.repeating => sub.keyPrev \in user.held
  /\ sub.stop = (sub.keyBreak # NoKey)
  /\ sub.stop => sub.keyBreak \in user.held

================================================================================

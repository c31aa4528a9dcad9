------------------------------ MODULE SubLink ------------------------------
(***************************************************************************)
(* How the main CPU and the 80C48 hand each other bytes: through port A of *)
(* the sub CPU's 8255 in mode 2, with a strobe and an acknowledge that     *)
(* SUB makes of the main CPU's accesses to 0x1900, and flags in port C     *)
(* that both read, the main CPU on its own PIO.  The 80C48 asks for an     *)
(* interrupt by lowering P26; SUB passes it on while a byte is waiting     *)
(* (i8255.cpp, x1/sub.cpp, the wiring in x1.cpp).                          *)
(*                                                                         *)
(* The two programs are external: each looks at a flag before it uses the  *)
(* port, the 80C48 raises P26 before it posts what is not a request, and   *)
(* the main CPU polls with interrupts off.  Ghosts hold what is under way. *)
(***************************************************************************)
EXTENDS Integers, Sequences, FiniteSets

CONSTANTS
  Codes,        \* the bytes that are sent
  OldRom,       \* the program of the X1F/G and the X1turbo (sub.cpp:116)
  DeckBits,     \* the bits of P2 that wind and start the deck and are used
  OwnBits       \* the bits of port C that the 80C48 sets by itself

SubLinkAssumption ==
  /\ Codes \subseteq Nat /\ Codes # {} /\ OldRom \in BOOLEAN
  /\ DeckBits \subseteq 1..4 /\ OwnBits \subseteq {0, 1, 4, 6}

VARIABLES
  link,         \* the 8255, what is wired to it, and SUB
  main,         \* what the main program found: "" or what it may do now
  sub,          \* what the 80C48's program found, and its P2
  toSub,        \* bytes the main CPU wrote and the 80C48 has not read
  toMain        \* bytes the 80C48 posted and the main CPU has not read, with
                \* whether it is to be interrupted for them

linkVars == <<link, main, sub, toSub, toMain>>

(* ------------------------------ the 8255 ------------------------------- *)
\* The bits of port C that serve port A and port B.
Bit == [A |-> [stb |-> 4, ibf |-> 5, ack |-> 6, obf |-> 7, intr |-> 3],
        B |-> [stb |-> 2, ibf |-> 1, ack |-> 2, obf |-> 1, intr |-> 0]]
Groups == DOMAIN Bit

\* SUB::update_intr: the request reaches the CPU while a byte waits.
UpdateIntr(l) == [l EXCEPT !.line = l.intr /\ l.obf /\ l.iei]

\* What port C is wired to: SUB, which sees a byte waiting and the falling bit
\* that ejects the cassette, the main PIO's port B and this one's.
PortCTold(l) ==
  UpdateIntr([l EXCEPT !.cassette = @ /\ ~(0 \in l.portC /\ 0 \notin l.out),
                       !.obf = 7 \notin l.out,
                       !.portC = l.out,
                       !.seen = {n \in {0, 5, 6} : CASE n = 0 -> 1 \in l.out
                                                     [] n = 5 -> 7 \in l.out
                                                     [] n = 6 -> 5 \in l.out},
                       !.own = (@ \ {7}) \union (l.out \intersect {7})])

\* Port C is put out when it changes, and the first time after a reset.
PutC(l, bits) ==
  IF bits = l.out /\ "C" \notin l.fresh THEN l
  ELSE PortCTold([l EXCEPT !.out = bits, !.fresh = @ \ {"C"}])

\* A byte written to port A or B: with handshake, the peer has one to take.
WritePort(l, g, byte) ==
  LET put == [l EXCEPT !.written[g] = byte, !.fresh = @ \ {g}] IN
  IF l.mode[g] = 0 THEN put
  ELSE PutC(put, put.out \ ({Bit[g].obf} \union (IF Bit[g].ack \in put.out THEN {Bit[g].intr} ELSE {})))

\* A byte read from port A or B: with handshake, the peer may send another.
ReadPort(l, g) ==
  IF l.mode[g] = 0 THEN l
  ELSE PutC(l, l.out \ ({Bit[g].ibf} \union (IF Bit[g].stb \in l.out THEN {Bit[g].intr} ELSE {})))

ByteRead(l, g) == IF g \in l.inputs \/ l.mode[g] = 2 THEN l.read[g] ELSE l.written[g]
FlagRead(l, n) == IF n \in l.inputsC THEN n \in l.inp ELSE n \in l.out

\* The control word: directions and modes, and with a handshake its flags.
Command(l, modes, inputs, inputsC) ==
  LET set  == [l EXCEPT !.mode = modes, !.inputs = inputs, !.inputsC = inputsC]
      OfA  == IF modes.A = 0 THEN l.out ELSE (l.out \ {Bit.A.ibf, Bit.A.intr}) \union {Bit.A.obf}
      OfB  == IF modes.B = 0 THEN OfA
              ELSE (IF "B" \in inputs THEN OfA \ {Bit.B.ibf} ELSE OfA \union {Bit.B.obf}) \ {Bit.B.intr}
  IN IF modes.A = 0 /\ modes.B = 0 THEN set ELSE PutC(set, OfB)

SetBit(l, n, on) == PutC(l, IF on THEN l.out \union {n} ELSE l.out \ {n})

\* An edge of the peer's strobe (a byte has come) or acknowledge (it took one).
Edge(l, g, wire, level) ==
  LET was  == Bit[g][wire] \in l.inp
      flag == IF wire = "stb" THEN Bit[g].ibf ELSE Bit[g].obf IN
  IF was /\ ~level THEN PutC(l, l.out \union {flag})
  ELSE IF ~was /\ level /\ Bit[g][wire] \in l.out THEN PutC(l, l.out \union {Bit[g].intr})
  ELSE l

\* Port B has one of the two, by its direction.
SignalC(l, n, level) ==
  LET told == CASE n = 4 /\ l.mode.A # 0 -> Edge(l, "A", "stb", level)
                [] n = 6 /\ l.mode.A # 0 -> Edge(l, "A", "ack", level)
                [] n = 2 /\ l.mode.B # 0 -> Edge(l, "B", IF "B" \in l.inputs THEN "stb" ELSE "ack", level)
                [] OTHER -> l
  IN [told EXCEPT !.inp = IF level THEN @ \union {n} ELSE @ \ {n}]

SetLevel(l, n, level) == [l EXCEPT !.own = IF level THEN @ \union {n} ELSE @ \ {n}]

(* ------------------------------ SUB's glue ----------------------------- *)
Driven(l, n, level) == SignalC(IF n = 6 THEN SetLevel(l, 6, level) ELSE l, n, level)
Pulsed(l, n) == Driven(Driven(Driven(l, n, TRUE), n, FALSE), n, TRUE)

\* The main CPU's write to 0x1900 and its read, which is also the acknowledge.
MainWrites(l, byte) == Pulsed([l EXCEPT !.read.A = byte], 4)
MainReads(l) == Pulsed(l, 6)
Acknowledged(l) == MainReads([l EXCEPT !.intr = FALSE])

\* P2: falling bits wind the deck and start it, rising ones stop it.
WriteP2(l, p2) ==
  LET Fell(n) == n \in l.p2 /\ n \notin p2
      Rose(n) == n \notin l.p2 /\ n \in p2
      deck == [wind |-> IF Fell(3) THEN -1 ELSE IF Fell(2) THEN 1 ELSE IF Fell(1) THEN 0 ELSE l.wind,
               remote |-> IF Rose(4) THEN FALSE
                          ELSE IF Fell(3) \/ Fell(2) THEN TRUE
                          ELSE IF Rose(1) /\ OldRom THEN FALSE
                          ELSE IF Fell(1) THEN TRUE ELSE l.remote]
  IN UpdateIntr([l EXCEPT !.wind = deck.wind, !.remote = deck.remote, !.intr = 6 \notin p2, !.p2 = p2])

\* SUB::reset and I8255::reset; the registers of the ports stay as they are, and
\* the CPU's own reset drops the request.
LinkAtReset(l) ==
  [l EXCEPT !.mode = [g \in Groups |-> 0], !.inputs = Groups, !.inputsC = 0..7,
            !.fresh = {"A", "B", "C"}, !.portC = 0..7, !.p2 = 0..7,
            !.intr = FALSE, !.obf = FALSE, !.iei = TRUE, !.line = FALSE]

Built == [written |-> [g \in Groups |-> 0], read |-> [g \in Groups |-> 0], out |-> {}, inp |-> {},
          mode |-> [g \in Groups |-> 0], inputs |-> Groups, inputsC |-> 0..7,
          fresh |-> {"A", "B", "C"}, seen |-> {}, own |-> {}, portC |-> 0..7, p2 |-> 0..7,
          intr |-> FALSE, obf |-> FALSE, iei |-> TRUE, line |-> FALSE,
          wind |-> 0, remote |-> FALSE, cassette |-> TRUE]

(* ------------------------------- programs ------------------------------ *)
Idle == [saw |-> "", asking |-> FALSE]

Init == link = Built /\ main = "" /\ sub = Idle /\ toSub = <<>> /\ toMain = <<>>

Begun == link.mode.A = 2

\* The 80C48's program begins: port A both ways, port C its own.
SubBegins ==
  /\ ~Begun
  /\ link' = Command(link, [A |-> 2, B |-> 0], {"B"}, {})
  /\ UNCHANGED <<main, sub, toSub, toMain>>

MainLooks ==
  /\ Begun /\ main = ""
  /\ \/ 6 \notin link.seen /\ main' = "write"
     \/ 5 \notin link.seen /\ main' = "read"
  /\ UNCHANGED <<link, sub, toSub, toMain>>

MainSends(byte) ==
  /\ main = "write" /\ main' = ""
  /\ link' = MainWrites(link, byte)
  /\ toSub' = Append(toSub, byte)
  /\ UNCHANGED <<sub, toMain>>

\* The byte it gets is the value that was on the port before the acknowledge.
MainTakes ==
  /\ main = "read" /\ main' = ""
  /\ link' = MainReads(link)
  /\ toMain' = SubSeq(toMain, 2, Len(toMain))
  /\ UNCHANGED <<sub, toSub>>

\* The CPU takes the request; its acknowledge reads the vector.
Interrupt ==
  /\ link.line /\ main # "read"
  /\ link' = Acknowledged(link)
  /\ toMain' = SubSeq(toMain, 2, Len(toMain))
  /\ UNCHANGED <<main, sub, toSub>>

\* Devices before this one in the chain take its enable away and give it back.
SetIei ==
  /\ link' = UpdateIntr([link EXCEPT !.iei = ~@])
  /\ UNCHANGED <<main, sub, toSub, toMain>>

SubLooks ==
  /\ Begun /\ sub.saw = ""
  /\ \/ FlagRead(link, Bit.A.ibf) /\ sub' = [sub EXCEPT !.saw = "byte"]
     \/ FlagRead(link, Bit.A.obf) /\ sub' = [sub EXCEPT !.saw = "room"]
  /\ UNCHANGED <<link, main, toSub, toMain>>

SubTakes ==
  /\ sub.saw = "byte" /\ sub' = [sub EXCEPT !.saw = ""]
  /\ link' = ReadPort(link, "A")
  /\ toSub' = SubSeq(toSub, 2, Len(toSub))
  /\ UNCHANGED <<main, toMain>>

\* It posts a request with P26 low, and other bytes with P26 high.
SubPosts(byte) ==
  /\ sub.saw = "room" /\ (sub.asking <=> 6 \notin link.p2)
  /\ sub' = Idle
  /\ link' = WritePort(link, "A", byte)
  /\ toMain' = Append(toMain, [byte |-> byte, ask |-> sub.asking])
  /\ UNCHANGED <<main, toSub>>

\* P26 goes low when the port has room, before the byte; it goes high when the
\* byte is gone.  The other bits drive the deck at any time.
WriteSubP2 ==
  /\ Begun
  /\ \/ /\ sub.saw = "room" /\ 6 \in link.p2
        /\ link' = WriteP2(link, link.p2 \ {6}) /\ sub' = [sub EXCEPT !.asking = TRUE]
     \/ /\ sub.saw = "room" /\ 6 \notin link.p2 /\ ~sub.asking
        /\ link' = WriteP2(link, link.p2 \union {6}) /\ UNCHANGED sub
     \/ \E n \in DeckBits :
           /\ link' = WriteP2(link, IF n \in link.p2 THEN link.p2 \ {n} ELSE link.p2 \union {n})
           /\ UNCHANGED sub
  /\ UNCHANGED <<main, toSub, toMain>>

\* The 80C48 sets or clears a bit of its own: eject, and the strobe's interrupt.
SubSetsBit(n, on) ==
  /\ Begun
  /\ link' = SetBit(link, n, on)
  /\ UNCHANGED <<main, sub, toSub, toMain>>

\* The machine is reset, and both programs begin again.
Reset ==
  /\ Begun
  /\ link' = LinkAtReset(link)
  /\ main' = "" /\ sub' = Idle /\ toSub' = <<>> /\ toMain' = <<>>

Next ==
  \/ SubBegins \/ MainLooks \/ MainTakes \/ Interrupt \/ SetIei
  \/ SubLooks \/ SubTakes \/ WriteSubP2 \/ Reset
  \/ \E byte \in Codes : MainSends(byte) \/ SubPosts(byte)
  \/ \E on \in BOOLEAN, n \in OwnBits : SubSetsBit(n, on)

Spec == Init /\ [][Next]_linkVars

(* ----------------------------- properties ------------------------------ *)
TypeOK ==
  /\ link.out \subseteq 0..7 /\ link.inp \subseteq {4, 6} /\ link.seen \subseteq {0, 5, 6}
  /\ \A g \in Groups : link.mode[g] \in 0..2 /\ link.written[g] \in Codes \union {0}
  /\ \A f \in {link.intr, link.obf, link.iei, link.line, link.remote, link.cassette} : f \in BOOLEAN
  /\ main \in {"", "read", "write"} /\ sub.saw \in {"", "byte", "room"} /\ sub.asking \in BOOLEAN
  /\ toSub \in Seq(Codes)

\* Either way one byte at most is under way: the flags say that there is one, the
\* port holds it, and the main CPU's PIO and SUB have been told the same.
OneByteEachWay ==
  Begun =>
    /\ Len(toSub) <= 1 /\ Len(toMain) <= 1
    /\ Bit.A.ibf \in link.out <=> toSub # <<>>
    /\ Bit.A.obf \notin link.out <=> toMain # <<>>
    /\ toSub # <<>> => ByteRead(link, "A") = toSub[1]
    /\ toMain # <<>> => link.written.A = toMain[1].byte
    /\ 6 \in link.seen <=> toSub # <<>>
    /\ 5 \in link.seen <=> toMain = <<>>
    /\ link.obf <=> toMain # <<>>

\* What a program saw is still so when it acts on it.
NobodyIsLate ==
  /\ main = "write" => toSub = <<>>
  /\ main = "read" => toMain # <<>>
  /\ sub.saw = "byte" => toSub # <<>>
  /\ sub.saw = "room" => toMain = <<>>

\* The main CPU is asked just while a byte waits that it is to be asked for.
AskedForARequest ==
  link.line <=> link.iei /\ toMain # <<>> /\ toMain[1].ask

SubLinkIsSafe == OneByteEachWay /\ NobodyIsLate /\ AskedForARequest
=============================================================================

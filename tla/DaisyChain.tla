------------------------------- MODULE DaisyChain -----------------------------
(***************************************************************************)
(* The interrupts of the machine: the Z80 (vm/z80.cpp) and its daisy chain *)
(* of CTCs, SIO, DMA and the sub CPU's interface, in the order of x1.cpp.  *)
(*                                                                         *)
(* Each device keeps a copy of the enable line it gets (iei) and gives     *)
(* (oei), and sets a bit of the CPU's requests (line) whenever it believes *)
(* something has changed (update_intr).  The CPU looks at the bits only;   *)
(* who is acknowledged is found by walking the chain again.  The copies,   *)
(* the bits and the walk have to agree.                                    *)
(*                                                                         *)
(* The CPU alternates between check_interrupt and one instruction.  What a *)
(* device does of its own may happen at any point; what the program does   *)
(* to a device is an instruction.  The program's handlers return by RETI.  *)
(***************************************************************************)
EXTENDS Integers, Sequences

CONSTANTS
  SoundBoards,    \* CTCs before the SIO, one per FM sound board (0..2)
  CtcChannels,    \* channels of a CTC (4 in the code)
  SioChannels,    \* channels of the SIO (2 in the code)
  SioCauses,      \* the causes of an SIO interrupt that a run looks at
  Nesting,        \* whether handlers enable interrupts: the choices
  MaxDepth        \* bound of the handlers a program nests

Rank == [err |-> 1, recv |-> 2, stat |-> 3, send |-> 4, req |-> 5]

ASSUME DaisyChainAssumption ==
  /\ SoundBoards \in Nat /\ CtcChannels \in Nat /\ SioChannels \in Nat
  /\ SioCauses \subseteq {"err", "recv", "stat", "send"}
  /\ Nesting \subseteq BOOLEAN /\ MaxDepth \in Nat

Sio     == SoundBoards + 1
Dma     == SoundBoards + 2
Sub     == SoundBoards + 4
Devices == 1..Sub

Channels(d) == IF d = Sio THEN SioChannels
               ELSE IF d \in {Dma, Sub} THEN 1 ELSE CtcChannels

\* What can interrupt: a channel of a device.  The nearer to the CPU the
\* device, and the lower the channel, the higher the priority.
Sources == UNION {{d} \X (0..(Channels(d) - 1)) : d \in Devices}
Of(d)   == {s \in Sources : s[1] = d}
SubSource == <<Sub, 0>>

Before(s, t) == s[1] < t[1] \/ (s[1] = t[1] /\ s[2] < t[2])
IsFirst(s, S) == s \in S /\ \A t \in S : ~Before(t, s)

VARIABLES
  causes,     \* req_intr of CTC and DMA, the four flags of the SIO, intr
  wr1,        \* the causes that the SIO's channels have enabled
  inService,  \* in_service
  iei, oei,   \* each device's copies
  vec,        \* the cause that the SIO's vector register names, or none
  line,       \* intr_req_bit
  nmi,        \* NMI_REQ_BIT
  iff1, iff2, afterEi,
  phase,      \* "check" before check_interrupt, "op" before the instruction
  nests,      \* the program's handlers enable interrupts
  stack,      \* the handlers that have not returned, the innermost last
  cut         \* a device was reset in its own handler (history)

chainVars == <<iei, oei, vec, line>>
devVars   == <<causes, wr1, inService, chainVars>>
cpuVars   == <<nmi, iff1, iff2, afterEi, phase>>
progVars  == <<nests, stack, cut>>
intVars == <<devVars, cpuVars, progVars>>

CausesOf(s) == IF s[1] = Sio THEN SioCauses ELSE {"req"}
Nmi == <<0, 0>>

ChainTypeOK ==
  /\ causes \in [Sources -> SUBSET DOMAIN Rank]
  /\ \A s \in Sources : causes[s] \subseteq CausesOf(s)
  /\ wr1 \in [Of(Sio) -> SUBSET (SioCauses \ {"err"})]
  /\ inService \in [Sources -> BOOLEAN] /\ ~inService[SubSource]
  /\ iei \in [Devices -> BOOLEAN] /\ oei \in [Devices -> BOOLEAN]
  /\ vec \subseteq Of(Sio) \X SioCauses
  /\ line \in [Devices -> BOOLEAN]
  /\ nmi \in BOOLEAN /\ iff1 \in BOOLEAN /\ iff2 \in BOOLEAN
  /\ afterEi \in BOOLEAN /\ phase \in {"check", "op"}
  /\ nests \in Nesting /\ stack \in Seq(Sources \union {Nmi})
  /\ cut \in BOOLEAN

ChainInit ==
  /\ causes = [s \in Sources |-> {}] /\ wr1 = [s \in Of(Sio) |-> {}]
  /\ inService = [s \in Sources |-> FALSE]
  /\ iei = [d \in Devices |-> TRUE] /\ oei = [d \in Devices |-> TRUE]
  /\ vec = {} /\ line = [d \in Devices |-> FALSE]
  /\ nmi = FALSE /\ iff1 = FALSE /\ iff2 = FALSE /\ afterEi = FALSE
  /\ phase = "check" /\ nests \in Nesting /\ stack = <<>> /\ cut = FALSE

-----------------------------------------------------------------------------
(* The devices' view of themselves.                                        *)

\* The causes a source asks for.  An SIO error needs no enabling.
Active(s) == IF s[1] = Sio THEN causes[s] \intersect (wr1[s] \union {"err"})
                           ELSE causes[s]
Asks(s) == Active(s) # {}
Serving(d) == \E s \in Of(d) : inService[s]

\* "priority is error > receive > status > send".
IsTop(c, cs) == c \in cs /\ \A e \in cs : Rank[c] <= Rank[e]

\* A channel that asks, with no channel in service at or before it.
Pending(s) == Asks(s) /\ \A t \in Of(s[1]) : inService[t] => Before(s, t)
Asking(d) == \E s \in Of(d) : Pending(s)

\* Mutant: the vector names the last cause in the order of the flags.
NamedLast ==
  {p \in Of(Sio) \X SioCauses :
     /\ Pending(p[1]) /\ IsFirst(p[1], {s \in Of(Sio) : Asks(s)})
     /\ p[2] \in Active(p[1]) /\ \A e \in Active(p[1]) : Rank[e] <= Rank[p[2]]}

\* "Create vector": channel B's vector register, while status affects it.
Named ==
  {p \in Of(Sio) \X SioCauses :
     /\ Pending(p[1]) /\ IsFirst(p[1], {s \in Of(Sio) : Asks(s)})
     /\ IsTop(p[2], Active(p[1]))}

\* Mutant: a device whose enable line changes is not updated.
UpdatedAlone(d, D) == d \in D

\* The devices whose update_intr runs when those of D call it: set_intr_iei
\* calls it on a change.
Updated(d, D) == d \in D \/ iei'[d] # iei[d]

(* update_intr of the devices D, and of whom they reach through oei.       *)
Propagate(D) ==
  /\ iei' \in {f \in [Devices -> BOOLEAN] : f[1] = iei[1]}
  /\ oei' = [d \in Devices |-> IF Updated(d, D) THEN iei'[d] /\ ~Serving(d)'
                                                ELSE oei[d]]
  /\ \A d \in Devices :
       iei'[d] = IF d > 1 /\ oei'[d - 1] # oei[d - 1] THEN oei'[d - 1] ELSE iei[d]
  /\ vec' = IF Updated(Sio, D) THEN Named' ELSE vec

SetLines(D) ==
  line' = [d \in Devices |-> IF Updated(d, D) THEN iei'[d] /\ Asking(d)'
                                              ELSE line[d]]

UpdateIntr(D) == Propagate(D) /\ SetLines(D)

-----------------------------------------------------------------------------
(* The devices, of their own.                                              *)

Raise(s, cs) ==
  /\ causes' = [causes EXCEPT ![s] = @ \union cs]
  /\ UNCHANGED <<wr1, inService, cpuVars, progVars>>
  /\ UpdateIntr({s[1]})

\* A counter of a CTC runs out.
CtcTick(s) == s[1] \notin {Sio, Dma, Sub} /\ Raise(s, {"req"})

\* Reception, transmission, the modem lines: receive interrupts are raised
\* only when enabled, the others are kept until they are.
SioRaise(s, cs) ==
  /\ s[1] = Sio /\ ~(cs \subseteq causes[s])
  /\ "recv" \in cs => "recv" \in wr1[s]
  /\ Raise(s, cs)

\* request_intr.
DmaRequest(s) == s[1] = Dma /\ ~inService[s] /\ Raise(s, {"req"})

\* The sub CPU's interface has a key for the program.
SubRaise == iei[Sub] /\ causes[SubSource] = {} /\ Raise(SubSource, {"req"})

-----------------------------------------------------------------------------
(* Instructions.  A handler that must not be interrupted enables           *)
(* interrupts only right before it returns.                                *)

Innermost == stack[Len(stack)]
MayGoOn == nests \/ stack = <<>> \/ ~afterEi

Op(enabling) ==
  /\ phase = "op" /\ phase' = "check"
  /\ afterEi' = enabling
  /\ UNCHANGED nmi

Plain == Op(FALSE) /\ MayGoOn /\ UNCHANGED <<iff1, iff2, progVars>>

Instruction == Plain /\ UNCHANGED devVars

Ei == /\ Op(TRUE) /\ MayGoOn
      /\ stack # <<>> => Innermost # Nmi /\ Len(stack) < MaxDepth
      /\ iff1' = TRUE /\ iff2' = TRUE
      /\ UNCHANGED <<devVars, progVars>>

Di == /\ Op(FALSE) /\ MayGoOn
      /\ stack # <<>> => Innermost # Nmi
      /\ iff1' = FALSE /\ iff2' = FALSE
      /\ UNCHANGED <<devVars, progVars>>

\* Mutant: the request is cleared, and the CPU's bit stays.
ClearQuietly(s, cs) ==
  /\ causes' = [causes EXCEPT ![s] = @ \ cs]
  /\ UNCHANGED <<wr1, inService, chainVars>>

Clear(s, cs) ==
  /\ causes' = [causes EXCEPT ![s] = @ \ cs]
  /\ UNCHANGED <<wr1, inService>>
  /\ UpdateIntr({s[1]})

\* A control word that resets the channel or disables its interrupt.
CtcControl(s) == Plain /\ s[1] \notin {Sio, Dma, Sub} /\ causes[s] # {}
                       /\ Clear(s, {"req"})

\* Data read and written, and the commands that reset a status or an error.
SioWithdraw(s, c) == Plain /\ s[1] = Sio /\ c \in causes[s] /\ Clear(s, {c})

WriteWr1(s, m) ==
  /\ Plain /\ s[1] = Sio /\ wr1[s] # m
  /\ wr1' = [wr1 EXCEPT ![s] = m]
  /\ UNCHANGED <<causes, inService>>
  /\ UpdateIntr({Sio})

\* Flags and registers are cleared; a channel in service stays so.
SioChannelReset(s) ==
  /\ Plain /\ s[1] = Sio
  /\ causes' = [causes EXCEPT ![s] = {}] /\ wr1' = [wr1 EXCEPT ![s] = {}]
  /\ UNCHANGED inService
  /\ IF causes[s] = {} THEN UNCHANGED chainVars ELSE UpdateIntr({Sio})

\* The commands that drop the DMA's request.
DmaControl(s) == Plain /\ s[1] = Dma /\ Clear(s, {"req"})

DmaReset(s) ==
  /\ Op(FALSE) /\ MayGoOn /\ s[1] = Dma
  /\ causes' = [causes EXCEPT ![s] = {}]
  /\ inService' = [inService EXCEPT ![s] = FALSE]
  /\ cut' = (cut \/ inService[s])
  /\ UNCHANGED <<wr1, iff1, iff2, nests, stack>>
  /\ UpdateIntr({Dma})

\* Port 1900h is read, or the vector is set anew.
SubRead == Plain /\ Clear(SubSource, {"req"})

-----------------------------------------------------------------------------
(* Handlers: how they begin and end.                                       *)

Begin(h) ==
  /\ phase = "check" /\ phase' = "op"
  /\ stack' = Append(stack, h)
  /\ UNCHANGED <<afterEi, nests, cut>>

\* What the walk of get_intr_ack stops at.  The sub CPU's interface is the
\* last of the chain, and answers whether it has asked or not.
Heard == {s \in Sources : inService[s] \/ Asks(s) \/ s[1] = Sub}

\* Mutant: the sub CPU's interface is in service until RETI, too.
AckedAll(s) == [inService EXCEPT ![s] = TRUE]

Acked(s) == [inService EXCEPT ![s] = s[1] # Sub]

\* A byte the SIO has received is a request until it is read.
Acknowledge(s) ==
  /\ \E c \in CausesOf(s) :
       /\ IF Asks(s) THEN IsTop(c, Active(s)) ELSE TRUE
       /\ causes' = [causes EXCEPT ![s] = @ \ ({c} \ {"recv"})]
  /\ inService' = Acked(s)
  /\ UNCHANGED wr1
  /\ Propagate({s[1]})

\* Mutant: EI takes effect at once.
DelayedNever == FALSE

\* "Not just after EI".
Delayed == afterEi

\* check_interrupt with an NMI.
TakeNmi ==
  /\ ~Delayed /\ nmi
  /\ Begin(Nmi)
  /\ nmi' = FALSE /\ iff1' = FALSE
  /\ UNCHANGED <<devVars, iff2>>

\* check_interrupt with a request: all bits are cleared at the end.
TakeInterrupt(s) ==
  /\ ~Delayed /\ ~nmi /\ iff1 /\ \E d \in Devices : line[d]
  /\ IsFirst(s, Heard)
  /\ Begin(s)
  /\ IF inService[s] THEN UNCHANGED <<causes, wr1, inService, iei, oei, vec>>
                     ELSE Acknowledge(s)
  /\ line' = [d \in Devices |-> FALSE]
  /\ iff1' = FALSE /\ iff2' = FALSE /\ UNCHANGED nmi

NothingToTake ==
  /\ phase = "check" /\ phase' = "op"
  /\ Delayed \/ (~nmi /\ ~(iff1 /\ \E d \in Devices : line[d]))
  /\ UNCHANGED <<devVars, nmi, iff1, iff2, afterEi, progVars>>

Return ==
  /\ Op(FALSE) /\ stack # <<>>
  /\ stack' = SubSeq(stack, 1, Len(stack) - 1)
  /\ iff1' = iff2
  /\ UNCHANGED <<iff2, nests, cut>>

Retn == Return /\ Innermost = Nmi /\ UNCHANGED devVars

\* "Some software uses RET, not RETI", which leaves the flip-flops alone.
RetFromSub ==
  /\ Op(FALSE) /\ stack # <<>> /\ Innermost = SubSource
  /\ stack' = SubSeq(stack, 1, Len(stack) - 1)
  /\ UNCHANGED <<devVars, iff1, iff2, nests, cut>>

InServiceNow == {s \in Sources : inService[s]}

\* Mutant: the walk starts at the far end of the chain.
EndedFar(s) == s \in InServiceNow /\ \A t \in InServiceNow : ~Before(s, t)

\* notify_intr_reti stops at the first channel in service.
Ended(s) == IsFirst(s, InServiceNow)

\* A CTC's request is dropped as well ("???").
EndService(s) ==
  /\ Ended(s)
  /\ inService' = [inService EXCEPT ![s] = FALSE]
  /\ causes' = IF s[1] \in {Sio, Dma} THEN causes
               ELSE [causes EXCEPT ![s] = {}]
  /\ UNCHANGED wr1
  /\ UpdateIntr(1..s[1])

Reti ==
  /\ Return /\ Innermost # Nmi
  /\ \/ \E s \in Sources : EndService(s)
     \/ /\ InServiceNow = {}
        /\ UNCHANGED <<causes, wr1, inService>>
        /\ UpdateIntr(1..(Sub - 1))

\* The SIO's own command, in place of RETI, ends the handler as well.
SioEndOfInterrupt(s) ==
  /\ Op(FALSE) /\ stack # <<>> /\ Innermost[1] = Sio /\ inService[Innermost]
  /\ IsFirst(s, {t \in Of(Sio) : inService[t]})
  /\ inService' = [inService EXCEPT ![s] = FALSE]
  /\ stack' = SubSeq(stack, 1, Len(stack) - 1)
  /\ UNCHANGED <<causes, wr1, iff1, iff2, nests, cut>>
  /\ UpdateIntr({Sio})

-----------------------------------------------------------------------------
\* The NMI button.
SpecialReset ==
  /\ ~nmi /\ \A i \in DOMAIN stack : stack[i] # Nmi
  /\ nmi' = TRUE
  /\ UNCHANGED <<devVars, iff1, iff2, afterEi, phase, progVars>>

\* VM::reset, between instructions.
Reset ==
  /\ phase = "check"
  /\ causes' = [s \in Sources |-> {}] /\ wr1' = [s \in Of(Sio) |-> {}]
  /\ inService' = [s \in Sources |-> FALSE]
  /\ iei' = [d \in Devices |-> TRUE] /\ oei' = [d \in Devices |-> TRUE]
  /\ line' = [d \in Devices |-> FALSE]
  /\ nmi' = FALSE /\ iff1' = FALSE /\ iff2' = FALSE /\ afterEi' = FALSE
  /\ stack' = <<>> /\ cut' = FALSE
  /\ UNCHANGED <<vec, phase, nests>>

DeviceStep ==
  \/ SubRaise
  \/ \E s \in Sources : \/ CtcTick(s) \/ DmaRequest(s)
                        \/ \E cs \in SUBSET SioCauses : SioRaise(s, cs)

Execute ==
  \/ Instruction \/ Ei \/ Di \/ SubRead \/ Retn \/ RetFromSub \/ Reti
  \/ \E s \in Sources :
       \/ CtcControl(s) \/ SioChannelReset(s) \/ SioEndOfInterrupt(s)
       \/ DmaControl(s) \/ DmaReset(s)
       \/ \E c \in SioCauses : SioWithdraw(s, c)
       \/ \E m \in SUBSET (SioCauses \ {"err"}) : WriteWr1(s, m)

CheckInterrupt == \/ TakeNmi \/ NothingToTake
                  \/ \E s \in Sources : TakeInterrupt(s)

ChainNext == DeviceStep \/ Execute \/ CheckInterrupt \/ SpecialReset \/ Reset

ChainSpec == ChainInit /\ [][ChainNext]_intVars

-----------------------------------------------------------------------------
\* A device is enabled exactly when no device before it is in service, and
\* the CPU's bits are what the devices would set them to now: no change in
\* one device is missed by another.
LinesAreCurrent ==
  \A d \in Devices :
    /\ iei[d] <=> \A s \in Sources : s[1] < d => ~inService[s]
    /\ line[d] <=> iei[d] /\ Asking(d)

\* Whenever a bit makes the CPU acknowledge, the walk ends at a source that
\* asks: never at one in service (vector FFh), and not at the sub CPU's
\* interface, whose byte it would take away, unless that has asked.
NoSpuriousAck ==
  (\E d \in Devices : line[d]) =>
    \A s \in Sources : IsFirst(s, Heard) => Asks(s) /\ ~inService[s]

\* Lines that are current make the CPU acknowledge only who asks.
AcksAreTrue == LinesAreCurrent /\ NoSpuriousAck

\* The SIO's vector is made when something changes and read at the
\* acknowledge, which looks at the flags anew: both mean the same cause.
VectorNamesCause ==
  line[Sio] =>
    vec = {p \in Of(Sio) \X SioCauses : /\ IsFirst(p[1], {s \in Of(Sio) : Asks(s)})
                                        /\ IsTop(p[2], Active(p[1]))}

\* RETI ends the service of the handler that executes it, however handlers
\* are nested: in service are the channels whose handlers have not returned.
ServiceIsNested ==
  ~cut => \A s \in Sources \ {SubSource} :
            inService[s] <=> \E i \in DOMAIN stack : stack[i] = s

\* EI takes effect after the instruction behind it, the handler's return: a
\* program whose handlers do not nest never has two of them to return from.
HandlersDoNotPile ==
  ~nests => \A i, j \in DOMAIN stack :
              stack[i] # Nmi /\ stack[j] # Nmi => i = j
=============================================================================

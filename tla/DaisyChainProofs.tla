---------------------------- MODULE DaisyChainProofs --------------------------
(***************************************************************************)
(* Proofs about the interrupts, for any chain, channels and handlers.      *)
(*                                                                         *)
(* The invariant is local: every device's copies agree with its own state  *)
(* and with its neighbour's.  update_intr keeps it by looking at one       *)
(* device and the one before it (lemma UpdateKeepsLocal).  What it means   *)
(* for the whole chain follows from the least-number principle.            *)
(*                                                                         *)
(* At the end, about one of the devices of the chain: the transfers of the *)
(* DMA controller, for any programs, memory and bounds.                    *)
(***************************************************************************)
EXTENDS DaisyChain, DmaTransfer, SequenceTheorems, WellFoundedInduction, TLAPS

LEMMA LeastNumber ==
  ASSUME NEW T, T \subseteq Nat, T # {}
  PROVE  \E x \in T : \A y \in T : x <= y
<1>1. IsWellFoundedOn(OpToRel(<, Nat), Nat)
  BY NatLessThanWellFounded
<1>2. PICK x \in T : \A y \in T : ~(<<y, x>> \in OpToRel(<, Nat))
  BY <1>1, WFMin
<1>3. ASSUME NEW y \in T PROVE x <= y
  <2>1. ~(<<y, x>> \in OpToRel(<, Nat))
    BY <1>2
  <2>2. ~(y < x)
    BY <2>1 DEF OpToRel
  <2> QED BY <2>2
<1> QED BY <1>3

LEMMA SourcesAre ==
  /\ SubSource \in Sources
  /\ Devices = 1..Sub /\ Sio \in Devices /\ Dma \in Devices /\ Sub \in Devices
  /\ \A s \in Sources : s[1] \in Devices /\ s[2] \in Nat /\ s = <<s[1], s[2]>>
  /\ \A d : Of(d) \subseteq Sources
  /\ \A s \in Sources : s \in Of(s[1])
  /\ \A s \in Sources : s[1] \in {Dma, Sub} => s[2] = 0
  /\ Nmi \notin Sources
PROOF
<1>1. Devices = 1..Sub /\ Sio \in Devices /\ Dma \in Devices /\ Sub \in Devices
  BY DaisyChainAssumption DEF Devices, Sio, Dma, Sub
<1>2. ASSUME NEW s \in Sources
      PROVE  s[1] \in Devices /\ s[2] \in 0..(Channels(s[1]) - 1) /\ s = <<s[1], s[2]>>
  BY DEF Sources
<1>3. \A d \in Devices : Channels(d) \in Nat
  BY DaisyChainAssumption DEF Channels
<1>4. \A s \in Sources : s[2] \in Nat
  BY <1>2, <1>3
<1>5. Channels(Sub) = 1 /\ Channels(Dma) = 1
  BY DaisyChainAssumption DEF Channels, Sub, Dma, Sio
<1>6. SubSource \in Sources
  BY <1>1, <1>5 DEF Sources, SubSource
<1>7. \A s \in Sources : s[1] \in {Dma, Sub} => s[2] = 0
  BY <1>2, <1>5
<1>8. \A d : Of(d) \subseteq Sources
  BY DEF Of
<1>9. \A s \in Sources : s \in Of(s[1])
  BY DEF Of
<1>10. Nmi \notin Sources
  BY <1>2, <1>1, DaisyChainAssumption DEF Nmi, Sub
<1> QED BY <1>1, <1>2, <1>4, <1>6, <1>7, <1>8, <1>9, <1>10

-----------------------------------------------------------------------------
(* The local invariant.                                                    *)

IeiLocal  == iei[1] /\ \A d \in Devices : d > 1 => (iei[d] <=> oei[d - 1])
OeiLocal  == \A d \in Devices : oei[d] <=> iei[d] /\ ~Serving(d)
LineLocal == \A d \in Devices : line[d] <=> iei[d] /\ Asking(d)
Bools == iei \in [Devices -> BOOLEAN] /\ oei \in [Devices -> BOOLEAN]
         /\ line \in [Devices -> BOOLEAN] /\ vec \subseteq Of(Sio) \X SioCauses

LEMMA UpdateKeepsLocal ==
  ASSUME Bools, IeiLocal, OeiLocal, NEW D, Propagate(D),
         \A d \in Devices \ D : Serving(d)' <=> Serving(d)
  PROVE  IeiLocal' /\ OeiLocal'
<1> USE SourcesAre DEF Bools
<1>1. /\ iei' \in [Devices -> BOOLEAN] /\ iei'[1] = iei[1]
      /\ oei' = [d \in Devices |-> IF Updated(d, D) THEN iei'[d] /\ ~Serving(d)'
                                                    ELSE oei[d]]
      /\ \A d \in Devices :
           iei'[d] = IF d > 1 /\ oei'[d - 1] # oei[d - 1] THEN oei'[d - 1] ELSE iei[d]
  BY DEF Propagate
<1>2. ASSUME NEW d \in Devices PROVE oei'[d] <=> iei'[d] /\ ~Serving(d)'
  <2>1. CASE Updated(d, D)
    BY <1>1, <2>1
  <2>2. CASE ~Updated(d, D)
    <3>1. oei'[d] = oei[d]
      BY <1>1, <2>2
    <3>2. d \notin D /\ iei'[d] = iei[d]
      BY <2>2 DEF Updated
    <3>3. Serving(d)' <=> Serving(d)
      BY <3>2
    <3> QED BY <3>1, <3>2, <3>3 DEF OeiLocal
  <2> QED BY <2>1, <2>2
<1>3. ASSUME NEW d \in Devices, d > 1 PROVE iei'[d] <=> oei'[d - 1]
  <2>1. CASE oei'[d - 1] # oei[d - 1]
    BY <1>1, <1>3, <2>1
  <2>2. CASE oei'[d - 1] = oei[d - 1]
    BY <1>1, <1>3, <2>2 DEF IeiLocal
  <2> QED BY <2>1, <2>2
<1>4. OeiLocal'
  BY <1>2 DEF OeiLocal
<1>5. IeiLocal'
  BY <1>1, <1>3 DEF IeiLocal
<1> QED BY <1>4, <1>5

LEMMA UpdateKeepsLines ==
  ASSUME Bools, LineLocal, NEW D, UpdateIntr(D),
         \A d \in Devices \ D : Asking(d)' <=> Asking(d)
  PROVE  LineLocal'
<1> SUFFICES ASSUME NEW d \in Devices PROVE line'[d] <=> iei'[d] /\ Asking(d)'
  BY DEF LineLocal
<1>1. line' = [k \in Devices |-> IF Updated(k, D) THEN iei'[k] /\ Asking(k)'
                                                  ELSE line[k]]
  BY DEF UpdateIntr, SetLines
<1>2. CASE Updated(d, D)
  BY <1>1, <1>2
<1>3. CASE ~Updated(d, D)
  <2>1. line'[d] = line[d]
    BY <1>1, <1>3
  <2>2. d \notin D /\ iei'[d] = iei[d]
    BY <1>3 DEF Updated
  <2> QED BY <2>1, <2>2 DEF LineLocal
<1> QED BY <1>2, <1>3

LEMMA UpdateTypes ==
  ASSUME Bools, NEW D, Propagate(D)
  PROVE  /\ iei' \in [Devices -> BOOLEAN] /\ oei' \in [Devices -> BOOLEAN]
         /\ vec' \subseteq Of(Sio) \X SioCauses
<1>1. iei' \in [Devices -> BOOLEAN]
  BY DEF Propagate
<1>2. oei' = [d \in Devices |-> IF Updated(d, D) THEN iei'[d] /\ ~Serving(d)'
                                                 ELSE oei[d]]
  BY DEF Propagate
<1>3. \A d \in Devices : (IF Updated(d, D) THEN iei'[d] /\ ~Serving(d)'
                                           ELSE oei[d]) \in BOOLEAN
  BY <1>1 DEF Bools
<1>4. oei' \in [Devices -> BOOLEAN]
  BY <1>2, <1>3
<1>5. Named' \subseteq Of(Sio)' \X SioCauses
  BY DEF Named
<1>6. Of(Sio)' = Of(Sio)
  BY DEF Of, Sources, Devices, Channels, Sio, Dma, Sub
<1>7. vec' = IF Updated(Sio, D) THEN Named' ELSE vec
  BY DEF Propagate
<1> QED BY <1>1, <1>4, <1>5, <1>6, <1>7 DEF Bools

LEMMA LineTypes ==
  ASSUME Bools, NEW D, UpdateIntr(D)
  PROVE  line' \in [Devices -> BOOLEAN]
<1>1. line' = [d \in Devices |-> IF Updated(d, D) THEN iei'[d] /\ Asking(d)'
                                                  ELSE line[d]]
  BY DEF UpdateIntr, SetLines
<1>2. iei' \in [Devices -> BOOLEAN]
  BY DEF UpdateIntr, Propagate
<1>3. \A d \in Devices : (IF Updated(d, D) THEN iei'[d] /\ Asking(d)'
                                           ELSE line[d]) \in BOOLEAN
  BY <1>2 DEF Bools
<1> QED BY <1>1, <1>3

(* What the local invariant says of the whole chain: i and o are the       *)
(* devices' copies, b says which of them are in service.                   *)
LEMMA EnabledMeansFree ==
  ASSUME NEW i \in [Devices -> BOOLEAN], NEW o \in [Devices -> BOOLEAN],
         NEW b \in [Devices -> BOOLEAN],
         i[1], \A k \in Devices : k > 1 => (i[k] <=> o[k - 1]),
         \A k \in Devices : o[k] <=> i[k] /\ ~b[k],
         NEW d \in Devices
  PROVE  i[d] <=> \A k \in Devices : k < d => ~b[k]
<1> USE SourcesAre
<1>0. Devices \subseteq Nat
  OBVIOUS
<1>1. ASSUME i[d], NEW k \in Devices, k < d, b[k] PROVE FALSE
  <2> DEFINE T == {m \in Devices : m > k /\ i[m]}
  <2>1. T \subseteq Nat /\ d \in T
    BY <1>0, <1>1
  <2>2. PICK m \in T : \A y \in T : m <= y
    BY <2>1, LeastNumber
  <2>3. m \in Devices /\ m > k /\ i[m] /\ m - 1 \in Devices /\ m > 1
    BY <1>1
  <2>4. i[m - 1] /\ ~b[m - 1]
    BY <2>3
  <2>5. m - 1 # k
    BY <2>4, <1>1
  <2>6. m - 1 \in T
    BY <2>3, <2>4, <2>5, <1>0
  <2> QED BY <2>2, <2>6, <2>3, <1>0
<1>2. ASSUME ~i[d] PROVE \E k \in Devices : k < d /\ b[k]
  <2> DEFINE T == {m \in Devices : m <= d /\ ~i[m]}
  <2>1. T \subseteq Nat /\ d \in T
    BY <1>0, <1>2
  <2>2. PICK m \in T : \A y \in T : m <= y
    BY <2>1, LeastNumber
  <2>3. m \in Devices /\ m <= d /\ ~i[m] /\ m > 1 /\ m - 1 \in Devices
    OBVIOUS
  <2>4. m - 1 \notin T
    BY <2>2, <2>3, <1>0
  <2>5. i[m - 1]
    BY <2>3, <2>4
  <2>6. b[m - 1]
    BY <2>3, <2>5
  <2> QED BY <2>3, <2>6, <1>0
<1> QED BY <1>1, <1>2

-----------------------------------------------------------------------------
(* The invariant of the chain.                                             *)

DevTypes ==
  /\ causes \in [Sources -> SUBSET DOMAIN Rank]
  /\ \A s \in Sources : causes[s] \subseteq CausesOf(s)
  /\ wr1 \in [Of(Sio) -> SUBSET (SioCauses \ {"err"})]
  /\ inService \in [Sources -> BOOLEAN] /\ ~inService[SubSource]

CpuTypes ==
  /\ nmi \in BOOLEAN /\ iff1 \in BOOLEAN /\ iff2 \in BOOLEAN
  /\ afterEi \in BOOLEAN /\ phase \in {"check", "op"}
  /\ nests \in Nesting /\ stack \in Seq(Sources \union {Nmi})
  /\ cut \in BOOLEAN

VecLocal == line[Sio] => vec = Named

ChainInv == Bools /\ IeiLocal /\ OeiLocal /\ LineLocal /\ VecLocal

LEMMA TypesAre == ChainTypeOK <=> DevTypes /\ Bools /\ CpuTypes
BY DEF ChainTypeOK, DevTypes, Bools, CpuTypes

\* Device d is as it was.
Untouched(d) ==
  /\ \A s \in Of(d) : inService'[s] = inService[s] /\ causes'[s] = causes[s]
  /\ d = Sio => wr1' = wr1

LEMMA UntouchedSame ==
  ASSUME NEW d, Untouched(d)
  PROVE  /\ Serving(d)' <=> Serving(d)
         /\ \A s \in Of(d) : Asks(s)' <=> Asks(s)
         /\ Asking(d)' <=> Asking(d)
<1>1. Serving(d)' <=> Serving(d)
  BY DEF Serving, Untouched
<1>2. ASSUME NEW s \in Of(d) PROVE Asks(s)' <=> Asks(s)
  <2>1. s[1] = d
    BY DEF Of
  <2> QED BY <2>1 DEF Asks, Active, Untouched
<1>3. ASSUME NEW s \in Of(d) PROVE Pending(s)' <=> Pending(s)
  <2>1. s[1] = d
    BY DEF Of
  <2>2. \A t \in Of(s[1]) : inService'[t] = inService[t]
    BY <2>1 DEF Untouched
  <2> QED BY <1>2, <2>2 DEF Pending
<1>4. Asking(d)' <=> Asking(d)
  BY <1>3 DEF Asking
<1> QED BY <1>1, <1>2, <1>4

\* What the vector is made of: what the SIO's channels ask, and serve.
LEMMA NamedSame ==
  ASSUME \A s \in Of(Sio) : inService'[s] = inService[s] /\ Active(s)' = Active(s)
  PROVE  Named' = Named
<1>1. ASSUME NEW s \in Of(Sio) PROVE Asks(s)' <=> Asks(s)
  BY DEF Asks
<1>2. ASSUME NEW s \in Of(Sio) PROVE Pending(s)' <=> Pending(s)
  <2>1. s[1] = Sio
    BY DEF Of
  <2> QED BY <1>1, <2>1 DEF Pending
<1>3. {s \in Of(Sio) : Asks(s)}' = {s \in Of(Sio) : Asks(s)}
  BY <1>1
<1> QED BY <1>2, <1>3 DEF Named, IsFirst, IsTop

LEMMA ChainStep ==
  ASSUME ChainInv, NEW D, UpdateIntr(D), \A d \in Devices \ D : Untouched(d)
  PROVE  ChainInv'
<1>1. \A d \in Devices \ D : /\ Serving(d)' <=> Serving(d)
                             /\ Asking(d)' <=> Asking(d)
  BY UntouchedSame
<1>2. Propagate(D)
  BY DEF UpdateIntr
<1>3. IeiLocal' /\ OeiLocal'
  BY <1>1, <1>2, UpdateKeepsLocal DEF ChainInv
<1>4. LineLocal'
  BY <1>1, UpdateKeepsLines DEF ChainInv
<1>5. /\ iei' \in [Devices -> BOOLEAN] /\ oei' \in [Devices -> BOOLEAN]
      /\ vec' \subseteq Of(Sio) \X SioCauses
  BY <1>2, UpdateTypes DEF ChainInv
<1>6. line' \in [Devices -> BOOLEAN]
  BY LineTypes DEF ChainInv
<1>7. VecLocal'
  <2>1. vec' = IF Updated(Sio, D) THEN Named' ELSE vec
    BY <1>2 DEF Propagate
  <2>2. CASE Updated(Sio, D)
    BY <2>1, <2>2 DEF VecLocal
  <2>3. CASE ~Updated(Sio, D)
    <3>1. Sio \in Devices \ D
      BY <2>3, SourcesAre DEF Updated
    <3>2. Untouched(Sio) /\ line'[Sio] = line[Sio]
      BY <2>3, <3>1 DEF UpdateIntr, SetLines
    <3>3. ASSUME NEW s \in Of(Sio)
          PROVE  inService'[s] = inService[s] /\ Active(s)' = Active(s)
      BY <3>2 DEF Untouched, Active
    <3>4. Named' = Named
      BY <3>3, NamedSame
    <3> QED BY <2>1, <2>3, <3>2, <3>4 DEF VecLocal, ChainInv
  <2> QED BY <2>2, <2>3
<1> QED BY <1>3, <1>4, <1>5, <1>6, <1>7 DEF ChainInv, Bools

\* Nothing of the chain changes.
LEMMA ChainStutter ==
  ASSUME ChainInv, DevTypes, UNCHANGED devVars
  PROVE  ChainInv' /\ DevTypes'
<1>1. UNCHANGED <<causes, wr1, inService, iei, oei, vec, line>>
  BY DEF devVars, chainVars
<1>2. DevTypes' /\ Bools'
  BY <1>1 DEF ChainInv, DevTypes, Bools
<1>3. ASSUME NEW d PROVE Untouched(d)
  BY <1>1 DEF Untouched
<1>4. IeiLocal' /\ OeiLocal' /\ LineLocal'
  BY <1>1, <1>3, UntouchedSame DEF ChainInv, IeiLocal, OeiLocal, LineLocal
<1>5. Named' = Named
  BY <1>1, NamedSame DEF Active
<1>6. VecLocal'
  BY <1>1, <1>5 DEF VecLocal, ChainInv
<1> QED BY <1>2, <1>4, <1>6 DEF ChainInv

\* One device changes, and is updated.
LEMMA DeviceStepped ==
  ASSUME ChainInv, NEW s \in Sources, UpdateIntr({s[1]}),
         \A t \in Sources : t[1] # s[1] =>
           inService'[t] = inService[t] /\ causes'[t] = causes[t],
         s[1] = Sio \/ wr1' = wr1
  PROVE  ChainInv'
<1>1. ASSUME NEW d \in Devices \ {s[1]} PROVE Untouched(d)
  BY DEF Untouched, Of
<1> QED BY <1>1, ChainStep

\* The causes of a source become others that it knows, or fewer.
LEMMA CausesChanged ==
  ASSUME DevTypes, NEW s \in Sources, NEW cs, cs \subseteq CausesOf(s),
         causes' = [causes EXCEPT ![s] = cs]
  PROVE  /\ causes' \in [Sources -> SUBSET DOMAIN Rank]
         /\ \A t \in Sources : causes'[t] \subseteq CausesOf(t)
         /\ \A t \in Sources : t # s => causes'[t] = causes[t]
<1>1. CausesOf(s) \subseteq DOMAIN Rank
  BY DaisyChainAssumption DEF CausesOf, Rank
<1> QED BY <1>1 DEF DevTypes

LEMMA CausesDropped ==
  ASSUME DevTypes, NEW s \in Sources, causes' = [causes EXCEPT ![s] = {}]
  PROVE  /\ causes' \in [Sources -> SUBSET DOMAIN Rank]
         /\ \A t \in Sources : causes'[t] \subseteq CausesOf(t)
         /\ \A t \in Sources : t # s => causes'[t] = causes[t]
BY DEF DevTypes

LEMMA RaiseStep ==
  ASSUME DevTypes, ChainInv, NEW s \in Sources, NEW cs, cs \subseteq CausesOf(s),
         Raise(s, cs)
  PROVE  DevTypes' /\ ChainInv' /\ UNCHANGED <<cpuVars, progVars>>
<1>1. causes' = [causes EXCEPT ![s] = causes[s] \union cs]
      /\ causes[s] \union cs \subseteq CausesOf(s)
  BY DEF Raise, DevTypes
<1>2. /\ causes' \in [Sources -> SUBSET DOMAIN Rank]
      /\ \A t \in Sources : causes'[t] \subseteq CausesOf(t)
      /\ \A t \in Sources : t # s => causes'[t] = causes[t]
  BY <1>1, CausesChanged
<1>3. DevTypes'
  BY <1>2 DEF DevTypes, Raise
<1>4. ChainInv'
  BY <1>2, DeviceStepped DEF Raise
<1>5. UNCHANGED <<cpuVars, progVars>>
  BY DEF Raise
<1> QED BY <1>3, <1>4, <1>5

LEMMA ClearStep ==
  ASSUME DevTypes, ChainInv, NEW s \in Sources, NEW cs, Clear(s, cs)
  PROVE  DevTypes' /\ ChainInv'
<1>1. causes' = [causes EXCEPT ![s] = causes[s] \ cs]
      /\ causes[s] \ cs \subseteq CausesOf(s)
  BY DEF Clear, DevTypes
<1>2. /\ causes' \in [Sources -> SUBSET DOMAIN Rank]
      /\ \A t \in Sources : causes'[t] \subseteq CausesOf(t)
      /\ \A t \in Sources : t # s => causes'[t] = causes[t]
  BY <1>1, CausesChanged
<1>3. DevTypes'
  BY <1>2 DEF DevTypes, Clear
<1>4. ChainInv'
  BY <1>2, DeviceStepped DEF Clear
<1> QED BY <1>3, <1>4

\* What the devices do of their own.
LEMMA DevicesKeepChain ==
  ASSUME DevTypes, ChainInv, DeviceStep
  PROVE  DevTypes' /\ ChainInv' /\ UNCHANGED <<cpuVars, progVars>>
<1> USE SourcesAre
<1>1. CASE SubRaise
  <2>1. {"req"} \subseteq CausesOf(SubSource)
    BY DaisyChainAssumption DEF CausesOf, SubSource, Sub, Sio
  <2>2. Raise(SubSource, {"req"})
    BY <1>1 DEF SubRaise
  <2> QED BY <2>1, <2>2, RaiseStep
<1>2. ASSUME NEW s \in Sources, CtcTick(s) PROVE DevTypes' /\ ChainInv'
                                                /\ UNCHANGED <<cpuVars, progVars>>
  <2>1. {"req"} \subseteq CausesOf(s)
    BY <1>2 DEF CausesOf, CtcTick
  <2>2. Raise(s, {"req"})
    BY <1>2 DEF CtcTick
  <2> QED BY <2>1, <2>2, RaiseStep
<1>3. ASSUME NEW s \in Sources, DmaRequest(s)
      PROVE  DevTypes' /\ ChainInv' /\ UNCHANGED <<cpuVars, progVars>>
  <2>1. {"req"} \subseteq CausesOf(s)
    BY <1>3, DaisyChainAssumption DEF CausesOf, DmaRequest, Dma, Sio
  <2>2. Raise(s, {"req"})
    BY <1>3 DEF DmaRequest
  <2> QED BY <2>1, <2>2, RaiseStep
<1>4. ASSUME NEW s \in Sources, NEW cs \in SUBSET SioCauses, SioRaise(s, cs)
      PROVE  DevTypes' /\ ChainInv' /\ UNCHANGED <<cpuVars, progVars>>
  <2>1. cs \subseteq CausesOf(s)
    BY <1>4 DEF CausesOf, SioRaise
  <2>2. Raise(s, cs)
    BY <1>4 DEF SioRaise
  <2> QED BY <2>1, <2>2, RaiseStep
<1> QED BY <1>1, <1>2, <1>3, <1>4 DEF DeviceStep

-----------------------------------------------------------------------------
(* The program's instructions.                                             *)

LEMMA WriteWr1Step ==
  ASSUME DevTypes, ChainInv, NEW s \in Sources,
         NEW m \in SUBSET (SioCauses \ {"err"}), WriteWr1(s, m)
  PROVE  DevTypes' /\ ChainInv'
<1> USE SourcesAre
<1>1. /\ s[1] = Sio /\ UpdateIntr({s[1]})
      /\ wr1' = [wr1 EXCEPT ![s] = m] /\ UNCHANGED <<causes, inService>>
  BY DEF WriteWr1
<1>2. wr1' \in [Of(Sio) -> SUBSET (SioCauses \ {"err"})]
  BY <1>1 DEF DevTypes
<1>3. DevTypes'
  BY <1>1, <1>2 DEF DevTypes
<1> QED BY <1>1, <1>3, DeviceStepped

LEMMA SioChannelResetStep ==
  ASSUME DevTypes, ChainInv, NEW s \in Sources, SioChannelReset(s)
  PROVE  DevTypes' /\ ChainInv'
<1> USE SourcesAre
<1>1. /\ s[1] = Sio /\ causes' = [causes EXCEPT ![s] = {}]
      /\ wr1' = [wr1 EXCEPT ![s] = {}] /\ UNCHANGED inService
      /\ IF causes[s] = {} THEN UNCHANGED chainVars ELSE UpdateIntr({s[1]})
  BY DEF SioChannelReset
<1>2. /\ causes' \in [Sources -> SUBSET DOMAIN Rank]
      /\ \A t \in Sources : causes'[t] \subseteq CausesOf(t)
      /\ \A t \in Sources : t # s => causes'[t] = causes[t]
  BY <1>1, CausesDropped
<1>3. wr1' \in [Of(Sio) -> SUBSET (SioCauses \ {"err"})]
  BY <1>1 DEF DevTypes
<1>4. DevTypes'
  BY <1>1, <1>2, <1>3 DEF DevTypes
<1>5. CASE causes[s] # {}
  BY <1>1, <1>2, <1>4, <1>5, DeviceStepped
<1>6. CASE causes[s] = {}
  <2>1. causes' = causes /\ UNCHANGED chainVars
    BY <1>1, <1>6 DEF DevTypes
  <2>2. ASSUME NEW t \in Sources PROVE Asks(t)' <=> Asks(t)
    <3>1. CASE t = s
      BY <1>1, <1>6, <2>1, <3>1 DEF Asks, Active
    <3>2. CASE t # s
      <4>1. t[1] = Sio => wr1'[t] = wr1[t]
        BY <1>1, <3>2 DEF DevTypes, Of
      <4> QED BY <2>1, <4>1 DEF Asks, Active
    <3> QED BY <3>1, <3>2
  <2>3. \A d \in Devices : Serving(d)' <=> Serving(d)
    BY <1>1 DEF Serving
  <2>4. ASSUME NEW d \in Devices PROVE Asking(d)' <=> Asking(d)
    <3>1. ASSUME NEW t \in Of(d) PROVE Pending(t)' <=> Pending(t)
      BY <1>1, <2>2 DEF Pending
    <3> QED BY <3>1 DEF Asking
  <2>5. Bools'
    BY <2>1 DEF ChainInv, Bools, chainVars
  <2>6. VecLocal'
    <3>1. ASSUME NEW u \in Of(Sio)
          PROVE  inService'[u] = inService[u] /\ Active(u)' = Active(u)
      <4>1. u # s => wr1'[u] = wr1[u]
        BY <1>1 DEF DevTypes
      <4>2. causes'[u] = causes[u] /\ (u = s => causes[u] = {})
        BY <1>6, <2>1
      <4> QED BY <1>1, <4>1, <4>2 DEF Active
    <3>2. Named' = Named
      BY <3>1, NamedSame
    <3> QED BY <2>1, <3>2 DEF VecLocal, ChainInv, chainVars
  <2> QED BY <1>4, <2>1, <2>3, <2>4, <2>5, <2>6
        DEF ChainInv, IeiLocal, OeiLocal, LineLocal, chainVars
<1> QED BY <1>4, <1>5, <1>6

LEMMA DmaResetStep ==
  ASSUME DevTypes, ChainInv, NEW s \in Sources, DmaReset(s)
  PROVE  DevTypes' /\ ChainInv'
<1> USE SourcesAre
<1>1. /\ s[1] = Dma /\ causes' = [causes EXCEPT ![s] = {}] /\ UNCHANGED wr1
      /\ inService' = [inService EXCEPT ![s] = FALSE] /\ UpdateIntr({s[1]})
  BY DEF DmaReset
<1>2. /\ causes' \in [Sources -> SUBSET DOMAIN Rank]
      /\ \A t \in Sources : causes'[t] \subseteq CausesOf(t)
      /\ \A t \in Sources : t # s => causes'[t] = causes[t]
  BY <1>1, CausesDropped
<1>3. DevTypes'
  BY <1>1, <1>2 DEF DevTypes
<1>4. \A t \in Sources : t # s => inService'[t] = inService[t]
  BY <1>1 DEF DevTypes
<1> QED BY <1>1, <1>2, <1>3, <1>4, DeviceStepped

LEMMA SioEndStep ==
  ASSUME DevTypes, ChainInv, NEW s \in Sources, SioEndOfInterrupt(s)
  PROVE  DevTypes' /\ ChainInv'
<1> USE SourcesAre
<1>1. /\ s[1] = Sio /\ UNCHANGED <<causes, wr1>> /\ UpdateIntr({s[1]})
      /\ inService' = [inService EXCEPT ![s] = FALSE]
  BY DEF SioEndOfInterrupt, IsFirst, Of
<1>2. DevTypes'
  BY <1>1 DEF DevTypes
<1>3. \A t \in Sources : t # s => inService'[t] = inService[t]
  BY <1>1 DEF DevTypes
<1> QED BY <1>1, <1>2, <1>3, DeviceStepped

LEMMA RetiStep ==
  ASSUME DevTypes, ChainInv, Reti
  PROVE  DevTypes' /\ ChainInv'
<1> USE SourcesAre
<1>1. ASSUME NEW s \in Sources, EndService(s) PROVE DevTypes' /\ ChainInv'
  <2>1. /\ inService' = [inService EXCEPT ![s] = FALSE] /\ UNCHANGED wr1
        /\ causes' = causes \/ causes' = [causes EXCEPT ![s] = {}]
        /\ UpdateIntr(1..s[1])
    BY <1>1 DEF EndService
  <2>2. /\ causes' \in [Sources -> SUBSET DOMAIN Rank]
        /\ \A t \in Sources : causes'[t] \subseteq CausesOf(t)
        /\ \A t \in Sources : t # s => causes'[t] = causes[t]
    <3>1. CASE causes' = causes
      BY <3>1 DEF DevTypes
    <3>2. CASE causes' = [causes EXCEPT ![s] = {}]
      BY <3>2, CausesDropped
    <3> QED BY <2>1, <3>1, <3>2
  <2>3. DevTypes'
    BY <2>1, <2>2 DEF DevTypes
  <2>4. \A t \in Sources : t # s => inService'[t] = inService[t]
    BY <2>1 DEF DevTypes
  <2>5. ASSUME NEW d \in Devices \ (1..s[1]) PROVE Untouched(d)
    <3>1. s[1] \in 1..s[1]
      BY DaisyChainAssumption DEF Devices, Sub
    <3>2. \A t \in Of(d) : t # s /\ t \in Sources
      BY <3>1 DEF Of
    <3> QED BY <2>1, <2>2, <2>4, <3>2 DEF Untouched
  <2> QED BY <2>1, <2>3, <2>5, ChainStep
<1>2. ASSUME UNCHANGED <<causes, wr1, inService>>, UpdateIntr(1..(Sub - 1))
      PROVE  DevTypes' /\ ChainInv'
  <2>1. DevTypes'
    BY <1>2 DEF DevTypes
  <2>2. ASSUME NEW d \in Devices PROVE Untouched(d)
    BY <1>2 DEF Untouched
  <2> QED BY <1>2, <2>1, <2>2, ChainStep
<1> QED BY <1>1, <1>2 DEF Reti

LEMMA ProgramKeepsChain ==
  ASSUME DevTypes, ChainInv, Execute
  PROVE  DevTypes' /\ ChainInv'
<1> USE SourcesAre
<1>1. CASE UNCHANGED devVars
  BY <1>1, ChainStutter
<1>2. ASSUME NEW s \in Sources, NEW cs, Clear(s, cs) PROVE DevTypes' /\ ChainInv'
  BY <1>2, ClearStep
<1>3. CASE Instruction \/ Ei \/ Di \/ Retn \/ RetFromSub
  BY <1>1, <1>3 DEF Instruction, Ei, Di, Retn, RetFromSub
<1>4. CASE SubRead
  BY <1>2, <1>4 DEF SubRead
<1>5. ASSUME NEW s \in Sources, CtcControl(s) \/ DmaControl(s)
      PROVE  DevTypes' /\ ChainInv'
  BY <1>2, <1>5 DEF CtcControl, DmaControl
<1>6. ASSUME NEW s \in Sources, NEW c \in SioCauses, SioWithdraw(s, c)
      PROVE  DevTypes' /\ ChainInv'
  BY <1>2, <1>6 DEF SioWithdraw
<1> QED BY <1>3, <1>4, <1>5, <1>6, RetiStep, WriteWr1Step, SioChannelResetStep,
        DmaResetStep, SioEndStep DEF Execute

LEMMA ResetStep ==
  ASSUME DevTypes, ChainInv, Reset
  PROVE  DevTypes' /\ ChainInv'
<1> USE SourcesAre
<1>1. /\ causes' = [s \in Sources |-> {}] /\ wr1' = [s \in Of(Sio) |-> {}]
      /\ inService' = [s \in Sources |-> FALSE] /\ vec' = vec
      /\ iei' = [d \in Devices |-> TRUE] /\ oei' = [d \in Devices |-> TRUE]
      /\ line' = [d \in Devices |-> FALSE]
  BY DEF Reset
<1>2. DevTypes'
  BY <1>1 DEF DevTypes
<1>3. ASSUME NEW d \in Devices PROVE ~Serving(d)' /\ ~Asking(d)'
  <2>1. \A s \in Of(d) : ~inService'[s] /\ causes'[s] = {}
    BY <1>1
  <2>2. \A s \in Of(d) : ~Asks(s)'
    BY <2>1 DEF Asks, Active
  <2> QED BY <2>1, <2>2 DEF Serving, Asking, Pending
<1>4. Bools'
  BY <1>1 DEF Bools, ChainInv
<1>5. IeiLocal'
  BY <1>1, DaisyChainAssumption DEF IeiLocal, Devices, Sub
<1>6. VecLocal'
  BY <1>1 DEF VecLocal
<1> QED BY <1>1, <1>2, <1>3, <1>4, <1>5, <1>6 DEF ChainInv, OeiLocal, LineLocal

-----------------------------------------------------------------------------
(* The acknowledge.                                                        *)

LEMMA BeforeTotal ==
  /\ \A s, t \in Sources : s = t \/ Before(s, t) \/ Before(t, s)
  /\ \A s, t \in Sources : ~(Before(s, t) /\ Before(t, s))
  /\ \A s \in Sources : ~Before(s, s)
<1>1. \A s \in Sources : s[1] \in Nat /\ s[2] \in Nat /\ s = <<s[1], s[2]>>
  BY SourcesAre, DaisyChainAssumption DEF Sub
<1>2. ASSUME NEW s \in Sources, NEW t \in Sources, ~Before(s, t), ~Before(t, s)
      PROVE  s = t
  <2>1. s[1] = t[1] /\ s[2] = t[2]
    BY <1>1, <1>2 DEF Before
  <2> QED BY <1>1, <2>1
<1>3. \A s, t \in Sources : ~(Before(s, t) /\ Before(t, s))
  BY <1>1 DEF Before
<1> QED BY <1>2, <1>3

\* The copies of the enable line say what is in service before a device.
LEMMA Enabled ==
  ASSUME ChainInv, NEW d \in Devices
  PROVE  iei[d] <=> \A s \in Sources : s[1] < d => ~inService[s]
<1> DEFINE b == [k \in Devices |-> Serving(k)]
<1>1. b \in [Devices -> BOOLEAN]
  BY DEF Serving
<1>2. \A k \in Devices : b[k] <=> Serving(k)
  OBVIOUS
<1> HIDE DEF b
<1>3. iei[d] <=> \A k \in Devices : k < d => ~b[k]
  BY <1>1, <1>2, EnabledMeansFree DEF ChainInv, Bools, IeiLocal, OeiLocal
<1>4. (\A k \in Devices : k < d => ~Serving(k))
        <=> \A s \in Sources : s[1] < d => ~inService[s]
  BY SourcesAre DEF Serving, Of
<1> QED BY <1>2, <1>3, <1>4

LEMMA LinesFollow ==
  ASSUME ChainInv
  PROVE  LinesAreCurrent
BY Enabled DEF LinesAreCurrent, ChainInv, LineLocal

LEMMA WalkFinds ==
  ASSUME DevTypes, ChainInv
  PROVE  NoSpuriousAck
<1> SUFFICES ASSUME NEW d \in Devices, line[d], NEW s \in Sources, IsFirst(s, Heard)
             PROVE  Asks(s) /\ ~inService[s]
  BY DEF NoSpuriousAck
<1>1. iei[d] /\ Asking(d)
  BY DEF ChainInv, LineLocal
<1>2. PICK t \in Of(d) : Pending(t)
  BY <1>1 DEF Asking
<1>3. t \in Sources /\ t[1] = d /\ Asks(t) /\ t \in Heard
      /\ \A u \in Of(d) : inService[u] => Before(t, u)
  BY <1>2 DEF Pending, Heard, Of
<1>4. s = t \/ Before(s, t)
  BY <1>3, BeforeTotal DEF IsFirst
<1>5. CASE s = t
  <2>1. s \in Of(d) /\ ~Before(s, s)
    BY <1>2, <1>5, BeforeTotal
  <2> QED BY <1>3, <1>5, <2>1
<1>6. CASE Before(s, t)
  <2>1. ~inService[s]
    <3>1. CASE s[1] < d
      BY <1>1, <3>1, Enabled
    <3>2. CASE s[1] = d
      <4>1. s \in Of(d)
        BY <3>2 DEF Of
      <4> QED BY <1>3, <1>6, <4>1, BeforeTotal
    <3> QED BY <1>3, <1>6, <3>1, <3>2 DEF Before
  <2>2. s[1] # Sub
    <3>1. ~(Sub < d) /\ (d = Sub => t[2] = 0)
      BY <1>3, SourcesAre, DaisyChainAssumption DEF Devices, Sub
    <3>2. s[1] = Sub => s[2] = 0
      BY SourcesAre
    <3> QED BY <1>3, <1>6, <3>1, <3>2 DEF Before
  <2> QED BY <2>1, <2>2 DEF IsFirst, Heard
<1> QED BY <1>4, <1>5, <1>6

LEMMA TakeStep ==
  ASSUME DevTypes, ChainInv, NEW s \in Sources, TakeInterrupt(s)
  PROVE  DevTypes' /\ ChainInv'
<1> DEFINE d == s[1]
<1>1. Asks(s) /\ ~inService[s]
  BY WalkFinds DEF NoSpuriousAck, TakeInterrupt
<1>2. Acknowledge(s) /\ IsFirst(s, Heard) /\ line' = [k \in Devices |-> FALSE]
  BY <1>1 DEF TakeInterrupt
<1>3. PICK c : causes' = [causes EXCEPT ![s] = causes[s] \ ({c} \ {"recv"})]
               /\ (s[1] # Sio => c = "req")
  BY <1>2 DEF Acknowledge, CausesOf
<1>4. /\ causes' \in [Sources -> SUBSET DOMAIN Rank]
      /\ \A t \in Sources : causes'[t] \subseteq CausesOf(t)
      /\ \A t \in Sources : t # s => causes'[t] = causes[t]
  <2>1. causes[s] \ ({c} \ {"recv"}) \subseteq CausesOf(s)
    BY DEF DevTypes
  <2> QED BY <1>3, <2>1, CausesChanged
<1>5. /\ inService' = [inService EXCEPT ![s] = s[1] # Sub]
      /\ wr1' = wr1 /\ Propagate({d})
  BY <1>2 DEF Acknowledge, Acked
<1>6. /\ inService' \in [Sources -> BOOLEAN] /\ inService'[s] = (s[1] # Sub)
      /\ \A t \in Sources : t # s => inService'[t] = inService[t]
  BY <1>5 DEF DevTypes
<1>7. DevTypes'
  <2>1. ~inService'[SubSource]
    BY <1>6, SourcesAre DEF DevTypes, SubSource
  <2> QED BY <1>4, <1>5, <1>6, <2>1 DEF DevTypes
<1>8. ASSUME NEW t \in Sources, t # s, Asks(t)' PROVE Before(s, t)
  <2>1. Asks(t)
    BY <1>4, <1>5, <1>8 DEF Asks, Active
  <2>2. t \in Heard
    BY <2>1 DEF Heard
  <2> QED BY <1>2, <1>8, <2>2, BeforeTotal DEF IsFirst
<1>9. IeiLocal' /\ OeiLocal'
  <2>1. \A k \in Devices \ {d} : Serving(k)' <=> Serving(k)
    BY <1>6 DEF Serving, Of
  <2> QED BY <1>5, <2>1, UpdateKeepsLocal DEF ChainInv
<1>10. ASSUME NEW k \in Devices PROVE ~(iei'[k] /\ Asking(k)')
  <2> SUFFICES ASSUME iei'[k], NEW t \in Of(k), Pending(t)' PROVE FALSE
    BY DEF Asking, Of
  <2>1. t \in Sources /\ t[1] = k /\ Asks(t)'
    BY DEF Of, Pending
  <2>2. CASE t = s
    <3>1. CASE s[1] = Sub
      <4>1. s[1] # Sio /\ causes[s] \subseteq {"req"}
        BY <3>1, DaisyChainAssumption DEF Sub, Sio, DevTypes, CausesOf
      <4>2. causes'[s] = {}
        BY <1>3, <4>1 DEF DevTypes
      <4> QED BY <2>1, <2>2, <4>1, <4>2 DEF Asks, Active
    <3>2. CASE s[1] # Sub
      <4>1. inService'[s] /\ s \in Of(s[1])
        BY <1>6, <3>2 DEF Of
      <4> QED BY <2>2, <4>1, BeforeTotal DEF Pending
    <3> QED BY <3>1, <3>2
  <2>3. CASE t # s
    <3>1. Before(s, t)
      BY <1>8, <2>1, <2>3
    <3>2. s[1] # Sub
      <4>1. ~(Sub < k) /\ (k = Sub => t[2] = 0)
        BY <2>1, SourcesAre, DaisyChainAssumption DEF Devices, Sub
      <4>2. s[1] = Sub => s[2] = 0
        BY SourcesAre
      <4> QED BY <2>1, <3>1, <4>1, <4>2 DEF Before
    <3>3. inService'[s]
      BY <1>6, <3>2
    <3>4. CASE s[1] = k
      <4>1. s \in Of(t[1])
        BY <2>1, <3>4 DEF Of
      <4> QED BY <2>1, <3>1, <3>3, <4>1, BeforeTotal DEF Pending
    <3>5. CASE s[1] < k
      <4> DEFINE b == [m \in Devices |-> Serving(m)']
      <4>1. b \in [Devices -> BOOLEAN] /\ \A m \in Devices : b[m] <=> Serving(m)'
        BY DEF Serving
      <4>2. s[1] \in Devices /\ Serving(s[1])'
        BY <3>3, SourcesAre DEF Serving, Of
      <4>3. iei' \in [Devices -> BOOLEAN] /\ oei' \in [Devices -> BOOLEAN]
        BY <1>5, UpdateTypes DEF ChainInv
      <4> HIDE DEF b
      <4>4. iei'[k] <=> \A m \in Devices : m < k => ~b[m]
        BY <1>9, <4>1, <4>3, EnabledMeansFree DEF IeiLocal, OeiLocal
      <4> QED BY <3>5, <4>1, <4>2, <4>4
    <3> QED BY <2>1, <3>1, <3>4, <3>5 DEF Before
  <2> QED BY <2>2, <2>3
<1>11. LineLocal'
  BY <1>2, <1>10 DEF LineLocal
<1>12. Bools'
  BY <1>2, <1>5, UpdateTypes DEF ChainInv, Bools
<1>13. VecLocal'
  BY <1>2, SourcesAre DEF VecLocal
<1> QED BY <1>7, <1>9, <1>11, <1>12, <1>13 DEF ChainInv

LEMMA VectorFollows ==
  ASSUME ChainInv
  PROVE  VectorNamesCause
<1> SUFFICES ASSUME line[Sio]
             PROVE  vec = {p \in Of(Sio) \X SioCauses :
                             /\ IsFirst(p[1], {s \in Of(Sio) : Asks(s)})
                             /\ IsTop(p[2], Active(p[1]))}
  BY DEF VectorNamesCause
<1>1. Asking(Sio) /\ vec = Named
  BY SourcesAre DEF ChainInv, LineLocal, VecLocal
<1>2. PICK t \in Of(Sio) : Pending(t)
  BY <1>1 DEF Asking
<1>3. Asks(t) /\ \A u \in Of(Sio) : inService[u] => Before(t, u)
  BY <1>2 DEF Pending, Of
<1>4. ASSUME NEW s \in Of(Sio), IsFirst(s, {u \in Of(Sio) : Asks(u)})
      PROVE  Pending(s)
  <2>1. Asks(s) /\ (s = t \/ Before(s, t))
    BY <1>2, <1>3, <1>4, BeforeTotal DEF IsFirst, Of
  <2>2. ASSUME NEW u \in Of(Sio), inService[u] PROVE Before(s, u)
    <3>1. Before(t, u) /\ s \in Sources /\ t \in Sources /\ u \in Sources
      BY <1>3, <2>2 DEF Of
    <3>2. s[1] = Sio /\ t[1] = Sio /\ u[1] = Sio
      BY DEF Of
    <3>3. s[2] \in Nat /\ t[2] \in Nat /\ u[2] \in Nat /\ Sio \in Nat
      BY <3>1, SourcesAre, DaisyChainAssumption DEF Sio
    <3> QED BY <2>1, <3>1, <3>2, <3>3 DEF Before
  <2>3. s[1] = Sio
    BY DEF Of
  <2> QED BY <2>1, <2>2, <2>3 DEF Pending
<1> QED BY <1>1, <1>4 DEF Named

-----------------------------------------------------------------------------
(* The CPU and the program.                                                *)

LEMMA Popped ==
  ASSUME CpuTypes, stack # <<>>, stack' = SubSeq(stack, 1, Len(stack) - 1)
  PROVE  /\ stack' \in Seq(Sources \union {Nmi}) /\ Len(stack') = Len(stack) - 1
         /\ \A i \in 1..(Len(stack) - 1) : stack'[i] = stack[i]
<1> DEFINE S == Sources \union {Nmi}
<1>1. stack \in Seq(S) /\ Len(stack) \in Nat /\ Len(stack) > 0
  BY DEF CpuTypes
<1> HIDE DEF S
<1>2. \A i \in 1..(Len(stack) - 1) : stack[i] \in S
  BY <1>1
<1>3. PICK n \in Nat : n = Len(stack) - 1 /\ n \in Int /\ n < Len(stack)
  BY <1>1
<1>4. stack' = SubSeq(stack, 1, n)
  BY <1>3
<1>5. \A i \in 1..n : stack[i] \in S
  BY <1>2, <1>3
<1>6. /\ SubSeq(stack, 1, n) \in Seq(S)
      /\ Len(SubSeq(stack, 1, n)) = IF 1 <= n THEN n - 1 + 1 ELSE 0
      /\ \A i \in 1..(n - 1 + 1) : SubSeq(stack, 1, n)[i] = stack[1 + i - 1]
  BY <1>3, <1>5, SubSeqProperties
<1>7. Len(stack') = n
  BY <1>3, <1>4, <1>6
<1>8. \A i \in 1..n : stack'[i] = stack[i]
  BY <1>3, <1>4, <1>6
<1> QED BY <1>3, <1>4, <1>6, <1>7, <1>8 DEF S

LEMMA Pushed ==
  ASSUME CpuTypes, NEW h \in Sources \union {Nmi}, stack' = Append(stack, h)
  PROVE  /\ stack' \in Seq(Sources \union {Nmi}) /\ Len(stack') = Len(stack) + 1
         /\ \A i \in 1..Len(stack) : stack'[i] = stack[i]
         /\ stack'[Len(stack) + 1] = h
BY DEF CpuTypes

LEMMA CpuTypesKept ==
  ASSUME CpuTypes, DevTypes, ChainInv, [ChainNext]_intVars
  PROVE  CpuTypes'
<1>1. CASE UNCHANGED <<cpuVars, progVars>>
  BY <1>1 DEF CpuTypes, cpuVars, progVars
<1>2. CASE DeviceStep \/ UNCHANGED intVars
  BY <1>1, <1>2, DevicesKeepChain DEF intVars
<1>3. ASSUME NEW e \in BOOLEAN, Op(e), iff1' \in BOOLEAN, iff2' \in BOOLEAN,
             cut' \in BOOLEAN, UNCHANGED nests,
             UNCHANGED stack \/ (stack # <<>> /\ stack' = SubSeq(stack, 1, Len(stack) - 1))
      PROVE  CpuTypes'
  <2>1. stack' \in Seq(Sources \union {Nmi})
    BY <1>3, Popped DEF CpuTypes
  <2> QED BY <1>3, <2>1 DEF CpuTypes, Op
<1>4. CASE Execute
  <2>1. ASSUME Plain PROVE CpuTypes'
    BY <1>3, <2>1 DEF Plain, CpuTypes, progVars
  <2>2. CASE Instruction \/ SubRead
    BY <2>1, <2>2 DEF Instruction, SubRead
  <2>3. CASE Ei \/ Di
    BY <1>3, <2>3 DEF Ei, Di, CpuTypes, progVars
  <2>4. CASE Retn \/ Reti \/ RetFromSub
    BY <1>3, <2>4 DEF Retn, Reti, Return, RetFromSub, CpuTypes
  <2>5. ASSUME NEW s \in Sources, CtcControl(s) \/ SioChannelReset(s) \/ DmaControl(s)
        PROVE  CpuTypes'
    BY <2>1, <2>5 DEF CtcControl, SioChannelReset, DmaControl
  <2>6. ASSUME NEW s \in Sources, SioEndOfInterrupt(s) PROVE CpuTypes'
    BY <1>3, <2>6 DEF SioEndOfInterrupt, CpuTypes
  <2>7. ASSUME NEW s \in Sources, DmaReset(s) PROVE CpuTypes'
    <3>1. cut' \in BOOLEAN
      BY <2>7 DEF DmaReset, CpuTypes, DevTypes
    <3> QED BY <1>3, <2>7, <3>1 DEF DmaReset, CpuTypes
  <2>8. ASSUME NEW s \in Sources, NEW c, SioWithdraw(s, c) \/ WriteWr1(s, c)
        PROVE  CpuTypes'
    BY <2>1, <2>8 DEF SioWithdraw, WriteWr1
  <2> QED BY <1>4, <2>2, <2>3, <2>4, <2>5, <2>6, <2>7, <2>8 DEF Execute
<1>5. CASE CheckInterrupt
  <2>1. CASE TakeNmi
    <3>1. stack' \in Seq(Sources \union {Nmi})
      BY <2>1, Pushed DEF TakeNmi, Begin
    <3> QED BY <2>1, <3>1 DEF TakeNmi, Begin, CpuTypes
  <2>2. CASE NothingToTake
    BY <2>2 DEF NothingToTake, CpuTypes, progVars
  <2>3. ASSUME NEW s \in Sources, TakeInterrupt(s) PROVE CpuTypes'
    <3>1. stack' \in Seq(Sources \union {Nmi})
      BY <2>3, Pushed DEF TakeInterrupt, Begin
    <3> QED BY <2>3, <3>1 DEF TakeInterrupt, Begin, CpuTypes
  <2> QED BY <1>5, <2>1, <2>2, <2>3 DEF CheckInterrupt
<1>6. CASE SpecialReset
  BY <1>6 DEF SpecialReset, CpuTypes, progVars
<1>7. CASE Reset
  <2>1. <<>> \in Seq(Sources \union {Nmi})
    OBVIOUS
  <2> QED BY <1>7, <2>1 DEF Reset, CpuTypes
<1> QED BY <1>2, <1>4, <1>5, <1>6, <1>7 DEF ChainNext

-----------------------------------------------------------------------------
(* The chain is current.                                                   *)

Inv == DevTypes /\ CpuTypes /\ ChainInv

LEMMA InitInv == ChainInit => Inv
<1> SUFFICES ASSUME ChainInit PROVE Inv
  OBVIOUS
<1> USE SourcesAre DEF ChainInit
<1>1. DevTypes
  BY DEF DevTypes
<1>2. CpuTypes
  <2>1. <<>> \in Seq(Sources \union {Nmi})
    OBVIOUS
  <2> QED BY <2>1 DEF CpuTypes
<1>3. ASSUME NEW d \in Devices PROVE ~Serving(d) /\ ~Asking(d)
  <2>1. \A s \in Of(d) : ~inService[s] /\ causes[s] = {}
    OBVIOUS
  <2>2. \A s \in Of(d) : ~Asks(s)
    BY <2>1 DEF Asks, Active
  <2> QED BY <2>1, <2>2 DEF Serving, Asking, Pending
<1>4. Bools
  BY DEF Bools
<1>5. IeiLocal
  BY DaisyChainAssumption DEF IeiLocal, Devices, Sub
<1>6. VecLocal
  BY DEF VecLocal
<1> QED BY <1>1, <1>2, <1>3, <1>4, <1>5, <1>6 DEF Inv, ChainInv, OeiLocal, LineLocal

LEMMA NextInv == Inv /\ [ChainNext]_intVars => Inv'
<1> SUFFICES ASSUME Inv, [ChainNext]_intVars PROVE Inv'
  OBVIOUS
<1> USE DEF Inv
<1>1. CpuTypes'
  BY CpuTypesKept
<1>2. CASE UNCHANGED devVars
  BY <1>1, <1>2, ChainStutter
<1>3. CASE DeviceStep
  BY <1>1, <1>3, DevicesKeepChain
<1>4. CASE Execute
  BY <1>1, <1>4, ProgramKeepsChain
<1>5. CASE CheckInterrupt
  <2>1. CASE TakeNmi \/ NothingToTake
    BY <1>2, <2>1 DEF TakeNmi, NothingToTake
  <2>2. ASSUME NEW s \in Sources, TakeInterrupt(s) PROVE Inv'
    BY <1>1, <2>2, TakeStep
  <2> QED BY <1>5, <2>1, <2>2 DEF CheckInterrupt
<1>6. CASE Reset
  BY <1>1, <1>6, ResetStep
<1> QED BY <1>2, <1>3, <1>4, <1>5, <1>6 DEF ChainNext, SpecialReset, intVars

LEMMA Invariance == ChainSpec => []Inv
BY InitInv, NextInv, PTL DEF ChainSpec

\* The state of the machine's interrupts has its type.
THEOREM TypeCorrect == ChainSpec => []ChainTypeOK
<1>1. Inv => ChainTypeOK
  BY TypesAre DEF Inv, ChainInv
<1> QED BY <1>1, Invariance, PTL

\* For any number of sound boards and channels, no change in one device is
\* missed by another: the enable lines and the CPU's request bits are what
\* the devices' states give, and an acknowledge that they lead to finds a
\* device that asks.
THEOREM ChainIsCurrent == ChainSpec => []AcksAreTrue
<1>1. Inv => AcksAreTrue
  BY LinesFollow, WalkFinds DEF Inv, AcksAreTrue
<1> QED BY <1>1, Invariance, PTL

\* The vector that the SIO has made names the cause that the acknowledge,
\* which looks at the flags anew, will take.
THEOREM VectorIsRight == ChainSpec => []VectorNamesCause
<1>1. Inv => VectorNamesCause
  BY VectorFollows DEF Inv
<1> QED BY <1>1, Invariance, PTL

-----------------------------------------------------------------------------
(* Handlers nest as the chain's priorities do.                             *)

\* A handler was interrupted by a source before its own, but the sub CPU's,
\* which is not in service, by the sub CPU as well.
Ordered ==
  ~cut => \A i, j \in DOMAIN stack :
            i < j /\ stack[i] # Nmi /\ stack[j] # Nmi =>
              Before(stack[j], stack[i]) \/ (stack[i] = SubSource /\ stack[j] = SubSource)

NestInv == ServiceIsNested /\ Ordered

LEMMA SubIsLast ==
  ASSUME NEW s \in Sources
  PROVE  ~Before(SubSource, s) /\ (s # SubSource => Before(s, SubSource))
<1>1. ~Before(SubSource, s)
  <2>1. s[1] \in Devices /\ s[2] \in Nat /\ (s[1] = Sub => s[2] = 0)
    BY SourcesAre
  <2> QED BY <2>1, DaisyChainAssumption DEF Before, SubSource, Devices, Sub
<1> QED BY <1>1, BeforeTotal, SourcesAre

\* What the program returns from is what RETI finds in service first.
LEMMA InnermostFirst ==
  ASSUME DevTypes, CpuTypes, NestInv, ~cut, stack # <<>>, Innermost # Nmi
  PROVE  /\ Innermost \in Sources
         /\ Innermost = SubSource => InServiceNow = {}
         /\ Innermost # SubSource => IsFirst(Innermost, InServiceNow)
<1> DEFINE n == Len(stack)
<1>1. n \in Nat /\ n \in DOMAIN stack /\ DOMAIN stack = 1..n
      /\ \A i \in DOMAIN stack : stack[i] \in Sources \union {Nmi}
  BY DEF CpuTypes
<1>2. Innermost \in Sources /\ Innermost = stack[n]
  BY <1>1 DEF Innermost
<1> HIDE DEF n
<1>3. ASSUME NEW s \in InServiceNow, s # Innermost
      PROVE  Before(Innermost, s)
  <2>1. s \in Sources \ {SubSource} /\ inService[s] /\ s # Nmi
    BY SourcesAre DEF InServiceNow, DevTypes
  <2>2. PICK i \in DOMAIN stack : stack[i] = s
    BY <2>1 DEF NestInv, ServiceIsNested
  <2>3. i < n
    BY <1>1, <1>2, <1>3, <2>2
  <2> QED BY <1>1, <1>2, <2>1, <2>2, <2>3 DEF NestInv, Ordered
<1>4. CASE Innermost = SubSource
  <2>1. SubSource \notin InServiceNow
    BY DEF InServiceNow, DevTypes
  <2>2. ASSUME NEW s \in InServiceNow PROVE FALSE
    <3>1. Before(SubSource, s) /\ s \in Sources
      BY <1>3, <1>4, <2>1 DEF InServiceNow
    <3> QED BY <3>1, SubIsLast
  <2> QED BY <1>2, <1>4, <2>2
<1>5. CASE Innermost # SubSource
  <2>1. Innermost \in InServiceNow
    BY <1>1, <1>2, <1>5 DEF NestInv, ServiceIsNested, InServiceNow
  <2>2. ASSUME NEW s \in InServiceNow PROVE ~Before(s, Innermost)
    BY <1>2, <1>3, BeforeTotal DEF InServiceNow
  <2> QED BY <1>2, <1>5, <2>1, <2>2 DEF IsFirst
<1> QED BY <1>2, <1>4, <1>5

\* The innermost handler returns, and its service ends.
LEMMA PopNested ==
  ASSUME DevTypes, CpuTypes, NestInv, ~cut, stack # <<>>,
         stack' = SubSeq(stack, 1, Len(stack) - 1),
         \/ Innermost \in {Nmi, SubSource} /\ inService' = inService
         \/ /\ Innermost \in Sources \ {SubSource}
            /\ inService' = [inService EXCEPT ![Innermost] = FALSE]
  PROVE  NestInv'
<1> DEFINE n == Len(stack)
<1>1. n \in Nat /\ n \in DOMAIN stack /\ DOMAIN stack = 1..n /\ Innermost = stack[n]
  BY DEF CpuTypes, Innermost
<1>2. DOMAIN stack' = 1..(n - 1) /\ \A i \in DOMAIN stack' : stack'[i] = stack[i]
  BY Popped
<1> HIDE DEF n
<1>3. \A i \in DOMAIN stack' : i \in DOMAIN stack /\ i < n
  BY <1>1, <1>2
<1>4. Ordered'
  BY <1>2, <1>3 DEF NestInv, Ordered
<1>5. ASSUME NEW s \in Sources \ {SubSource}
      PROVE  inService'[s] <=> \E i \in DOMAIN stack' : stack'[i] = s
  <2>1. inService[s] <=> \E i \in DOMAIN stack : stack[i] = s
    BY DEF NestInv, ServiceIsNested
  <2>2. CASE s = Innermost
    <3>1. ~inService'[s]
      BY <2>2, SourcesAre DEF DevTypes
    <3>2. ASSUME NEW i \in DOMAIN stack', stack'[i] = s PROVE FALSE
      <4>1. stack[i] = stack[n] /\ i \in DOMAIN stack /\ i < n /\ stack[n] = s /\ s # Nmi
        BY <1>1, <1>2, <1>3, <2>2, <3>2, SourcesAre
      <4>2. Before(s, s)
        BY <1>1, <4>1 DEF NestInv, Ordered
      <4> QED BY <4>2, BeforeTotal
    <3> QED BY <3>1, <3>2
  <2>3. CASE s # Innermost
    <3>1. inService'[s] <=> inService[s]
      BY <2>3 DEF DevTypes
    <3>2. ASSUME NEW i \in DOMAIN stack, stack[i] = s PROVE i \in DOMAIN stack'
      BY <1>1, <1>2, <2>3, <3>2
    <3> QED BY <1>2, <1>3, <2>1, <3>1, <3>2
  <2> QED BY <2>2, <2>3
<1> QED BY <1>4, <1>5 DEF NestInv, ServiceIsNested

LEMMA TakeNested ==
  ASSUME Inv, NestInv, ~cut, NEW s \in Sources, TakeInterrupt(s)
  PROVE  NestInv'
<1> DEFINE n == Len(stack)
<1>1. n \in Nat /\ DOMAIN stack = 1..n /\ DOMAIN stack' = 1..(n + 1)
      /\ (\A i \in DOMAIN stack : stack'[i] = stack[i]) /\ stack'[n + 1] = s
      /\ \A i \in DOMAIN stack : stack[i] \in Sources \union {Nmi}
  BY Pushed DEF Inv, CpuTypes, TakeInterrupt, Begin
<1> HIDE DEF n
<1>2. Asks(s) /\ ~inService[s] /\ IsFirst(s, Heard)
  BY WalkFinds DEF Inv, NoSpuriousAck, TakeInterrupt
<1>3. inService' = [inService EXCEPT ![s] = s[1] # Sub]
  BY <1>2 DEF TakeInterrupt, Acknowledge, Acked
<1>4. s[1] # Sub <=> s # SubSource
  <2>1. s = <<s[1], s[2]>> /\ (s[1] = Sub => s[2] = 0)
    BY SourcesAre
  <2> QED BY <2>1 DEF SubSource
<1>5. ASSUME NEW t \in Sources \ {SubSource}
      PROVE  inService'[t] <=> \E i \in DOMAIN stack' : stack'[i] = t
  <2>1. inService[t] <=> \E i \in DOMAIN stack : stack[i] = t
    BY DEF NestInv, ServiceIsNested
  <2>2. inService'[t] <=> t = s \/ inService[t]
    BY <1>2, <1>3, <1>4 DEF Inv, DevTypes
  <2>3. (\E i \in DOMAIN stack' : stack'[i] = t)
          <=> t = s \/ \E i \in DOMAIN stack : stack[i] = t
    BY <1>1
  <2> QED BY <2>1, <2>2, <2>3
<1>6. ASSUME NEW i \in DOMAIN stack, stack[i] # Nmi
      PROVE  Before(s, stack[i]) \/ (stack[i] = SubSource /\ s = SubSource)
  <2>1. stack[i] \in Sources
    BY <1>1, <1>6
  <2>2. CASE stack[i] = SubSource
    BY <2>2, SubIsLast
  <2>3. CASE stack[i] # SubSource
    <3>1. inService[stack[i]]
      BY <2>1, <2>3 DEF NestInv, ServiceIsNested
    <3>2. stack[i] \in Heard /\ stack[i] # s
      BY <1>2, <2>1, <3>1 DEF Heard
    <3> QED BY <1>2, <2>1, <3>2, BeforeTotal DEF IsFirst
  <2> QED BY <2>2, <2>3
<1>7. ASSUME NEW i \in DOMAIN stack', NEW j \in DOMAIN stack', i < j,
             stack'[i] # Nmi, stack'[j] # Nmi
      PROVE  Before(stack'[j], stack'[i]) \/ (stack'[i] = SubSource /\ stack'[j] = SubSource)
  <2>1. i \in DOMAIN stack /\ stack'[i] = stack[i]
    BY <1>1, <1>7
  <2>2. CASE j = n + 1
    BY <1>1, <1>6, <1>7, <2>1, <2>2
  <2>3. CASE j # n + 1
    <3>1. j \in DOMAIN stack /\ stack'[j] = stack[j]
      BY <1>1, <2>3
    <3> QED BY <1>7, <2>1, <3>1 DEF NestInv, Ordered
  <2> QED BY <2>2, <2>3
<1> QED BY <1>5, <1>7 DEF NestInv, ServiceIsNested, Ordered

LEMMA NextNested ==
  ASSUME Inv, NestInv, [ChainNext]_intVars
  PROVE  NestInv'
<1>1. CASE cut'
  BY <1>1 DEF NestInv, ServiceIsNested, Ordered
<1>2. ASSUME UNCHANGED <<inService, stack, cut>> PROVE NestInv'
  BY <1>2 DEF NestInv, ServiceIsNested, Ordered
<1>3. CASE DeviceStep
  BY <1>2, <1>3 DEF DeviceStep, SubRaise, CtcTick, DmaRequest, SioRaise, Raise, progVars
<1>4. CASE Reset
  <2>1. stack' = <<>> /\ inService' = [s \in Sources |-> FALSE] /\ DOMAIN stack' = {}
    BY <1>4 DEF Reset
  <2> QED BY <2>1 DEF NestInv, ServiceIsNested, Ordered
<1>5. CASE CheckInterrupt
  <2>1. CASE TakeNmi
    <3>1. /\ DOMAIN stack' = 1..(Len(stack) + 1) /\ DOMAIN stack = 1..Len(stack)
          /\ Len(stack) \in Nat
          /\ (\A i \in DOMAIN stack : stack'[i] = stack[i])
          /\ stack'[Len(stack) + 1] = Nmi
      BY <2>1, Pushed DEF TakeNmi, Begin, Inv, CpuTypes
    <3>2. UNCHANGED <<inService, cut>>
      BY <2>1 DEF TakeNmi, Begin, devVars
    <3>3. \A i \in DOMAIN stack' : stack'[i] # Nmi => i \in DOMAIN stack
      BY <3>1
    <3>4. ASSUME NEW s \in Sources
          PROVE  (\E i \in DOMAIN stack' : stack'[i] = s) <=> \E i \in DOMAIN stack : stack[i] = s
      <4>1. s # Nmi
        BY SourcesAre
      <4>2. \A i \in DOMAIN stack : i \in DOMAIN stack'
        BY <3>1
      <4> QED BY <3>1, <3>3, <4>1, <4>2
    <3>5. Ordered'
      BY <3>1, <3>2, <3>3 DEF NestInv, Ordered
    <3> QED BY <3>2, <3>4, <3>5 DEF NestInv, ServiceIsNested
  <2>2. CASE NothingToTake
    BY <1>2, <2>2 DEF NothingToTake, devVars, progVars
  <2>3. ASSUME NEW s \in Sources, TakeInterrupt(s), ~cut' PROVE NestInv'
    <3>1. ~cut
      BY <2>3 DEF TakeInterrupt, Begin
    <3> QED BY <2>3, <3>1, TakeNested
  <2> QED BY <1>1, <1>5, <2>1, <2>2, <2>3 DEF CheckInterrupt
<1>6. CASE Execute
  <2> SUFFICES ASSUME ~cut' PROVE NestInv'
    BY <1>1
  <2> USE DEF Inv
  <2>1. CASE Instruction \/ Ei \/ Di
    BY <1>2, <2>1 DEF Instruction, Ei, Di, Plain, devVars, progVars
  <2>2. ASSUME NEW s \in Sources, Plain, UNCHANGED inService PROVE NestInv'
    BY <1>2, <2>2 DEF Plain, progVars
  <2>3. CASE SubRead
    BY <2>2, <2>3, SourcesAre DEF SubRead, Clear
  <2>4. ASSUME NEW s \in Sources, NEW c,
               CtcControl(s) \/ SioChannelReset(s) \/ DmaControl(s) \/ SioWithdraw(s, c)
                 \/ WriteWr1(s, c)
        PROVE  NestInv'
    BY <2>2, <2>4 DEF CtcControl, SioChannelReset, DmaControl, SioWithdraw, WriteWr1, Clear
  <2>5. ASSUME NEW s \in Sources, DmaReset(s) PROVE NestInv'
    <3>1. cut' = (cut \/ inService[s]) /\ UNCHANGED stack
          /\ inService' = [inService EXCEPT ![s] = FALSE]
      BY <2>5 DEF DmaReset
    <3>2. ~cut /\ ~inService[s]
      BY <3>1
    <3>3. inService' = inService
      BY <3>1, <3>2 DEF DevTypes
    <3> QED BY <3>1, <3>2, <3>3 DEF NestInv, ServiceIsNested, Ordered
  <2>6. CASE Retn \/ RetFromSub
    <3>1. CASE Retn
      <4>1. /\ ~cut /\ stack # <<>> /\ Innermost = Nmi
            /\ stack' = SubSeq(stack, 1, Len(stack) - 1) /\ inService' = inService
        BY <3>1 DEF Retn, Return, devVars
      <4> QED BY <4>1, PopNested
    <3>2. CASE RetFromSub
      <4>1. /\ ~cut /\ stack # <<>> /\ Innermost = SubSource
            /\ stack' = SubSeq(stack, 1, Len(stack) - 1) /\ inService' = inService
        BY <3>2 DEF RetFromSub, devVars
      <4> QED BY <4>1, PopNested
    <3> QED BY <2>6, <3>1, <3>2
  <2>7. ASSUME NEW s \in Sources, SioEndOfInterrupt(s) PROVE NestInv'
    <3>1. /\ ~cut /\ stack # <<>> /\ stack' = SubSeq(stack, 1, Len(stack) - 1)
          /\ Innermost[1] = Sio /\ inService[Innermost]
          /\ IsFirst(s, {u \in Of(Sio) : inService[u]})
          /\ inService' = [inService EXCEPT ![s] = FALSE]
      BY <2>7 DEF SioEndOfInterrupt
    <3>2. Innermost # Nmi /\ Innermost # SubSource
      BY <3>1, DaisyChainAssumption DEF Nmi, SubSource, Sio, Sub
    <3>3. Innermost \in Sources /\ IsFirst(Innermost, InServiceNow)
      BY <3>1, <3>2, InnermostFirst
    <3>4. s \in Sources /\ s \in InServiceNow
      BY <3>1 DEF IsFirst, Of, InServiceNow
    <3>5. Innermost \in {u \in Of(Sio) : inService[u]}
      BY <3>1, <3>3 DEF Of
    <3>6. s = Innermost
      BY <3>1, <3>3, <3>4, <3>5, BeforeTotal DEF IsFirst
    <3> QED BY <3>1, <3>2, <3>3, <3>6, PopNested
  <2>8. CASE Reti
    <3>1. /\ ~cut /\ stack # <<>> /\ Innermost # Nmi
          /\ stack' = SubSeq(stack, 1, Len(stack) - 1)
      BY <2>8 DEF Reti, Return
    <3>2. /\ Innermost \in Sources
          /\ Innermost = SubSource => InServiceNow = {}
          /\ Innermost # SubSource => IsFirst(Innermost, InServiceNow)
      BY <3>1, InnermostFirst
    <3>3. ASSUME NEW s \in Sources, EndService(s) PROVE NestInv'
      <4>1. IsFirst(s, InServiceNow) /\ inService' = [inService EXCEPT ![s] = FALSE]
        BY <3>3 DEF EndService, Ended
      <4>2. s \in InServiceNow /\ Innermost # SubSource
        BY <3>2, <4>1 DEF IsFirst
      <4>3. s = Innermost
        BY <3>2, <4>1, <4>2, BeforeTotal DEF IsFirst
      <4> QED BY <3>1, <3>2, <4>1, <4>2, <4>3, PopNested
    <3>4. CASE InServiceNow = {} /\ UNCHANGED inService
      <4>1. Innermost = SubSource
        BY <3>2, <3>4 DEF IsFirst
      <4> QED BY <3>1, <3>4, <4>1, PopNested
    <3> QED BY <2>8, <3>3, <3>4 DEF Reti
  <2> QED BY <1>6, <2>1, <2>3, <2>4, <2>5, <2>6, <2>7, <2>8 DEF Execute
<1>7. CASE SpecialReset \/ UNCHANGED intVars
  BY <1>2, <1>7 DEF SpecialReset, intVars, devVars, progVars
<1> QED BY <1>3, <1>4, <1>5, <1>6, <1>7 DEF ChainNext

\* However the program nests its handlers, and whatever the devices do
\* meanwhile, a return ends the service of the handler that executes it.
THEOREM ServicesNest == ChainSpec => []ServiceIsNested
<1>1. ChainInit => NestInv
  <2> SUFFICES ASSUME ChainInit PROVE NestInv
    OBVIOUS
  <2>1. stack = <<>> /\ DOMAIN stack = {} /\ inService = [s \in Sources |-> FALSE]
    BY DEF ChainInit
  <2> QED BY <2>1 DEF NestInv, ServiceIsNested, Ordered
<1>2. Inv /\ NestInv /\ [ChainNext]_intVars => NestInv'
  BY NextNested
<1>3. NestInv => ServiceIsNested
  BY DEF NestInv
<1> QED BY <1>1, <1>2, <1>3, Invariance, PTL DEF ChainSpec

-----------------------------------------------------------------------------
(* Handlers that do not nest.                                              *)

Handling == \E i \in DOMAIN stack : stack[i] # Nmi

\* While a handler runs, interrupts are off, or the instruction behind EI
\* comes first; and this one is never the return of an NMI's handler.
Quiet == ~nests /\ Handling => ((iff1 \/ iff2) => afterEi)
EiNotInNmi == ~nests /\ afterEi /\ stack # <<>> => Innermost # Nmi

PileInv == HandlersDoNotPile /\ Quiet /\ EiNotInNmi

LEMMA PopPile ==
  ASSUME CpuTypes, PileInv, ~nests, stack # <<>>,
         stack' = SubSeq(stack, 1, Len(stack) - 1)
  PROVE  /\ \A i, j \in DOMAIN stack' :
              stack'[i] # Nmi /\ stack'[j] # Nmi => i = j
         /\ Innermost # Nmi => ~Handling'
         /\ Handling' => Handling
<1> DEFINE n == Len(stack)
<1>1. n \in Nat /\ n \in DOMAIN stack /\ DOMAIN stack = 1..n /\ Innermost = stack[n]
  BY DEF CpuTypes, Innermost
<1>2. DOMAIN stack' = 1..(n - 1) /\ \A i \in DOMAIN stack' : stack'[i] = stack[i]
  BY Popped
<1> HIDE DEF n
<1>3. \A i \in DOMAIN stack' : i \in DOMAIN stack /\ i # n
  BY <1>1, <1>2
<1>4. \A i, j \in DOMAIN stack : stack[i] # Nmi /\ stack[j] # Nmi => i = j
  BY DEF PileInv, HandlersDoNotPile
<1> QED BY <1>1, <1>2, <1>3, <1>4 DEF Handling

LEMMA NextPile ==
  ASSUME CpuTypes, PileInv, [ChainNext]_intVars
  PROVE  PileInv'
<1>1. CASE nests'
  BY <1>1 DEF PileInv, HandlersDoNotPile, Quiet, EiNotInNmi
<1> SUFFICES ASSUME ~nests' PROVE PileInv'
  BY <1>1
<1>2. ASSUME UNCHANGED stack, ~nests,
             (Handling => (iff1' \/ iff2' => afterEi')),
             (afterEi' /\ stack # <<>> => Innermost # Nmi)
      PROVE  PileInv'
  <2>1. Handling' <=> Handling
    BY <1>2 DEF Handling
  <2>2. Innermost' = Innermost
    BY <1>2 DEF Innermost
  <2> QED BY <1>2, <2>1, <2>2 DEF PileInv, HandlersDoNotPile, Quiet, EiNotInNmi
<1>3. ASSUME UNCHANGED <<iff1, iff2, afterEi, stack, nests>> PROVE PileInv'
  <2>1. ~nests /\ iff1' = iff1 /\ iff2' = iff2 /\ afterEi' = afterEi /\ stack' = stack
    BY <1>3
  <2> QED BY <1>2, <2>1 DEF PileInv, Quiet, EiNotInNmi
<1>4. ASSUME Op(FALSE), MayGoOn, UNCHANGED <<iff1, iff2, stack, nests>> PROVE PileInv'
  <2>1. ~nests /\ iff1' = iff1 /\ iff2' = iff2 /\ ~afterEi' /\ stack' = stack
    BY <1>4 DEF Op
  <2>2. Handling => stack # <<>>
    BY DEF Handling
  <2>3. Handling => ~iff1 /\ ~iff2
    BY <1>4, <2>1, <2>2 DEF MayGoOn, PileInv, Quiet
  <2> QED BY <1>2, <2>1, <2>3
<1>5. ASSUME Op(FALSE), stack # <<>>, stack' = SubSeq(stack, 1, Len(stack) - 1), ~nests,
             Innermost = Nmi => iff1' = iff2 /\ iff2' = iff2
      PROVE  PileInv'
  <2>1. /\ \A i, j \in DOMAIN stack' :
              stack'[i] # Nmi /\ stack'[j] # Nmi => i = j
        /\ Innermost # Nmi => ~Handling'
        /\ Handling' => Handling
    BY <1>5, PopPile
  <2>2. ~afterEi'
    BY <1>5 DEF Op
  <2>3. Innermost = Nmi => ~afterEi
    BY <1>5 DEF PileInv, EiNotInNmi
  <2>4. Innermost = Nmi /\ Handling => ~iff2
    BY <1>5, <2>3 DEF PileInv, Quiet
  <2>5. Handling' => ~iff1' /\ ~iff2'
    BY <1>5, <2>1, <2>3, <2>4
  <2> QED BY <2>1, <2>2, <2>5 DEF PileInv, HandlersDoNotPile, Quiet, EiNotInNmi
<1>6. CASE DeviceStep \/ SpecialReset \/ UNCHANGED intVars
  BY <1>3, <1>6 DEF DeviceStep, SubRaise, CtcTick, DmaRequest, SioRaise, Raise,
     SpecialReset, intVars, cpuVars, progVars
<1>7. CASE Reset
  <2>1. stack' = <<>> /\ DOMAIN stack' = {}
    BY <1>7 DEF Reset
  <2> QED BY <2>1 DEF PileInv, HandlersDoNotPile, Quiet, EiNotInNmi, Handling
<1>8. CASE CheckInterrupt
  <2>1. CASE NothingToTake
    BY <1>3, <2>1 DEF NothingToTake, progVars
  <2>2. ASSUME NEW h \in Sources \union {Nmi}, Begin(h), ~afterEi, ~iff1',
               (h # Nmi => iff1 /\ ~iff2'), (h = Nmi => iff2' = iff2)
        PROVE  PileInv'
    <3>1. ~nests /\ ~afterEi'
      BY <2>2 DEF Begin
    <3>2. /\ DOMAIN stack' = 1..(Len(stack) + 1) /\ DOMAIN stack = 1..Len(stack)
          /\ Len(stack) \in Nat
          /\ (\A i \in DOMAIN stack : stack'[i] = stack[i])
          /\ stack'[Len(stack) + 1] = h
      BY <2>2, Pushed DEF Begin, CpuTypes
    <3>3. h # Nmi => ~Handling
      BY <2>2, <3>1 DEF PileInv, Quiet
    <3>4. \A i \in DOMAIN stack' : i = Len(stack) + 1 \/ i \in DOMAIN stack
      BY <3>2
    <3>5. HandlersDoNotPile'
      <4> SUFFICES ASSUME NEW i \in DOMAIN stack', NEW j \in DOMAIN stack',
                          stack'[i] # Nmi, stack'[j] # Nmi
                   PROVE  i = j
        BY DEF HandlersDoNotPile
      <4>1. CASE h # Nmi
        BY <3>2, <3>3, <3>4, <4>1 DEF Handling
      <4>2. CASE h = Nmi
        BY <3>1, <3>2, <3>4, <4>2 DEF PileInv, HandlersDoNotPile
      <4> QED BY <4>1, <4>2
    <3>6. h = Nmi /\ Handling' => Handling
      BY <3>2, <3>4 DEF Handling
    <3>7. Quiet'
      BY <2>2, <3>1, <3>6 DEF PileInv, Quiet
    <3> QED BY <3>1, <3>5, <3>7 DEF PileInv, EiNotInNmi
  <2>3. CASE TakeNmi
    <3>1. Begin(Nmi) /\ ~afterEi /\ ~iff1' /\ iff2' = iff2
      BY <2>3 DEF TakeNmi, Delayed
    <3> QED BY <2>2, <3>1
  <2>4. ASSUME NEW s \in Sources, TakeInterrupt(s) PROVE PileInv'
    <3>1. Begin(s) /\ ~afterEi /\ iff1 /\ ~iff1' /\ ~iff2' /\ s # Nmi
      BY <2>4, SourcesAre DEF TakeInterrupt, Delayed
    <3> QED BY <2>2, <3>1
  <2> QED BY <1>8, <2>1, <2>3, <2>4 DEF CheckInterrupt
<1>9. CASE Execute
  <2>1. ASSUME Plain PROVE PileInv'
    BY <1>4, <2>1 DEF Plain, progVars
  <2>2. CASE Instruction \/ SubRead
    BY <2>1, <2>2 DEF Instruction, SubRead
  <2>3. CASE Ei
    <3>1. stack' = stack /\ ~nests /\ afterEi' /\ (stack # <<>> => Innermost # Nmi)
      BY <2>3 DEF Ei, Op, progVars
    <3> QED BY <1>2, <3>1
  <2>4. CASE Di
    <3>1. stack' = stack /\ ~nests /\ ~afterEi' /\ ~iff1' /\ ~iff2'
      BY <2>4 DEF Di, Op, progVars
    <3> QED BY <1>2, <3>1
  <2>5. ASSUME Return PROVE PileInv'
    <3>1. /\ Op(FALSE) /\ stack # <<>> /\ stack' = SubSeq(stack, 1, Len(stack) - 1)
          /\ ~nests /\ iff1' = iff2 /\ iff2' = iff2
      BY <2>5 DEF Return
    <3> QED BY <1>5, <3>1
  <2>6. CASE RetFromSub
    <3>1. /\ Op(FALSE) /\ stack # <<>> /\ stack' = SubSeq(stack, 1, Len(stack) - 1)
          /\ ~nests /\ Innermost = SubSource
      BY <2>6 DEF RetFromSub
    <3> QED BY <1>5, <3>1, SourcesAre
  <2>9. ASSUME NEW s \in Sources, SioEndOfInterrupt(s) PROVE PileInv'
    <3>1. /\ Op(FALSE) /\ stack # <<>> /\ stack' = SubSeq(stack, 1, Len(stack) - 1)
          /\ ~nests /\ Innermost[1] = Sio
      BY <2>9 DEF SioEndOfInterrupt
    <3>2. Innermost # Nmi
      BY <3>1, DaisyChainAssumption DEF Nmi, Sio
    <3> QED BY <1>5, <3>1, <3>2
  <2>7. ASSUME NEW s \in Sources, NEW c,
               CtcControl(s) \/ SioChannelReset(s) \/ DmaControl(s) \/ SioWithdraw(s, c)
                 \/ WriteWr1(s, c)
        PROVE  PileInv'
    BY <2>1, <2>7 DEF CtcControl, SioChannelReset, DmaControl, SioWithdraw, WriteWr1
  <2>8. ASSUME NEW s \in Sources, DmaReset(s) PROVE PileInv'
    BY <1>4, <2>8 DEF DmaReset
  <2> QED BY <1>9, <2>2, <2>3, <2>4, <2>5, <2>6, <2>7, <2>8, <2>9 DEF Execute, Retn, Reti
<1> QED BY <1>6, <1>7, <1>8, <1>9 DEF ChainNext

\* A program whose handlers enable interrupts right before they return never
\* has two of them to return from: EI's delay keeps its stack bounded.
THEOREM HandlersAreSingle == ChainSpec => []HandlersDoNotPile
<1>1. ChainInit => PileInv
  <2> SUFFICES ASSUME ChainInit PROVE PileInv
    OBVIOUS
  <2>1. stack = <<>> /\ DOMAIN stack = {}
    BY DEF ChainInit
  <2> QED BY <2>1 DEF PileInv, HandlersDoNotPile, Quiet, EiNotInNmi, Handling
<1>2. Inv /\ PileInv /\ [ChainNext]_intVars => PileInv'
  BY NextPile DEF Inv
<1>3. PileInv => HandlersDoNotPile
  BY DEF PileInv
<1> QED BY <1>1, <1>2, <1>3, Invariance, PTL DEF ChainSpec

(***************************************************************************)
(* Transfers.  A state is that of the controller, the memory, the device   *)
(* and the log of what was moved; p is the transfer that the program set   *)
(* up, g how often it has said "go".                                       *)
(*                                                                         *)
(* The invariant, DmaInv, says where a transfer stands: the ports at the   *)
(* next byte (or at the one it stopped at), the count that of this go, less*)
(* that one, the bytes that were moved the source's and in their cells, and*)
(* every cell that is none of the target's as it was.  A step of the CPU   *)
(* runs the loop of do_dma to its end, which is an induction on the rounds *)
(* (LoopOK); a write to a register keeps it by what Rests and Puts leave.  *)
(***************************************************************************)
DmaFields == {"regs", "follow", "rr", "rrAt", "status", "enabled", "force", "afterReti", "intEnable",
              "addrA", "addrB", "up", "blockLen", "stop", "master", "req", "inService", "vector"}
DmaShape(s) ==
  /\ DOMAIN s = {"dma", "ram", "dev", "holds", "log"} /\ DOMAIN s.dma = DmaFields
  /\ DOMAIN s.dma.regs = Registers /\ DOMAIN s.dev = {"line", "next", "got"}
  /\ DOMAIN s.log = {"bytes", "go"}
DmaBools(s) ==
  /\ s.dma.enabled \in BOOLEAN /\ s.dma.force \in BOOLEAN /\ s.dma.afterReti \in BOOLEAN
  /\ s.dma.intEnable \in BOOLEAN /\ s.dma.stop \in BOOLEAN /\ s.dma.master \in BOOLEAN
  /\ s.dma.req \in BOOLEAN /\ s.dma.inService \in BOOLEAN /\ s.dev.line \in BOOLEAN
DmaTypes(s) ==
  /\ DmaShape(s) /\ DmaBools(s) /\ s.dma.addrA \in 0..(Cells - 1) /\ s.dma.addrB \in 0..(Cells - 1)
  /\ s.dma.up \in Int /\ s.dma.blockLen \in 0..(All + 1) /\ s.dma.status \in {"none", "eob", "match", "both"}
  /\ s.ram \in [0..(Cells - 1) -> Int] /\ s.dev.next \in Int /\ s.dev.got \in Seq(Int)
  /\ s.log.bytes \in Seq(Int) /\ s.log.go \in Nat

\* The registers are the transfer's.
Told(s, p) ==
  LET r == s.dma.regs
  IN /\ r["how"] = p.how /\ r["a"] = p.a /\ r["len"] = p.len /\ r["portA"] = p.portA /\ r["portB"] = p.portB
     /\ r["stopOnMatch"] = p.stopOnMatch /\ r["match"] = p.match /\ r["mode"] = p.mode /\ r["b"] = p.b
     /\ r["intOn"] = p.intOn /\ r["restart"] = p.restart

EndA(p) == [port |-> p.portA, at |-> p.a]
EndB(p) == [port |-> p.portB, at |-> p.b]
AMoves(p) == p.how.from = "a" \/ p.how.mode # "search"
BMoves(p) == p.how.from = "b" \/ p.how.mode # "search"
\* The ports are at the i-th byte.
PortsAt(s, p, i) ==
  /\ s.dma.addrA = (IF AMoves(p) THEN CellOf(EndA(p), i) ELSE p.a)
  /\ s.dma.addrB = (IF BMoves(p) THEN CellOf(EndB(p), i) ELSE p.b)

\* What no transfer writes is as it was.
RamKept(s, p) ==
  \A c \in 0..(Cells - 1) :
    \/ s.ram[c] = First + c
    \/ ToRam(p) /\ \E j \in 1..Most(p, MaxGoes) : c = CellOf(Target(p), j)
\* The bytes that were moved.
Moves(s, p) ==
  LET n == Len(s.log.bytes)
  IN /\ \A i \in 1..n : s.log.bytes[i] = IF Source(p).port.kind = "mem" THEN First + CellOf(Source(p), i)
                                         ELSE s.dev.next - n + i - 1
     /\ ToRam(p) => \A i \in 1..n : s.ram[CellOf(Target(p), i)] = s.log.bytes[i]
     /\ p.how.mode # "search" /\ ~ToRam(p) =>
          n <= Len(s.dev.got) /\ \A i \in 1..n : s.dev.got[Len(s.dev.got) - n + i] = s.log.bytes[i]

\* The count, and what a stop takes from it.
Accounted(s, p) ==
  IF s.dma.stop THEN \/ s.dma.up + 1 = s.log.go /\ s.dma.up < LenOf(p)
                     \/ s.dma.up = LenOf(p) /\ s.log.go = LenOf(p)
  ELSE s.dma.up = s.log.go /\ s.dma.up <= LenOf(p)
StatusTrue(s, p) ==
  /\ s.dma.status \in {"eob", "both"} => s.dma.up = LenOf(p)
  /\ s.dma.status = "match" => s.dma.stop /\ s.dma.up < LenOf(p)
  /\ s.dma.status # "none" => s.dma.blockLen = LenOf(p) /\ ~s.dma.enabled
Bus(s) == s.holds = s.dma.master /\ (s.dma.master => s.dma.enabled)
Room(s, p, g) == Len(s.log.bytes) + LenOf(p) <= Most(p, g) + s.log.go

\* A transfer that is set up.
Under(s, p, g) ==
  /\ DmaTypes(s) /\ Told(s, p) /\ Bus(s) /\ Accounted(s, p) /\ StatusTrue(s, p) /\ Room(s, p, g)
  /\ PortsAt(s, p, IF s.dma.stop THEN Len(s.log.bytes) ELSE Len(s.log.bytes) + 1)
  /\ RamKept(s, p) /\ Moves(s, p)

(* The program. *)
ReadValues == {"asked", "none", "eob", "match", "both"} \union Int
AtRest(s) ==
  /\ ~s.dma.enabled /\ s.dma.status = "none" /\ s.dma.follow = <<>> /\ s.dma.rr = <<>> /\ ~s.dma.stop
  /\ s.dma.up = 0 /\ s.log.bytes = <<>> /\ s.log.go = 0
\* What READ_MASK chose, and what was read of it.
Buffered(s) ==
  /\ s.dma.rr # <<>> => Len(s.dma.rr) = 4 /\ s.dma.regs["readMask"] = {1, 2, 3, 4}
  /\ s.dma.rrAt \in 1..4 /\ s.dma.follow \in {<<>>, <<"readMask">>}
Counters(s) == <<s.dma.status, s.dma.up, s.dma.addrA, s.dma.addrB>>
ReadSoFar(s, read) ==
  /\ read \in Seq(ReadValues)
  /\ read # <<>> => /\ Len(read) \in 1..5 /\ s.dma.rrAt = (IF Len(read) = 5 THEN 1 ELSE Len(read))
                    /\ s.dma.rr = Counters(s) /\ \A i \in 2..Len(read) : read[i] = s.dma.rr[i - 1]
  /\ (read # <<>> \/ s.dma.follow # <<>>) => ~s.dma.enabled /\ s.dma.status # "none"
  /\ s.dma.follow # <<>> => read = <<>>
DmaInv ==
  LET s == State
      p == program.is
  IN /\ DOMAIN program = {"is", "at", "goes", "handler", "read"}
     /\ p \in Programs /\ program.goes \in 1..MaxGoes /\ program.handler \in BOOLEAN
     /\ program.at \in {1} \union ((Setup + 1)..(Len(Script(p)) + 1))
     /\ DmaTypes(s) /\ Bus(s) /\ RamKept(s, p) /\ Buffered(s) /\ ReadSoFar(s, program.read)
     /\ ~Running => AtRest(s)
     /\ program.at > 1 => Under(s, p, program.goes)

LEMMA WrapStep ==
  ASSUME NEW C \in Nat \ {0}, NEW x \in Int, NEW d \in {-1, 0, 1}
  PROVE  x % C \in 0..(C - 1) /\ ((x % C) + d) % C = (x + d) % C
<1> DEFINE q == x \div C
           r == x % C
<1>1. q \in Int /\ r \in 0..(C - 1) /\ x = C * q + r
  OBVIOUS
<1> HIDE DEF q, r
<1>2. CASE r + d \in 0..(C - 1)
  <2>1. x + d = C * q + (r + d) /\ r + d \in Int
    BY <1>1
  <2>2. (x + d) % C = r + d /\ (r + d) % C = r + d
    BY <1>1, <1>2, <2>1
  <2> QED BY <1>1, <2>2 DEF r
<1>3. CASE r + d = C
  <2>1. x + d = C * (q + 1) + 0
    BY <1>1, <1>3
  <2>2. (x + d) % C = 0 /\ (r + d) % C = 0
    BY <1>1, <1>3, <2>1
  <2> QED BY <1>1, <2>2 DEF r
<1>4. CASE r + d = -1
  <2>1. x + d = C * (q - 1) + (C - 1)
    BY <1>1, <1>4
  <2>2. (x + d) % C = C - 1
    BY <1>1, <2>1
  <2>3. (r + d) % C = C - 1
    BY <1>4
  <2> QED BY <1>1, <2>2, <2>3 DEF r
<1>5. QED
  BY <1>1, <1>2, <1>3, <1>4

LEMMA CellSteps ==
  ASSUME Cells \in Nat \ {0}, NEW e, e.at \in 0..(Cells - 1), NEW i \in Nat
  PROVE  /\ CellOf(e, i) \in 0..(Cells - 1) /\ CellOf(e, 1) = e.at
         /\ CellOf(e, i + 1) = Wrap(CellOf(e, i) + Move(e.port.by))
<1> DEFINE d == Move(e.port.by)
<1>1. d \in {-1, 0, 1}
  BY DEF Move
<1> HIDE DEF d
<1>2. (i - 1) * d \in Int /\ (i + 1 - 1) * d = (i - 1) * d + d /\ (1 - 1) * d = 0
  BY <1>1
<1> DEFINE x == e.at + (i - 1) * d
<1>3. x \in Int /\ e.at + (i + 1 - 1) * d = x + d
  BY <1>2, <1>1
<1>4. e.at % Cells = e.at /\ e.at + (1 - 1) * d = e.at
  BY <1>1
<1>5. CellOf(e, i) = x % Cells /\ CellOf(e, i + 1) = (e.at + (i + 1 - 1) * d) % Cells
      /\ CellOf(e, 1) = (e.at + (1 - 1) * d) % Cells
  BY DEF CellOf, Wrap, d
<1> HIDE DEF x
<1>6. x % Cells \in 0..(Cells - 1) /\ ((x % Cells) + d) % Cells = (x + d) % Cells
  BY <1>1, <1>3, WrapStep
<1>7. QED
  BY <1>3, <1>4, <1>5, <1>6 DEF Wrap, d

LEMMA MostGrows ==
  ASSUME All \in Nat \ {0}, NEW p, p.len \in 0..(All - 1), MaxGoes \in Nat \ {0}, NEW g \in 1..MaxGoes
  PROVE  /\ LenOf(p) \in 1..(All + 1) /\ Most(p, g) \in Nat /\ Most(p, g + 1) = Most(p, g) + LenOf(p)
         /\ Most(p, g) <= Most(p, MaxGoes) /\ Most(p, MaxGoes) \in Nat
<1> DEFINE n == LenOf(p)
<1>1. n \in 1..(All + 1)
  BY DEF LenOf
<1> HIDE DEF n
<1>2. (g + 1) * n = g * n + n /\ g * n \in Nat /\ MaxGoes * n \in Nat
  BY <1>1
<1>3. MaxGoes * n = g * n + (MaxGoes - g) * n /\ (MaxGoes - g) * n \in Nat
  BY <1>1
<1>4. QED
  BY <1>1, <1>2, <1>3 DEF Most, n


(***************************************************************************)
(* What leaves a transfer as it is.                                        *)
(***************************************************************************)
SameReading(s, r) ==
  /\ r.dma.rr = s.dma.rr /\ r.dma.rrAt = s.dma.rrAt /\ r.dma.follow = s.dma.follow
  /\ r.dma.regs["readMask"] = s.dma.regs["readMask"]
SameBlock(s, r) ==
  /\ \A x \in Registers \ {"readMask"} : r.dma.regs[x] = s.dma.regs[x]
  /\ r.dma.addrA = s.dma.addrA /\ r.dma.addrB = s.dma.addrB /\ r.dma.up = s.dma.up
  /\ r.dma.stop = s.dma.stop /\ r.dma.blockLen = s.dma.blockLen /\ r.dma.status = s.dma.status
  /\ r.ram = s.ram /\ r.dev.next = s.dev.next /\ r.dev.got = s.dev.got /\ r.log = s.log
SameBus(s, r) == r.holds = s.holds /\ r.dma.master = s.dma.master /\ r.dma.enabled = s.dma.enabled
QuietChange(s, r) == DmaTypes(r) /\ SameBlock(s, r)
Silent(s, r) == QuietChange(s, r) /\ SameReading(s, r) /\ SameBus(s, r)

LEMMA QuietKeeps ==
  ASSUME NEW s, NEW r, NEW p, NEW g, Under(s, p, g), QuietChange(s, r), Bus(r),
         s.dma.status # "none" => ~r.dma.enabled
  PROVE  Under(r, p, g)
<1>1. Told(r, p)
  BY DEF Under, QuietChange, SameBlock, Told, Registers
<1>2. Accounted(r, p) /\ StatusTrue(r, p) /\ Room(r, p, g)
  BY DEF Under, QuietChange, SameBlock, Accounted, StatusTrue, Room
<1>3. PortsAt(r, p, IF r.dma.stop THEN Len(r.log.bytes) ELSE Len(r.log.bytes) + 1)
  BY DEF Under, QuietChange, SameBlock, PortsAt
<1>4. RamKept(r, p)
  BY DEF Under, QuietChange, SameBlock, RamKept
<1>5. Moves(r, p)
  BY DEF Under, QuietChange, SameBlock, Moves
<1>6. QED
  BY <1>1, <1>2, <1>3, <1>4, <1>5 DEF Under, QuietChange

LEMMA SilentRuns ==
  ASSUME NEW s, NEW r, NEW t, Silent(s, r), Silent(r, t)
  PROVE  Silent(s, t)
<1>1. SameBlock(s, t)
  BY DEF Silent, QuietChange, SameBlock
<1>2. SameReading(s, t) /\ SameBus(s, t)
  BY DEF Silent, SameReading, SameBus
<1>3. QED
  BY <1>1, <1>2 DEF Silent, QuietChange

LEMMA IntrIsSilent ==
  ASSUME NEW s, DmaTypes(s)
  PROVE  /\ Silent(s, s) /\ Silent(s, ReadyIntr(s))
         /\ \A level : Silent(s, RequestIntr(s, level))
<1>1. Silent(s, s)
  BY DEF Silent, QuietChange, SameBlock, SameReading, SameBus
<1>2. ASSUME NEW level PROVE Silent(s, RequestIntr(s, level))
  <2> DEFINE r == [s EXCEPT !.dma.req = TRUE, !.dma.vector = level]
  <2>1. RequestIntr(s, level) \in {s, r}
    BY DEF RequestIntr
  <2>2. DmaShape(r)
    BY DEF DmaTypes, DmaShape, DmaFields
  <2>3. DmaBools(r)
    BY DEF DmaTypes, DmaShape, DmaFields, DmaBools
  <2>4. SameBlock(s, r) /\ SameReading(s, r) /\ SameBus(s, r)
    BY DEF DmaTypes, DmaShape, DmaFields, SameBlock, SameReading, SameBus
  <2> HIDE DEF r
  <2>5. DmaTypes(r)
    BY <2>2, <2>3, <2>4 DEF DmaTypes, SameBlock
  <2> QED BY <1>1, <2>1, <2>4, <2>5 DEF Silent, QuietChange
<1>3. ReadyIntr(s) \in {s, RequestIntr(s, {"rdy"})}
  BY DEF ReadyIntr
<1>4. QED
  BY <1>1, <1>2, <1>3

\* The bus is asked for, and given back.
LEMMA BusIsQuiet ==
  ASSUME NEW s, DmaTypes(s), s.holds = s.dma.master, NEW r, r \in {RequestBus(s), ReleaseBus(s)}
  PROVE  /\ QuietChange(s, r) /\ SameReading(s, r) /\ r.dma.enabled = s.dma.enabled /\ r.holds = r.dma.master
         /\ r = ReleaseBus(s) => r.dma.master = FALSE
         /\ NowReady(r) = NowReady(s)
<1> DEFINE k(b) == [s EXCEPT !.dma.master = b, !.holds = b]
<1>1. (r = s /\ (r = ReleaseBus(s) => r.dma.master = FALSE)) \/ r = k(FALSE) \/ (r = k(TRUE) /\ r # ReleaseBus(s))
  <2>1. k(TRUE).dma.master = TRUE /\ k(FALSE).dma.master = FALSE
    BY DEF DmaTypes, DmaShape, DmaFields
  <2> QED BY <2>1 DEF RequestBus, ReleaseBus, DmaTypes, DmaBools
<1>2. ASSUME NEW b \in BOOLEAN
      PROVE  QuietChange(s, k(b)) /\ SameReading(s, k(b)) /\ k(b).dma.enabled = s.dma.enabled
             /\ k(b).holds = b /\ k(b).dma.master = b /\ NowReady(k(b)) = NowReady(s)
  <2>1. DmaShape(k(b))
    BY DEF DmaTypes, DmaShape, DmaFields
  <2>2. DmaBools(k(b))
    BY DEF DmaTypes, DmaShape, DmaFields, DmaBools
  <2>3. SameBlock(s, k(b)) /\ SameReading(s, k(b)) /\ k(b).dma.enabled = s.dma.enabled
    BY DEF DmaTypes, DmaShape, DmaFields, SameBlock, SameReading
  <2>4. k(b).holds = b /\ k(b).dma.master = b /\ NowReady(k(b)) = NowReady(s)
    BY DEF DmaTypes, DmaShape, DmaFields, NowReady
  <2> HIDE DEF k
  <2>5. DmaTypes(k(b))
    BY <2>1, <2>2, <2>3 DEF DmaTypes, SameBlock
  <2> QED BY <2>3, <2>4, <2>5 DEF QuietChange
<1> HIDE DEF k
<1>3. QuietChange(s, s) /\ SameReading(s, s)
  BY IntrIsSilent DEF Silent
<1>4. QED
  BY <1>1, <1>2, <1>3


(***************************************************************************)
(* A byte.                                                                 *)
(***************************************************************************)
LEMMA AppendIs ==
  ASSUME NEW q \in Seq(Int), NEW x \in Int
  PROVE  /\ Append(q, x) \in Seq(Int) /\ Len(q) \in Nat /\ Len(Append(q, x)) = Len(q) + 1
         /\ Append(q, x)[Len(q) + 1] = x /\ \A i \in 1..Len(q) : Append(q, x)[i] = q[i]
BY AppendProperties, LenProperties

\* It was moved, and is not counted yet.
Taken(s, p, g) ==
  /\ DmaTypes(s) /\ Told(s, p) /\ s.holds = s.dma.master /\ s.dma.enabled /\ s.dma.status = "none"
  /\ s.dma.blockLen = LenOf(p) /\ ~s.dma.stop /\ s.dma.up + 1 = s.log.go /\ s.dma.up < LenOf(p)
  /\ Room(s, p, g) /\ PortsAt(s, p, Len(s.log.bytes)) /\ RamKept(s, p) /\ Moves(s, p)

Fits(p) == /\ p.len \in 0..(All - 1) /\ p.a \in 0..(Cells - 1) /\ p.b \in 0..(Cells - 1)
           /\ p.how.mode \in {"transfer", "search", "both"} /\ p.how.from \in {"a", "b"}
           /\ Apart(p)

LEMMA OneByteMoves ==
  ASSUME NEW s, NEW p, DmaTypes(s), Told(s, p), Fits(p),
         NEW n, n = Len(s.log.bytes), PortsAt(s, p, n + 1)
  PROVE  LET r == OneByte(s)
             src == CellOf(Source(p), n + 1)
             dst == CellOf(Target(p), n + 1)
             mem == Source(p).port.kind = "mem"
             byte == IF mem THEN s.ram[src] ELSE s.dev.next
         IN /\ DmaShape(r) /\ r.dma = s.dma /\ r.holds = s.holds /\ r.dev.line \in BOOLEAN
            /\ r.log.bytes = Append(s.log.bytes, byte) /\ r.log.go = s.log.go + 1
            /\ r.ram = (IF ToRam(p) THEN [s.ram EXCEPT ![dst] = byte] ELSE s.ram)
            /\ r.dev.next = (IF mem THEN s.dev.next ELSE s.dev.next + 1)
            /\ r.dev.got = (IF p.how.mode # "search" /\ ~ToRam(p) THEN Append(s.dev.got, byte) ELSE s.dev.got)
<1> DEFINE from == IF AIsSource(s) THEN Reg(s, "portA") ELSE Reg(s, "portB")
           to == IF AIsSource(s) THEN Reg(s, "portB") ELSE Reg(s, "portA")
           at == IF AIsSource(s) THEN s.dma.addrA ELSE s.dma.addrB
           goal == IF AIsSource(s) THEN s.dma.addrB ELSE s.dma.addrA
           src == CellOf(Source(p), n + 1)
           dst == CellOf(Target(p), n + 1)
           mem == Source(p).port.kind = "mem"
           byte == IF from.kind = "mem" THEN s.ram[at] ELSE s.dev.next
           read == IF from.kind = "mem" THEN s ELSE [s EXCEPT !.dev.line = FALSE, !.dev.next = @ + 1]
           put == IF ~Transfers(s) THEN read
                  ELSE IF to.kind = "mem" THEN [read EXCEPT !.ram[goal] = byte]
                  ELSE [read EXCEPT !.dev.line = FALSE, !.dev.got = Append(@, byte)]
           r == [put EXCEPT !.log.bytes = Append(@, byte), !.log.go = @ + 1]
<1>1. r = OneByte(s)
  BY DEF OneByte
<1>2. AIsSource(s) = (p.how.from = "a") /\ Reg(s, "portA") = p.portA /\ Reg(s, "portB") = p.portB
      /\ Transfers(s) = (p.how.mode # "search")
  BY DEF Told, Fits, AIsSource, Reg, Transfers
<1>3. /\ from = Source(p).port /\ to = Target(p).port /\ at = src
      /\ p.how.mode # "search" => goal = dst
  BY <1>2 DEF Source, Target, PortsAt, AMoves, BMoves, EndA, EndB, Fits
<1>4. ToRam(p) = (Transfers(s) /\ to.kind = "mem") /\ mem = (from.kind = "mem")
      /\ (p.how.mode # "search") = Transfers(s)
  BY <1>2, <1>3 DEF ToRam
<1> HIDE DEF from, to, at, goal, src, dst, mem
<1>5. byte = IF mem THEN s.ram[src] ELSE s.dev.next
  BY <1>3, <1>4
<1> HIDE DEF byte
<1>6. /\ DmaShape(read) /\ read.dma = s.dma /\ read.holds = s.holds /\ read.dev.line \in BOOLEAN
      /\ read.log = s.log /\ read.ram = s.ram /\ read.dev.got = s.dev.got
      /\ read.dev.next = (IF mem THEN s.dev.next ELSE s.dev.next + 1)
  BY <1>4 DEF DmaTypes, DmaShape, DmaBools
<1> HIDE DEF read
<1>7. /\ DmaShape(put) /\ put.dma = s.dma /\ put.holds = s.holds /\ put.dev.line \in BOOLEAN
      /\ put.log = s.log /\ put.dev.next = read.dev.next
      /\ put.ram = (IF Transfers(s) /\ to.kind = "mem" THEN [s.ram EXCEPT ![goal] = byte] ELSE s.ram)
      /\ put.dev.got = (IF Transfers(s) /\ to.kind # "mem" THEN Append(s.dev.got, byte) ELSE s.dev.got)
  <2>1. CASE ~Transfers(s)
    BY <1>6, <2>1
  <2>2. CASE Transfers(s) /\ to.kind = "mem"
    BY <1>6, <2>2 DEF DmaShape
  <2>3. CASE Transfers(s) /\ to.kind # "mem"
    BY <1>6, <2>3 DEF DmaShape
  <2> QED BY <2>1, <2>2, <2>3
<1> HIDE DEF put
<1>8. /\ DmaShape(r) /\ r.dma = s.dma /\ r.holds = s.holds /\ r.dev = put.dev /\ r.ram = put.ram
      /\ r.log.bytes = Append(s.log.bytes, byte) /\ r.log.go = s.log.go + 1
  BY <1>7 DEF DmaShape
<1> HIDE DEF r
<1>9. QED
  BY <1>1, <1>3, <1>4, <1>5, <1>6, <1>7, <1>8 DEF src, dst, mem

LEMMA OneByteTakes ==
  ASSUME DmaTransferAssumption, NEW s, NEW p, Fits(p), NEW g \in 1..MaxGoes, Under(s, p, g),
         ~s.dma.stop, s.dma.up < LenOf(p), s.dma.enabled, s.dma.status = "none", s.dma.blockLen = LenOf(p)
  PROVE  Taken(OneByte(s), p, g) /\ SameReading(s, OneByte(s))
<1> DEFINE r == OneByte(s)
           n == Len(s.log.bytes)
           src == CellOf(Source(p), n + 1)
           dst == CellOf(Target(p), n + 1)
           mem == Source(p).port.kind = "mem"
           byte == IF mem THEN s.ram[src] ELSE s.dev.next
           top == Most(p, MaxGoes)
<1>1. DmaTypes(s) /\ Told(s, p) /\ PortsAt(s, p, n + 1) /\ Moves(s, p) /\ RamKept(s, p)
      /\ s.dma.up = s.log.go /\ Room(s, p, g)
  BY DEF Under, Accounted
<1>2. /\ n \in Nat /\ n = Len(s.log.bytes) /\ s.log.bytes \in Seq(Int) /\ s.log.go \in Nat
      /\ s.dev.next \in Int /\ s.dma.up \in Int
  BY <1>1, LenProperties DEF DmaTypes
<1> HIDE DEF n
<1>25. n \in Nat /\ s.log.go \in Nat /\ s.dev.next \in Int
  BY <1>2
<1>3. /\ All \in Nat /\ Cells \in Nat \ {0} /\ top \in Nat /\ LenOf(p) \in 1..(All + 1) /\ Most(p, g) \in Nat
      /\ Most(p, g) <= top
  BY MostGrows DEF DmaTransferAssumption, Fits
<1>4. n + 1 \in 1..top /\ \A i \in 1..n : i \in 1..top /\ i # n + 1
  <2>1. n + LenOf(p) <= Most(p, g) + s.log.go /\ s.log.go < LenOf(p)
    BY <1>1, <1>2 DEF Room
  <2> HIDE DEF top
  <2>2. n + 1 <= top
    BY <1>2, <1>3, <2>1, SMTT(30)
  <2> QED BY <1>25, <1>3, <2>2
<1>5. /\ Source(p).at \in 0..(Cells - 1) /\ Target(p).at \in 0..(Cells - 1)
  BY DEF Source, Target, Fits
<1>6. /\ src \in 0..(Cells - 1) /\ dst \in 0..(Cells - 1)
      /\ \A i \in 1..n : CellOf(Target(p), i) \in 0..(Cells - 1)
  <2>1. \A i \in Nat : CellOf(Source(p), i) \in 0..(Cells - 1) /\ CellOf(Target(p), i) \in 0..(Cells - 1)
    BY <1>3, <1>5, CellSteps
  <2>2. n + 1 \in Nat /\ \A i \in 1..n : i \in Nat
    BY <1>2
  <2> QED BY <2>1, <2>2
<1>7. /\ DmaShape(r) /\ r.dma = s.dma /\ r.holds = s.holds /\ r.dev.line \in BOOLEAN
      /\ r.log.bytes = Append(s.log.bytes, byte) /\ r.log.go = s.log.go + 1
      /\ r.ram = (IF ToRam(p) THEN [s.ram EXCEPT ![dst] = byte] ELSE s.ram)
      /\ r.dev.next = (IF mem THEN s.dev.next ELSE s.dev.next + 1)
      /\ r.dev.got = (IF p.how.mode # "search" /\ ~ToRam(p) THEN Append(s.dev.got, byte) ELSE s.dev.got)
  BY <1>1, OneByteMoves DEF n
<1> HIDE DEF r, src, dst, mem, top
<1>22. DmaShape(r) /\ r.dma = s.dma /\ r.holds = s.holds /\ r.dev.line \in BOOLEAN
  BY <1>7
<1>23. r.log.go = s.log.go + 1 /\ r.dev.next = (IF mem THEN s.dev.next ELSE s.dev.next + 1)
  BY <1>7
<1>24. r.dma.up = s.log.go
  BY <1>1, <1>22
<1>8. mem => s.ram[src] = First + src
  <2>1. ASSUME ToRam(p), mem, NEW j \in 1..top PROVE src # CellOf(Target(p), j)
    BY <1>4, <2>1 DEF Fits, Apart, src, mem, top
  <2> QED BY <1>1, <1>6, <2>1 DEF RamKept, top
<1>9. byte \in Int /\ s.ram \in [0..(Cells - 1) -> Int] /\ s.dev.got \in Seq(Int)
  BY <1>1, <1>2, <1>6 DEF DmaTypes
<1>10. byte = IF mem THEN First + src ELSE s.dev.next
  BY <1>8
<1> HIDE DEF byte
<1>11. /\ r.log.bytes \in Seq(Int) /\ Len(r.log.bytes) = n + 1 /\ r.log.bytes[n + 1] = byte
       /\ \A i \in 1..n : r.log.bytes[i] = s.log.bytes[i]
  BY <1>2, <1>7, <1>9, AppendIs
<1>12. DmaTypes(r)
  <2>1. r.ram \in [0..(Cells - 1) -> Int]
    BY <1>6, <1>7, <1>9
  <2>2. r.dev.got \in Seq(Int) /\ r.dev.next \in Int
    BY <1>2, <1>7, <1>9, AppendIs
  <2>3. DmaBools(r) /\ r.log.go \in Nat
    <3>1. r.log.go \in Nat
      BY <1>2, <1>23
    <3>2. DmaBools(s)
      BY <1>1 DEF DmaTypes
    <3>3. DmaBools(r)
      BY <3>2, <1>22 DEF DmaBools
    <3> QED BY <3>1, <3>3
  <2> QED BY <1>1, <1>7, <1>11, <2>1, <2>2, <2>3 DEF DmaTypes
<1>13. Told(r, p) /\ PortsAt(r, p, n + 1) /\ SameReading(s, r)
  BY <1>1, <1>7 DEF Told, PortsAt, SameReading
<1>14. RamKept(r, p)
  <2> SUFFICES ASSUME NEW c \in 0..(Cells - 1)
               PROVE  r.ram[c] = First + c \/ (ToRam(p) /\ \E j \in 1..top : c = CellOf(Target(p), j))
    BY DEF RamKept, top
  <2>1. CASE ToRam(p) /\ c = dst
    BY <1>4, <2>1 DEF dst
  <2>2. CASE ~(ToRam(p) /\ c = dst)
    <3>1. r.ram[c] = s.ram[c]
      BY <1>7, <1>9, <2>2
    <3> QED BY <1>1, <3>1 DEF RamKept, top
  <2> QED BY <2>1, <2>2
<1>15. \A i \in 1..(n + 1) : r.log.bytes[i] = IF mem THEN First + CellOf(Source(p), i)
                                              ELSE r.dev.next - (n + 1) + i - 1
  <2> SUFFICES ASSUME NEW i \in 1..(n + 1)
               PROVE  r.log.bytes[i] = IF mem THEN First + CellOf(Source(p), i)
                                       ELSE r.dev.next - (n + 1) + i - 1
    OBVIOUS
  <2>1. CASE i = n + 1
    <3>1. r.log.bytes[i] = IF mem THEN First + CellOf(Source(p), n + 1) ELSE s.dev.next
      BY <1>10, <1>11, <2>1 DEF src
    <3>2. ~mem => r.dev.next - (n + 1) + i - 1 = s.dev.next
      BY <1>25, <1>23, <2>1
    <3> QED BY <2>1, <3>1, <3>2
  <2>2. CASE i # n + 1
    <3>1. i \in 1..n
      BY <1>2, <2>2
    <3>2. s.log.bytes[i] = IF mem THEN First + CellOf(Source(p), i) ELSE s.dev.next - n + i - 1
      BY <1>1, <1>2, <3>1 DEF Moves, mem
    <3>3. r.log.bytes[i] = s.log.bytes[i]
      BY <1>11, <3>1, Zenon
    <3>4. i \in Int
      BY <3>1
    <3>5. ~mem => r.dev.next - (n + 1) + i - 1 = s.dev.next - n + i - 1
      BY <1>25, <1>23, <3>4
    <3> QED BY <3>2, <3>3, <3>5
  <2> QED BY <2>1, <2>2
<1>16. ToRam(p) => \A i \in 1..(n + 1) : r.ram[CellOf(Target(p), i)] = r.log.bytes[i]
  <2> SUFFICES ASSUME ToRam(p), NEW i \in 1..(n + 1)
               PROVE  r.ram[CellOf(Target(p), i)] = r.log.bytes[i]
    OBVIOUS
  <2>1. CASE i = n + 1
    BY <1>6, <1>7, <1>9, <1>11, <2>1 DEF dst
  <2>2. CASE i # n + 1
    <3>1. i \in 1..n
      BY <1>2, <2>2
    <3>2. CellOf(Target(p), i) # dst
      BY <1>4, <3>1 DEF Fits, Apart, dst, top
    <3>3. s.ram[CellOf(Target(p), i)] = s.log.bytes[i]
      BY <1>1, <1>2, <3>1 DEF Moves
    <3> QED BY <1>6, <1>7, <1>9, <1>11, <3>1, <3>2, <3>3
  <2> QED BY <2>1, <2>2
<1>17. p.how.mode # "search" /\ ~ToRam(p) =>
         n + 1 <= Len(r.dev.got) /\ \A i \in 1..(n + 1) : r.dev.got[Len(r.dev.got) - (n + 1) + i] = r.log.bytes[i]
  <2> SUFFICES ASSUME p.how.mode # "search", ~ToRam(p)
               PROVE  n + 1 <= Len(r.dev.got)
                      /\ \A i \in 1..(n + 1) : r.dev.got[Len(r.dev.got) - (n + 1) + i] = r.log.bytes[i]
    OBVIOUS
  <2> DEFINE k == Len(s.dev.got)
  <2>1. /\ Len(r.dev.got) = k + 1 /\ r.dev.got[k + 1] = byte /\ k \in Nat
        /\ \A i \in 1..k : r.dev.got[i] = s.dev.got[i]
    BY <1>7, <1>9, AppendIs
  <2>2. n <= k /\ \A i \in 1..n : s.dev.got[k - n + i] = s.log.bytes[i]
    BY <1>1, <1>2 DEF Moves
  <2> HIDE DEF k
  <2>3. n + 1 <= k + 1 /\ k \in Nat /\ n <= k
    BY <1>25, <2>1, <2>2
  <2>4. ASSUME NEW i \in 1..(n + 1) PROVE r.dev.got[(k + 1) - (n + 1) + i] = r.log.bytes[i]
    <3>1. CASE i = n + 1
      <4>1. (k + 1) - (n + 1) + i = k + 1
        BY <1>25, <2>3, <3>1
      <4> QED BY <1>11, <2>1, <3>1, <4>1
    <3>2. CASE i # n + 1
      <4>1. i \in 1..n /\ (k + 1) - (n + 1) + i = k - n + i /\ k - n + i \in 1..k
        BY <1>25, <2>3, <3>2
      <4> QED BY <1>11, <2>1, <2>2, <4>1
    <3> QED BY <3>1, <3>2
  <2>5. Len(r.dev.got) = k + 1
    BY <2>1
  <2>6. n + 1 <= k + 1 /\ \A i \in 1..(n + 1) : r.dev.got[(k + 1) - (n + 1) + i] = r.log.bytes[i]
    BY <2>3, <2>4
  <2> QED BY <2>5, <2>6
<1>18. Moves(r, p)
  BY <1>11, <1>15, <1>16, <1>17 DEF Moves, mem
<1>19. Room(r, p, g) /\ r.dma.up + 1 = r.log.go
  <2>1. n + LenOf(p) <= Most(p, g) + s.log.go
    BY <1>1, <1>2 DEF Room
  <2>2. n + 1 + LenOf(p) <= Most(p, g) + r.log.go /\ r.dma.up + 1 = r.log.go
    BY <1>25, <1>3, <1>23, <1>24, <2>1
  <2> QED BY <1>11, <2>2 DEF Room

<1>20. r.holds = r.dma.master
  BY <1>7 DEF Under, Bus
<1>21. QED
  BY <1>7, <1>11, <1>12, <1>13, <1>14, <1>18, <1>19, <1>20 DEF Taken, r


(***************************************************************************)
(* The loop.                                                               *)
(***************************************************************************)
LEMMA LenIs ==
  ASSUME DmaTransferAssumption, NEW p, Fits(p), NEW s, Told(s, p)
  PROVE  BlockLen(s) = LenOf(p) /\ LenOf(p) \in 1..(All + 1) /\ All \in Nat
BY DEF DmaTransferAssumption, Fits, Told, BlockLen, LenOf, Reg

LEMMA TakenQuietly ==
  ASSUME NEW s, NEW r, NEW p, NEW g, Taken(s, p, g), QuietChange(s, r), r.holds = r.dma.master,
         r.dma.enabled = s.dma.enabled
  PROVE  Taken(r, p, g)
<1>1. Told(r, p)
  BY DEF Taken, QuietChange, SameBlock, Told, Registers
<1>2. PortsAt(r, p, Len(r.log.bytes)) /\ Room(r, p, g)
  BY DEF Taken, QuietChange, SameBlock, PortsAt, Room
<1>3. RamKept(r, p)
  BY DEF Taken, QuietChange, SameBlock, RamKept
<1>4. Moves(r, p)
  BY ZenonT(60) DEF Taken, QuietChange, SameBlock, Moves
<1>5. /\ r.dma.status = "none" /\ r.dma.blockLen = LenOf(p) /\ ~r.dma.stop /\ r.dma.up + 1 = r.log.go
      /\ r.dma.up < LenOf(p) /\ r.dma.enabled
  BY DEF Taken, QuietChange, SameBlock
<1>6. QED
  BY <1>1, <1>2, <1>3, <1>4, <1>5 DEF Taken, QuietChange

\* The ports move on, and nothing else does.
SameButPorts(s, r) ==
  /\ \A x \in Registers : r.dma.regs[x] = s.dma.regs[x]
  /\ r.dma.up = s.dma.up /\ r.dma.stop = s.dma.stop /\ r.dma.blockLen = s.dma.blockLen
  /\ r.dma.status = s.dma.status /\ r.ram = s.ram /\ r.dev = s.dev /\ r.log = s.log
  /\ SameBus(s, r) /\ SameReading(s, r)

LEMMA PortsMove ==
  ASSUME DmaTransferAssumption, NEW s, NEW p, DmaTypes(s), Told(s, p), Fits(p), NEW i \in Nat, PortsAt(s, p, i)
  PROVE  DmaTypes(IncPorts(s)) /\ PortsAt(IncPorts(s), p, i + 1) /\ SameButPorts(s, IncPorts(s))
<1> DEFINE a == Wrap(s.dma.addrA + Move(Reg(s, "portA").by))
           b == Wrap(s.dma.addrB + Move(Reg(s, "portB").by))
           A == AIsSource(s) \/ Transfers(s)
           B == ~AIsSource(s) \/ Transfers(s)
           x == IF A THEN a ELSE s.dma.addrA
           y == IF B THEN b ELSE s.dma.addrB
           r == [s EXCEPT !.dma.addrA = x, !.dma.addrB = y]
<1>1. IncPorts(s) = r
  BY DEF IncPorts, DmaTypes, DmaShape, DmaFields
<1>2. A = AMoves(p) /\ B = BMoves(p) /\ Reg(s, "portA") = p.portA /\ Reg(s, "portB") = p.portB
  BY DEF Told, Fits, AIsSource, Reg, Transfers, AMoves, BMoves
<1>3. EndA(p).at = p.a /\ EndA(p).port = p.portA /\ EndB(p).at = p.b /\ EndB(p).port = p.portB
  BY DEF EndA, EndB
<1>4. Cells \in Nat \ {0} /\ p.a \in 0..(Cells - 1) /\ p.b \in 0..(Cells - 1) /\ i + 1 \in Nat
  BY DEF DmaTransferAssumption, Fits
<1>5. /\ CellOf(EndA(p), i + 1) = Wrap(CellOf(EndA(p), i) + Move(p.portA.by))
      /\ CellOf(EndB(p), i + 1) = Wrap(CellOf(EndB(p), i) + Move(p.portB.by))
      /\ CellOf(EndA(p), i + 1) \in 0..(Cells - 1) /\ CellOf(EndB(p), i + 1) \in 0..(Cells - 1)
  BY <1>3, <1>4, CellSteps
<1>6. /\ x = (IF AMoves(p) THEN CellOf(EndA(p), i + 1) ELSE p.a)
      /\ y = (IF BMoves(p) THEN CellOf(EndB(p), i + 1) ELSE p.b)
  BY <1>2, <1>5 DEF PortsAt
<1> HIDE DEF x, y
<1>7. x \in 0..(Cells - 1) /\ y \in 0..(Cells - 1)
  BY <1>4, <1>5, <1>6
<1>8. r.dma.addrA = x /\ r.dma.addrB = y /\ DmaShape(r)
  BY DEF DmaTypes, DmaShape, DmaFields
<1>9. SameButPorts(s, r)
  BY DEF DmaTypes, DmaShape, DmaFields, SameButPorts, SameBus, SameReading
<1>10. DmaBools(r)
  BY DEF DmaTypes, DmaShape, DmaFields, DmaBools
<1> HIDE DEF r
<1>11. DmaTypes(r)
  BY <1>7, <1>8, <1>9, <1>10 DEF DmaTypes, SameButPorts
<1>12. QED
  BY <1>1, <1>6, <1>8, <1>9, <1>11 DEF PortsAt

Going(s, p, g) == Under(s, p, g) /\ s.dma.enabled /\ s.dma.blockLen = LenOf(p)

\* up and stop, as a byte is counted, held back or stepped over.
CountTo(s, up, stop) == [s EXCEPT !.dma.up = up, !.dma.stop = stop]
LEMMA CountToIs ==
  ASSUME NEW s, DmaTypes(s), NEW up \in Int, NEW stop \in BOOLEAN
  PROVE  LET r == CountTo(s, up, stop)
         IN /\ DmaTypes(r) /\ r.dma.up = up /\ r.dma.stop = stop /\ SameBus(s, r) /\ SameReading(s, r)
            /\ \A x \in Registers : r.dma.regs[x] = s.dma.regs[x]
            /\ r.dma.addrA = s.dma.addrA /\ r.dma.addrB = s.dma.addrB /\ r.dma.blockLen = s.dma.blockLen
            /\ r.dma.status = s.dma.status /\ r.ram = s.ram /\ r.dev = s.dev /\ r.log = s.log
<1> DEFINE r == CountTo(s, up, stop)
<1>1. /\ r.dma.up = up /\ r.dma.stop = stop /\ SameBus(s, r) /\ SameReading(s, r)
      /\ \A x \in Registers : r.dma.regs[x] = s.dma.regs[x]
      /\ r.dma.addrA = s.dma.addrA /\ r.dma.addrB = s.dma.addrB /\ r.dma.blockLen = s.dma.blockLen
      /\ r.dma.status = s.dma.status /\ r.ram = s.ram /\ r.dev = s.dev /\ r.log = s.log
  BY DEF CountTo, DmaTypes, DmaShape, DmaFields, SameBus, SameReading
<1>2. DmaShape(r)
  BY DEF CountTo, DmaTypes, DmaShape, DmaFields
<1>3. DmaBools(r)
  BY DEF CountTo, DmaTypes, DmaShape, DmaFields, DmaBools
<1> HIDE DEF r
<1>4. DmaTypes(r)
  BY <1>1, <1>2, <1>3 DEF DmaTypes
<1>5. QED
  BY <1>1, <1>4 DEF r

LEMMA MovesAre ==
  ASSUME NEW s, NEW r, NEW p, Moves(s, p), r.log = s.log, r.ram = s.ram,
         r.dev.next = s.dev.next, r.dev.got = s.dev.got
  PROVE  Moves(r, p)
BY DEF Moves

\* What a transfer needs of a state whose bytes are as they were.
LEMMA GoingAgain ==
  ASSUME NEW s, NEW r, NEW p, NEW g, Told(s, p), s.holds = s.dma.master, s.dma.enabled, Room(s, p, g),
         RamKept(s, p), Moves(s, p), s.dma.status = "none", s.dma.blockLen = LenOf(p),
         DmaTypes(r), \A x \in Registers : r.dma.regs[x] = s.dma.regs[x],
         r.dma.blockLen = s.dma.blockLen, r.dma.status = s.dma.status, r.ram = s.ram, r.dev = s.dev,
         r.log = s.log, SameBus(s, r), Accounted(r, p),
         PortsAt(r, p, IF r.dma.stop THEN Len(r.log.bytes) ELSE Len(r.log.bytes) + 1)
  PROVE  Going(r, p, g)
<1>1. Told(r, p)
  BY DEF Told, Registers
<1>2. RamKept(r, p)
  BY DEF RamKept
<1>3. Moves(r, p)
  BY MovesAre
<1>4. Bus(r) /\ Room(r, p, g) /\ StatusTrue(r, p) /\ r.dma.enabled
  BY DEF Bus, SameBus, Room, StatusTrue
<1>5. QED
  BY <1>1, <1>2, <1>3, <1>4 DEF Going, Under


LEMMA CountedGoes ==
  ASSUME DmaTransferAssumption, NEW s, NEW p, Fits(p), NEW g, Taken(s, p, g), NEW found
  PROVE  LET r == Counted(s, found)
         IN Going(r, p, g) /\ SameReading(s, r) /\ (found => r.dma.stop)
<1> DEFINE n == LenOf(p)
           stops == found \/ (Reg(s, "len") = 0 /\ ~NowReady(s))
           up == s.dma.up + 1
           held == IF up < n THEN s.dma.up ELSE up
           m == [s EXCEPT !.dma.up = @ + 1]
<1>1. DmaTypes(s) /\ Told(s, p) /\ s.dma.up \in Int /\ s.log.go \in Nat /\ s.log.bytes \in Seq(Int)
      /\ s.dma.stop = FALSE /\ s.dma.up + 1 = s.log.go /\ s.dma.up < n
  BY DEF Taken, DmaTypes, DmaBools
<1>2. BlockLen(s) = n /\ n \in Nat
  BY <1>1, LenIs
<1>3. Len(s.log.bytes) \in Nat
  BY <1>1, LenProperties
<1>4. m = CountTo(s, up, FALSE) /\ BlockLen(m) = n /\ m.dma.up = up
  <2>1. m = CountTo(s, up, FALSE)
    BY <1>1, ZenonT(60) DEF CountTo, DmaTypes, DmaShape, DmaFields
  <2>2. \A x \in Registers : m.dma.regs[x] = s.dma.regs[x]
    BY DEF DmaTypes, DmaShape, DmaFields, Taken
  <2>3. m.dma.up = up
    BY <1>1 DEF DmaTypes, DmaShape, DmaFields
  <2> QED BY <1>2, <2>1, <2>2, <2>3 DEF BlockLen, Reg, Registers
<1>5. [m EXCEPT !.dma.up = IF @ < n THEN @ - 1 ELSE @, !.dma.stop = TRUE] = CountTo(s, held, TRUE)
  <2>1. m.dma.up = up /\ up - 1 = s.dma.up
    BY <1>1, <1>4
  <2>2. DmaShape(s)
    BY <1>1 DEF DmaTypes
  <2> HIDE DEF held
  <2>3. [m EXCEPT !.dma.up = held, !.dma.stop = TRUE] = CountTo(s, held, TRUE)
    BY <2>2, ZenonT(60) DEF CountTo, DmaShape, DmaFields
  <2>4. (IF m.dma.up < n THEN m.dma.up - 1 ELSE m.dma.up) = held
    BY <2>1 DEF held
  <2> HIDE DEF m
  <2>5. [m EXCEPT !.dma.up = IF @ < n THEN @ - 1 ELSE @, !.dma.stop = TRUE]
          = [m EXCEPT !.dma.up = IF m.dma.up < n THEN m.dma.up - 1 ELSE m.dma.up, !.dma.stop = TRUE]
    OBVIOUS
  <2> QED BY <2>3, <2>4, <2>5
<1>6. Counted(s, found) = IF stops THEN CountTo(s, held, TRUE) ELSE IncPorts(CountTo(s, up, FALSE))
  BY <1>4, <1>5, <1>2 DEF Counted
<1>7. CASE stops
  <2> DEFINE r == CountTo(s, held, TRUE)
  <2>1. held \in Int
    BY <1>1
  <2> HIDE DEF held
  <2>2. /\ DmaTypes(r) /\ r.dma.up = held /\ r.dma.stop = TRUE /\ SameBus(s, r) /\ SameReading(s, r)
        /\ \A x \in Registers : r.dma.regs[x] = s.dma.regs[x]
        /\ r.dma.addrA = s.dma.addrA /\ r.dma.addrB = s.dma.addrB /\ r.dma.blockLen = s.dma.blockLen
        /\ r.dma.status = s.dma.status /\ r.ram = s.ram /\ r.dev = s.dev /\ r.log = s.log
    BY <1>1, <2>1, CountToIs
  <2> HIDE DEF r
  <2>3. Accounted(r, p)
    <3>1. r.dma.up = held /\ r.log.go = s.log.go /\ r.dma.stop
      BY <2>2
    <3> QED BY <1>1, <1>2, <3>1 DEF Accounted, held
  <2>4. PortsAt(r, p, Len(r.log.bytes))
    BY <2>2 DEF Taken, PortsAt
  <2>5. Going(r, p, g)
    BY <2>2, <2>3, <2>4, GoingAgain DEF Taken
  <2> QED BY <1>6, <1>7, <2>2, <2>5 DEF r
<1>8. CASE ~stops
  <2> DEFINE k == CountTo(s, up, FALSE)
             r == IncPorts(k)
             i == Len(s.log.bytes)
  <2>1. up \in Int
    BY <1>1
  <2> HIDE DEF up
  <2>2. /\ DmaTypes(k) /\ k.dma.up = up /\ k.dma.stop = FALSE /\ SameBus(s, k) /\ SameReading(s, k)
        /\ \A x \in Registers : k.dma.regs[x] = s.dma.regs[x]
        /\ k.dma.addrA = s.dma.addrA /\ k.dma.addrB = s.dma.addrB /\ k.dma.blockLen = s.dma.blockLen
        /\ k.dma.status = s.dma.status /\ k.ram = s.ram /\ k.dev = s.dev /\ k.log = s.log
    BY <1>1, <2>1, CountToIs
  <2> HIDE DEF k
  <2>3. Told(k, p) /\ PortsAt(k, p, i)
    BY <1>1, <2>2 DEF Told, Registers, Taken, PortsAt
  <2>4. DmaTypes(r) /\ PortsAt(r, p, i + 1) /\ SameButPorts(k, r)
    BY <1>3, <2>2, <2>3, PortsMove
  <2> HIDE DEF r
  <2>5. /\ \A x \in Registers : r.dma.regs[x] = s.dma.regs[x]
        /\ r.dma.blockLen = s.dma.blockLen /\ r.dma.status = s.dma.status /\ r.ram = s.ram
        /\ r.dev = s.dev /\ r.log = s.log /\ SameBus(s, r) /\ SameReading(s, r)
        /\ r.dma.up = up /\ r.dma.stop = FALSE
    BY <2>2, <2>4 DEF SameButPorts, SameBus, SameReading
  <2>6. Accounted(r, p)
    <3>1. r.dma.up = up /\ r.log.go = s.log.go /\ r.dma.stop = FALSE
      BY <2>5
    <3> QED BY <1>1, <1>2, <3>1 DEF Accounted, up
  <2>7. PortsAt(r, p, IF r.dma.stop THEN Len(r.log.bytes) ELSE Len(r.log.bytes) + 1)
    BY <2>4, <2>5
  <2>8. Going(r, p, g)
    BY <2>4, <2>5, <2>6, <2>7, GoingAgain DEF Taken
  <2> QED BY <1>6, <1>8, <2>5, <2>8 DEF r, k, up
<1>9. QED
  BY <1>7, <1>8

LEMMA StepOverGoes ==
  ASSUME DmaTransferAssumption, NEW s, NEW p, Fits(p), NEW g, Going(s, p, g), s.dma.stop, s.dma.up < LenOf(p)
  PROVE  Going(StepOver(s), p, g) /\ SameReading(s, StepOver(s))
<1> DEFINE n == LenOf(p)
           up == s.dma.up + 1
           k == CountTo(s, up, FALSE)
           r == IncPorts(k)
           i == Len(s.log.bytes)
<1>1. DmaTypes(s) /\ Told(s, p) /\ s.dma.up \in Int /\ s.log.go \in Nat /\ s.log.bytes \in Seq(Int)
      /\ s.dma.status = "none"
  BY DEF Going, Under, DmaTypes, StatusTrue
<1>2. BlockLen(s) = n /\ n \in Nat /\ i \in Nat /\ up \in Int
  BY <1>1, LenIs, LenProperties
<1>3. s.dma.up + 1 = s.log.go
  BY <1>1, <1>2 DEF Going, Under, Accounted
<1>4. StepOver(s) = r
  <2>1. [s EXCEPT !.dma.stop = FALSE, !.dma.up = IF @ < n THEN @ + 1 ELSE @] = k
    BY <1>1 DEF CountTo, DmaTypes, DmaShape, DmaFields
  <2> QED BY <1>2, <2>1 DEF StepOver
<1> HIDE DEF up
<1>5. /\ DmaTypes(k) /\ k.dma.up = up /\ k.dma.stop = FALSE /\ SameBus(s, k) /\ SameReading(s, k)
      /\ \A x \in Registers : k.dma.regs[x] = s.dma.regs[x]
      /\ k.dma.addrA = s.dma.addrA /\ k.dma.addrB = s.dma.addrB /\ k.dma.blockLen = s.dma.blockLen
      /\ k.dma.status = s.dma.status /\ k.ram = s.ram /\ k.dev = s.dev /\ k.log = s.log
  BY <1>1, <1>2, CountToIs, ZenonT(60)
<1> HIDE DEF k
<1>6. Told(k, p) /\ PortsAt(k, p, i)
  BY <1>1, <1>5 DEF Told, Registers, Going, Under, PortsAt
<1>7. DmaTypes(r) /\ PortsAt(r, p, i + 1) /\ SameButPorts(k, r)
  BY <1>2, <1>5, <1>6, PortsMove
<1> HIDE DEF r
<1>8. /\ \A x \in Registers : r.dma.regs[x] = s.dma.regs[x]
      /\ r.dma.blockLen = s.dma.blockLen /\ r.dma.status = s.dma.status /\ r.ram = s.ram
      /\ r.dev = s.dev /\ r.log = s.log /\ SameBus(s, r) /\ SameReading(s, r)
      /\ r.dma.up = up /\ r.dma.stop = FALSE
  BY <1>5, <1>7 DEF SameButPorts, SameBus, SameReading
<1>9. Accounted(r, p)
  <2>1. r.dma.up = up /\ r.log.go = s.log.go /\ r.dma.stop = FALSE
    BY <1>8
  <2> QED BY <1>1, <1>2, <1>3, <2>1 DEF Accounted, up
<1>10. PortsAt(r, p, IF r.dma.stop THEN Len(r.log.bytes) ELSE Len(r.log.bytes) + 1)
  BY <1>7, <1>8
<1>11. Going(r, p, g)
  BY <1>1, <1>7, <1>8, <1>9, <1>10, GoingAgain DEF Going, Under, Bus
<1>12. QED
  BY <1>4, <1>8, <1>11

LoopOK(l, s, p, g) ==
  /\ DOMAIN l = {"state", "found", "occured", "over"} /\ Going(l.state, p, g) /\ SameReading(s, l.state)
  /\ l.found \in BOOLEAN /\ (l.found => l.state.dma.stop /\ p.how.mode # "transfer")

LEMMA ReadingOn ==
  ASSUME NEW s, NEW r, NEW t, SameReading(s, r), SameReading(r, t) PROVE SameReading(s, t)
BY DEF SameReading

LEMMA RoundGoes ==
  ASSUME DmaTransferAssumption, NEW l, NEW s, NEW p, Fits(p), NEW g \in 1..MaxGoes, LoopOK(l, s, p, g), GoesOn(l)
  PROVE  LoopOK(After(Round(l)), s, p, g)
<1> DEFINE x == l.state
           b == RequestBus(x)
           c == OneByte(b)
           d == IF Reg(x, "mode") = "byte" THEN ReleaseBus(c) ELSE c
           found == Searches(x) /\ c.log.bytes[Len(c.log.bytes)] = Reg(x, "match")
           e == Counted(d, found)
<1>1. DmaTypes(x) /\ Told(x, p) /\ x.dma.enabled /\ Under(x, p, g) /\ Bus(x) /\ SameReading(s, x)
      /\ x.dma.status = "none" /\ x.dma.blockLen = LenOf(p)
  BY DEF LoopOK, Going, Under, StatusTrue
<1>2. x.dma.up < LenOf(p) /\ ~l.found
  BY <1>1, LenIs DEF GoesOn
<1>3. CASE x.dma.stop
  <2>1. Round(l) = [l EXCEPT !.state = StepOver(x)]
    BY <1>3 DEF Round
  <2>2. Going(StepOver(x), p, g) /\ SameReading(x, StepOver(x))
    BY <1>2, <1>3, StepOverGoes DEF LoopOK
  <2> DEFINE y == StepOver(x)
  <2> HIDE DEF y
  <2>3. Round(l).state = y /\ Round(l).found = l.found /\ DOMAIN Round(l) = DOMAIN l
        /\ DOMAIN l = {"state", "found", "occured", "over"}
    BY <2>1 DEF LoopOK, y
  <2>4. After(Round(l)).state = y /\ After(Round(l)).found = l.found /\ DOMAIN After(Round(l)) = DOMAIN l
    BY <2>3 DEF After
  <2>5. SameReading(s, y)
    BY <1>1, <2>2, ReadingOn DEF y
  <2> QED BY <1>2, <2>2, <2>3, <2>4, <2>5 DEF LoopOK, y
<1>4. CASE ~x.dma.stop
  <2>1. /\ QuietChange(x, b) /\ SameReading(x, b) /\ b.dma.enabled = x.dma.enabled /\ b.holds = b.dma.master
    BY <1>1, BusIsQuiet DEF Bus
  <2>2. Under(b, p, g)
    BY <1>1, <2>1, QuietKeeps DEF Bus
  <2>3. /\ ~b.dma.stop /\ b.dma.up < LenOf(p) /\ b.dma.enabled /\ b.dma.status = "none"
        /\ b.dma.blockLen = LenOf(p)
    BY <1>1, <1>2, <1>4, <2>1 DEF QuietChange, SameBlock
  <2> HIDE DEF b
  <2>4. Taken(c, p, g) /\ SameReading(b, c)
    BY <2>2, <2>3, OneByteTakes
  <2> HIDE DEF c
  <2>5. Taken(d, p, g) /\ SameReading(c, d)
    <3>1. CASE Reg(x, "mode") = "byte"
      <4>1. /\ QuietChange(c, d) /\ SameReading(c, d) /\ d.dma.enabled = c.dma.enabled /\ d.holds = d.dma.master
        BY <2>4, <3>1, BusIsQuiet DEF Taken
      <4> QED BY <2>4, <4>1, TakenQuietly
    <3>2. CASE Reg(x, "mode") # "byte"
      BY <2>4, <3>2 DEF SameReading
    <3> QED BY <3>1, <3>2
  <2> HIDE DEF d
  <2>6. found \in BOOLEAN /\ (found => p.how.mode # "transfer")
    BY <1>1 DEF Searches, Reg, Told
  <2> HIDE DEF found
  <2>7. Going(e, p, g) /\ SameReading(d, e) /\ (found => e.dma.stop)
    BY <2>5, CountedGoes
  <2> HIDE DEF e
  <2>8. Round(l) = [state |-> e, found |-> found, occured |-> TRUE, over |-> FALSE]
    BY <1>4 DEF Round, Searched, Moved, b, c, d, found, e
  <2>9. After(Round(l)).state = e /\ After(Round(l)).found = found
        /\ DOMAIN After(Round(l)) = {"state", "found", "occured", "over"}
    BY <2>8 DEF After
  <2>10. SameReading(s, e)
    BY <1>1, <2>1, <2>4, <2>5, <2>7, ReadingOn
  <2> QED BY <2>6, <2>7, <2>9, <2>10 DEF LoopOK
<1>5. QED
  BY <1>3, <1>4


\* The rounds are a function: one that begins as it should can be continued.
RoundsOf(m, l, f) ==
  [i \in 0..m |->
     IF i = 0 THEN l
     ELSE LET r == f[i - 1]
          IN IF GoesOn(r) THEN After(Round(r)) ELSE r]

LEMMA NatCounts ==
  ASSUME NEW S, 0 \in S, \A n \in Nat : n \in S => n + 1 \in S
  PROVE  Nat \subseteq S
<1>1. SUFFICES ASSUME Nat \ S # {} PROVE FALSE
  OBVIOUS
<1>2. PICK x \in Nat \ S : \A y \in Nat \ S : x <= y
  BY <1>1, LeastNumber
<1>3. x # 0 /\ x - 1 \in Nat /\ ~(x <= x - 1)
  BY <1>2
<1>4. x - 1 \in S
  BY <1>2, <1>3
<1>5. QED
  BY <1>2, <1>3, <1>4

LEMMA RoundsAre ==
  ASSUME NEW m \in Nat, NEW l
  PROVE  \E f : f = RoundsOf(m, l, f)
<1> DEFINE S == {i \in Nat : \E f : f = RoundsOf(i, l, f)}
<1>1. 0 \in S
  <2> DEFINE f == [n \in 0..0 |-> l]
  <2>1. f = RoundsOf(0, l, f)
    BY DEF RoundsOf
  <2> QED BY <2>1
<1>2. ASSUME NEW i \in Nat, i \in S PROVE i + 1 \in S
  <2>1. PICK f : f = RoundsOf(i, l, f)
    BY <1>2
  <2> DEFINE r == f[i]
             last == IF GoesOn(r) THEN After(Round(r)) ELSE r
             g == [k \in 0..(i + 1) |-> IF k = i + 1 THEN last ELSE f[k]]
  <2>2. g[i + 1] = last /\ \A k \in 0..i : g[k] = f[k]
    <3>1. i + 1 \in 0..(i + 1) /\ \A k \in 0..i : k \in 0..(i + 1) /\ k # i + 1
      OBVIOUS
    <3> HIDE DEF last
    <3> QED BY <3>1
  <2>3. \A k \in 0..i : f[k] = RoundsOf(i, l, f)[k]
    BY <2>1
  <2>4. g = [k \in 0..(i + 1) |-> g[k]]
        /\ RoundsOf(i + 1, l, g) = [k \in 0..(i + 1) |-> RoundsOf(i + 1, l, g)[k]]
    BY DEF RoundsOf
  <2> HIDE DEF g
  <2>5. ASSUME NEW k \in 0..(i + 1) PROVE g[k] = RoundsOf(i + 1, l, g)[k]
    <3>1. CASE k = i + 1
      <4>1. k # 0 /\ k - 1 = i /\ i \in 0..i
        BY <3>1
      <4> QED BY <4>1, <3>1, <2>2 DEF RoundsOf
    <3>2. CASE k # i + 1
      <4>1. k \in 0..i /\ (k # 0 => k - 1 \in 0..i)
        BY <3>2
      <4>2. g[k] = f[k] /\ (k # 0 => g[k - 1] = f[k - 1])
        BY <4>1, <2>2
      <4> QED BY <4>1, <4>2, <2>3 DEF RoundsOf
    <3> QED BY <3>1, <3>2
  <2>6. g = RoundsOf(i + 1, l, g)
    BY <2>4, <2>5
  <2> QED BY <2>6
<1> HIDE DEF S
<1>3. Nat \subseteq S
  BY <1>1, <1>2, NatCounts
<1> QED BY <1>3 DEF S

LEMMA LoopGoes ==
  ASSUME DmaTransferAssumption, NEW l, NEW s, NEW p, Fits(p), NEW g \in 1..MaxGoes, LoopOK(l, s, p, g)
  PROVE  LoopOK(Loop(l), s, p, g)
<1> DEFINE n == All + 2
           f == CHOOSE h : h = RoundsOf(n, l, h)
           S == {i \in Nat : i <= n => LoopOK(f[i], s, p, g)}
<1>1. n \in Nat
  BY DEF DmaTransferAssumption
<1>2. Loop(l) = f[n]
  BY DEF Loop, RoundsOf
<1> HIDE DEF n
<1>3. f = RoundsOf(n, l, f)
  BY <1>1, RoundsAre
<1> HIDE DEF f
<1>4. 0 \in S
  <2>1. f[0] = l
    BY <1>1, <1>3 DEF RoundsOf
  <2> QED BY <2>1
<1>5. ASSUME NEW i \in Nat, i \in S PROVE i + 1 \in S
  <2>1. SUFFICES ASSUME i + 1 <= n PROVE LoopOK(f[i + 1], s, p, g)
    OBVIOUS
  <2>2. i + 1 \in 0..n /\ i + 1 # 0 /\ (i + 1) - 1 = i /\ i <= n
    BY <1>1, <2>1
  <2>3. f[i + 1] = RoundsOf(n, l, f)[i + 1]
    BY <1>3
  <2>4. f[i + 1] = IF GoesOn(f[i]) THEN After(Round(f[i])) ELSE f[i]
    BY <2>2, <2>3 DEF RoundsOf
  <2>5. LoopOK(f[i], s, p, g)
    BY <1>5, <2>2
  <2>6. GoesOn(f[i]) => LoopOK(After(Round(f[i])), s, p, g)
    BY <2>5, RoundGoes
  <2> QED BY <2>4, <2>5, <2>6
<1> HIDE DEF S
<1>6. n \in S
  BY <1>1, <1>4, <1>5, NatCounts
<1> QED BY <1>1, <1>2, <1>6 DEF S

LEMMA StatusChanges ==
  ASSUME NEW s, NEW r, NEW p, NEW g, Under(s, p, g), DmaTypes(r),
         \A x \in Registers : r.dma.regs[x] = s.dma.regs[x],
         r.dma.addrA = s.dma.addrA, r.dma.addrB = s.dma.addrB, r.dma.up = s.dma.up,
         r.dma.stop = s.dma.stop, r.ram = s.ram, r.dev.next = s.dev.next, r.dev.got = s.dev.got,
         r.log = s.log, Bus(r), StatusTrue(r, p)
  PROVE  Under(r, p, g)
<1>1. Told(r, p)
  BY DEF Under, Told, Registers
<1>2. Accounted(r, p) /\ Room(r, p, g)
  BY DEF Under, Accounted, Room
<1>3. PortsAt(r, p, IF r.dma.stop THEN Len(r.log.bytes) ELSE Len(r.log.bytes) + 1)
  BY DEF Under, PortsAt
<1>4. RamKept(r, p)
  BY DEF Under, RamKept
<1>5. Moves(r, p)
  BY MovesAre DEF Under
<1>6. QED
  BY <1>1, <1>2, <1>3, <1>4, <1>5 DEF Under

Off(s, status) == [s EXCEPT !.dma.enabled = FALSE, !.dma.status = status]
LEMMA OffIs ==
  ASSUME NEW s, DmaTypes(s), NEW status \in {"none", "eob", "match", "both"}
  PROVE  LET r == Off(s, status)
         IN /\ DmaTypes(r) /\ \A x \in Registers : r.dma.regs[x] = s.dma.regs[x]
            /\ r.dma.addrA = s.dma.addrA /\ r.dma.addrB = s.dma.addrB /\ r.dma.up = s.dma.up
            /\ r.dma.stop = s.dma.stop /\ r.ram = s.ram /\ r.dev = s.dev /\ r.log = s.log
            /\ SameReading(s, r) /\ r.holds = s.holds /\ r.dma.master = s.dma.master
            /\ r.dma.enabled = FALSE /\ r.dma.status = status /\ r.dma.blockLen = s.dma.blockLen
<1> DEFINE r == Off(s, status)
<1>1. /\ \A x \in Registers : r.dma.regs[x] = s.dma.regs[x]
      /\ r.dma.addrA = s.dma.addrA /\ r.dma.addrB = s.dma.addrB /\ r.dma.up = s.dma.up
      /\ r.dma.stop = s.dma.stop /\ r.ram = s.ram /\ r.dev = s.dev /\ r.log = s.log
      /\ SameReading(s, r) /\ r.holds = s.holds /\ r.dma.master = s.dma.master
      /\ r.dma.enabled = FALSE /\ r.dma.status = status /\ r.dma.blockLen = s.dma.blockLen
  BY DEF Off, DmaTypes, DmaShape, DmaFields, SameReading
<1>2. DmaShape(r)
  BY DEF Off, DmaTypes, DmaShape, DmaFields
<1>3. DmaBools(r)
  BY DEF Off, DmaTypes, DmaShape, DmaFields, DmaBools
<1> HIDE DEF r
<1>4. DmaTypes(r)
  BY <1>1, <1>2, <1>3 DEF DmaTypes
<1>5. QED
  BY <1>1, <1>4 DEF r

LEMMA LoopEnds ==
  ASSUME DmaTransferAssumption, NEW l, NEW s, NEW p, Fits(p), EndsInTime(p), NEW g \in 1..MaxGoes,
         LoopOK(l, s, p, g)
  PROVE  LET r == Left(Concluded(l)) IN Under(r, p, g) /\ SameReading(s, r)
<1> DEFINE x == l.state
           n == LenOf(p)
           whole == x.dma.up = n
           status == IF l.found /\ whole THEN "both" ELSE IF l.found THEN "match" ELSE "eob"
           m == Off(x, status)
           finished == whole \/ (l.found /\ p.stopOnMatch)
           e == Concluded(l)
<1>1. DmaTypes(x) /\ Told(x, p) /\ Under(x, p, g) /\ Bus(x) /\ SameReading(s, x) /\ x.dma.blockLen = n
      /\ l.found \in BOOLEAN /\ (l.found => x.dma.stop /\ p.how.mode # "transfer")
  BY DEF LoopOK, Going, Under
<1>2. BlockLen(x) = n /\ Reg(x, "restart") = FALSE /\ Reg(x, "mode") = p.mode
      /\ Reg(x, "stopOnMatch") = p.stopOnMatch
  BY <1>1, LenIs DEF EndsInTime, Told, Reg
<1>3. \/ e = [state |-> x, finished |-> FALSE]
      \/ /\ l.occured /\ (whole \/ l.found) /\ e.finished = finished
         /\ e.state = m \/ \E level : e.state = RequestIntr(m, level)
  <2>1. [x EXCEPT !.dma.enabled = FALSE, !.dma.status = status] = m
    BY DEF Off
  <2> HIDE DEF m, status
  <2>2. CASE ~(l.occured /\ (whole \/ l.found))
    BY <1>2, <2>2 DEF Concluded
  <2>3. CASE l.occured /\ (whole \/ l.found)
    BY <1>2, <2>1, <2>3 DEF Concluded, status
  <2> QED BY <2>2, <2>3
<1>4. CASE e = [state |-> x, finished |-> FALSE]
  <2>1. Left(e) \in {x, ReleaseBus(x)}
    BY <1>4 DEF Left
  <2>2. QuietChange(x, ReleaseBus(x)) /\ SameReading(x, ReleaseBus(x)) /\ Bus(ReleaseBus(x))
        /\ ReleaseBus(x).dma.enabled = x.dma.enabled
    BY <1>1, BusIsQuiet DEF Bus
  <2>3. x.dma.status = "none"
    BY DEF LoopOK, Going, Under, StatusTrue
  <2>4. Under(ReleaseBus(x), p, g)
    BY <1>1, <2>2, <2>3, QuietKeeps
  <2> QED BY <1>1, <2>1, <2>2, <2>4, ReadingOn
<1>5. CASE l.occured /\ (whole \/ l.found) /\ e.finished = finished
           /\ (e.state = m \/ \E level : e.state = RequestIntr(m, level))
  <2> DEFINE y == e.state
             z == ReleaseBus(y)
  <2>1. /\ DmaTypes(m) /\ \A i \in Registers : m.dma.regs[i] = x.dma.regs[i]
        /\ m.dma.addrA = x.dma.addrA /\ m.dma.addrB = x.dma.addrB /\ m.dma.up = x.dma.up
        /\ m.dma.stop = x.dma.stop /\ m.ram = x.ram /\ m.dev = x.dev /\ m.log = x.log
        /\ SameReading(x, m) /\ m.holds = x.holds /\ m.dma.master = x.dma.master
        /\ m.dma.enabled = FALSE /\ m.dma.status = status /\ m.dma.blockLen = x.dma.blockLen
    <3>1. status \in {"none", "eob", "match", "both"}
      OBVIOUS
    <3> HIDE DEF status
    <3> QED BY <1>1, <3>1, OffIs
  <2> HIDE DEF m
  <2>2. Silent(m, y)
    BY <1>5, <2>1, IntrIsSilent
  <2> HIDE DEF e, y
  <2>3. y.holds = y.dma.master /\ DmaTypes(y) /\ y.dma.enabled = FALSE
    BY <1>1, <2>1, <2>2 DEF Silent, QuietChange, SameBus, Bus
  <2>4. /\ QuietChange(y, z) /\ SameReading(y, z) /\ z.dma.enabled = FALSE /\ z.holds = z.dma.master
        /\ z.dma.master = FALSE
    BY <2>3, BusIsQuiet
  <2>5. Left(e) = z
    <3>1. finished \/ p.mode = "byte"
      BY <1>1, <1>5 DEF EndsInTime
    <3>2. Reg(y, "mode") = p.mode
      BY <1>2, <2>1, <2>2 DEF Silent, QuietChange, SameBlock, Reg, Registers
    <3> QED BY <1>5, <3>1, <3>2 DEF Left, y
  <2> HIDE DEF z
  <2>6. /\ \A i \in Registers : z.dma.regs[i] = x.dma.regs[i]
        /\ z.dma.addrA = x.dma.addrA /\ z.dma.addrB = x.dma.addrB /\ z.dma.up = x.dma.up
        /\ z.dma.stop = x.dma.stop /\ z.ram = x.ram /\ z.dev.next = x.dev.next /\ z.dev.got = x.dev.got
        /\ z.log = x.log /\ z.dma.status = status /\ z.dma.blockLen = n
    <3>1. \A i \in Registers : z.dma.regs[i] = x.dma.regs[i]
      BY <2>1, <2>2, <2>4 DEF Silent, QuietChange, SameBlock, SameReading, Registers
    <3> QED BY <1>1, <3>1, <2>1, <2>2, <2>4 DEF Silent, QuietChange, SameBlock
  <2>7. StatusTrue(z, p)
    <3>1. x.dma.stop => x.dma.up < n \/ x.dma.up = n
      BY <1>1 DEF Under, Accounted
    <3>2. /\ status \in {"eob", "both"} => z.dma.up = n
          /\ status = "match" => z.dma.stop /\ z.dma.up < n
      BY <1>1, <1>5, <2>6, <3>1
    <3> HIDE DEF status
    <3> QED BY <2>4, <2>6, <3>2 DEF StatusTrue
  <2>8. Under(z, p, g)
    <3> HIDE DEF status
    <3>1. Bus(z) /\ DmaTypes(z)
      BY <2>4 DEF Bus, QuietChange
    <3> QED BY <1>1, <2>6, <2>7, <3>1, StatusChanges
  <2>9. SameReading(s, z)
    BY <1>1, <2>1, <2>2, <2>4, ReadingOn DEF Silent
  <2> QED BY <2>5, <2>8, <2>9 DEF e
<1>6. QED
  BY <1>3, <1>4, <1>5

LEMMA DoDmaKeeps ==
  ASSUME DmaTransferAssumption, NEW s, NEW p, Fits(p), EndsInTime(p), NEW g \in 1..MaxGoes, Under(s, p, g)
  PROVE  /\ Under(DoDma(s), p, g) /\ SameReading(s, DoDma(s))
         /\ ~s.dma.enabled => DoDma(s) = s
<1>1. CASE ~s.dma.enabled \/ (s.dma.afterReti /\ s.dma.inService)
  BY <1>1 DEF DoDma, SameReading
<1>2. CASE s.dma.enabled /\ ~(s.dma.afterReti /\ s.dma.inService)
  <2> DEFINE k == [s EXCEPT !.dma.blockLen = LenOf(p)]
             l == [state |-> k, found |-> FALSE, occured |-> FALSE, over |-> FALSE]
  <2>1. DmaTypes(s) /\ Told(s, p) /\ s.dma.status = "none" /\ BlockLen(s) = LenOf(p)
        /\ LenOf(p) \in 0..(All + 1)
    <3>1. DmaTypes(s) /\ Told(s, p) /\ s.dma.status = "none"
      BY <1>2 DEF Under, StatusTrue
    <3>2. BlockLen(s) = LenOf(p) /\ LenOf(p) \in 1..(All + 1) /\ All \in Nat
      BY <3>1, LenIs
    <3> QED BY <3>1, <3>2
  <2>2. /\ \A x \in Registers : k.dma.regs[x] = s.dma.regs[x]
        /\ k.dma.addrA = s.dma.addrA /\ k.dma.addrB = s.dma.addrB /\ k.dma.up = s.dma.up
        /\ k.dma.stop = s.dma.stop /\ k.ram = s.ram /\ k.dev = s.dev /\ k.log = s.log
        /\ SameReading(s, k) /\ SameBus(s, k) /\ k.dma.status = s.dma.status
        /\ k.dma.blockLen = LenOf(p) /\ DmaShape(k)
    BY <2>1 DEF DmaTypes, DmaShape, DmaFields, SameReading, SameBus
  <2>3. DmaBools(k)
    BY <2>1 DEF DmaTypes, DmaShape, DmaFields, DmaBools
  <2>4. DoDma(s) = Left(Concluded(Loop(l)))
    BY <1>2, <2>1 DEF DoDma
  <2> HIDE DEF k
  <2>5. DmaTypes(k)
    BY <2>1, <2>2, <2>3 DEF DmaTypes
  <2>6. Bus(k) /\ StatusTrue(k, p) /\ k.dma.enabled
    BY <1>2, <2>1, <2>2 DEF Under, Bus, SameBus, StatusTrue
  <2>7. Under(k, p, g)
    BY <2>2, <2>5, <2>6, StatusChanges
  <2>8. LoopOK(l, s, p, g)
    BY <2>2, <2>6, <2>7 DEF LoopOK, Going
  <2> HIDE DEF l
  <2>9. LoopOK(Loop(l), s, p, g)
    BY <2>8, LoopGoes
  <2> QED BY <1>2, <2>4, <2>9, LoopEnds
<1>3. QED
  BY <1>1, <1>2


(***************************************************************************)
(* Commands.                                                               *)
(***************************************************************************)
Halted(s, stop) == [s EXCEPT !.dma.enabled = FALSE, !.dma.stop = stop]

LEMMA HaltedIs ==
  ASSUME NEW s, DmaTypes(s), NEW stop \in BOOLEAN
  PROVE  LET r == Halted(s, stop)
         IN /\ DmaTypes(r) /\ SameReading(s, r) /\ \A x \in Registers : r.dma.regs[x] = s.dma.regs[x]
            /\ r.dma.addrA = s.dma.addrA /\ r.dma.addrB = s.dma.addrB /\ r.dma.up = s.dma.up
            /\ r.dma.stop = stop /\ r.ram = s.ram /\ r.dev = s.dev /\ r.log = s.log
            /\ r.holds = s.holds /\ r.dma.master = s.dma.master /\ r.dma.enabled = FALSE
            /\ r.dma.status = s.dma.status /\ r.dma.blockLen = s.dma.blockLen
<1> DEFINE r == Halted(s, stop)
<1>1. /\ SameReading(s, r) /\ \A x \in Registers : r.dma.regs[x] = s.dma.regs[x]
      /\ r.dma.addrA = s.dma.addrA /\ r.dma.addrB = s.dma.addrB /\ r.dma.up = s.dma.up
      /\ r.dma.stop = stop /\ r.ram = s.ram /\ r.dev = s.dev /\ r.log = s.log
      /\ r.holds = s.holds /\ r.dma.master = s.dma.master /\ r.dma.enabled = FALSE
      /\ r.dma.status = s.dma.status /\ r.dma.blockLen = s.dma.blockLen
  BY DEF Halted, DmaTypes, DmaShape, DmaFields, SameReading
<1>2. DmaShape(r)
  BY DEF Halted, DmaTypes, DmaShape, DmaFields
<1>3. DmaBools(r)
  BY DEF Halted, DmaTypes, DmaShape, DmaFields, DmaBools
<1> HIDE DEF r
<1>4. DmaTypes(r)
  BY <1>1, <1>2, <1>3 DEF DmaTypes
<1>5. QED
  BY <1>1, <1>4 DEF r

\* What each command does once the controller is halted.
LEMMA CommandsAre ==
  ASSUME NEW s
  PROVE  /\ Command(s, "enable") = [Halted(s, s.dma.stop /\ TRUE) EXCEPT !.dma.enabled = TRUE]
         /\ Command(s, "readMask") = [Halted(s, s.dma.stop /\ TRUE) EXCEPT !.dma.follow = <<"readMask">>]
         /\ Command(s, "initiateRead") = ReadBuffer(Halted(s, s.dma.stop /\ TRUE), 0)
         /\ Command(s, "forceReady") = ReadyIntr([Halted(s, s.dma.stop /\ FALSE) EXCEPT !.dma.force = TRUE])
         /\ Command(s, "enableInterrupts")
              = ReadyIntr([Halted(s, s.dma.stop /\ FALSE) EXCEPT !.dma.intEnable = TRUE])
         /\ Command(s, "enableAfterReti") = [Halted(s, s.dma.stop /\ FALSE) EXCEPT !.dma.afterReti = TRUE]
         /\ Command(s, "resetInterrupts")
              = [Halted(s, s.dma.stop /\ FALSE) EXCEPT !.dma.intEnable = FALSE, !.dma.req = FALSE,
                                                       !.dma.force = FALSE]
<1> DEFINE m(c) == [s EXCEPT !.dma.enabled = FALSE, !.dma.stop = (@ /\ c \in Keep)]
<1>1. /\ m("enable") = Halted(s, s.dma.stop /\ TRUE) /\ m("readMask") = Halted(s, s.dma.stop /\ TRUE)
      /\ m("initiateRead") = Halted(s, s.dma.stop /\ TRUE)
  BY DEF Halted, Keep
<1>2. /\ m("forceReady") = Halted(s, s.dma.stop /\ FALSE) /\ m("enableInterrupts") = Halted(s, s.dma.stop /\ FALSE)
      /\ m("enableAfterReti") = Halted(s, s.dma.stop /\ FALSE)
      /\ m("resetInterrupts") = Halted(s, s.dma.stop /\ FALSE)
  BY DEF Halted, Keep
<1>3. /\ Command(s, "enable") = [m("enable") EXCEPT !.dma.enabled = TRUE]
      /\ Command(s, "readMask") = [m("readMask") EXCEPT !.dma.follow = <<"readMask">>]
      /\ Command(s, "initiateRead") = ReadBuffer(m("initiateRead"), 0)
  BY DEF Command
<1>4. /\ Command(s, "forceReady") = ReadyIntr([m("forceReady") EXCEPT !.dma.force = TRUE])
      /\ Command(s, "enableInterrupts") = ReadyIntr([m("enableInterrupts") EXCEPT !.dma.intEnable = TRUE])
      /\ Command(s, "enableAfterReti") = [m("enableAfterReti") EXCEPT !.dma.afterReti = TRUE]
      /\ Command(s, "resetInterrupts")
           = [m("resetInterrupts") EXCEPT !.dma.intEnable = FALSE, !.dma.req = FALSE, !.dma.force = FALSE]
  BY DEF Command
<1>5. QED
  BY <1>1, <1>2, <1>3, <1>4

\* A change of the controller that is none of a transfer's.
LEMMA QuietFrom ==
  ASSUME NEW s, NEW r, DmaTypes(s), DmaShape(r), DmaBools(r), SameBlock(s, r)
  PROVE  QuietChange(s, r)
BY DEF QuietChange, DmaTypes, SameBlock

LEMMA EnableIs ==
  ASSUME NEW s, DmaTypes(s)
  PROVE  LET r == Command(s, "enable")
         IN QuietChange(s, r) /\ SameReading(s, r) /\ r.holds = s.holds /\ r.dma.master = s.dma.master /\ r.dma.enabled = TRUE
<1> DEFINE h == Halted(s, s.dma.stop /\ TRUE)
           r == [h EXCEPT !.dma.enabled = TRUE]
<1>1. (s.dma.stop /\ TRUE) \in BOOLEAN /\ (s.dma.stop /\ TRUE) = s.dma.stop
  BY DEF DmaTypes, DmaBools
<1>2. /\ DmaTypes(h) /\ SameReading(s, h) /\ \A x \in Registers : h.dma.regs[x] = s.dma.regs[x]
      /\ h.dma.addrA = s.dma.addrA /\ h.dma.addrB = s.dma.addrB /\ h.dma.up = s.dma.up
      /\ h.dma.stop = s.dma.stop /\ h.ram = s.ram /\ h.dev = s.dev /\ h.log = s.log
      /\ h.holds = s.holds /\ h.dma.master = s.dma.master
      /\ h.dma.status = s.dma.status /\ h.dma.blockLen = s.dma.blockLen
  BY <1>1, HaltedIs
<1> HIDE DEF h
<1>3. DmaShape(r)
  BY <1>2 DEF DmaTypes, DmaShape, DmaFields
<1>4. DmaBools(r)
  BY <1>2 DEF DmaTypes, DmaShape, DmaFields, DmaBools
<1>5. SameBlock(s, r) /\ SameReading(s, r) /\ r.holds = s.holds /\ r.dma.master = s.dma.master /\ r.dma.enabled = TRUE
  BY <1>2 DEF DmaTypes, DmaShape, DmaFields, SameBlock, SameReading
<1>6. Command(s, "enable") = r
  BY CommandsAre DEF h
<1> HIDE DEF r
<1>7. QED
  BY <1>3, <1>4, <1>5, <1>6, QuietFrom


LEMMA HaltedTwice ==
  ASSUME NEW s, DmaTypes(s)
  PROVE  /\ (s.dma.stop /\ TRUE) \in BOOLEAN /\ (s.dma.stop /\ TRUE) = s.dma.stop
         /\ (s.dma.stop /\ FALSE) \in BOOLEAN /\ (s.dma.stop /\ FALSE) = FALSE
BY DEF DmaTypes, DmaBools

LEMMA HaltedOn ==
  ASSUME NEW s, DmaTypes(s)
  PROVE  LET h == Halted(s, s.dma.stop /\ TRUE)
         IN /\ DmaTypes(h) /\ SameReading(s, h) /\ \A x \in Registers : h.dma.regs[x] = s.dma.regs[x]
            /\ h.dma.addrA = s.dma.addrA /\ h.dma.addrB = s.dma.addrB /\ h.dma.up = s.dma.up
            /\ h.dma.stop = s.dma.stop /\ h.ram = s.ram /\ h.dev = s.dev /\ h.log = s.log
            /\ h.holds = s.holds /\ h.dma.master = s.dma.master /\ h.dma.enabled = FALSE
            /\ h.dma.status = s.dma.status /\ h.dma.blockLen = s.dma.blockLen
BY HaltedIs, HaltedTwice, ZenonT(60)

\* The mask is announced.
LEMMA ReadMaskIs ==
  ASSUME NEW s, DmaTypes(s)
  PROVE  LET r == Command(s, "readMask")
         IN /\ QuietChange(s, r) /\ r.holds = s.holds /\ r.dma.master = s.dma.master /\ r.dma.enabled = FALSE
            /\ r.dma.follow = <<"readMask">> /\ r.dma.rr = s.dma.rr /\ r.dma.rrAt = s.dma.rrAt
            /\ r.dma.regs["readMask"] = s.dma.regs["readMask"]
<1> DEFINE h == Halted(s, s.dma.stop /\ TRUE)
           r == [h EXCEPT !.dma.follow = <<"readMask">>]
<1>1. /\ DmaTypes(h) /\ SameReading(s, h) /\ \A x \in Registers : h.dma.regs[x] = s.dma.regs[x]
      /\ h.dma.addrA = s.dma.addrA /\ h.dma.addrB = s.dma.addrB /\ h.dma.up = s.dma.up
      /\ h.dma.stop = s.dma.stop /\ h.ram = s.ram /\ h.dev = s.dev /\ h.log = s.log
      /\ h.holds = s.holds /\ h.dma.master = s.dma.master /\ h.dma.enabled = FALSE
      /\ h.dma.status = s.dma.status /\ h.dma.blockLen = s.dma.blockLen
  BY HaltedOn
<1> HIDE DEF h
<1>2. DmaShape(r)
  BY <1>1 DEF DmaTypes, DmaShape, DmaFields
<1>3. DmaBools(r)
  BY <1>1 DEF DmaTypes, DmaShape, DmaFields, DmaBools
<1>4. /\ SameBlock(s, r) /\ r.holds = s.holds /\ r.dma.master = s.dma.master /\ r.dma.enabled = FALSE
      /\ r.dma.follow = <<"readMask">> /\ r.dma.rr = s.dma.rr /\ r.dma.rrAt = s.dma.rrAt
      /\ r.dma.regs["readMask"] = s.dma.regs["readMask"]
  BY <1>1 DEF DmaTypes, DmaShape, DmaFields, SameBlock, SameReading
<1>5. Command(s, "readMask") = r
  BY CommandsAre DEF h
<1> HIDE DEF r
<1>6. QED
  BY <1>2, <1>3, <1>4, <1>5, QuietFrom

LEMMA PutAfter ==
  ASSUME NEW S, NEW q \in Seq(S), NEW t \in Seq(S), NEW e \in S, Len(t) = Len(q) + 1,
         \A i \in 1..Len(q) : t[i] = q[i], t[Len(q) + 1] = e
  PROVE  q \o <<e>> = t
<1> DEFINE r == Append(q, e)
<1>1. /\ r \in Seq(S) /\ Len(r) = Len(q) + 1 /\ \A i \in 1..Len(q) : r[i] = q[i]
      /\ r[Len(q) + 1] = e
  BY AppendProperties
<1>2. r = q \o <<e>> /\ Len(q) \in Nat
  BY AppendIsConcat, LenProperties
<1> HIDE DEF r
<1>3. ASSUME NEW i \in 1..Len(r) PROVE r[i] = t[i]
  <2>1. i \in 1..Len(q) \/ i = Len(q) + 1
    BY <1>1, <1>2
  <2> QED BY <1>1, <2>1
<1>4. r = t
  BY <1>1, <1>3, SeqEqual
<1>5. QED
  BY <1>2, <1>4

\* What a buffer holds that all counters were chosen for.
LEMMA FourChosen ==
  ASSUME NEW a, NEW b, NEW c, NEW d
  PROVE  /\ <<a>> \o <<b>> \o <<c>> \o <<d>> = <<a, b, c, d>> /\ Len(<<a, b, c, d>>) = 4
         /\ <<a, b, c, d>> # <<>>
<1> DEFINE S == {a, b, c, d}
<1>1. <<a>> \in Seq(S) /\ <<a, b>> \in Seq(S) /\ <<a, b, c>> \in Seq(S) /\ <<a, b, c, d>> \in Seq(S)
      /\ a \in S /\ b \in S /\ c \in S /\ d \in S
  OBVIOUS
<1> HIDE DEF S
<1>2. <<a>> \o <<b>> = <<a, b>>
  <2> DEFINE q == <<a>>
             t == <<a, b>>
  <2>1. Len(q) = 1 /\ Len(t) = 1 + 1 /\ t[1 + 1] = b /\ \A i \in 1..1 : t[i] = q[i]
    OBVIOUS
  <2>2. q \in Seq(S) /\ t \in Seq(S)
    BY <1>1
  <2> HIDE DEF q, t
  <2>3. Len(t) = Len(q) + 1 /\ t[Len(q) + 1] = b /\ \A i \in 1..Len(q) : t[i] = q[i]
    BY <2>1
  <2>4. q \o <<b>> = t
    BY <1>1, <2>2, <2>3, PutAfter, Zenon
  <2> QED BY <2>4 DEF q, t
<1>3. <<a, b>> \o <<c>> = <<a, b, c>>
  <2> DEFINE q == <<a, b>>
             t == <<a, b, c>>
  <2>1. Len(q) = 2 /\ Len(t) = 2 + 1 /\ t[2 + 1] = c /\ \A i \in 1..2 : t[i] = q[i]
    OBVIOUS
  <2>2. q \in Seq(S) /\ t \in Seq(S)
    BY <1>1
  <2> HIDE DEF q, t
  <2>3. Len(t) = Len(q) + 1 /\ t[Len(q) + 1] = c /\ \A i \in 1..Len(q) : t[i] = q[i]
    BY <2>1
  <2>4. q \o <<c>> = t
    BY <1>1, <2>2, <2>3, PutAfter, Zenon
  <2> QED BY <2>4 DEF q, t
<1>4. <<a, b, c>> \o <<d>> = <<a, b, c, d>>
  <2> DEFINE q == <<a, b, c>>
             t == <<a, b, c, d>>
  <2>1. Len(q) = 3 /\ Len(t) = 3 + 1 /\ t[3 + 1] = d /\ \A i \in 1..3 : t[i] = q[i]
    OBVIOUS
  <2>2. q \in Seq(S) /\ t \in Seq(S)
    BY <1>1
  <2> HIDE DEF q, t
  <2>3. Len(t) = Len(q) + 1 /\ t[Len(q) + 1] = d /\ \A i \in 1..Len(q) : t[i] = q[i]
    BY <2>1
  <2>4. q \o <<d>> = t
    BY <1>1, <2>2, <2>3, PutAfter, Zenon
  <2> QED BY <2>4 DEF q, t
<1>5. Len(<<a, b, c, d>>) = 4 /\ <<a, b, c, d>> # <<>>
  OBVIOUS
<1>6. QED
  BY <1>2, <1>3, <1>4, <1>5

LEMMA BufferIs ==
  ASSUME NEW s, DmaTypes(s), NEW less, s.dma.regs["readMask"] = {1, 2, 3, 4}
  PROVE  LET r == ReadBuffer(s, less)
         IN /\ QuietChange(s, r) /\ SameBus(s, r) /\ r.dma.follow = s.dma.follow
            /\ r.dma.regs["readMask"] = {1, 2, 3, 4} /\ r.dma.rrAt = 1 /\ Len(r.dma.rr) = 4
            /\ r.dma.rr = <<s.dma.status, s.dma.up - less, s.dma.addrA, s.dma.addrB>>
<1> DEFINE rr == <<s.dma.status, s.dma.up - less, s.dma.addrA, s.dma.addrB>>
           r == [s EXCEPT !.dma.rr = rr, !.dma.rrAt = 1]
<1>1. rr[1] = s.dma.status /\ rr[2] = s.dma.up - less /\ rr[3] = s.dma.addrA /\ rr[4] = s.dma.addrB
  OBVIOUS
<1>2. <<s.dma.status>> \o <<s.dma.up - less>> \o <<s.dma.addrA>> \o <<s.dma.addrB>> = rr /\ Len(rr) = 4
  BY FourChosen
<1>3. 1 \in {1, 2, 3, 4} /\ 2 \in {1, 2, 3, 4} /\ 3 \in {1, 2, 3, 4} /\ 4 \in {1, 2, 3, 4}
  OBVIOUS
<1> HIDE DEF rr
<1>4. ReadBuffer(s, less) = r
  BY <1>1, <1>2, <1>3 DEF ReadBuffer, Reg, rr
<1>5. DmaShape(r)
  BY DEF DmaTypes, DmaShape, DmaFields
<1>6. DmaBools(r)
  BY DEF DmaTypes, DmaShape, DmaFields, DmaBools
<1>7. /\ SameBlock(s, r) /\ SameBus(s, r) /\ r.dma.follow = s.dma.follow
      /\ r.dma.regs["readMask"] = {1, 2, 3, 4} /\ r.dma.rrAt = 1 /\ r.dma.rr = rr
  BY DEF DmaTypes, DmaShape, DmaFields, SameBlock, SameBus
<1> HIDE DEF r
<1>8. QED
  BY <1>2, <1>4, <1>5, <1>6, <1>7, QuietFrom DEF rr

\* It is asked for once more.
LEMMA AskIs ==
  ASSUME NEW s, DmaTypes(s), s.dma.regs["readMask"] = {1, 2, 3, 4}
  PROVE  LET r == Command(s, "initiateRead")
         IN /\ QuietChange(s, r) /\ r.holds = s.holds /\ r.dma.master = s.dma.master /\ r.dma.enabled = FALSE
            /\ r.dma.follow = s.dma.follow /\ r.dma.rrAt = 1 /\ Len(r.dma.rr) = 4
            /\ r.dma.regs["readMask"] = {1, 2, 3, 4} /\ r.dma.rr = Counters(r)
<1> DEFINE h == Halted(s, s.dma.stop /\ TRUE)
<1>1. /\ DmaTypes(h) /\ SameReading(s, h) /\ \A x \in Registers : h.dma.regs[x] = s.dma.regs[x]
      /\ h.dma.addrA = s.dma.addrA /\ h.dma.addrB = s.dma.addrB /\ h.dma.up = s.dma.up
      /\ h.dma.stop = s.dma.stop /\ h.ram = s.ram /\ h.dev = s.dev /\ h.log = s.log
      /\ h.holds = s.holds /\ h.dma.master = s.dma.master /\ h.dma.enabled = FALSE
      /\ h.dma.status = s.dma.status /\ h.dma.blockLen = s.dma.blockLen
  BY HaltedOn
<1>2. h.dma.regs["readMask"] = {1, 2, 3, 4} /\ h.dma.follow = s.dma.follow
  BY <1>1 DEF SameReading
<1> DEFINE r == ReadBuffer(h, 0)
<1>3. Command(s, "initiateRead") = r
  BY CommandsAre DEF h
<1> HIDE DEF h
<1>4. /\ QuietChange(h, r) /\ SameBus(h, r) /\ r.dma.follow = h.dma.follow
      /\ r.dma.regs["readMask"] = {1, 2, 3, 4} /\ r.dma.rrAt = 1 /\ Len(r.dma.rr) = 4
      /\ r.dma.rr = <<h.dma.status, h.dma.up - 0, h.dma.addrA, h.dma.addrB>>
  BY <1>1, <1>2, BufferIs
<1> HIDE DEF r
<1>5. h.dma.up \in Int /\ h.dma.up - 0 = h.dma.up
  BY <1>1 DEF DmaTypes
<1>6. r.dma.rr = Counters(r)
  BY <1>4, <1>5 DEF Counters, QuietChange, SameBlock
<1>7. SameBlock(s, r)
  BY <1>1, <1>4 DEF QuietChange, SameBlock
<1>8. QED
  BY <1>1, <1>2, <1>3, <1>4, <1>6, <1>7 DEF QuietChange, SameBus

\* The mask's byte.
LEMMA MaskIs ==
  ASSUME NEW s, DmaTypes(s), s.dma.follow = <<"readMask">>
  PROVE  LET r == WriteFollow(s, {1, 2, 3, 4})
         IN /\ QuietChange(s, r) /\ SameBus(s, r) /\ r.dma.follow = <<>> /\ r.dma.rrAt = 1 /\ Len(r.dma.rr) = 4
            /\ r.dma.regs["readMask"] = {1, 2, 3, 4}
<1> DEFINE m == [s EXCEPT !.dma.regs["readMask"] = {1, 2, 3, 4}, !.dma.follow = <<>>]
           r == ReadBuffer(m, 1)
<1>1. Head(s.dma.follow) = "readMask" /\ Tail(s.dma.follow) = <<>>
  OBVIOUS
<1>2. WriteFollow(s, {1, 2, 3, 4}) = r
  BY <1>1 DEF WriteFollow
<1>3. "readMask" \in Registers
  BY DEF Registers
<1>4. DmaShape(m)
  BY <1>3 DEF DmaTypes, DmaShape, DmaFields
<1>5. DmaBools(m)
  BY <1>3 DEF DmaTypes, DmaShape, DmaFields, DmaBools
<1>6. /\ SameBlock(s, m) /\ SameBus(s, m) /\ m.dma.follow = <<>> /\ m.dma.regs["readMask"] = {1, 2, 3, 4}
  BY <1>3 DEF DmaTypes, DmaShape, DmaFields, SameBlock, SameBus
<1> HIDE DEF m
<1>7. QuietChange(s, m)
  BY <1>4, <1>5, <1>6, QuietFrom
<1>8. /\ QuietChange(m, r) /\ SameBus(m, r) /\ r.dma.follow = m.dma.follow
      /\ r.dma.regs["readMask"] = {1, 2, 3, 4} /\ r.dma.rrAt = 1 /\ Len(r.dma.rr) = 4
  BY <1>6, <1>7, BufferIs DEF QuietChange
<1> HIDE DEF r
<1>9. SameBlock(s, r)
  BY <1>6, <1>8 DEF QuietChange, SameBlock
<1>10. QED
  BY <1>2, <1>6, <1>8, <1>9 DEF QuietChange, SameBus

\* What the last bytes of a program switch on.
Switches == {"forceReady", "enableInterrupts", "enableAfterReti"}
LEMMA SwitchIs ==
  ASSUME NEW s, DmaTypes(s), s.dma.stop = FALSE, NEW c \in Switches
  PROVE  LET r == Command(s, c)
         IN QuietChange(s, r) /\ SameReading(s, r) /\ r.holds = s.holds /\ r.dma.master = s.dma.master /\ r.dma.enabled = FALSE
<1> DEFINE h == Halted(s, s.dma.stop /\ FALSE)
           f == [h EXCEPT !.dma.force = TRUE]
           i == [h EXCEPT !.dma.intEnable = TRUE]
           a == [h EXCEPT !.dma.afterReti = TRUE]
           Fine(m) == /\ QuietChange(s, m) /\ SameReading(s, m) /\ m.holds = s.holds /\ m.dma.master = s.dma.master
                      /\ m.dma.enabled = FALSE
<1>1. /\ DmaTypes(h) /\ SameReading(s, h) /\ \A x \in Registers : h.dma.regs[x] = s.dma.regs[x]
      /\ h.dma.addrA = s.dma.addrA /\ h.dma.addrB = s.dma.addrB /\ h.dma.up = s.dma.up
      /\ h.dma.stop = s.dma.stop /\ h.ram = s.ram /\ h.dev = s.dev /\ h.log = s.log
      /\ h.holds = s.holds /\ h.dma.master = s.dma.master /\ h.dma.enabled = FALSE
      /\ h.dma.status = s.dma.status /\ h.dma.blockLen = s.dma.blockLen
  BY HaltedIs, HaltedTwice
<1>2. Command(s, c) \in {ReadyIntr(f), ReadyIntr(i), a}
  BY CommandsAre, ZenonT(60) DEF Switches, h
<1> HIDE DEF h
<1>3. DmaShape(f) /\ DmaShape(i) /\ DmaShape(a)
  BY <1>1 DEF DmaTypes, DmaShape, DmaFields
<1>4. DmaBools(f) /\ DmaBools(i) /\ DmaBools(a)
  BY <1>1 DEF DmaTypes, DmaShape, DmaFields, DmaBools
<1>5. ASSUME NEW m \in {f, i, a}
      PROVE  /\ SameBlock(s, m) /\ SameReading(s, m) /\ m.holds = s.holds /\ m.dma.master = s.dma.master
             /\ m.dma.enabled = FALSE
  <2>1. CASE m = f
    BY <1>1, <2>1 DEF DmaTypes, DmaShape, DmaFields, SameBlock, SameReading
  <2>2. CASE m = i
    BY <1>1, <2>2 DEF DmaTypes, DmaShape, DmaFields, SameBlock, SameReading
  <2>3. CASE m = a
    BY <1>1, <2>3 DEF DmaTypes, DmaShape, DmaFields, SameBlock, SameReading
  <2> HIDE DEF f, i, a
  <2> QED BY <1>5, <2>1, <2>2, <2>3
<1> HIDE DEF f, i, a
<1>6. Fine(f) /\ Fine(i) /\ Fine(a)
  BY <1>3, <1>4, <1>5, QuietFrom
<1>7. ASSUME NEW m, Fine(m) PROVE Fine(ReadyIntr(m))
  <2>1. Silent(m, ReadyIntr(m))
    BY <1>7, IntrIsSilent DEF QuietChange
  <2>2. SameBlock(s, ReadyIntr(m))
    BY <1>7, <2>1 DEF Silent, QuietChange, SameBlock
  <2>3. SameReading(s, ReadyIntr(m))
    BY <1>7, <2>1 DEF Silent, SameReading
  <2> QED BY <1>7, <2>1, <2>2, <2>3 DEF Silent, SameBus, QuietChange
<1> HIDE DEF Fine
<1>8. Fine(Command(s, c))
  BY <1>2, <1>6, <1>7
<1>9. QED
  BY <1>8 DEF Fine


(***************************************************************************)
(* The program's bytes.                                                    *)
(***************************************************************************)
IsSwitch(w) == w[1] = "command" /\ w[2] \in Switches
LEMMA ScriptEnds ==
  ASSUME NEW S, NEW a \in Seq(S), NEW b \in Seq(S), NEW c \in Seq(S), NEW d \in S, Len(a) = Setup,
         Len(b) \in 0..1, Len(c) \in 0..2,
         \A i \in 1..Len(b) : IsSwitch(b[i]), \A i \in 1..Len(c) : IsSwitch(c[i])
  PROVE  LET q == a \o b \o c \o <<d>>
         IN /\ Len(q) \in (Setup + 1)..(Setup + 4) /\ \A i \in 1..Setup : q[i] = a[i]
            /\ q[Len(q)] = d /\ \A i \in (Setup + 1)..(Len(q) - 1) : IsSwitch(q[i])
<1> DEFINE ab == a \o b
           abc == ab \o c
           q == abc \o <<d>>
           B == Len(b)
           C == Len(c)
<1>1. /\ ab \in Seq(S) /\ Len(ab) = Len(a) + B
      /\ \A i \in 1..(Len(a) + B) : ab[i] = IF i <= Len(a) THEN a[i] ELSE b[i - Len(a)]
  BY ConcatProperties
<1>2. Len(a) = 15 /\ Setup = 15 /\ B \in 0..1 /\ C \in 0..2
  BY DEF Setup
<1> HIDE DEF ab
<1>3. /\ abc \in Seq(S) /\ Len(abc) = Len(ab) + C
      /\ \A i \in 1..(Len(ab) + C) : abc[i] = IF i <= Len(ab) THEN ab[i] ELSE c[i - Len(ab)]
  <2>1. ab \in Seq(S) /\ c \in Seq(S)
    BY <1>1
  <2> QED BY <2>1, ConcatProperties
<1> HIDE DEF abc
<1>4. <<d>> \in Seq(S) /\ Len(<<d>>) = 1 /\ <<d>>[1] = d
  OBVIOUS
<1>5. /\ Len(q) = Len(abc) + 1
      /\ \A i \in 1..(Len(abc) + 1) : q[i] = IF i <= Len(abc) THEN abc[i] ELSE <<d>>[i - Len(abc)]
  BY <1>3, <1>4, ConcatProperties, SMTT(30)
<1> HIDE DEF q
<1>6. Len(ab) = 15 + B /\ Len(abc) = 15 + B + C /\ Len(q) = 15 + B + C + 1
  BY <1>1, <1>2, <1>3, <1>5
<1> DEFINE k == 15 + B + C
<1>7. /\ \A i \in 1..(15 + B) : ab[i] = IF i <= 15 THEN a[i] ELSE b[i - 15]
      /\ \A i \in 1..k : abc[i] = IF i <= 15 + B THEN ab[i] ELSE c[i - (15 + B)]
      /\ \A i \in 1..(k + 1) : q[i] = IF i <= k THEN abc[i] ELSE <<d>>[i - k]
  BY <1>1, <1>2, <1>3, <1>5, <1>6
<1>8. /\ \A i \in 1..B : IsSwitch(b[i])
      /\ \A i \in 1..C : IsSwitch(c[i])
  OBVIOUS
<1> HIDE DEF B, C
<1>9. ASSUME NEW i \in 1..15 PROVE q[i] = a[i]
  <2>1. i \in 1..(15 + B) /\ i \in 1..k /\ i \in 1..(k + 1) /\ i <= 15 /\ i <= 15 + B /\ i <= k
    BY <1>2
  <2> HIDE DEF k
  <2> QED BY <1>7, <2>1
<1>10. q[k + 1] = d
  <2>1. (k + 1) \in 1..(k + 1) /\ ~(k + 1 <= k) /\ (k + 1) - k = 1
    BY <1>2
  <2> HIDE DEF k
  <2> QED BY <1>4, <1>7, <2>1
<1>11. ASSUME NEW i \in 16..k PROVE IsSwitch(q[i])
  <2>1. i \in 1..k /\ i \in 1..(k + 1) /\ i <= k
    BY <1>2
  <2>2. q[i] = abc[i]
    BY <1>7, <2>1
  <2>3. CASE i <= 15 + B
    <3>1. i \in 1..(15 + B) /\ ~(i <= 15) /\ i - 15 \in 1..B
      BY <1>2, <2>3
    <3>2. abc[i] = b[i - 15]
      BY <1>7, <2>1, <2>3, <3>1
    <3> QED BY <1>8, <2>2, <3>1, <3>2
  <2>4. CASE ~(i <= 15 + B)
    <3>1. i - (15 + B) \in 1..C
      BY <1>2, <2>4
    <3>2. abc[i] = c[i - (15 + B)]
      BY <1>7, <2>1, <2>4
    <3> QED BY <1>8, <2>2, <3>1, <3>2
  <2> QED BY <2>3, <2>4
<1>12. /\ Len(q) \in (Setup + 1)..(Setup + 4) /\ \A i \in 1..Setup : q[i] = a[i]
       /\ q[Len(q)] = d /\ \A i \in (Setup + 1)..(Len(q) - 1) : IsSwitch(q[i])
  <2>1. Len(q) = k + 1 /\ k + 1 \in 16..19 /\ (k + 1) - 1 = k /\ Setup = 15
    BY <1>2, <1>6
  <2> HIDE DEF k
  <2>2. Len(q) \in (Setup + 1)..(Setup + 4) /\ (Setup + 1)..(Len(q) - 1) = 16..k
    BY <2>1
  <2> QED BY <1>9, <1>10, <1>11, <2>1, <2>2
<1>13. q = a \o b \o c \o <<d>>
  BY DEF q, abc, ab
<1>14. QED
  BY <1>12, <1>13

Enables == <<"command", "enable">>
LEMMA ScriptIs ==
  ASSUME NEW p
  PROVE  LET q == Script(p)
         IN /\ Len(q) \in (Setup + 1)..(Setup + 4)
            /\ q[1] = <<"command", "reset">> /\ q[2] = <<"command", "resetInterrupts">>
            /\ q[3] = <<"wr0", p.how>> /\ q[4] = <<"byte", p.a>> /\ q[5] = <<"byte", p.len>>
            /\ q[6] = <<"wr1", p.portA>> /\ q[7] = <<"wr2", p.portB>> /\ q[8] = <<"wr3", p.stopOnMatch>>
            /\ q[9] = <<"byte", p.match>> /\ q[10] = <<"wr4", p.mode>> /\ q[11] = <<"byte", p.b>>
            /\ q[12] = <<"byte", p.intOn>> /\ q[13] = <<"byte", "vec">> /\ q[14] = <<"wr5", p.restart>>
            /\ q[15] = <<"command", "load">> /\ q[Len(q)] = Enables
            /\ \A i \in (Setup + 1)..(Len(q) - 1) : IsSwitch(q[i])
<1> DEFINE a == << <<"command", "reset">>, <<"command", "resetInterrupts">>, <<"wr0", p.how>>, <<"byte", p.a>>,
                   <<"byte", p.len>>, <<"wr1", p.portA>>, <<"wr2", p.portB>>, <<"wr3", p.stopOnMatch>>,
                   <<"byte", p.match>>, <<"wr4", p.mode>>, <<"byte", p.b>>, <<"byte", p.intOn>>,
                   <<"byte", "vec">>, <<"wr5", p.restart>>, <<"command", "load">> >>
           f == <<"command", "forceReady">>
           e == <<"command", "enableInterrupts">>
           r == <<"command", "enableAfterReti">>
           b == IF p.force THEN <<f>> ELSE <<>>
           c == IF p.intOn # {} THEN <<e, r>> ELSE <<>>
           S == {a[i] : i \in 1..15} \union {f, e, r, Enables}
           q == a \o b \o c \o <<Enables>>
<1>1. Len(a) = 15 /\ DOMAIN a = 1..15
  OBVIOUS
<1>2. /\ a[1] = <<"command", "reset">> /\ a[2] = <<"command", "resetInterrupts">>
      /\ a[3] = <<"wr0", p.how>> /\ a[4] = <<"byte", p.a>> /\ a[5] = <<"byte", p.len>>
      /\ a[6] = <<"wr1", p.portA>> /\ a[7] = <<"wr2", p.portB>> /\ a[8] = <<"wr3", p.stopOnMatch>>
      /\ a[9] = <<"byte", p.match>> /\ a[10] = <<"wr4", p.mode>> /\ a[11] = <<"byte", p.b>>
      /\ a[12] = <<"byte", p.intOn>> /\ a[13] = <<"byte", "vec">> /\ a[14] = <<"wr5", p.restart>>
      /\ a[15] = <<"command", "load">>
  OBVIOUS
<1>3. a = [i \in 1..15 |-> a[i]]
  OBVIOUS
<1>4. Script(p) = q
  BY DEF Script, Enables
<1>5. IsSwitch(f) /\ IsSwitch(e) /\ IsSwitch(r)
  BY DEF IsSwitch, Switches
<1> HIDE DEF a, f, e, r
<1>6. a \in Seq(S)
  <2>1. a \in [1..15 -> S]
    BY <1>3
  <2> HIDE DEF S
  <2> QED BY <2>1, SeqDef
<1>7. b \in Seq(S) /\ Len(b) \in 0..1 /\ \A i \in 1..Len(b) : IsSwitch(b[i])
  <2>1. <<f>> \in Seq(S) /\ Len(<<f>>) = 1 /\ <<f>>[1] = f
    OBVIOUS
  <2>2. <<>> \in Seq(S) /\ Len(<<>>) = 0
    OBVIOUS
  <2> HIDE DEF S
  <2>3. CASE p.force
    BY <1>5, <2>1, <2>3
  <2>4. CASE ~p.force
    BY <2>2, <2>4
  <2> QED BY <2>3, <2>4
<1>8. c \in Seq(S) /\ Len(c) \in 0..2 /\ \A i \in 1..Len(c) : IsSwitch(c[i])
  <2>1. <<e, r>> \in Seq(S) /\ Len(<<e, r>>) = 2 /\ <<e, r>>[1] = e /\ <<e, r>>[2] = r
    OBVIOUS
  <2>2. <<>> \in Seq(S) /\ Len(<<>>) = 0
    OBVIOUS
  <2> HIDE DEF S
  <2>3. CASE p.intOn # {}
    BY <1>5, <2>1, <2>3
  <2>4. CASE p.intOn = {}
    BY <2>2, <2>4
  <2> QED BY <2>3, <2>4
<1>9. Enables \in S
  OBVIOUS
<1> HIDE DEF b, c, S
<1>10. /\ Len(q) \in (Setup + 1)..(Setup + 4) /\ \A i \in 1..Setup : q[i] = a[i]
       /\ q[Len(q)] = Enables /\ \A i \in (Setup + 1)..(Len(q) - 1) : IsSwitch(q[i])
  <2>1. Len(a) = Setup
    BY <1>1 DEF Setup
  <2> QED BY <1>6, <1>7, <1>8, <1>9, <2>1, ScriptEnds
<1> HIDE DEF q
<1>11. \A i \in 1..15 : q[i] = a[i]
  BY <1>10 DEF Setup
<1>12. /\ q[1] = a[1] /\ q[2] = a[2] /\ q[3] = a[3] /\ q[4] = a[4] /\ q[5] = a[5] /\ q[6] = a[6]
       /\ q[7] = a[7] /\ q[8] = a[8] /\ q[9] = a[9] /\ q[10] = a[10] /\ q[11] = a[11] /\ q[12] = a[12]
       /\ q[13] = a[13] /\ q[14] = a[14] /\ q[15] = a[15]
  BY <1>11
<1>13. QED
  BY <1>2, <1>4, <1>10, <1>12


\* While the registers are written.
Rests(z, s) ==
  /\ DmaTypes(s) /\ s.dma.enabled = FALSE /\ s.dma.status = "none" /\ s.dma.rr = <<>> /\ s.dma.rrAt = z.dma.rrAt
  /\ s.dma.stop = FALSE /\ s.dma.up = 0 /\ s.log.bytes = <<>> /\ s.log.go = 0 /\ s.ram = z.ram
  /\ s.holds = z.holds /\ s.dma.master = z.dma.master
\* One register is.
Puts(s, r, x, v) == \A y \in Registers : r.dma.regs[y] = IF y = x THEN v ELSE s.dma.regs[y]
Put(s, x, v, follow) == [s EXCEPT !.dma.regs[x] = v, !.dma.follow = follow]
Mute(s) == [s EXCEPT !.dma.enabled = FALSE, !.dma.intEnable = FALSE]

LEMMA RestsOn ==
  ASSUME NEW z, NEW s, Rests(z, s), NEW r, DmaShape(r), DmaBools(r), r.dma.enabled = FALSE,
         r.dma.status = "none", r.dma.rr = s.dma.rr, r.dma.rrAt = s.dma.rrAt, r.dma.stop = FALSE, r.dma.up = 0,
         r.log.bytes = <<>>, r.log.go = 0, r.ram = s.ram, r.dev = s.dev, r.holds = s.holds,
         r.dma.master = s.dma.master, r.dma.addrA \in 0..(Cells - 1), r.dma.addrB \in 0..(Cells - 1),
         r.dma.blockLen = s.dma.blockLen
  PROVE  Rests(z, r)
<1>1. r.dma.up \in Int /\ r.dma.status \in {"none", "eob", "match", "both"} /\ r.log.bytes \in Seq(Int)
      /\ r.log.go \in Nat
  OBVIOUS
<1>2. DmaTypes(r)
  BY <1>1 DEF Rests, DmaTypes
<1>3. QED
  BY <1>2 DEF Rests

LEMMA PutIs ==
  ASSUME NEW z, NEW s, Rests(z, s), NEW x \in Registers, NEW v, NEW follow
  PROVE  LET r == Put(s, x, v, follow) IN Rests(z, r) /\ Puts(s, r, x, v) /\ r.dma.follow = follow
<1> DEFINE r == Put(s, x, v, follow)
<1>1. DmaShape(r)
  BY DEF Put, Rests, DmaTypes, DmaShape, DmaFields
<1>2. DmaBools(r)
  BY DEF Put, Rests, DmaTypes, DmaShape, DmaFields, DmaBools
<1>3. Puts(s, r, x, v) /\ r.dma.follow = follow
  BY DEF Put, Rests, DmaTypes, DmaShape, DmaFields, Puts
<1>4. /\ r.dma.enabled = FALSE
      /\ r.dma.status = "none" /\ r.dma.rr = s.dma.rr /\ r.dma.rrAt = s.dma.rrAt /\ r.dma.stop = FALSE
      /\ r.dma.up = 0 /\ r.log.bytes = <<>> /\ r.log.go = 0 /\ r.ram = s.ram /\ r.dev = s.dev
      /\ r.holds = s.holds /\ r.dma.master = s.dma.master /\ r.dma.blockLen = s.dma.blockLen
      /\ r.dma.addrA = s.dma.addrA /\ r.dma.addrB = s.dma.addrB
  BY DEF Put, Rests, DmaTypes, DmaShape, DmaFields
<1> HIDE DEF r
<1>5. r.dma.addrA \in 0..(Cells - 1) /\ r.dma.addrB \in 0..(Cells - 1)
  BY <1>4 DEF Rests, DmaTypes
<1>6. Rests(z, r)
  BY <1>1, <1>2, <1>4, <1>5, RestsOn
<1>7. QED
  BY <1>3, <1>6 DEF r

LEMMA MuteIs ==
  ASSUME NEW z, NEW s, Rests(z, s)
  PROVE  LET r == Mute(s) IN Rests(z, r) /\ r.dma.regs = s.dma.regs /\ r.dma.follow = s.dma.follow
<1> DEFINE r == Mute(s)
<1>1. DmaShape(r)
  BY DEF Mute, Rests, DmaTypes, DmaShape, DmaFields
<1>2. DmaBools(r)
  BY DEF Mute, Rests, DmaTypes, DmaShape, DmaFields, DmaBools
<1>3. /\ r.dma.enabled = FALSE
      /\ r.dma.status = "none" /\ r.dma.rr = s.dma.rr /\ r.dma.rrAt = s.dma.rrAt /\ r.dma.stop = FALSE
      /\ r.dma.up = 0 /\ r.log.bytes = <<>> /\ r.log.go = 0 /\ r.ram = s.ram /\ r.dev = s.dev
      /\ r.holds = s.holds /\ r.dma.master = s.dma.master /\ r.dma.blockLen = s.dma.blockLen
      /\ r.dma.addrA = s.dma.addrA /\ r.dma.addrB = s.dma.addrB
      /\ r.dma.regs = s.dma.regs /\ r.dma.follow = s.dma.follow
  BY DEF Mute, Rests, DmaTypes, DmaShape, DmaFields
<1> HIDE DEF r
<1>4. r.dma.addrA \in 0..(Cells - 1) /\ r.dma.addrB \in 0..(Cells - 1)
  BY <1>3 DEF Rests, DmaTypes
<1>5. Rests(z, r)
  BY <1>1, <1>2, <1>3, <1>4, RestsOn
<1>6. QED
  BY <1>3, <1>5 DEF r

LEMMA RestsSilently ==
  ASSUME NEW z, NEW s, Rests(z, s)
  PROVE  LET r == ReadyIntr(s)
         IN Rests(z, r) /\ r.dma.follow = s.dma.follow /\ \A x \in Registers : r.dma.regs[x] = s.dma.regs[x]
<1> DEFINE r == ReadyIntr(s)
<1>1. Silent(s, r)
  BY IntrIsSilent DEF Rests
<1> HIDE DEF r
<1>2. DmaTypes(r) /\ SameBlock(s, r) /\ SameReading(s, r) /\ SameBus(s, r)
  BY <1>1 DEF Silent, QuietChange
<1>3. Rests(z, r)
  BY <1>2 DEF Rests, SameBlock, SameReading, SameBus
<1>4. r.dma.follow = s.dma.follow /\ \A x \in Registers : r.dma.regs[x] = s.dma.regs[x]
  BY <1>2 DEF SameBlock, SameReading
<1>5. QED
  BY <1>3, <1>4 DEF r

\* A byte that announces others.
LEMMA BaseIs ==
  ASSUME NEW z, NEW s, Rests(z, s), NEW g \in {"wr0", "wr1", "wr2", "wr3", "wr4", "wr5"}, NEW v
  PROVE  LET r == Written(s, <<g, v>>)
         IN Rests(z, r) /\ Puts(s, r, Groups[g].base, v) /\ r.dma.follow = Groups[g].follow
<1> DEFINE x == Groups[g].base
           follow == Groups[g].follow
           m == Put(s, x, v, follow)
           r == Written(s, <<g, v>>)
<1>1. x \in Registers
  BY DEF Groups, Registers
<1>2. r = WriteBase(s, g, v)
  <2>1. <<g, v>>[1] = g /\ <<g, v>>[2] = v /\ g # "command" /\ g # "byte"
    OBVIOUS
  <2> QED BY <2>1 DEF Written
<1>3. r \in {m, ReadyIntr(m), ReadyIntr(Mute(m))}
  BY <1>2 DEF WriteBase, Put, Mute
<1> HIDE DEF x, follow, r
<1>4. Rests(z, m) /\ Puts(s, m, x, v) /\ m.dma.follow = follow
  BY <1>1, PutIs
<1> HIDE DEF m
<1>5. Rests(z, Mute(m)) /\ Mute(m).dma.regs = m.dma.regs /\ Mute(m).dma.follow = m.dma.follow
  BY <1>4, MuteIs
<1>6. /\ Rests(z, ReadyIntr(m)) /\ ReadyIntr(m).dma.follow = m.dma.follow
      /\ \A y \in Registers : ReadyIntr(m).dma.regs[y] = m.dma.regs[y]
  BY <1>4, RestsSilently
<1>7. /\ Rests(z, ReadyIntr(Mute(m))) /\ ReadyIntr(Mute(m)).dma.follow = m.dma.follow
      /\ \A y \in Registers : ReadyIntr(Mute(m)).dma.regs[y] = m.dma.regs[y]
  BY <1>5, RestsSilently
<1>8. Rests(z, r) /\ Puts(s, r, x, v) /\ r.dma.follow = follow
  BY <1>3, <1>4, <1>6, <1>7 DEF Puts
<1>9. QED
  BY <1>8 DEF x, follow, r

\* A byte that was announced.
LEMMA FollowIs ==
  ASSUME NEW z, NEW s, Rests(z, s), NEW x \in Registers \ {"readMask"}, Head(s.dma.follow) = x, NEW v
  PROVE  LET r == Written(s, <<"byte", v>>)
         IN /\ Rests(z, r) /\ Puts(s, r, x, v)
            /\ r.dma.follow = (IF x = "intOn" THEN <<"vector">> ELSE Tail(s.dma.follow))
<1> DEFINE m == Put(s, x, v, Tail(s.dma.follow))
           i == Put(s, x, v, <<"vector">>)
           r == Written(s, <<"byte", v>>)
<1>1. r = WriteFollow(s, v)
  <2>1. <<"byte", v>>[1] = "byte" /\ <<"byte", v>>[2] = v
    OBVIOUS
  <2> QED BY <2>1 DEF Written
<1>2. m = [s EXCEPT !.dma.regs[x] = v, !.dma.follow = Tail(@)]
  BY DEF Put
<1>3. [m EXCEPT !.dma.follow = <<"vector">>] = i
  BY DEF Put
<1>4. r = IF x = "intOn" THEN ReadyIntr(i) ELSE m
  <2>1. r = IF x = "intOn" THEN ReadyIntr([m EXCEPT !.dma.follow = <<"vector">>]) ELSE m
    BY <1>1, <1>2 DEF WriteFollow
  <2> QED BY <1>3, <2>1
<1> HIDE DEF r
<1>5. Rests(z, m) /\ Puts(s, m, x, v) /\ m.dma.follow = Tail(s.dma.follow)
  BY PutIs
<1>6. Rests(z, i) /\ Puts(s, i, x, v) /\ i.dma.follow = <<"vector">>
  BY PutIs
<1> HIDE DEF m, i
<1>7. /\ Rests(z, ReadyIntr(i)) /\ ReadyIntr(i).dma.follow = i.dma.follow
      /\ \A y \in Registers : ReadyIntr(i).dma.regs[y] = i.dma.regs[y]
  BY <1>6, RestsSilently
<1>8. /\ Rests(z, r) /\ Puts(s, r, x, v)
      /\ r.dma.follow = (IF x = "intOn" THEN <<"vector">> ELSE Tail(s.dma.follow))
  BY <1>4, <1>5, <1>6, <1>7 DEF Puts
<1>9. QED
  BY <1>8 DEF r


\* The commands before and after the registers.
Mutes(s) == Halted(s, s.dma.stop /\ FALSE)
ResetAs(h) == [h EXCEPT !.dma.status = "none", !.dma.force = FALSE, !.dma.afterReti = FALSE, !.dma.req = FALSE,
                        !.dma.inService = FALSE, !.dma.intEnable = FALSE, !.dma.up = 0,
                        !.dma.regs["restart"] = FALSE]
IntrOffAs(h) == [h EXCEPT !.dma.intEnable = FALSE, !.dma.req = FALSE, !.dma.force = FALSE]
LoadAs(h) == [h EXCEPT !.dma.status = "none", !.dma.force = FALSE, !.dma.addrA = h.dma.regs["a"],
                       !.dma.addrB = h.dma.regs["b"], !.dma.up = 0, !.log.bytes = <<>>]

LEMMA CommandIs ==
  ASSUME NEW s, DmaTypes(s)
  PROVE  /\ Written(s, <<"command", "reset">>) = ResetAs(Mutes(s))
         /\ Written(s, <<"command", "resetInterrupts">>) = IntrOffAs(Mutes(s))
         /\ Written(s, <<"command", "load">>) = LoadAs(Mutes(s))
         /\ Written(s, Enables) = Command(s, "enable")
<1>1. ASSUME NEW c PROVE Written(s, <<"command", c>>) = Command(s, c)
  <2>1. <<"command", c>>[1] = "command" /\ <<"command", c>>[2] = c
    OBVIOUS
  <2> QED BY <2>1 DEF Written
<1> DEFINE m(c) == [s EXCEPT !.dma.enabled = FALSE, !.dma.stop = (@ /\ c \in Keep)]
           h == Mutes(s)
<1>2. m("reset") = h /\ m("resetInterrupts") = h /\ m("load") = h
  BY DEF Keep, Mutes, Halted
<1>3. Command(s, "reset")
        = [[m("reset") EXCEPT !.dma.status = "none"]
             EXCEPT !.dma.force = FALSE, !.dma.afterReti = FALSE, !.dma.req = FALSE,
                    !.dma.inService = FALSE, !.dma.intEnable = FALSE, !.dma.up = 0,
                    !.dma.regs["restart"] = FALSE]
  BY DEF Command
<1>4. Command(s, "resetInterrupts")
        = [m("resetInterrupts") EXCEPT !.dma.intEnable = FALSE, !.dma.req = FALSE, !.dma.force = FALSE]
  BY DEF Command
<1>5. Command(s, "load")
        = [[m("load") EXCEPT !.dma.status = "none"]
             EXCEPT !.dma.force = FALSE, !.dma.addrA = s.dma.regs["a"], !.dma.addrB = s.dma.regs["b"],
                    !.dma.up = 0, !.log.bytes = <<>>]
  BY DEF Command, Reg
<1>10. h.dma.regs["a"] = s.dma.regs["a"] /\ h.dma.regs["b"] = s.dma.regs["b"]
  BY DEF Mutes, Halted, DmaTypes, DmaShape, DmaFields, Registers
<1> HIDE DEF m, h
<1>6. Command(s, "reset") = ResetAs(Mutes(s))
  BY <1>2, <1>3 DEF ResetAs, h
<1>7. Command(s, "resetInterrupts") = IntrOffAs(Mutes(s))
  BY <1>2, <1>4 DEF IntrOffAs, h
<1>8. Command(s, "load") = LoadAs(Mutes(s))
  BY <1>2, <1>5, <1>10 DEF LoadAs, h
<1>9. QED
  BY <1>1, <1>6, <1>7, <1>8 DEF Enables

LEMMA MutesTo ==
  ASSUME NEW z, NEW s, Rests(z, s)
  PROVE  LET r == Mutes(s)
         IN /\ Rests(z, r) /\ r.dma.follow = s.dma.follow /\ \A x \in Registers : r.dma.regs[x] = s.dma.regs[x]
<1> DEFINE stop == s.dma.stop /\ FALSE
           r == Halted(s, stop)
<1>1. stop = FALSE /\ stop \in BOOLEAN
  OBVIOUS
<1>2. r = Mutes(s)
  BY DEF Mutes
<1> HIDE DEF stop
<1>3. /\ DmaTypes(r) /\ SameReading(s, r) /\ \A x \in Registers : r.dma.regs[x] = s.dma.regs[x]
      /\ r.dma.addrA = s.dma.addrA /\ r.dma.addrB = s.dma.addrB /\ r.dma.up = s.dma.up
      /\ r.dma.stop = stop /\ r.ram = s.ram /\ r.dev = s.dev /\ r.log = s.log
      /\ r.holds = s.holds /\ r.dma.master = s.dma.master /\ r.dma.enabled = FALSE
      /\ r.dma.status = s.dma.status /\ r.dma.blockLen = s.dma.blockLen
  BY <1>1, HaltedIs DEF Rests
<1> HIDE DEF r
<1>4. Rests(z, r)
  BY <1>1, <1>3 DEF Rests, SameReading
<1>5. QED
  BY <1>2, <1>3, <1>4 DEF SameReading

LEMMA ResetsTo ==
  ASSUME NEW z, NEW s, Rests(z, s)
  PROVE  LET r == ResetAs(s) IN Rests(z, r) /\ Puts(s, r, "restart", FALSE) /\ r.dma.follow = s.dma.follow
<1> DEFINE k == [s EXCEPT !.dma.status = "none", !.dma.force = FALSE, !.dma.afterReti = FALSE, !.dma.req = FALSE,
                        !.dma.inService = FALSE, !.dma.intEnable = FALSE, !.dma.up = 0]
           r == [k EXCEPT !.dma.regs["restart"] = FALSE]
<1>1. "restart" \in Registers /\ ResetAs(s) = r
  BY DEF Registers, ResetAs
<1>2. DmaShape(k)
  BY DEF Rests, DmaTypes, DmaShape, DmaFields
<1>3. DmaBools(k)
  BY ZenonT(60) DEF Rests, DmaTypes, DmaShape, DmaFields, DmaBools
<1>4. /\ k.dma.enabled = FALSE /\ k.dma.regs = s.dma.regs /\ k.dma.follow = s.dma.follow
      /\ k.dma.status = "none" /\ k.dma.rr = s.dma.rr /\ k.dma.rrAt = s.dma.rrAt /\ k.dma.stop = FALSE
      /\ k.dma.up = 0 /\ k.log.bytes = <<>> /\ k.log.go = 0 /\ k.ram = s.ram /\ k.dev = s.dev
      /\ k.holds = s.holds /\ k.dma.master = s.dma.master /\ k.dma.blockLen = s.dma.blockLen
      /\ k.dma.addrA = s.dma.addrA /\ k.dma.addrB = s.dma.addrB
  <2>1. DmaShape(s)
    BY DEF Rests, DmaTypes
  <2>2. /\ k.dma.enabled = s.dma.enabled /\ k.dma.regs = s.dma.regs /\ k.dma.follow = s.dma.follow
        /\ k.dma.status = "none" /\ k.dma.rr = s.dma.rr /\ k.dma.rrAt = s.dma.rrAt /\ k.dma.stop = s.dma.stop
        /\ k.dma.up = 0
    BY <2>1, ZenonT(60) DEF DmaShape, DmaFields
  <2>3. /\ k.dma.master = s.dma.master /\ k.dma.blockLen = s.dma.blockLen
        /\ k.dma.addrA = s.dma.addrA /\ k.dma.addrB = s.dma.addrB
    BY <2>1, ZenonT(60) DEF DmaShape, DmaFields
  <2>4. k.log = s.log /\ k.ram = s.ram /\ k.dev = s.dev /\ k.holds = s.holds
    BY <2>1 DEF DmaShape, DmaFields
  <2> HIDE DEF k
  <2> QED BY <2>2, <2>3, <2>4 DEF Rests
<1> HIDE DEF k
<1>5. k.dma.addrA \in 0..(Cells - 1) /\ k.dma.addrB \in 0..(Cells - 1)
  BY <1>4 DEF Rests, DmaTypes
<1>6. Rests(z, k)
  BY <1>2, <1>3, <1>4, <1>5, RestsOn
<1>7. DmaShape(r)
  BY <1>1, <1>2 DEF DmaShape, DmaFields
<1>8. DmaBools(r)
  BY <1>1, <1>2, <1>3 DEF DmaShape, DmaFields, DmaBools
<1>9. /\ r.dma.enabled = k.dma.enabled /\ r.dma.follow = k.dma.follow
      /\ r.dma.status = k.dma.status /\ r.dma.rr = k.dma.rr /\ r.dma.rrAt = k.dma.rrAt
      /\ r.dma.stop = k.dma.stop /\ r.dma.up = k.dma.up /\ r.log = k.log /\ r.ram = k.ram /\ r.dev = k.dev
      /\ r.holds = k.holds /\ r.dma.master = k.dma.master /\ r.dma.blockLen = k.dma.blockLen
      /\ r.dma.addrA = k.dma.addrA /\ r.dma.addrB = k.dma.addrB /\ Puts(k, r, "restart", FALSE)
  BY <1>1, <1>2 DEF DmaShape, DmaFields, Puts
<1> HIDE DEF r
<1>10. Rests(z, r)
  BY <1>4, <1>5, <1>6, <1>7, <1>8, <1>9, RestsOn
<1>11. Puts(s, r, "restart", FALSE)
  BY <1>4, <1>9 DEF Puts
<1>12. QED
  BY <1>1, <1>4, <1>9, <1>10, <1>11

LEMMA IntrGoesOff ==
  ASSUME NEW z, NEW s, Rests(z, s)
  PROVE  LET r == IntrOffAs(s) IN Rests(z, r) /\ r.dma.regs = s.dma.regs /\ r.dma.follow = s.dma.follow
<1> DEFINE r == IntrOffAs(s)
<1>1. DmaShape(r)
  BY DEF IntrOffAs, Rests, DmaTypes, DmaShape, DmaFields
<1>2. DmaBools(r)
  BY DEF IntrOffAs, Rests, DmaTypes, DmaShape, DmaFields, DmaBools
<1>3. /\ r.dma.enabled = FALSE /\ r.dma.regs = s.dma.regs /\ r.dma.follow = s.dma.follow
      /\ r.dma.status = "none" /\ r.dma.rr = s.dma.rr /\ r.dma.rrAt = s.dma.rrAt /\ r.dma.stop = FALSE
      /\ r.dma.up = 0 /\ r.log.bytes = <<>> /\ r.log.go = 0 /\ r.ram = s.ram /\ r.dev = s.dev
      /\ r.holds = s.holds /\ r.dma.master = s.dma.master /\ r.dma.blockLen = s.dma.blockLen
      /\ r.dma.addrA = s.dma.addrA /\ r.dma.addrB = s.dma.addrB
  BY DEF IntrOffAs, Rests, DmaTypes, DmaShape, DmaFields
<1> HIDE DEF r
<1>4. r.dma.addrA \in 0..(Cells - 1) /\ r.dma.addrB \in 0..(Cells - 1)
  BY <1>3 DEF Rests, DmaTypes
<1>5. Rests(z, r)
  BY <1>1, <1>2, <1>3, <1>4, RestsOn
<1>6. QED
  BY <1>3, <1>5 DEF r

LEMMA LoadsTo ==
  ASSUME NEW z, NEW s, Rests(z, s), s.dma.regs["a"] \in 0..(Cells - 1), s.dma.regs["b"] \in 0..(Cells - 1)
  PROVE  LET r == LoadAs(s)
         IN /\ Rests(z, r) /\ r.dma.regs = s.dma.regs /\ r.dma.follow = s.dma.follow
            /\ r.dma.addrA = s.dma.regs["a"] /\ r.dma.addrB = s.dma.regs["b"]
<1> DEFINE r == LoadAs(s)
<1>1. DmaShape(r)
  BY DEF LoadAs, Rests, DmaTypes, DmaShape, DmaFields
<1>2. DmaBools(r)
  BY ZenonT(60) DEF LoadAs, Rests, DmaTypes, DmaShape, DmaFields, DmaBools
<1>3. /\ r.dma.enabled = FALSE /\ r.dma.regs = s.dma.regs /\ r.dma.follow = s.dma.follow
      /\ r.dma.status = "none" /\ r.dma.rr = s.dma.rr /\ r.dma.rrAt = s.dma.rrAt /\ r.dma.stop = FALSE
      /\ r.dma.up = 0 /\ r.log.bytes = <<>> /\ r.log.go = 0 /\ r.ram = s.ram /\ r.dev = s.dev
      /\ r.holds = s.holds /\ r.dma.master = s.dma.master /\ r.dma.blockLen = s.dma.blockLen
      /\ r.dma.addrA = s.dma.regs["a"] /\ r.dma.addrB = s.dma.regs["b"]
  BY ZenonT(60) DEF LoadAs, Rests, DmaTypes, DmaShape, DmaFields
<1> HIDE DEF r
<1>4. r.dma.addrA \in 0..(Cells - 1) /\ r.dma.addrB \in 0..(Cells - 1)
  BY <1>3
<1>5. Rests(z, r)
  BY <1>1, <1>2, <1>3, <1>4, RestsOn
<1>6. QED
  BY <1>3, <1>5 DEF r

\* The bytes are written one after the other.
WritesOf(m, s, q, f) == [i \in 0..m |-> IF i = 0 THEN s ELSE Written(f[i - 1], q[i])]
LEMMA WritesAre ==
  ASSUME NEW m \in Nat, NEW s, NEW q
  PROVE  \E f : f = WritesOf(m, s, q, f)
<1> DEFINE S == {i \in Nat : \E f : f = WritesOf(i, s, q, f)}
<1>1. 0 \in S
  <2> DEFINE f == [n \in 0..0 |-> s]
  <2>1. f = WritesOf(0, s, q, f)
    BY DEF WritesOf
  <2> QED BY <2>1
<1>2. ASSUME NEW i \in Nat, i \in S PROVE i + 1 \in S
  <2>1. PICK f : f = WritesOf(i, s, q, f)
    BY <1>2
  <2> DEFINE last == Written(f[i], q[i + 1])
             g == [k \in 0..(i + 1) |-> IF k = i + 1 THEN last ELSE f[k]]
  <2>2. g[i + 1] = last /\ \A k \in 0..i : g[k] = f[k]
    <3>1. i + 1 \in 0..(i + 1) /\ \A k \in 0..i : k \in 0..(i + 1) /\ k # i + 1
      OBVIOUS
    <3> HIDE DEF last
    <3> QED BY <3>1
  <2>3. \A k \in 0..i : f[k] = WritesOf(i, s, q, f)[k]
    BY <2>1
  <2>4. g = [k \in 0..(i + 1) |-> g[k]]
        /\ WritesOf(i + 1, s, q, g) = [k \in 0..(i + 1) |-> WritesOf(i + 1, s, q, g)[k]]
    BY DEF WritesOf
  <2> HIDE DEF g
  <2>5. ASSUME NEW k \in 0..(i + 1) PROVE g[k] = WritesOf(i + 1, s, q, g)[k]
    <3>1. CASE k = i + 1
      <4>1. k # 0 /\ k - 1 = i /\ i \in 0..i
        BY <3>1
      <4> QED BY <4>1, <3>1, <2>2 DEF WritesOf
    <3>2. CASE k # i + 1
      <4>1. k \in 0..i /\ (k # 0 => k - 1 \in 0..i)
        BY <3>2
      <4>2. g[k] = f[k] /\ (k # 0 => g[k - 1] = f[k - 1])
        BY <4>1, <2>2
      <4> QED BY <4>1, <4>2, <2>3 DEF WritesOf
    <3> QED BY <3>1, <3>2
  <2>6. g = WritesOf(i + 1, s, q, g)
    BY <2>4, <2>5
  <2> QED BY <2>6
<1> HIDE DEF S
<1>3. Nat \subseteq S
  BY <1>1, <1>2, NatCounts
<1> QED BY <1>3 DEF S


Takes(z, s, r, x, v, follow) == Rests(z, r) /\ Puts(s, r, x, v) /\ r.dma.follow = follow
LEMMA AnnouncedIs ==
  ASSUME NEW z, NEW s, Rests(z, s), NEW x, x \in Registers \ {"readMask", "intOn"},
         x = Head(s.dma.follow),
         NEW follow, follow = Tail(s.dma.follow), NEW v, NEW r, r = Written(s, <<"byte", v>>)
  PROVE  Takes(z, s, r, x, v, follow)
<1>1. x \in Registers \ {"readMask"} /\ x # "intOn"
  OBVIOUS
<1>2. QED
  BY <1>1, FollowIs DEF Takes

\* After the first bytes the controller knows its transfer.
LEMMA SetupIs ==
  ASSUME NEW z, DmaTypes(z), AtRest(z), NEW p, Fits(p), NEW w,
         w = WritesOf(Setup, z, Script(p), w)
  PROVE  LET r == w[Setup]
         IN /\ Rests(z, r) /\ Told(r, p) /\ r.dma.follow = <<>> /\ r.dma.addrA = p.a /\ r.dma.addrB = p.b
<1> DEFINE q == Script(p)
<1>1. \A i \in 0..15 : w[i] = IF i = 0 THEN z ELSE Written(w[i - 1], q[i])
  BY DEF WritesOf, Setup
<1>2. /\ q[1] = <<"command", "reset">> /\ q[2] = <<"command", "resetInterrupts">>
      /\ q[3] = <<"wr0", p.how>> /\ q[4] = <<"byte", p.a>> /\ q[5] = <<"byte", p.len>>
      /\ q[6] = <<"wr1", p.portA>> /\ q[7] = <<"wr2", p.portB>> /\ q[8] = <<"wr3", p.stopOnMatch>>
      /\ q[9] = <<"byte", p.match>> /\ q[10] = <<"wr4", p.mode>> /\ q[11] = <<"byte", p.b>>
      /\ q[12] = <<"byte", p.intOn>> /\ q[13] = <<"byte", "vec">> /\ q[14] = <<"wr5", p.restart>>
      /\ q[15] = <<"command", "load">>
  BY ScriptIs
<1> HIDE DEF q
<1>3. w[0] = z /\ Rests(z, z) /\ z.dma.follow = <<>>
  BY <1>1 DEF Rests, AtRest, DmaTypes, DmaBools
<1>a. Rests(z, w[1]) /\ w[1].dma.follow = <<>>
  <2>1. w[1] = Written(w[0], <<"command", "reset">>)
    BY <1>1, <1>2
  <2>2. Rests(z, w[0]) /\ w[0].dma.follow = <<>> /\ DmaTypes(w[0])
    BY <1>3 DEF Rests
  <2> DEFINE m == Mutes(w[0])
  <2>3. w[1] = ResetAs(m)
    BY <2>1, <2>2, CommandIs
  <2>4. Rests(z, m) /\ m.dma.follow = <<>>
    BY <2>2, MutesTo
  <2> HIDE DEF m
  <2> QED BY <2>3, <2>4, ResetsTo
<1>b. Rests(z, w[2]) /\ w[2].dma.follow = <<>>
  <2>1. w[2] = Written(w[1], <<"command", "resetInterrupts">>)
    BY <1>1, <1>2
  <2>2. Rests(z, w[1]) /\ w[1].dma.follow = <<>> /\ DmaTypes(w[1])
    BY <1>a DEF Rests
  <2> DEFINE m == Mutes(w[1])
  <2>3. w[2] = IntrOffAs(m)
    BY <2>1, <2>2, CommandIs
  <2>4. Rests(z, m) /\ m.dma.follow = <<>>
    BY <2>2, MutesTo
  <2> HIDE DEF m
  <2> QED BY <2>3, <2>4, IntrGoesOff
<1>4. Rests(z, w[3]) /\ Puts(w[2], w[3], "how", p.how) /\ w[3].dma.follow = <<"a", "len">>
  <2>1. w[3] = Written(w[2], <<"wr0", p.how>>)
    BY <1>1, <1>2
  <2>2. Groups["wr0"].base = "how" /\ Groups["wr0"].follow = <<"a", "len">>
    BY DEF Groups
  <2> QED BY <2>1, <2>2, <1>b, BaseIs
<1>5. Rests(z, w[4]) /\ Puts(w[3], w[4], "a", p.a) /\ w[4].dma.follow = <<"len">>
  <2> DEFINE x == "a"
             v == p.a
             follow == <<"len">>
             s == w[3]
             r == w[4]
  <2>1. r = Written(s, <<"byte", v>>)
    BY <1>1, <1>2
  <2>2. x = Head(s.dma.follow) /\ follow = Tail(s.dma.follow) /\ Rests(z, s)
    BY <1>4
  <2>3. x \in Registers \ {"readMask", "intOn"}
    BY DEF Registers
  <2> HIDE DEF x, v, follow, s, r
  <2>4. Takes(z, s, r, x, v, follow)
    BY <2>1, <2>2, <2>3, AnnouncedIs
  <2> QED BY <2>4 DEF Takes, x, v, follow, s, r
<1>6. Rests(z, w[5]) /\ Puts(w[4], w[5], "len", p.len) /\ w[5].dma.follow = <<>>
  <2> DEFINE x == "len"
             v == p.len
             follow == <<>>
             s == w[4]
             r == w[5]
  <2>1. r = Written(s, <<"byte", v>>)
    BY <1>1, <1>2
  <2>2. x = Head(s.dma.follow) /\ follow = Tail(s.dma.follow) /\ Rests(z, s)
    BY <1>5
  <2>3. x \in Registers \ {"readMask", "intOn"}
    BY DEF Registers
  <2> HIDE DEF x, v, follow, s, r
  <2>4. Takes(z, s, r, x, v, follow)
    BY <2>1, <2>2, <2>3, AnnouncedIs
  <2> QED BY <2>4 DEF Takes, x, v, follow, s, r
<1>7. Rests(z, w[6]) /\ Puts(w[5], w[6], "portA", p.portA) /\ w[6].dma.follow = <<>>
  <2>1. w[6] = Written(w[5], <<"wr1", p.portA>>)
    BY <1>1, <1>2
  <2>2. Groups["wr1"].base = "portA" /\ Groups["wr1"].follow = <<>>
    BY DEF Groups
  <2> QED BY <2>1, <2>2, <1>6, BaseIs
<1>8. Rests(z, w[7]) /\ Puts(w[6], w[7], "portB", p.portB) /\ w[7].dma.follow = <<>>
  <2>1. w[7] = Written(w[6], <<"wr2", p.portB>>)
    BY <1>1, <1>2
  <2>2. Groups["wr2"].base = "portB" /\ Groups["wr2"].follow = <<>>
    BY DEF Groups
  <2> QED BY <2>1, <2>2, <1>7, BaseIs
<1>9. Rests(z, w[8]) /\ Puts(w[7], w[8], "stopOnMatch", p.stopOnMatch) /\ w[8].dma.follow = <<"match">>
  <2>1. w[8] = Written(w[7], <<"wr3", p.stopOnMatch>>)
    BY <1>1, <1>2
  <2>2. Groups["wr3"].base = "stopOnMatch" /\ Groups["wr3"].follow = <<"match">>
    BY DEF Groups
  <2> QED BY <2>1, <2>2, <1>8, BaseIs
<1>10. Rests(z, w[9]) /\ Puts(w[8], w[9], "match", p.match) /\ w[9].dma.follow = <<>>
  <2> DEFINE x == "match"
             v == p.match
             follow == <<>>
             s == w[8]
             r == w[9]
  <2>1. r = Written(s, <<"byte", v>>)
    BY <1>1, <1>2
  <2>2. x = Head(s.dma.follow) /\ follow = Tail(s.dma.follow) /\ Rests(z, s)
    BY <1>9
  <2>3. x \in Registers \ {"readMask", "intOn"}
    BY DEF Registers
  <2> HIDE DEF x, v, follow, s, r
  <2>4. Takes(z, s, r, x, v, follow)
    BY <2>1, <2>2, <2>3, AnnouncedIs
  <2> QED BY <2>4 DEF Takes, x, v, follow, s, r
<1>11. Rests(z, w[10]) /\ Puts(w[9], w[10], "mode", p.mode) /\ w[10].dma.follow = <<"b", "intOn">>
  <2>1. w[10] = Written(w[9], <<"wr4", p.mode>>)
    BY <1>1, <1>2
  <2>2. Groups["wr4"].base = "mode" /\ Groups["wr4"].follow = <<"b", "intOn">>
    BY DEF Groups
  <2> QED BY <2>1, <2>2, <1>10, BaseIs
<1>12. Rests(z, w[11]) /\ Puts(w[10], w[11], "b", p.b) /\ w[11].dma.follow = <<"intOn">>
  <2> DEFINE x == "b"
             v == p.b
             follow == <<"intOn">>
             s == w[10]
             r == w[11]
  <2>1. r = Written(s, <<"byte", v>>)
    BY <1>1, <1>2
  <2>2. x = Head(s.dma.follow) /\ follow = Tail(s.dma.follow) /\ Rests(z, s)
    BY <1>11
  <2>3. x \in Registers \ {"readMask", "intOn"}
    BY DEF Registers
  <2> HIDE DEF x, v, follow, s, r
  <2>4. Takes(z, s, r, x, v, follow)
    BY <2>1, <2>2, <2>3, AnnouncedIs
  <2> QED BY <2>4 DEF Takes, x, v, follow, s, r
<1>13. Rests(z, w[12]) /\ Puts(w[11], w[12], "intOn", p.intOn) /\ w[12].dma.follow = <<"vector">>
  <2>1. w[12] = Written(w[11], <<"byte", p.intOn>>)
    BY <1>1, <1>2
  <2>2. Head(w[11].dma.follow) = "intOn" /\ "intOn" \in Registers \ {"readMask"}
    BY <1>12 DEF Registers
  <2> QED BY <2>1, <2>2, <1>12, FollowIs
<1>14. Rests(z, w[13]) /\ Puts(w[12], w[13], "vector", "vec") /\ w[13].dma.follow = <<>>
  <2> DEFINE x == "vector"
             v == "vec"
             follow == <<>>
             s == w[12]
             r == w[13]
  <2>1. r = Written(s, <<"byte", v>>)
    BY <1>1, <1>2
  <2>2. x = Head(s.dma.follow) /\ follow = Tail(s.dma.follow) /\ Rests(z, s)
    BY <1>13
  <2>3. x \in Registers \ {"readMask", "intOn"}
    BY DEF Registers
  <2> HIDE DEF x, v, follow, s, r
  <2>4. Takes(z, s, r, x, v, follow)
    BY <2>1, <2>2, <2>3, AnnouncedIs
  <2> QED BY <2>4 DEF Takes, x, v, follow, s, r
<1>15. Rests(z, w[14]) /\ Puts(w[13], w[14], "restart", p.restart) /\ w[14].dma.follow = <<>>
  <2>1. w[14] = Written(w[13], <<"wr5", p.restart>>)
    BY <1>1, <1>2
  <2>2. Groups["wr5"].base = "restart" /\ Groups["wr5"].follow = <<>>
    BY DEF Groups
  <2> QED BY <2>1, <2>2, <1>14, BaseIs
<1>16. w[5].dma.regs["how"] = p.how /\ w[5].dma.regs["a"] = p.a /\ w[5].dma.regs["len"] = p.len
  BY <1>4, <1>5, <1>6 DEF Puts, Registers
<1>17. /\ w[9].dma.regs["how"] = p.how /\ w[9].dma.regs["a"] = p.a /\ w[9].dma.regs["len"] = p.len
       /\ w[9].dma.regs["portA"] = p.portA /\ w[9].dma.regs["portB"] = p.portB
       /\ w[9].dma.regs["stopOnMatch"] = p.stopOnMatch /\ w[9].dma.regs["match"] = p.match
  BY <1>7, <1>8, <1>9, <1>10, <1>16, ZenonT(60) DEF Puts, Registers
<1>18. /\ w[12].dma.regs["how"] = p.how /\ w[12].dma.regs["a"] = p.a /\ w[12].dma.regs["len"] = p.len
       /\ w[12].dma.regs["portA"] = p.portA /\ w[12].dma.regs["portB"] = p.portB
       /\ w[12].dma.regs["stopOnMatch"] = p.stopOnMatch /\ w[12].dma.regs["match"] = p.match
       /\ w[12].dma.regs["mode"] = p.mode /\ w[12].dma.regs["b"] = p.b /\ w[12].dma.regs["intOn"] = p.intOn
  <2>1. \A x \in Registers \ {"mode", "b", "intOn"} : w[12].dma.regs[x] = w[9].dma.regs[x]
    BY <1>11, <1>12, <1>13 DEF Puts
  <2>2. w[12].dma.regs["mode"] = p.mode /\ w[12].dma.regs["b"] = p.b /\ w[12].dma.regs["intOn"] = p.intOn
    BY <1>11, <1>12, <1>13 DEF Puts, Registers
  <2> QED BY <1>17, <2>1, <2>2 DEF Registers
<1>19. Told(w[14], p)
  <2>1. \A x \in Registers \ {"vector", "restart"} : w[14].dma.regs[x] = w[12].dma.regs[x]
    BY <1>14, <1>15 DEF Puts
  <2>2. w[14].dma.regs["restart"] = p.restart
    BY <1>15 DEF Puts, Registers
  <2> QED BY <1>18, <2>1, <2>2 DEF Told, Registers
<1>20. /\ Rests(z, w[15]) /\ Told(w[15], p) /\ w[15].dma.follow = <<>>
       /\ w[15].dma.addrA = p.a /\ w[15].dma.addrB = p.b
  <2> DEFINE m == Mutes(w[14])
  <2>1. w[15] = Written(w[14], <<"command", "load">>)
    BY <1>1, <1>2
  <2>2. w[15] = LoadAs(m)
    BY <1>15, <2>1, CommandIs DEF Rests
  <2>3. Rests(z, m) /\ m.dma.follow = <<>> /\ \A x \in Registers : m.dma.regs[x] = w[14].dma.regs[x]
    BY <1>15, MutesTo
  <2> HIDE DEF m
  <2>4. Told(m, p) /\ m.dma.regs["a"] = p.a /\ m.dma.regs["b"] = p.b
    BY <1>19, <2>3 DEF Told, Registers
  <2>5. p.a \in 0..(Cells - 1) /\ p.b \in 0..(Cells - 1)
    BY DEF Fits
  <2>6. /\ Rests(z, LoadAs(m)) /\ LoadAs(m).dma.regs = m.dma.regs /\ LoadAs(m).dma.follow = m.dma.follow
        /\ LoadAs(m).dma.addrA = m.dma.regs["a"] /\ LoadAs(m).dma.addrB = m.dma.regs["b"]
    BY <2>3, <2>4, <2>5, LoadsTo
  <2> QED BY <2>2, <2>3, <2>4, <2>6 DEF Told
<1>21. QED
  BY <1>20 DEF Setup


\* A transfer that nothing was moved of.
LEMMA UnderAtFirst ==
  ASSUME DmaTransferAssumption, NEW p, Fits(p), NEW g \in 1..MaxGoes, NEW z, Bus(z), ~z.dma.enabled, RamKept(z, p),
         NEW r, Rests(z, r), Told(r, p), r.dma.addrA = p.a, r.dma.addrB = p.b
  PROVE  Under(r, p, g) /\ Bus(r)
<1> DEFINE n == LenOf(p)
<1>1. n \in 1..(All + 1) /\ Most(p, g) = g * n /\ All \in Nat /\ MaxGoes \in Nat /\ Cells \in Nat \ {0}
  BY DEF DmaTransferAssumption, Fits, LenOf, Most
<1>2. g * n >= n
  <2>1. g \in Nat \ {0} /\ n \in Nat \ {0}
    BY <1>1
  <2> HIDE DEF n
  <2>2. g * n = (g - 1) * n + n /\ (g - 1) * n \in Nat
    BY <2>1
  <2> QED BY <2>1, <2>2
<1>3. /\ DmaTypes(r) /\ r.dma.stop = FALSE /\ r.dma.up = 0 /\ r.log.go = 0 /\ r.log.bytes = <<>>
      /\ r.dma.status = "none" /\ r.ram = z.ram
  BY DEF Rests
<1>4. Len(r.log.bytes) = 0
  BY <1>3
<1> HIDE DEF n
<1>5. Bus(r)
  BY DEF Rests, Bus
<1>6. Accounted(r, p) /\ StatusTrue(r, p)
  <2>1. n = LenOf(p) /\ 0 <= n
    BY <1>1 DEF n
  <2> QED BY <1>3, <2>1 DEF Accounted, StatusTrue
<1>7. Room(r, p, g)
  <2>1. n = LenOf(p)
    BY DEF n
  <2>2. 0 + n <= g * n + 0
    BY <1>1, <1>2
  <2> QED BY <1>1, <1>3, <1>4, <2>1, <2>2 DEF Room
<1>8. PortsAt(r, p, 1)
  <2>1. EndA(p).at \in 0..(Cells - 1) /\ EndB(p).at \in 0..(Cells - 1) /\ EndA(p).at = p.a /\ EndB(p).at = p.b
    BY DEF EndA, EndB, Fits
  <2>2. CellOf(EndA(p), 1) = p.a
    BY <1>1, <2>1, CellSteps
  <2>3. CellOf(EndB(p), 1) = p.b
    BY <1>1, <2>1, CellSteps
  <2> QED BY <2>2, <2>3 DEF PortsAt
<1>9. RamKept(r, p)
  BY <1>3 DEF RamKept
<1>10. Moves(r, p)
  <2>1. r.dev.got \in Seq(Int) /\ Len(r.dev.got) \in Nat
    BY <1>3 DEF DmaTypes
  <2>2. \A i \in 1..0 : FALSE
    OBVIOUS
  <2>3. 0 <= Len(r.dev.got)
    BY <2>1
  <2> QED BY <1>4, <2>2, <2>3 DEF Moves
<1>11. PortsAt(r, p, IF r.dma.stop THEN Len(r.log.bytes) ELSE Len(r.log.bytes) + 1)
  <2>1. (IF r.dma.stop THEN Len(r.log.bytes) ELSE Len(r.log.bytes) + 1) = 1
    BY <1>3, <1>4
  <2> QED BY <1>8, <2>1
<1>12. QED
  BY <1>3, <1>5, <1>6, <1>7, <1>9, <1>10, <1>11 DEF Under

\* What was moved is given up for a new go: the count begins again.
Onward(s) == [Command(s, "continue") EXCEPT !.log.go = IF s.dma.stop /\ s.dma.up = s.dma.blockLen THEN 1 ELSE 0]
LEMMA OnwardIs ==
  ASSUME NEW s, DmaTypes(s)
  PROVE  LET r == Onward(s)
         IN /\ DmaTypes(r) /\ SameReading(s, r) /\ \A x \in Registers : r.dma.regs[x] = s.dma.regs[x]
            /\ r.dma.addrA = s.dma.addrA /\ r.dma.addrB = s.dma.addrB
            /\ r.dma.up = (IF s.dma.stop /\ s.dma.up # s.dma.blockLen THEN -1 ELSE 0)
            /\ r.dma.stop = s.dma.stop /\ r.ram = s.ram /\ r.dev = s.dev /\ r.log.bytes = s.log.bytes
            /\ r.log.go = (IF s.dma.stop /\ s.dma.up = s.dma.blockLen THEN 1 ELSE 0)
            /\ r.holds = s.holds /\ r.dma.master = s.dma.master /\ r.dma.enabled = TRUE
            /\ r.dma.status = "none" /\ r.dma.blockLen = s.dma.blockLen
<1> DEFINE h == Halted(s, s.dma.stop /\ TRUE)
           up == IF s.dma.stop /\ s.dma.up # s.dma.blockLen THEN -1 ELSE 0
           go == IF s.dma.stop /\ s.dma.up = s.dma.blockLen THEN 1 ELSE 0
           r == [h EXCEPT !.dma.status = "none", !.dma.enabled = TRUE, !.dma.up = up, !.log.go = go]
<1>1. /\ DmaTypes(h) /\ SameReading(s, h) /\ \A x \in Registers : h.dma.regs[x] = s.dma.regs[x]
      /\ h.dma.addrA = s.dma.addrA /\ h.dma.addrB = s.dma.addrB /\ h.dma.up = s.dma.up
      /\ h.dma.stop = s.dma.stop /\ h.ram = s.ram /\ h.dev = s.dev /\ h.log = s.log
      /\ h.holds = s.holds /\ h.dma.master = s.dma.master /\ h.dma.enabled = FALSE
      /\ h.dma.status = s.dma.status /\ h.dma.blockLen = s.dma.blockLen
  BY HaltedOn
<1>2. Onward(s) = r
  <2> DEFINE m == [s EXCEPT !.dma.enabled = FALSE, !.dma.stop = (@ /\ "continue" \in Keep)]
             k == [[m EXCEPT !.dma.status = "none"]
                     EXCEPT !.dma.enabled = TRUE,
                            !.dma.up = IF m.dma.stop /\ m.dma.up # m.dma.blockLen THEN -1 ELSE 0]
  <2>1. m = h
    BY DEF Halted, Keep
  <2>2. Command(s, "continue")
          = [[m EXCEPT !.dma.status = "none"]
               EXCEPT !.dma.enabled = TRUE,
                      !.dma.up = IF m.dma.stop /\ @ # m.dma.blockLen THEN -1 ELSE 0]
    BY DEF Command
  <2> HIDE DEF m, h
  <2>3. [m EXCEPT !.dma.status = "none"].dma.up = m.dma.up
    BY <1>1, <2>1 DEF DmaTypes, DmaShape, DmaFields
  <2>4. Command(s, "continue") = k
    BY <2>2, <2>3
  <2>5. (IF m.dma.stop /\ m.dma.up # m.dma.blockLen THEN -1 ELSE 0) = up
    BY <1>1, <2>1
  <2> HIDE DEF up, go
  <2>6. k = [[h EXCEPT !.dma.status = "none"] EXCEPT !.dma.enabled = TRUE, !.dma.up = up]
    BY <2>1, <2>5
  <2>7. Onward(s) = [k EXCEPT !.log.go = go]
    BY <2>4 DEF Onward, go
  <2> HIDE DEF k
  <2>8. [[[h EXCEPT !.dma.status = "none"] EXCEPT !.dma.enabled = TRUE, !.dma.up = up] EXCEPT !.log.go = go] = r
    OBVIOUS
  <2> QED BY <2>6, <2>7, <2>8
<1> HIDE DEF h
<1>3. up \in Int /\ go \in Nat
  OBVIOUS
<1> HIDE DEF up, go
<1>4. DmaShape(r)
  BY <1>1 DEF DmaTypes, DmaShape, DmaFields
<1>5. DmaBools(r)
  BY <1>1 DEF DmaTypes, DmaShape, DmaFields, DmaBools
<1>6. /\ r.dma.rr = h.dma.rr /\ r.dma.rrAt = h.dma.rrAt /\ r.dma.follow = h.dma.follow /\ r.dma.regs = h.dma.regs
      /\ r.dma.addrA = h.dma.addrA /\ r.dma.addrB = h.dma.addrB /\ r.dma.up = up
      /\ r.dma.stop = h.dma.stop
  BY <1>1 DEF DmaTypes, DmaShape, DmaFields
<1>7. /\ r.ram = h.ram /\ r.dev = h.dev /\ r.log.bytes = h.log.bytes
      /\ r.log.go = go /\ r.holds = h.holds /\ r.dma.master = h.dma.master /\ r.dma.enabled = TRUE
      /\ r.dma.status = "none" /\ r.dma.blockLen = h.dma.blockLen
  BY <1>1 DEF DmaTypes, DmaShape, DmaFields
<1> HIDE DEF r
<1>8. DmaTypes(r)
  <2>1. r.dma.status \in {"none", "eob", "match", "both"}
    BY <1>7
  <2> QED BY <1>1, <1>3, <1>4, <1>5, <1>6, <1>7, <2>1 DEF DmaTypes
<1>9. SameReading(s, r) /\ \A x \in Registers : r.dma.regs[x] = s.dma.regs[x]
  BY <1>1, <1>6 DEF SameReading
<1>10. QED
  BY <1>1, <1>2, <1>6, <1>7, <1>8, <1>9 DEF up, go

LEMMA OnwardGoes ==
  ASSUME DmaTransferAssumption, NEW s, NEW p, Fits(p), NEW g \in 1..MaxGoes, g + 1 <= MaxGoes, Under(s, p, g),
         s.dma.status # "none"
  PROVE  Under(Onward(s), p, g + 1) /\ SameReading(s, Onward(s))
<1> DEFINE r == Onward(s)
           n == LenOf(p)
           m == Len(s.log.bytes)
<1>1. /\ DmaTypes(r) /\ SameReading(s, r) /\ \A x \in Registers : r.dma.regs[x] = s.dma.regs[x]
      /\ r.dma.addrA = s.dma.addrA /\ r.dma.addrB = s.dma.addrB
      /\ r.dma.up = (IF s.dma.stop /\ s.dma.up # s.dma.blockLen THEN -1 ELSE 0)
      /\ r.dma.stop = s.dma.stop /\ r.ram = s.ram /\ r.dev = s.dev /\ r.log.bytes = s.log.bytes
      /\ r.log.go = (IF s.dma.stop /\ s.dma.up = s.dma.blockLen THEN 1 ELSE 0)
      /\ r.holds = s.holds /\ r.dma.master = s.dma.master /\ r.dma.enabled = TRUE
      /\ r.dma.status = "none" /\ r.dma.blockLen = s.dma.blockLen
  BY OnwardIs DEF Under
<1> HIDE DEF r
<1>2. /\ s.dma.blockLen = n /\ s.dma.up \in Int /\ s.log.go \in Nat /\ m \in Nat /\ s.dma.stop \in BOOLEAN
      /\ m + n <= Most(p, g) + s.log.go
  <2>1. s.log.bytes \in Seq(Int)
    BY DEF Under, DmaTypes
  <2>2. m \in Nat
    BY <2>1
  <2> QED BY <2>2 DEF Under, StatusTrue, DmaTypes, DmaBools, Room
<1>3. n \in 1..(All + 1) /\ Most(p, g + 1) = Most(p, g) + n /\ Most(p, g) \in Nat /\ All \in Nat
  <2>1. All \in Nat \ {0} /\ p.len \in 0..(All - 1) /\ MaxGoes \in Nat \ {0}
    BY DEF DmaTransferAssumption, Fits
  <2> QED BY <2>1, MostGrows
<1>4. s.log.go <= n
  BY <1>2, <1>3, SMTT(30) DEF Under, Accounted
<1>5. Accounted(r, p)
  <2>1. n = LenOf(p)
    BY DEF n
  <2> HIDE DEF n
  <2>2. CASE s.dma.stop
    BY <1>1, <1>2, <1>3, <2>1, <2>2 DEF Accounted
  <2>3. CASE ~s.dma.stop
    BY <1>1, <1>2, <1>3, <2>1, <2>3 DEF Accounted
  <2> QED BY <2>2, <2>3
<1>6. Told(r, p)
  BY <1>1 DEF Under, Told, Registers
<1>7. Bus(r) /\ StatusTrue(r, p)
  BY <1>1 DEF Under, Bus, StatusTrue
<1>8. Room(r, p, g + 1)
  <2>1. r.log.go \in Nat
    BY <1>1
  <2>2. Len(r.log.bytes) = m /\ LenOf(p) = n
    BY <1>1
  <2> HIDE DEF m, n
  <2>3. m <= Most(p, g)
    BY <1>2, <1>3, <1>4
  <2>4. m + n <= (Most(p, g) + n) + r.log.go
    BY <1>2, <1>3, <2>1, <2>3
  <2> QED BY <1>3, <2>2, <2>4 DEF Room
<1>9. PortsAt(r, p, IF r.dma.stop THEN Len(r.log.bytes) ELSE Len(r.log.bytes) + 1)
  BY <1>1 DEF Under, PortsAt
<1>10. RamKept(r, p)
  BY <1>1 DEF Under, RamKept
<1>11. Moves(r, p)
  <2>1. Moves(s, p)
    BY DEF Under
  <2>2. r.log.bytes = s.log.bytes /\ r.ram = s.ram /\ r.dev = s.dev
    BY <1>1
  <2> QED BY <2>1, <2>2 DEF Moves
<1>12. QED
  BY <1>1, <1>5, <1>6, <1>7, <1>8, <1>9, <1>10, <1>11 DEF Under, r


(***************************************************************************)
(* The steps.                                                              *)
(***************************************************************************)
SameFields(s, r) ==
  DOMAIN s = DOMAIN r /\ s.dma = r.dma /\ s.ram = r.ram /\ s.dev = r.dev /\ s.holds = r.holds /\ s.log = r.log

LEMMA AsFieldsAre ==
  ASSUME NEW s, NEW r, SameFields(s, r)
  PROVE  /\ DmaTypes(r) => DmaTypes(s)
         /\ \A p, g : Under(r, p, g) => Under(s, p, g)
         /\ Bus(r) => Bus(s) /\ \A p : RamKept(r, p) => RamKept(s, p)
         /\ Buffered(r) => Buffered(s) /\ \A read : ReadSoFar(r, read) => ReadSoFar(s, read)
         /\ AtRest(r) => AtRest(s)
<1>1. DmaTypes(r) => DmaTypes(s)
  BY DEF SameFields, DmaTypes, DmaShape, DmaBools
<1>2. ASSUME NEW p, NEW g, Under(r, p, g) PROVE Under(s, p, g)
  <2>1. Told(s, p) /\ Bus(s)
    BY <1>2 DEF SameFields, Under, Told, Bus
  <2>2. Accounted(s, p) /\ StatusTrue(s, p) /\ Room(s, p, g)
    BY <1>2 DEF SameFields, Under, Accounted, StatusTrue, Room
  <2>3. PortsAt(s, p, IF s.dma.stop THEN Len(s.log.bytes) ELSE Len(s.log.bytes) + 1)
    BY <1>2 DEF SameFields, Under, PortsAt
  <2>4. RamKept(s, p)
    BY <1>2 DEF SameFields, Under, RamKept
  <2>5. Moves(s, p)
    <3>1. Moves(r, p)
      BY <1>2 DEF Under
    <3>2. s.log = r.log /\ s.ram = r.ram /\ s.dev = r.dev
      BY DEF SameFields
    <3> QED BY <3>1, <3>2, MovesAre
  <2> QED BY <1>1, <1>2, <2>1, <2>2, <2>3, <2>4, <2>5 DEF Under
<1>3. (Bus(r) => Bus(s)) /\ (AtRest(r) => AtRest(s)) /\ (Buffered(r) => Buffered(s))
  BY DEF SameFields, Bus, AtRest, Buffered
<1>4. \A p : RamKept(r, p) => RamKept(s, p)
  BY DEF SameFields, RamKept
<1>5. ASSUME NEW read, ReadSoFar(r, read) PROVE ReadSoFar(s, read)
  <2>1. s.dma = r.dma
    BY DEF SameFields
  <2>2. Counters(s) = Counters(r)
    BY <2>1 DEF Counters
  <2> QED BY <1>5, <2>1, <2>2 DEF ReadSoFar
<1>6. QED
  BY <1>1, <1>2, <1>3, <1>4, <1>5

DmaPremises == /\ DmaTransferAssumption /\ ~Resets
               /\ \A p \in Programs : Apart(p) /\ EndsInTime(p)
\* Where the invariant stands, of a state s and a program q.
Stands(s, q) ==
  LET p == q.is
      running == q.at > Len(Script(p))
  IN /\ DOMAIN q = {"is", "at", "goes", "handler", "read"}
     /\ p \in Programs /\ q.goes \in 1..MaxGoes /\ q.handler \in BOOLEAN
     /\ q.at \in {1} \union ((Setup + 1)..(Len(Script(p)) + 1))
     /\ DmaTypes(s) /\ Bus(s) /\ RamKept(s, p) /\ Buffered(s) /\ ReadSoFar(s, q.read)
     /\ ~running => AtRest(s)
     /\ q.at > 1 => Under(s, p, q.goes)

LEMMA InvStands == DmaInv <=> Stands(State, program)
BY DEF DmaInv, Stands, Running

LEMMA BecomesStands ==
  ASSUME NEW r, Becomes(r), DOMAIN r = DOMAIN State, Stands(r, program')
  PROVE  DmaInv'
<1>1. SameFields(State', r)
  BY DEF Becomes, SameFields, State
<1>2. Stands(State', program')
  BY <1>1, AsFieldsAre DEF Stands
<1>3. QED
  BY <1>2 DEF DmaInv, Stands, Running, State

LEMMA StateIsWhole == DOMAIN State = {"dma", "ram", "dev", "holds", "log"}
BY DEF State

LEMMA ProgramsFit ==
  ASSUME DmaPremises, NEW p \in Programs
  PROVE  Fits(p) /\ EndsInTime(p) /\ DmaTransferAssumption
BY DEF DmaPremises, DmaTransferAssumption, Fits

\* A transfer that is under way after an instruction, whatever was read of it.
LEMMA GoesUnder ==
  ASSUME DmaPremises, NEW s, NEW q, DOMAIN q = {"is", "at", "goes", "handler", "read"},
         q.is \in Programs, q.goes \in 1..MaxGoes, q.handler \in BOOLEAN,
         q.at \in (Setup + 1)..(Len(Script(q.is)) + 1), Under(s, q.is, q.goes), Buffered(s),
         ReadSoFar(s, q.read), q.at <= Len(Script(q.is)) => AtRest(s), s.dma.enabled => q.read = <<>>
  PROVE  Stands(DoDma(s), q)
<1> DEFINE p == q.is
           r == DoDma(s)
<1>1. Fits(p) /\ EndsInTime(p) /\ DmaTransferAssumption
  BY ProgramsFit
<1>2. Under(r, p, q.goes) /\ SameReading(s, r) /\ (~s.dma.enabled => r = s)
  BY <1>1, DoDmaKeeps
<1>3. (q.at > Len(Script(p)) <=> ~(q.at <= Len(Script(p))))
      /\ q.at \in {1} \union ((Setup + 1)..(Len(Script(p)) + 1))
  <2>1. Len(Script(p)) \in (Setup + 1)..(Setup + 4)
    BY ScriptIs
  <2>2. Len(Script(p)) \in Int /\ q.at \in Int
    BY <2>1 DEF Setup
  <2> QED BY <2>2
<1> SUFFICES Stands(r, q)
  OBVIOUS
<1> HIDE DEF r
<1>4. DmaTypes(r) /\ Bus(r) /\ RamKept(r, p)
  BY <1>2 DEF Under
<1>5. CASE ~s.dma.enabled
  <2>1. Buffered(r) /\ ReadSoFar(r, q.read) /\ (q.at <= Len(Script(p)) => AtRest(r))
    BY <1>2, <1>5
  <2> QED BY <1>2, <1>3, <1>4, <2>1 DEF Stands
<1>6. CASE s.dma.enabled
  <2>1. q.read = <<>> /\ s.dma.follow = <<>>
    BY <1>6 DEF ReadSoFar
  <2>2. Buffered(r) /\ r.dma.follow = <<>>
    BY <1>2, <2>1 DEF SameReading, Buffered
  <2>3. ReadSoFar(r, q.read)
    BY <2>1, <2>2 DEF ReadSoFar
  <2>4. ~(q.at <= Len(Script(p)))
    BY <1>6 DEF AtRest
  <2> QED BY <1>2, <1>3, <1>4, <2>2, <2>3, <2>4 DEF Stands
<1>7. s.dma.enabled \in BOOLEAN
  BY DEF Under, DmaTypes, DmaBools
<1>8. QED
  BY <1>5, <1>6, <1>7


LEMMA InstructionStands ==
  ASSUME NEW s, NEW q, DmaInstruction(s, q), Stands(DoDma(s), q)
  PROVE  DmaInv'
<1>1. program' = q /\ Becomes(DoDma(s))
  BY DEF DmaInstruction
<1>2. DOMAIN DoDma(s) = DOMAIN State
  BY StateIsWhole DEF Stands, DmaTypes, DmaShape
<1>3. Stands(DoDma(s), program')
  BY <1>1
<1>4. QED
  BY <1>1, <1>2, <1>3, BecomesStands

\* What is known of a program that runs.
LEMMA RunsUnder ==
  ASSUME DmaInv
  PROVE  /\ DOMAIN program = {"is", "at", "goes", "handler", "read"} /\ program.is \in Programs
         /\ program.goes \in 1..MaxGoes /\ program.handler \in BOOLEAN
         /\ DmaTypes(State) /\ Bus(State) /\ RamKept(State, program.is) /\ Buffered(State)
         /\ ReadSoFar(State, program.read)
         /\ program.at \in {1} \union ((Setup + 1)..(Len(Script(program.is)) + 1)) /\ program.at \in Int
         /\ Len(Script(program.is)) \in (Setup + 1)..(Setup + 4) /\ Setup = 15
         /\ ~Running => AtRest(State) /\ program.read = <<>>
         /\ program.at > 1 => /\ Under(State, program.is, program.goes)
                              /\ program.at \in (Setup + 1)..(Len(Script(program.is)) + 1)
         /\ Running => program.at > 1 /\ ~(program.at <= Len(Script(program.is)))
<1> DEFINE n == Len(Script(program.is))
           at == program.at
<1>1. n \in (Setup + 1)..(Setup + 4) /\ Setup = 15 /\ at \in {1} \union ((Setup + 1)..(n + 1))
  BY ScriptIs DEF DmaInv, Setup
<1>2. Running <=> at > n
  BY DEF Running
<1>3. at \in Int /\ n \in Int /\ (at > 1 => at \in (Setup + 1)..(n + 1)) /\ (at > n => at > 1 /\ ~(at <= n))
  <2> HIDE DEF n, at
  <2> QED BY <1>1
<1>4. ~Running => AtRest(State) /\ program.read = <<>>
  BY DEF DmaInv, AtRest, ReadSoFar
<1>5. QED
  BY <1>1, <1>2, <1>3, <1>4 DEF DmaInv

LEMMA NewPlace ==
  ASSUME NEW q, DOMAIN q = {"is", "at", "goes", "handler", "read"}, NEW at, NEW goes, NEW read, NEW handler
  PROVE  /\ LET r == [q EXCEPT !.at = at]
            IN DOMAIN r = DOMAIN q /\ r.is = q.is /\ r.at = at /\ r.goes = q.goes /\ r.handler = q.handler /\ r.read = q.read
         /\ LET r == [q EXCEPT !.read = read]
            IN DOMAIN r = DOMAIN q /\ r.is = q.is /\ r.at = q.at /\ r.goes = q.goes /\ r.handler = q.handler /\ r.read = read
         /\ LET r == [q EXCEPT !.goes = goes, !.read = read]
            IN DOMAIN r = DOMAIN q /\ r.is = q.is /\ r.at = q.at /\ r.goes = goes /\ r.handler = q.handler /\ r.read = read
         /\ LET r == [q EXCEPT !.handler = handler]
            IN DOMAIN r = DOMAIN q /\ r.is = q.is /\ r.at = q.at /\ r.goes = q.goes /\ r.handler = handler /\ r.read = q.read
OBVIOUS

LEMMA SetupStands ==
  ASSUME DmaPremises, DmaInv, WriteSetup PROVE DmaInv'
<1> DEFINE p == program.is
           z == State
           w == CHOOSE f : f = WritesOf(Setup, z, Script(p), f)
           r == w[Setup]
           q == [program EXCEPT !.at = Setup + 1]
<1>1. DmaInstruction(r, q) /\ program.at = 1
  BY DEF WriteSetup, WritesOf
<1>2. w = WritesOf(Setup, z, Script(p), w)
  <2>1. Setup \in Nat
    BY DEF Setup
  <2> QED BY <2>1, WritesAre
<1> HIDE DEF w
<1>3. /\ DOMAIN program = {"is", "at", "goes", "handler", "read"} /\ p \in Programs
      /\ program.goes \in 1..MaxGoes /\ program.handler \in BOOLEAN
      /\ DmaTypes(z) /\ Bus(z) /\ RamKept(z, p) /\ Buffered(z) /\ AtRest(z) /\ program.read = <<>>
      /\ Len(Script(p)) \in 16..19
  <2>1. ~Running
    <3>1. program.at \in Int /\ (Running => program.at > 1)
      BY RunsUnder
    <3> QED BY <1>1, <3>1
  <2>2. Len(Script(p)) \in 16..19
    BY RunsUnder DEF Setup
  <2> QED BY <2>1, <2>2, RunsUnder
<1>4. Fits(p) /\ DmaTransferAssumption
  BY <1>3, ProgramsFit
<1> HIDE DEF z
<1>5. Rests(z, r) /\ Told(r, p) /\ r.dma.follow = <<>> /\ r.dma.addrA = p.a /\ r.dma.addrB = p.b
  BY <1>2, <1>3, <1>4, SetupIs
<1> HIDE DEF r
<1>6. Under(r, p, program.goes) /\ Bus(r)
  BY <1>3, <1>4, <1>5, UnderAtFirst DEF AtRest
<1>7. Buffered(r) /\ AtRest(r) /\ ReadSoFar(r, <<>>) /\ ~r.dma.enabled
  <2>1. <<>> \in Seq(ReadValues)
    OBVIOUS
  <2> QED BY <1>3, <1>5, <2>1 DEF Rests, Buffered, AtRest, ReadSoFar
<1>8. /\ DOMAIN q = {"is", "at", "goes", "handler", "read"} /\ q.is = p /\ q.goes = program.goes
      /\ q.handler = program.handler /\ q.read = <<>> /\ q.at = Setup + 1
  BY <1>3
<1>9. q.at \in (Setup + 1)..(Len(Script(p)) + 1)
  <2> DEFINE n == Len(Script(p))
  <2>1. n \in 16..19 /\ Setup = 15
    BY <1>3 DEF Setup
  <2> HIDE DEF n
  <2>2. Setup + 1 \in (Setup + 1)..(n + 1)
    BY <2>1
  <2> QED BY <1>8, <2>2 DEF n
<1> HIDE DEF q
<1>10. Stands(DoDma(r), q)
  BY <1>3, <1>6, <1>7, <1>8, <1>9, GoesUnder
<1>11. QED
  BY <1>1, <1>10, InstructionStands


\* What a quiet change of a transfer that is under way leaves of it.
LEMMA QuietStands ==
  ASSUME NEW s, NEW r, NEW p, NEW g, Under(s, p, g), QuietChange(s, r), r.holds = r.dma.master,
         r.dma.master => r.dma.enabled, s.dma.status # "none" => ~r.dma.enabled
  PROVE  Under(r, p, g)
BY QuietKeeps DEF Bus

LEMMA ReadingStays ==
  ASSUME NEW s, NEW r, SameReading(s, r), SameBlock(s, r), NEW read
  PROVE  /\ Buffered(s) => Buffered(r)
         /\ ReadSoFar(s, read) /\ ((read # <<>> \/ s.dma.follow # <<>>) => ~r.dma.enabled) => ReadSoFar(r, read)
         /\ AtRest(s) /\ ~r.dma.enabled => AtRest(r)
<1>1. Counters(r) = Counters(s)
  BY DEF SameBlock, Counters
<1>2. QED
  BY <1>1 DEF SameReading, SameBlock, Buffered, ReadSoFar, AtRest

LEMMA ScriptStands ==
  ASSUME DmaPremises, DmaInv, WriteScript PROVE DmaInv'
<1> DEFINE p == program.is
           s == State
           w == Script(p)[program.at]
           r == Written(s, w)
           q == [program EXCEPT !.at = program.at + 1]
           n == Len(Script(p))
           at == program.at
<1>1. DmaInstruction(r, q) /\ ~Running /\ program.at > 1 /\ ~holds
  BY DEF WriteScript, DmaInstruction
<1>2. /\ DOMAIN program = {"is", "at", "goes", "handler", "read"} /\ p \in Programs
      /\ program.goes \in 1..MaxGoes /\ program.handler \in BOOLEAN
      /\ DmaTypes(s) /\ Bus(s) /\ Buffered(s) /\ AtRest(s) /\ program.read = <<>>
      /\ Under(s, p, program.goes) /\ ReadSoFar(s, <<>>)
  BY <1>1, RunsUnder
<1>3. n \in 16..19 /\ at \in 16..(n + 1) /\ Setup = 15
  BY <1>1, RunsUnder DEF Setup
<1>4. ~(at > n)
  BY <1>1 DEF Running
<1>5. s.dma.master = FALSE /\ s.holds = FALSE /\ s.dma.status = "none" /\ s.dma.stop = FALSE
  BY <1>2 DEF Bus, AtRest, DmaTypes, DmaBools
<1>6. /\ DOMAIN q = {"is", "at", "goes", "handler", "read"} /\ q.is = p /\ q.goes = program.goes
      /\ q.handler = program.handler /\ q.read = <<>> /\ q.at = at + 1
  BY <1>2, NewPlace
<1>7. /\ Script(p)[n] = Enables /\ \A i \in (Setup + 1)..(n - 1) : IsSwitch(Script(p)[i])
  BY ScriptIs
<1> HIDE DEF s, q
<1>8. /\ Under(r, p, program.goes) /\ Buffered(r) /\ ReadSoFar(r, <<>>)
      /\ at < n => AtRest(r)
  <2>1. CASE at = n
    <3>1. r = Command(s, "enable")
      BY <1>2, <1>7, <2>1, CommandIs
    <3> HIDE DEF r, n, at
    <3>2. QuietChange(s, r) /\ SameReading(s, r) /\ r.holds = s.holds /\ r.dma.master = s.dma.master /\ r.dma.enabled = TRUE
      BY <1>2, <3>1, EnableIs
    <3>3. Under(r, p, program.goes)
      BY <1>2, <1>5, <3>2, QuietStands
    <3>4. Buffered(r) /\ ReadSoFar(r, <<>>)
      BY <1>2, <3>2, ReadingStays DEF QuietChange, AtRest
    <3>5. ~(at < n)
      BY <1>3, <2>1
    <3> QED BY <3>3, <3>4, <3>5
  <2>2. CASE at # n
    <3>1. at \in (Setup + 1)..(n - 1)
      <4> HIDE DEF at, n
      <4> QED BY <1>3, <1>4, <2>2
    <3>2. IsSwitch(w)
      BY <1>7, <3>1
    <3>3. r = Command(s, w[2]) /\ w[2] \in Switches
      BY <3>2 DEF IsSwitch, Written
    <3> HIDE DEF r, n, at, w
    <3>4. QuietChange(s, r) /\ SameReading(s, r) /\ r.holds = s.holds /\ r.dma.master = s.dma.master /\ r.dma.enabled = FALSE
      BY <1>2, <1>5, <3>3, SwitchIs
    <3>5. Under(r, p, program.goes)
      BY <1>2, <1>5, <3>4, QuietStands
    <3>6. Buffered(r) /\ ReadSoFar(r, <<>>) /\ AtRest(r)
      BY <1>2, <3>4, ReadingStays DEF QuietChange, AtRest
    <3> QED BY <3>5, <3>6
  <2> QED BY <2>1, <2>2
<1> HIDE DEF r
<1>9. q.at \in (Setup + 1)..(n + 1) /\ (q.at <= n => at < n)
  <2> HIDE DEF n, at
  <2> QED BY <1>3, <1>4, <1>6
<1>10. Stands(DoDma(r), q)
  BY <1>2, <1>6, <1>8, <1>9, GoesUnder
<1>11. QED
  BY <1>1, <1>10, InstructionStands

\* An instruction that the program does not count.
LEMMA PlainStands ==
  ASSUME DmaPremises, DmaInv, Running, NEW r, NEW q, DmaInstruction(r, q),
         DOMAIN q = DOMAIN program, q.is = program.is, q.at = program.at, q.goes \in 1..MaxGoes, q.handler \in BOOLEAN,
         Under(r, program.is, q.goes), Buffered(r), ReadSoFar(r, q.read), r.dma.enabled => q.read = <<>>
  PROVE  DmaInv'
<1>1. /\ DOMAIN program = {"is", "at", "goes", "handler", "read"} /\ program.is \in Programs
      /\ program.at \in (Setup + 1)..(Len(Script(program.is)) + 1)
      /\ ~(program.at <= Len(Script(program.is)))
  BY RunsUnder
<1>2. Stands(DoDma(r), q)
  BY <1>1, GoesUnder
<1>3. QED
  BY <1>2, InstructionStands

LEMMA OthersStand ==
  ASSUME DmaPremises, DmaInv, OtherInstruction \/ EnableAgain PROVE DmaInv'
<1> DEFINE p == program.is
           s == State
<1>1. Running
  BY DEF OtherInstruction, EnableAgain
<1>2. /\ DOMAIN program = {"is", "at", "goes", "handler", "read"}
      /\ program.goes \in 1..MaxGoes /\ program.handler \in BOOLEAN
      /\ DmaTypes(s) /\ Bus(s) /\ Buffered(s) /\ ReadSoFar(s, program.read) /\ Under(s, p, program.goes)
  BY <1>1, RunsUnder
<1>3. CASE OtherInstruction
  <2>1. s.dma.enabled /\ DmaInstruction(s, program)
    BY <1>3 DEF OtherInstruction, State
  <2>2. program.read = <<>>
    BY <1>2, <2>1 DEF ReadSoFar
  <2> HIDE DEF s
  <2> QED BY <1>1, <1>2, <2>1, <2>2, PlainStands
<1>4. CASE EnableAgain
  <2> DEFINE r == Command(s, "enable")
  <2>1. s.dma.status = "none" /\ DmaInstruction(r, program) /\ ~s.holds
    BY <1>4 DEF EnableAgain, State, DmaInstruction
  <2> HIDE DEF s
  <2>2. QuietChange(s, r) /\ SameReading(s, r) /\ r.holds = s.holds /\ r.dma.master = s.dma.master /\ r.dma.enabled = TRUE
    BY <1>2, EnableIs
  <2>3. program.read = <<>> /\ s.dma.follow = <<>>
    BY <1>2, <2>1 DEF ReadSoFar
  <2> HIDE DEF r
  <2>4. Under(r, p, program.goes)
    BY <1>2, <2>1, <2>2, QuietStands DEF Bus
  <2>5. Buffered(r) /\ ReadSoFar(r, program.read)
    BY <1>2, <2>2, <2>3, ReadingStays DEF QuietChange
  <2> QED BY <1>1, <1>2, <2>1, <2>3, <2>4, <2>5, PlainStands
<1>5. QED
  BY <1>3, <1>4


LEMMA ReadsStand ==
  ASSUME DmaPremises, DmaInv, ChooseRead \/ WriteMask \/ AskAgain PROVE DmaInv'
<1> DEFINE p == program.is
           s == State
<1>1. Running
  BY DEF ChooseRead, WriteMask, AskAgain, Idle
<1>2. /\ DOMAIN program = {"is", "at", "goes", "handler", "read"}
      /\ program.goes \in 1..MaxGoes /\ program.handler \in BOOLEAN
      /\ DmaTypes(s) /\ Bus(s) /\ Buffered(s) /\ ReadSoFar(s, program.read) /\ Under(s, p, program.goes)
  BY <1>1, RunsUnder
<1>3. CASE ChooseRead
  <2> DEFINE r == Command(s, "readMask")
  <2>1. ~s.dma.enabled /\ s.dma.status # "none" /\ s.dma.rr = <<>> /\ ~s.holds /\ DmaInstruction(r, program)
    BY <1>3 DEF ChooseRead, Idle, State, DmaInstruction
  <2> HIDE DEF s
  <2>2. /\ QuietChange(s, r) /\ r.holds = s.holds /\ r.dma.master = s.dma.master /\ r.dma.enabled = FALSE
        /\ r.dma.follow = <<"readMask">> /\ r.dma.rr = s.dma.rr /\ r.dma.rrAt = s.dma.rrAt
        /\ r.dma.regs["readMask"] = s.dma.regs["readMask"]
    BY <1>2, ReadMaskIs
  <2>3. program.read = <<>>
    <3>1. Counters(s) # <<>>
      BY FourChosen DEF Counters
    <3> QED BY <1>2, <2>1, <3>1 DEF ReadSoFar
  <2> HIDE DEF r
  <2>4. Under(r, p, program.goes)
    BY <1>2, <2>1, <2>2, QuietStands DEF Bus
  <2>5. r.dma.status # "none" /\ r.dma.rr = <<>>
    BY <2>1, <2>2 DEF QuietChange, SameBlock
  <2>6. Buffered(r) /\ ReadSoFar(r, program.read)
    BY <1>2, <2>2, <2>3, <2>5 DEF Buffered, ReadSoFar
  <2> QED BY <1>1, <1>2, <2>1, <2>3, <2>4, <2>6, PlainStands
<1>4. CASE WriteMask
  <2> DEFINE r == WriteFollow(s, {1, 2, 3, 4})
  <2>1. s.dma.follow # <<>> /\ ~s.holds /\ DmaInstruction(r, program)
    BY <1>4 DEF WriteMask, State, DmaInstruction
  <2> HIDE DEF s
  <2>2. s.dma.follow = <<"readMask">> /\ program.read = <<>> /\ ~s.dma.enabled /\ s.dma.status # "none"
    BY <1>2, <2>1 DEF Buffered, ReadSoFar
  <2>3. /\ QuietChange(s, r) /\ SameBus(s, r) /\ r.dma.follow = <<>> /\ r.dma.rrAt = 1 /\ Len(r.dma.rr) = 4
        /\ r.dma.regs["readMask"] = {1, 2, 3, 4}
    BY <1>2, <2>2, MaskIs
  <2> HIDE DEF r
  <2>4. Under(r, p, program.goes)
    BY <1>2, <2>2, <2>3, QuietStands DEF SameBus, Bus
  <2>5. Buffered(r) /\ ReadSoFar(r, program.read)
    BY <1>2, <2>2, <2>3 DEF Buffered, ReadSoFar
  <2> QED BY <1>1, <1>2, <2>1, <2>2, <2>4, <2>5, PlainStands
<1>5. CASE AskAgain
  <2> DEFINE r == Command(s, "initiateRead")
             q == [program EXCEPT !.read = <<"asked">>]
  <2>1. /\ ~s.dma.enabled /\ s.dma.status # "none" /\ s.dma.rr # <<>> /\ s.dma.follow = <<>> /\ ~s.holds
        /\ DmaInstruction(r, q)
    BY <1>5 DEF AskAgain, Idle, State, DmaInstruction
  <2> HIDE DEF s
  <2>2. s.dma.regs["readMask"] = {1, 2, 3, 4}
    BY <1>2, <2>1 DEF Buffered
  <2>3. /\ QuietChange(s, r) /\ r.holds = s.holds /\ r.dma.master = s.dma.master /\ r.dma.enabled = FALSE
        /\ r.dma.follow = s.dma.follow /\ r.dma.rrAt = 1 /\ Len(r.dma.rr) = 4
        /\ r.dma.regs["readMask"] = {1, 2, 3, 4} /\ r.dma.rr = Counters(r)
    BY <1>2, <2>2, AskIs
  <2> HIDE DEF r
  <2>4. Under(r, p, program.goes)
    BY <1>2, <2>1, <2>3, QuietStands DEF Bus
  <2>5. r.dma.status # "none" /\ r.dma.follow = <<>>
    BY <2>1, <2>3 DEF QuietChange, SameBlock
  <2>6. Buffered(r)
    BY <2>3, <2>5 DEF Buffered
  <2>7. ReadSoFar(r, <<"asked">>)
    <3>1. <<"asked">> \in Seq(ReadValues) /\ Len(<<"asked">>) = 1 /\ <<"asked">> # <<>>
      BY DEF ReadValues
    <3>2. \A i \in 2..1 : FALSE
      OBVIOUS
    <3>3. \A i \in 2..Len(<<"asked">>) : <<"asked">>[i] = r.dma.rr[i - 1]
      BY <3>1, <3>2
    <3> QED BY <2>3, <2>5, <3>1, <3>3 DEF ReadSoFar
  <2>8. /\ DOMAIN q = DOMAIN program /\ q.is = p /\ q.goes = program.goes
        /\ q.handler = program.handler /\ q.read = <<"asked">> /\ q.at = program.at
    BY <1>2, NewPlace
  <2> HIDE DEF q
  <2> QED BY <1>1, <1>2, <2>1, <2>3, <2>4, <2>6, <2>7, <2>8, PlainStands
<1>6. QED
  BY <1>3, <1>4, <1>5

LEMMA ReadIoStands ==
  ASSUME DmaPremises, DmaInv, ReadIo8 PROVE DmaInv'
<1> DEFINE p == program.is
           s == State
           x == s.dma.rr[s.dma.rrAt]
           at == IF s.dma.rrAt = Len(s.dma.rr) THEN 1 ELSE s.dma.rrAt + 1
           r == [s EXCEPT !.dma.rrAt = at]
           read == program.read
           more == Append(read, x)
           q == [program EXCEPT !.read = more]
<1>1. Running /\ ~s.dma.enabled /\ s.dma.status # "none" /\ s.dma.rr # <<>> /\ s.dma.follow = <<>> /\ ~s.holds
  BY DEF ReadIo8, Idle, State, DmaInstruction
<1>2. read # <<>> /\ Len(read) <= 4
  BY DEF ReadIo8
<1>3. DmaInstruction(r, q)
  <2>1. [State EXCEPT !.dma.rrAt = IF @ = Len(dma.rr) THEN 1 ELSE @ + 1] = r
    BY DEF State
  <2>2. [program EXCEPT !.read = Append(@, dma.rr[dma.rrAt])] = q
    BY DEF State
  <2> QED BY <2>1, <2>2 DEF ReadIo8
<1>4. /\ DOMAIN program = {"is", "at", "goes", "handler", "read"}
      /\ program.goes \in 1..MaxGoes /\ program.handler \in BOOLEAN
      /\ DmaTypes(s) /\ Bus(s) /\ Buffered(s) /\ ReadSoFar(s, read) /\ Under(s, p, program.goes)
  BY <1>1, RunsUnder
<1>5. /\ DOMAIN q = DOMAIN program /\ q.is = p /\ q.goes = program.goes
      /\ q.handler = program.handler /\ q.read = more /\ q.at = program.at
  BY <1>4, NewPlace
<1> HIDE DEF q, s
<1>6. Len(s.dma.rr) = 4 /\ s.dma.rr = Counters(s) /\ read \in Seq(ReadValues)
  BY <1>1, <1>2, <1>4 DEF Buffered, ReadSoFar
<1> DEFINE k == Len(read)
<1>7. k \in 1..4 /\ s.dma.rrAt = k /\ \A i \in 2..k : read[i] = s.dma.rr[i - 1]
  <2>1. Len(read) \in 1..5 /\ s.dma.rrAt = (IF Len(read) = 5 THEN 1 ELSE Len(read))
        /\ \A i \in 2..Len(read) : read[i] = s.dma.rr[i - 1]
    BY <1>2, <1>4 DEF ReadSoFar
  <2>2. k \in 1..4
    <3>1. k \in 1..5 /\ k <= 4
      BY <1>2, <2>1
    <3> HIDE DEF k
    <3> QED BY <3>1
  <2>3. k # 5
    BY <2>2
  <2>4. s.dma.rrAt = k
    BY <2>1, <2>3
  <2> QED BY <2>1, <2>2, <2>4
<1>8. s.dma.rr[k] \in ReadValues
  <2>1. /\ Counters(s)[1] = s.dma.status /\ Counters(s)[2] = s.dma.up /\ Counters(s)[3] = s.dma.addrA
        /\ Counters(s)[4] = s.dma.addrB
    BY DEF Counters
  <2>2. s.dma.status \in ReadValues /\ s.dma.up \in ReadValues /\ s.dma.addrA \in ReadValues
        /\ s.dma.addrB \in ReadValues
    BY <1>4 DEF DmaTypes, ReadValues
  <2>3. k = 1 \/ k = 2 \/ k = 3 \/ k = 4
    BY <1>7
  <2> HIDE DEF k
  <2> QED BY <1>6, <2>1, <2>2, <2>3
<1>9. /\ more \in Seq(ReadValues) /\ more # <<>> /\ Len(more) = k + 1
      /\ \A i \in 1..k : more[i] = read[i]
      /\ more[k + 1] = s.dma.rr[k]
  BY <1>6, <1>7, <1>8, AppendProperties
<1>10. at = (IF k + 1 = 5 THEN 1 ELSE k + 1) /\ at \in 1..4
  <2>1. at = (IF k = 4 THEN 1 ELSE k + 1)
    BY <1>6, <1>7
  <2>2. k \in 1..4
    BY <1>7
  <2> HIDE DEF at, k
  <2> QED BY <2>1, <2>2
<1> HIDE DEF at, more
<1>11. DmaShape(r)
  BY <1>4 DEF DmaTypes, DmaShape, DmaFields
<1>12. DmaBools(r)
  BY <1>4 DEF DmaTypes, DmaShape, DmaFields, DmaBools
<1>13. SameBlock(s, r) /\ SameBus(s, r) /\ r.dma.rrAt = at /\ r.dma.rr = s.dma.rr /\ r.dma.follow = s.dma.follow
       /\ r.dma.regs = s.dma.regs
  BY <1>4 DEF DmaTypes, DmaShape, DmaFields, SameBlock, SameBus
<1> HIDE DEF r
<1>14. QuietChange(s, r)
  BY <1>4, <1>11, <1>12, <1>13, QuietFrom
<1>15. Under(r, p, program.goes)
  BY <1>1, <1>4, <1>13, <1>14, QuietStands DEF SameBus, Bus
<1>16. Buffered(r)
  BY <1>4, <1>10, <1>13 DEF Buffered
<1>17. ReadSoFar(r, more)
  <2>1. Len(more) \in 1..5 /\ r.dma.rrAt = (IF Len(more) = 5 THEN 1 ELSE Len(more))
    BY <1>7, <1>9, <1>10, <1>13
  <2>2. r.dma.rr = Counters(r)
    BY <1>6, <1>13 DEF Counters, SameBlock
  <2>3. ASSUME NEW i \in 2..(k + 1) PROVE more[i] = s.dma.rr[i - 1]
    <3>1. CASE i = k + 1
      <4>1. i - 1 = k
        BY <1>7, <3>1
      <4> QED BY <1>9, <3>1, <4>1
    <3>2. CASE i # k + 1
      <4>1. i \in 2..k /\ i \in 1..k
        BY <1>7, <3>2
      <4> QED BY <1>7, <1>9, <4>1
    <3> QED BY <3>1, <3>2
  <2>4. r.dma.status # "none" /\ ~r.dma.enabled /\ r.dma.follow = <<>>
    BY <1>1, <1>13 DEF SameBlock, SameBus
  <2>5. \A i \in 2..Len(more) : more[i] = r.dma.rr[i - 1]
    BY <1>9, <1>13, <2>3
  <2> QED BY <1>9, <2>1, <2>2, <2>4, <2>5 DEF ReadSoFar
<1>18. ~r.dma.enabled
  BY <1>1, <1>13 DEF SameBus
<1>19. QED
  BY <1>1, <1>3, <1>4, <1>5, <1>15, <1>16, <1>17, <1>18, PlainStands


LEMMA ContinueStands ==
  ASSUME DmaPremises, DmaInv, Continue PROVE DmaInv'
<1> DEFINE p == program.is
           s == State
           r == Onward(s)
           q == [program EXCEPT !.goes = program.goes + 1, !.read = <<>>]
<1>1. /\ Running /\ ~s.dma.enabled /\ s.dma.status # "none" /\ s.dma.follow = <<>>
      /\ program.goes < MaxGoes
  BY DEF Continue, Idle, State
<1>2. DmaInstruction(r, q)
  <2>1. [Command(State, "continue") EXCEPT !.log.go = IF dma.stop /\ dma.up = dma.blockLen THEN 1 ELSE 0] = r
    BY DEF State, Onward
  <2>2. [program EXCEPT !.goes = @ + 1, !.read = <<>>] = q
    OBVIOUS
  <2> QED BY <2>1, <2>2 DEF Continue
<1>3. /\ DOMAIN program = {"is", "at", "goes", "handler", "read"} /\ p \in Programs
      /\ program.goes \in 1..MaxGoes /\ program.handler \in BOOLEAN
      /\ DmaTypes(s) /\ Bus(s) /\ Buffered(s) /\ ReadSoFar(s, program.read) /\ Under(s, p, program.goes)
  BY <1>1, RunsUnder
<1>4. Fits(p) /\ DmaTransferAssumption
  BY <1>3, ProgramsFit
<1>5. program.goes + 1 \in 1..MaxGoes /\ program.goes + 1 <= MaxGoes
  <2>1. MaxGoes \in Nat
    BY <1>4 DEF DmaTransferAssumption
  <2> QED BY <1>1, <1>3, <2>1
<1>6. /\ DOMAIN q = DOMAIN program /\ q.is = p /\ q.goes = program.goes + 1
      /\ q.handler = program.handler /\ q.read = <<>> /\ q.at = program.at
  BY <1>3, NewPlace
<1> HIDE DEF q, s
<1>7. Under(r, p, program.goes + 1) /\ SameReading(s, r)
  BY <1>1, <1>3, <1>4, <1>5, OnwardGoes
<1> HIDE DEF r
<1>8. Buffered(r) /\ ReadSoFar(r, <<>>)
  <2>1. <<>> \in Seq(ReadValues)
    OBVIOUS
  <2> QED BY <1>1, <1>3, <1>7, <2>1 DEF SameReading, Buffered, ReadSoFar
<1>9. QED
  BY <1>1, <1>2, <1>3, <1>5, <1>6, <1>7, <1>8, PlainStands

LEMMA AcknowledgeStands ==
  ASSUME DmaPremises, DmaInv, DmaAcknowledge PROVE DmaInv'
<1> DEFINE p == program.is
           s == State
           r == [s EXCEPT !.dma.req = FALSE, !.dma.inService = TRUE, !.dma.enabled = FALSE]
           q == [program EXCEPT !.handler = TRUE]
<1>1. Running /\ DmaInstruction(r, q) /\ ~s.holds
  BY DEF DmaAcknowledge, DmaInstruction, State
<1>2. /\ DOMAIN program = {"is", "at", "goes", "handler", "read"}
      /\ program.goes \in 1..MaxGoes
      /\ DmaTypes(s) /\ Bus(s) /\ Buffered(s) /\ ReadSoFar(s, program.read) /\ Under(s, p, program.goes)
  BY <1>1, RunsUnder
<1>3. /\ DOMAIN q = DOMAIN program /\ q.is = p /\ q.goes = program.goes
      /\ q.handler = TRUE /\ q.read = program.read /\ q.at = program.at
  BY <1>2, NewPlace
<1> HIDE DEF q, s
<1>4. DmaShape(r)
  BY <1>2 DEF DmaTypes, DmaShape, DmaFields
<1>5. DmaBools(r)
  BY <1>2 DEF DmaTypes, DmaShape, DmaFields, DmaBools
<1>6. SameBlock(s, r) /\ SameReading(s, r) /\ r.holds = s.holds /\ r.dma.master = s.dma.master /\ r.dma.enabled = FALSE
  BY <1>2 DEF DmaTypes, DmaShape, DmaFields, SameBlock, SameReading
<1> HIDE DEF r
<1>7. QuietChange(s, r)
  BY <1>2, <1>4, <1>5, <1>6, QuietFrom
<1>8. Under(r, p, program.goes)
  BY <1>1, <1>2, <1>6, <1>7, QuietStands DEF Bus
<1>9. Buffered(r) /\ ReadSoFar(r, program.read)
  BY <1>2, <1>6, ReadingStays
<1>10. QED
  BY <1>1, <1>2, <1>3, <1>6, <1>8, <1>9, PlainStands

LEMMA RetiStands ==
  ASSUME DmaPremises, DmaInv, DmaReti PROVE DmaInv'
<1> DEFINE p == program.is
           s == State
           r == [s EXCEPT !.dma.inService = FALSE, !.dma.afterReti = FALSE]
           q == [program EXCEPT !.handler = FALSE]
           n == Len(Script(p))
           at == program.at
<1>1. DmaInstruction(r, q)
  BY DEF DmaReti
<1>2. /\ DOMAIN program = {"is", "at", "goes", "handler", "read"} /\ p \in Programs
      /\ program.goes \in 1..MaxGoes
      /\ DmaTypes(s) /\ Bus(s) /\ RamKept(s, p) /\ Buffered(s) /\ ReadSoFar(s, program.read)
      /\ at \in {1} \union ((Setup + 1)..(n + 1)) /\ at \in Int
      /\ n \in (Setup + 1)..(Setup + 4) /\ Setup = 15
      /\ ~Running => AtRest(s) /\ program.read = <<>>
      /\ at > 1 => Under(s, p, program.goes) /\ at \in (Setup + 1)..(n + 1)
  BY RunsUnder
<1>3. /\ DOMAIN q = {"is", "at", "goes", "handler", "read"} /\ q.is = p /\ q.goes = program.goes
      /\ q.handler = FALSE /\ q.read = program.read /\ q.at = at
  BY <1>2, NewPlace
<1>4. (Running <=> at > n) /\ (at <= n => ~Running) /\ (at > n => at > 1) /\ (~(at > 1) => at = 1 /\ ~Running)
  <2>1. Running <=> at > n
    BY DEF Running
  <2> HIDE DEF n, at
  <2> QED BY <1>2, <2>1
<1> HIDE DEF q, s
<1>5. DmaShape(r)
  BY <1>2 DEF DmaTypes, DmaShape, DmaFields
<1>6. DmaBools(r)
  BY <1>2 DEF DmaTypes, DmaShape, DmaFields, DmaBools
<1>7. SameBlock(s, r) /\ SameReading(s, r) /\ SameBus(s, r)
  BY <1>2 DEF DmaTypes, DmaShape, DmaFields, SameBlock, SameReading, SameBus
<1> HIDE DEF r
<1>8. QuietChange(s, r) /\ Bus(r) /\ RamKept(r, p)
  BY <1>2, <1>5, <1>6, <1>7, QuietFrom DEF Bus, SameBus, SameBlock, RamKept
<1>9. Buffered(r) /\ ReadSoFar(r, program.read) /\ (AtRest(s) => AtRest(r))
  BY <1>2, <1>7, ReadingStays DEF SameBus, ReadSoFar, AtRest
<1>10. CASE at > 1
  <2>1. Under(r, p, program.goes)
    BY <1>2, <1>7, <1>8, <1>10, QuietKeeps DEF SameBus, Under, StatusTrue
  <2>2. r.dma.enabled => program.read = <<>>
    BY <1>9 DEF ReadSoFar
  <2>3. q.at \in (Setup + 1)..(Len(Script(q.is)) + 1) /\ (q.at <= Len(Script(q.is)) => AtRest(r))
    BY <1>2, <1>3, <1>4, <1>9, <1>10
  <2>4. FALSE \in BOOLEAN
    OBVIOUS
  <2>5. Stands(DoDma(r), q)
    BY <1>2, <1>3, <1>9, <2>1, <2>2, <2>3, <2>4, GoesUnder
  <2> QED BY <1>1, <2>5, InstructionStands
<1>11. CASE ~(at > 1)
  <2>1. at = 1 /\ ~Running /\ AtRest(r)
    BY <1>2, <1>4, <1>9, <1>11
  <2>2. DoDma(r) = r
    BY <2>1 DEF DoDma, AtRest
  <2>3. ~(q.at > 1) /\ q.at \in {1} \union ((Setup + 1)..(Len(Script(q.is)) + 1))
    BY <1>3, <1>11, <2>1
  <2>4. Stands(r, q)
    BY <1>2, <1>3, <1>8, <1>9, <2>1, <2>3 DEF Stands, QuietChange
  <2> QED BY <1>1, <2>2, <2>4, InstructionStands
<1>12. QED
  BY <1>10, <1>11

LEMMA HeldStands ==
  ASSUME DmaPremises, DmaInv, Held PROVE DmaInv'
<1> DEFINE p == program.is
           s == State
<1>1. s.holds /\ program' = program /\ Becomes(DoDma(s))
  BY DEF Held, State
<1>2. DmaTypes(s) /\ Bus(s) /\ (~Running => AtRest(s))
  BY RunsUnder
<1>3. s.dma.enabled /\ Running
  BY <1>1, <1>2 DEF Bus, AtRest
<1>4. /\ DOMAIN program = {"is", "at", "goes", "handler", "read"} /\ p \in Programs
      /\ program.goes \in 1..MaxGoes /\ program.handler \in BOOLEAN
      /\ Buffered(s) /\ ReadSoFar(s, program.read) /\ Under(s, p, program.goes)
      /\ program.at \in (Setup + 1)..(Len(Script(p)) + 1) /\ ~(program.at <= Len(Script(p)))
  BY <1>3, RunsUnder
<1>5. program.read = <<>>
  BY <1>3, <1>4 DEF ReadSoFar
<1> HIDE DEF s
<1>6. Stands(DoDma(s), program)
  BY <1>4, <1>5, GoesUnder
<1>7. DOMAIN DoDma(s) = DOMAIN State
  BY <1>6, StateIsWhole DEF Stands, DmaTypes, DmaShape
<1>8. QED
  BY <1>1, <1>6, <1>7, BecomesStands


LEMMA ReadyStands ==
  ASSUME DmaPremises, DmaInv, DeviceReady PROVE DmaInv'
<1> DEFINE p == program.is
           s == State
           u == [s EXCEPT !.dev.line = TRUE]
           r == IF NowReady(s) THEN u ELSE ReadyIntr(u)
<1>1. dma' = r.dma /\ dev' = [dev EXCEPT !.line = TRUE] /\ UNCHANGED <<ram, holds, program, log>>
  BY DEF DeviceReady
<1>2. /\ DOMAIN program = {"is", "at", "goes", "handler", "read"} /\ p \in Programs
      /\ DmaTypes(s) /\ Bus(s) /\ RamKept(s, p) /\ Buffered(s) /\ ReadSoFar(s, program.read)
      /\ program.at > 1 => Under(s, p, program.goes)
  BY RunsUnder
<1>3. u.dma = dma /\ u.ram = ram /\ u.dev = [dev EXCEPT !.line = TRUE] /\ u.holds = holds /\ u.log = log
  BY DEF State
<1> DEFINE h == [u EXCEPT !.dma.req = TRUE, !.dma.vector = {"rdy"}]
<1>4. r \in {u, h}
  BY DEF ReadyIntr, RequestIntr
<1>5. h.ram = u.ram /\ h.dev = u.dev /\ h.holds = u.holds /\ h.log = u.log
  BY DEF State
<1>6. Becomes(r)
  <2> HIDE DEF u, h, r
  <2> QED BY <1>1, <1>3, <1>4, <1>5 DEF Becomes
<1> HIDE DEF h, s
<1>7. Silent(s, r)
  <2>1. DmaShape(u)
    BY <1>2 DEF DmaTypes, DmaShape, DmaFields
  <2>2. DmaBools(u)
    BY <1>2 DEF DmaTypes, DmaShape, DmaFields, DmaBools
  <2>3. SameBlock(s, u) /\ SameReading(s, u) /\ SameBus(s, u)
    BY <1>2 DEF DmaTypes, DmaShape, DmaFields, SameBlock, SameReading, SameBus
  <2> HIDE DEF u
  <2>4. Silent(s, u)
    BY <1>2, <2>1, <2>2, <2>3, QuietFrom DEF Silent
  <2>5. Silent(u, ReadyIntr(u))
    BY <2>4, IntrIsSilent DEF Silent, QuietChange
  <2>6. Silent(s, ReadyIntr(u))
    BY <2>4, <2>5, SilentRuns
  <2> QED BY <2>4, <2>6
<1> HIDE DEF r
<1>8. DmaTypes(r) /\ Bus(r) /\ RamKept(r, p) /\ SameBlock(s, r) /\ SameReading(s, r) /\ SameBus(s, r)
  BY <1>2, <1>7 DEF Silent, QuietChange, SameBus, SameBlock, Bus, RamKept
<1>9. Buffered(r) /\ ReadSoFar(r, program.read) /\ (AtRest(s) => AtRest(r))
  BY <1>2, <1>8, ReadingStays DEF SameBus, ReadSoFar, AtRest
<1>10. program.at > 1 => Under(r, p, program.goes)
  BY <1>2, <1>7, <1>8, QuietKeeps DEF Silent, SameBus, Under, StatusTrue
<1>11. Stands(s, program)
  BY InvStands DEF s
<1>12. Stands(r, program)
  BY <1>8, <1>9, <1>10, <1>11 DEF Stands
<1>13. DOMAIN r = DOMAIN State
  BY <1>8, StateIsWhole DEF DmaTypes, DmaShape
<1>14. program' = program
  BY <1>1
<1>15. QED
  BY <1>6, <1>12, <1>13, <1>14, BecomesStands

\* The controller when the machine comes up, or is reset.
AnewState(s, regs, afterReti, a, b) ==
  /\ DOMAIN s = {"dma", "ram", "dev", "holds", "log"}
  /\ s.dma = [NewDma EXCEPT !.regs = regs, !.afterReti = afterReti, !.addrA = a, !.addrB = b]
  /\ DOMAIN regs = Registers /\ afterReti \in BOOLEAN /\ a \in 0..(Cells - 1) /\ b \in 0..(Cells - 1)
  /\ s.ram \in [0..(Cells - 1) -> Int] /\ DOMAIN s.dev = {"line", "next", "got"} /\ s.dev.line = FALSE
  /\ s.dev.next \in Int /\ s.dev.got \in Seq(Int) /\ s.holds = FALSE /\ s.log = [bytes |-> <<>>, go |-> 0]
AnewProgram(q) ==
  /\ DOMAIN q = {"is", "at", "goes", "handler", "read"} /\ q.is \in Programs /\ q.goes \in 1..MaxGoes
  /\ q.handler = FALSE /\ q.read = <<>> /\ q.at = 1

LEMMA AnewStands ==
  ASSUME DmaTransferAssumption, NEW s, NEW regs, NEW afterReti, NEW a, NEW b, AnewState(s, regs, afterReti, a, b),
         NEW q, AnewProgram(q), RamKept(s, q.is)
  PROVE  Stands(s, q)
<1>0. /\ DOMAIN s = {"dma", "ram", "dev", "holds", "log"}
      /\ s.dma = [NewDma EXCEPT !.regs = regs, !.afterReti = afterReti, !.addrA = a, !.addrB = b]
      /\ DOMAIN regs = Registers /\ afterReti \in BOOLEAN /\ a \in 0..(Cells - 1) /\ b \in 0..(Cells - 1)
      /\ s.ram \in [0..(Cells - 1) -> Int] /\ DOMAIN s.dev = {"line", "next", "got"} /\ s.dev.line = FALSE
      /\ s.dev.next \in Int /\ s.dev.got \in Seq(Int) /\ s.holds = FALSE /\ s.log = [bytes |-> <<>>, go |-> 0]
  BY DEF AnewState
<1> DEFINE d == s.dma
<1>1. DOMAIN d = DmaFields
  BY <1>0 DEF NewDma, DmaFields
<1>2. /\ d.regs = regs /\ d.follow = <<>> /\ d.rr = <<>> /\ d.rrAt = 1 /\ d.status = "none" /\ d.enabled = FALSE
      /\ d.force = FALSE /\ d.afterReti = afterReti /\ d.intEnable = FALSE
  BY <1>0 DEF NewDma
<1>3. /\ d.addrA = a /\ d.addrB = b /\ d.up = 0 /\ d.blockLen = 0 /\ d.stop = FALSE /\ d.master = FALSE
      /\ d.req = FALSE /\ d.inService = FALSE
  BY <1>0 DEF NewDma
<1> HIDE DEF d
<1>4. DOMAIN s.log = {"bytes", "go"} /\ s.log.bytes = <<>> /\ s.log.go = 0 /\ <<>> \in Seq(Int)
  BY <1>0
<1>5. DmaShape(s)
  BY <1>0, <1>1, <1>2, <1>4 DEF DmaShape, d
<1>6. DmaBools(s)
  BY <1>0, <1>2, <1>3 DEF DmaBools, d
<1>7. d.blockLen \in 0..(All + 1)
  <2>1. All \in Nat
    BY DEF DmaTransferAssumption
  <2> QED BY <1>3, <2>1
<1>8. d.addrA \in 0..(Cells - 1) /\ d.addrB \in 0..(Cells - 1) /\ d.up \in Int /\ s.log.go \in Nat
      /\ d.status \in {"none", "eob", "match", "both"} /\ s.log.bytes \in Seq(Int)
  BY <1>0, <1>2, <1>3, <1>4
<1>9. DmaTypes(s)
  BY <1>0, <1>5, <1>6, <1>7, <1>8 DEF DmaTypes, d
<1>10. Bus(s) /\ AtRest(s) /\ Buffered(s)
  <2>1. s.holds = d.master
    BY <1>0, <1>3
  <2>2. Bus(s)
    BY <1>0, <1>3, <2>1 DEF Bus, d
  <2>3. AtRest(s)
    BY <1>2, <1>3, <1>4 DEF AtRest, d
  <2>4. Buffered(s)
    BY <1>2 DEF Buffered, d
  <2> QED BY <2>2, <2>3, <2>4
<1>11. ReadSoFar(s, q.read)
  <2>1. <<>> \in Seq(ReadValues)
    OBVIOUS
  <2> QED BY <1>2, <2>1 DEF AnewProgram, ReadSoFar, d
<1>12. ~(q.at > 1)
  BY DEF AnewProgram
<1>13. QED
  BY <1>9, <1>10, <1>11, <1>12 DEF AnewProgram, Stands

LEMMA ResetStands ==
  ASSUME DmaPremises, DmaInv, MachineReset PROVE DmaInv'
<1> DEFINE s == State
<1>1. /\ dma' = [NewDma EXCEPT !.regs = dma.regs, !.afterReti = dma.afterReti,
                               !.addrA = dma.addrA, !.addrB = dma.addrB]
      /\ program' = [program EXCEPT !.at = 1, !.handler = FALSE, !.read = <<>>]
      /\ log' = [bytes |-> <<>>, go |-> 0] /\ dev' = [dev EXCEPT !.line = FALSE]
      /\ ram' = ram /\ holds' = holds /\ ~holds
  BY DEF MachineReset, DmaPremises
<1>2. /\ DOMAIN program = {"is", "at", "goes", "handler", "read"} /\ program.is \in Programs
      /\ program.goes \in 1..MaxGoes /\ DmaTypes(s) /\ RamKept(s, program.is) /\ Bus(s)
  BY RunsUnder
<1>3. /\ s.dma = dma /\ s.ram = ram /\ s.dev = dev /\ s.holds = holds /\ s.log = log
      /\ s'.dma = dma' /\ s'.ram = ram' /\ s'.dev = dev' /\ s'.holds = holds' /\ s'.log = log'
      /\ DOMAIN s' = {"dma", "ram", "dev", "holds", "log"}
  BY DEF State
<1>4. /\ DOMAIN dma.regs = Registers /\ dma.afterReti \in BOOLEAN /\ dma.addrA \in 0..(Cells - 1)
      /\ dma.addrB \in 0..(Cells - 1) /\ ram \in [0..(Cells - 1) -> Int]
      /\ DOMAIN dev = {"line", "next", "got"} /\ dev.next \in Int /\ dev.got \in Seq(Int) /\ holds \in BOOLEAN
  BY <1>2, <1>3 DEF DmaTypes, DmaShape, DmaBools, Bus
<1>5. /\ DOMAIN program' = {"is", "at", "goes", "handler", "read"} /\ program'.is = program.is
      /\ program'.goes = program.goes /\ program'.handler = FALSE /\ program'.read = <<>> /\ program'.at = 1
  BY <1>1, <1>2
<1>6. /\ DOMAIN dev' = {"line", "next", "got"} /\ dev'.next = dev.next /\ dev'.got = dev.got
      /\ dev'.line = FALSE
  BY <1>1, <1>4
<1> HIDE DEF s
<1>7. RamKept(s', program'.is)
  BY <1>1, <1>2, <1>3, <1>5 DEF RamKept
<1>8. holds' = FALSE
  BY <1>1, <1>4
<1>9. DmaTransferAssumption
  BY DEF DmaPremises
<1> DEFINE z == s'
           q == program'
<1>10. /\ DOMAIN z = {"dma", "ram", "dev", "holds", "log"}
       /\ z.dma = [NewDma EXCEPT !.regs = dma.regs, !.afterReti = dma.afterReti, !.addrA = dma.addrA,
                                 !.addrB = dma.addrB]
       /\ z.ram \in [0..(Cells - 1) -> Int] /\ DOMAIN z.dev = {"line", "next", "got"} /\ z.dev.line = FALSE
       /\ z.dev.next \in Int /\ z.dev.got \in Seq(Int) /\ z.holds = FALSE /\ z.log = [bytes |-> <<>>, go |-> 0]
  BY <1>1, <1>3, <1>4, <1>6, <1>8
<1>11. /\ DOMAIN q = {"is", "at", "goes", "handler", "read"} /\ q.is \in Programs
       /\ q.goes \in 1..MaxGoes /\ q.handler = FALSE /\ q.read = <<>> /\ q.at = 1 /\ RamKept(z, q.is)
  BY <1>2, <1>5, <1>7
<1> HIDE DEF z, q
<1>12. AnewState(z, dma.regs, dma.afterReti, dma.addrA, dma.addrB) /\ AnewProgram(q)
  BY <1>4, <1>10, <1>11 DEF AnewState, AnewProgram
<1>13. Stands(z, q)
  BY <1>9, <1>11, <1>12, AnewStands
<1>14. QED
  BY <1>13 DEF DmaInv, Stands, Running, s, z, q


LEMMA InitStands ==
  ASSUME DmaPremises, DmaInit PROVE DmaInv
<1> DEFINE s == State
           regs == NewDma.regs
<1>1. /\ dma = NewDma /\ ram = [c \in 0..(Cells - 1) |-> First + c] /\ holds = FALSE
      /\ dev = [line |-> FALSE, next |-> 0, got |-> <<>>] /\ log = [bytes |-> <<>>, go |-> 0]
  BY DEF DmaInit
<1>2. PICK p \in Programs : program = [is |-> p, at |-> 1, goes |-> 1, handler |-> FALSE, read |-> <<>>]
  BY DEF DmaInit
<1>3. DmaTransferAssumption /\ Cells \in Nat \ {0} /\ MaxGoes \in Nat \ {0}
  BY DEF DmaPremises, DmaTransferAssumption
<1>4. /\ s.dma = dma /\ s.ram = ram /\ s.dev = dev /\ s.holds = holds /\ s.log = log
      /\ DOMAIN s = {"dma", "ram", "dev", "holds", "log"}
  BY DEF State
<1>5. NewDma = [NewDma EXCEPT !.regs = regs, !.afterReti = FALSE, !.addrA = 0, !.addrB = 0]
  <2>1. NewDma = [x \in DOMAIN NewDma |-> NewDma[x]]
    BY DEF NewDma
  <2>2. NewDma.afterReti = FALSE /\ NewDma.addrA = 0 /\ NewDma.addrB = 0
    BY DEF NewDma
  <2> QED BY <2>1, <2>2
<1>6. DOMAIN regs = Registers
  BY DEF NewDma
<1>7. /\ DOMAIN dev = {"line", "next", "got"} /\ dev.line = FALSE /\ dev.next = 0 /\ dev.got = <<>>
      /\ <<>> \in Seq(Int)
  BY <1>1
<1> HIDE DEF s, regs
<1>8. ram \in [0..(Cells - 1) -> Int] /\ \A c \in 0..(Cells - 1) : ram[c] = First + c
  BY <1>1, <1>3 DEF First
<1>9. 0 \in 0..(Cells - 1) /\ FALSE \in BOOLEAN /\ 0 \in Int /\ 1 \in 1..MaxGoes
  BY <1>3
<1>10. AnewState(s, regs, FALSE, 0, 0)
  BY <1>1, <1>4, <1>5, <1>6, <1>7, <1>8, <1>9 DEF AnewState
<1>11. AnewProgram(program)
  BY <1>2, <1>9 DEF AnewProgram
<1>12. RamKept(s, program.is)
  BY <1>4, <1>8 DEF RamKept
<1>13. Stands(s, program)
  BY <1>3, <1>10, <1>11, <1>12, AnewStands
<1>14. QED
  BY <1>13, InvStands DEF s

LEMMA NothingHappens ==
  ASSUME DmaInv, UNCHANGED dmaVars PROVE DmaInv'
BY DEF DmaInv, dmaVars, State, Running

LEMMA StepStands ==
  ASSUME DmaPremises, DmaInv, [DmaNext]_dmaVars PROVE DmaInv'
<1>1. CASE UNCHANGED dmaVars
  BY <1>1, NothingHappens
<1>2. CASE WriteSetup \/ WriteScript
  BY <1>2, SetupStands, ScriptStands
<1>3. CASE OtherInstruction \/ EnableAgain
  BY <1>3, OthersStand
<1>4. CASE ChooseRead \/ WriteMask \/ AskAgain
  BY <1>4, ReadsStand
<1>5. CASE ReadIo8
  BY <1>5, ReadIoStands
<1>6. CASE Continue
  BY <1>6, ContinueStands
<1>7. CASE DmaAcknowledge \/ DmaReti
  BY <1>7, AcknowledgeStands, RetiStands
<1>8. CASE Held
  BY <1>8, HeldStands
<1>9. CASE DeviceReady
  BY <1>9, ReadyStands
<1>10. CASE MachineReset
  BY <1>10, ResetStands
<1>11. QED
  BY <1>1, <1>2, <1>3, <1>4, <1>5, <1>6, <1>7, <1>8, <1>9, <1>10 DEF DmaNext

\* What the invariant says of the properties.
LEMMA StandsTyped ==
  ASSUME DmaPremises, DmaInv PROVE DmaTypeOK /\ HeldByTheDma
<1> DEFINE s == State
           p == program.is
<1>1. s.dma = dma /\ s.dev = dev /\ s.holds = holds /\ s.log = log
  BY DEF State
<1>2. DmaTypes(s) /\ Bus(s) /\ Buffered(s) /\ p \in Programs /\ program.handler \in BOOLEAN
      /\ (~Running => AtRest(s)) /\ (Running => program.at > 1) /\ (program.at > 1 => Under(s, p, program.goes))
  BY RunsUnder
<1>3. All \in Nat /\ LenOf(p) \in 1..(All + 1)
  <2>1. Fits(p) /\ DmaTransferAssumption
    BY <1>2, ProgramsFit
  <2> QED BY <2>1 DEF DmaTransferAssumption, Fits, LenOf
<1>4. dma.up \in -1..(All + 1)
  <2>1. dma.up \in Int /\ log.go \in Nat
    BY <1>1, <1>2 DEF DmaTypes
  <2>2. CASE ~Running
    BY <1>1, <1>2, <1>3, <2>2 DEF AtRest
  <2>3. CASE Running
    <3>1. Accounted(s, p)
      BY <1>2, <2>3 DEF Under
    <3>2. \/ dma.up + 1 = log.go /\ dma.up < LenOf(p)
          \/ dma.up = LenOf(p)
          \/ dma.up = log.go /\ dma.up <= LenOf(p)
      BY <1>1, <3>1 DEF Accounted
    <3> QED BY <1>3, <2>1, <3>2
  <2> QED BY <2>2, <2>3
<1>5. dma.follow \in Seq(Registers) /\ dma.rrAt \in 1..4
  <2>1. "readMask" \in Registers
    BY DEF Registers
  <2>2. <<>> \in Seq(Registers) /\ <<"readMask">> \in Seq(Registers)
    BY <2>1
  <2> QED BY <1>1, <1>2, <2>2 DEF Buffered
<1>6. holds = dma.master /\ (dma.master => dma.enabled)
  BY <1>1, <1>2 DEF Bus
<1> HIDE DEF s
<1>7. DmaTypeOK
  BY <1>1, <1>2, <1>4, <1>5, <1>6 DEF DmaTypes, DmaShape, DmaBools, DmaTypeOK
<1>8. QED
  BY <1>6, <1>7 DEF HeldByTheDma

LEMMA StandsCounted ==
  ASSUME DmaPremises, DmaInv PROVE CountIsTrue
<1> DEFINE s == State
           p == program.is
           stopped == IF dma.stop /\ dma.status = "match" THEN 1 ELSE 0
           last == IF dma.stop THEN Count ELSE Count + 1
           read == program.read
           portA == IF p.how.from = "a" \/ p.how.mode # "search"
                    THEN CellOf([port |-> p.portA, at |-> p.a], last) ELSE p.a
           portB == IF p.how.from = "b" \/ p.how.mode # "search"
                    THEN CellOf([port |-> p.portB, at |-> p.b], last) ELSE p.b
<1>1. s.dma = dma /\ s.log = log
  BY DEF State
<1>2. DmaTypes(s) /\ ReadSoFar(s, read) /\ (~Running => AtRest(s)) /\ (Running => program.at > 1)
      /\ (program.at > 1 => Under(s, p, program.goes))
  BY RunsUnder
<1> HIDE DEF s
<1>3. dma.up \in Int /\ log.go \in Nat /\ dma.stop \in BOOLEAN /\ dma.status \in {"none", "eob", "match", "both"}
  BY <1>1, <1>2 DEF DmaTypes, DmaBools
<1>4. ASSUME Running, dma.status = "eob" PROVE log.go = LenOf(p)
  <2>1. Accounted(s, p) /\ StatusTrue(s, p)
    BY <1>2, <1>4 DEF Under
  <2>2. dma.up = LenOf(p)
    BY <1>1, <1>4, <2>1 DEF StatusTrue
  <2> QED BY <1>1, <1>3, <2>1, <2>2 DEF Accounted
<1>5. ASSUME Len(read) = 5
      PROVE  SubSeq(read, 2, 5) = <<dma.status, log.go - stopped, portA, portB>>
  <2>1. /\ read \in Seq(ReadValues) /\ read # <<>> /\ s.dma.rr = Counters(s)
        /\ \A i \in 2..Len(read) : read[i] = s.dma.rr[i - 1]
        /\ s.dma.status # "none"
    BY <1>2, <1>5 DEF ReadSoFar
  <2>2. Accounted(s, p) /\ StatusTrue(s, p)
        /\ PortsAt(s, p, IF s.dma.stop THEN Len(s.log.bytes) ELSE Len(s.log.bytes) + 1)
    BY <1>2, <2>1 DEF AtRest, Under
  <2>3. dma.up = log.go - stopped
    <3>1. dma.stop => \/ dma.up + 1 = log.go /\ dma.up < LenOf(p)
                      \/ dma.up = LenOf(p) /\ log.go = LenOf(p)
      BY <1>1, <2>2 DEF Accounted
    <3>2. ~dma.stop => dma.up = log.go
      BY <1>1, <2>2 DEF Accounted
    <3>3. dma.status \in {"eob", "both"} => dma.up = LenOf(p)
      BY <1>1, <2>2 DEF StatusTrue
    <3>4. dma.status = "match" => dma.stop /\ dma.up < LenOf(p)
      BY <1>1, <2>2 DEF StatusTrue
    <3>5. dma.status \in {"eob", "both"} \/ dma.status = "match"
      BY <1>1, <1>3, <2>1
    <3>6. CASE dma.status = "match"
      BY <1>3, <3>1, <3>4, <3>6
    <3>7. CASE dma.status \in {"eob", "both"}
      BY <1>3, <3>1, <3>2, <3>3, <3>7
    <3> QED BY <3>5, <3>6, <3>7
  <2>4. dma.addrA = portA /\ dma.addrB = portB
    BY <1>1, <2>2 DEF PortsAt, AMoves, BMoves, EndA, EndB, Count
  <2> DEFINE seq == SubSeq(read, 2, 5)
             t == <<dma.status, log.go - stopped, portA, portB>>
             c == Counters(s)
  <2>5. c = t
    BY <1>1, <2>3, <2>4 DEF Counters
  <2>6. read[2] = c[1] /\ read[3] = c[2] /\ read[4] = c[3] /\ read[5] = c[4]
    <3>1. \A i \in 2..5 : read[i] = c[i - 1]
      BY <1>5, <2>1
    <3> HIDE DEF c
    <3>2. read[2] = c[2 - 1] /\ read[3] = c[3 - 1] /\ read[4] = c[4 - 1] /\ read[5] = c[5 - 1]
      BY <3>1
    <3> QED BY <3>2
  <2>7. seq = <<read[2], read[3], read[4], read[5]>>
    <3> DEFINE u == <<read[2], read[3], read[4], read[5]>>
    <3>1. \A i \in 1..5 : read[i] \in ReadValues
      BY <1>5, <2>1, ElementOfSeq
    <3>2. read[2] \in ReadValues /\ read[3] \in ReadValues /\ read[4] \in ReadValues /\ read[5] \in ReadValues
      BY <3>1
    <3>3. u \in Seq(ReadValues) /\ Len(u) = 4 /\ u[1] = read[2] /\ u[2] = read[3] /\ u[3] = read[4] /\ u[4] = read[5]
      BY <3>2
    <3>4. seq \in Seq(ReadValues) /\ Len(seq) = 4 /\ \A i \in 1..4 : seq[i] = read[i + 1]
      <4>1. /\ SubSeq(read, 2, 5) \in Seq(ReadValues)
            /\ Len(SubSeq(read, 2, 5)) = IF 2 <= 5 THEN 5 - 2 + 1 ELSE 0
            /\ \A i \in 1..(5 - 2 + 1) : SubSeq(read, 2, 5)[i] = read[2 + i - 1]
        BY <1>5, <2>1, SubSeqProperties
      <4>2. \A i \in 1..4 : 2 + i - 1 = i + 1 /\ i \in 1..(5 - 2 + 1)
        OBVIOUS
      <4> QED BY <4>1, <4>2
    <3> HIDE DEF u, seq
    <3>5. ASSUME NEW i \in 1..4 PROVE seq[i] = u[i]
      <4>1. i = 1 \/ i = 2 \/ i = 3 \/ i = 4
        OBVIOUS
      <4>2. seq[1] = read[2] /\ seq[2] = read[3] /\ seq[3] = read[4] /\ seq[4] = read[5]
        BY <3>4
      <4> QED BY <3>3, <4>1, <4>2
    <3>6. seq = u
      BY <3>3, <3>4, <3>5, SeqEqual
    <3> QED BY <3>6 DEF u
  <2>8. <<c[1], c[2], c[3], c[4]>> = c
    BY DEF Counters
  <2> HIDE DEF c, seq, t
  <2>9. seq = t
    BY <2>5, <2>6, <2>7, <2>8
  <2> QED BY <2>9 DEF seq, t
<1>6. QED
  BY <1>4, <1>5 DEF CountIsTrue, LenOf

LEMMA StandsLanded ==
  ASSUME DmaPremises, DmaInv PROVE BytesLand
<1> DEFINE s == State
           p == program.is
           n == Count
<1>1. SUFFICES ASSUME program.at > Setup
               PROVE  /\ \A i \in 1..n :
                           log.bytes[i] = IF Source(p).port.kind = "mem" THEN First + CellOf(Source(p), i)
                                          ELSE log.bytes[1] + i - 1
                      /\ p.how.mode # "search" =>
                           \A i \in 1..n :
                             IF Target(p).port.kind = "mem" THEN ram[CellOf(Target(p), i)] = log.bytes[i]
                             ELSE dev.got[Len(dev.got) - n + i] = log.bytes[i]
  BY DEF BytesLand
<1>2. s.dma = dma /\ s.log = log /\ s.ram = ram /\ s.dev = dev
  BY DEF State
<1>3. DmaTypes(s) /\ Moves(s, p)
  <2>1. program.at > 1
    <3>1. Setup = 15 /\ program.at \in Int
      BY RunsUnder
    <3> QED BY <1>1, <3>1
  <2> QED BY <2>1, RunsUnder DEF Under
<1> HIDE DEF s
<1>4. log.bytes \in Seq(Int) /\ dev.next \in Int /\ n = Len(log.bytes)
  BY <1>2, <1>3 DEF DmaTypes, Count
<1>5. n \in Nat
  BY <1>4
<1>6. /\ \A i \in 1..n : log.bytes[i] = IF Source(p).port.kind = "mem" THEN First + CellOf(Source(p), i)
                                         ELSE dev.next - n + i - 1
      /\ ToRam(p) => \A i \in 1..n : ram[CellOf(Target(p), i)] = log.bytes[i]
      /\ p.how.mode # "search" /\ ~ToRam(p) => \A i \in 1..n : dev.got[Len(dev.got) - n + i] = log.bytes[i]
  BY <1>2, <1>3, <1>4 DEF Moves
<1> HIDE DEF n
<1>7. ASSUME NEW i \in 1..n
      PROVE  log.bytes[i] = IF Source(p).port.kind = "mem" THEN First + CellOf(Source(p), i)
                            ELSE log.bytes[1] + i - 1
  <2>1. CASE Source(p).port.kind = "mem"
    BY <1>6, <2>1
  <2>2. CASE Source(p).port.kind # "mem"
    <3>1. 1 \in 1..n
      BY <1>5
    <3>2. log.bytes[i] = dev.next - n + i - 1
      BY <1>6, <2>2
    <3>3. log.bytes[1] = dev.next - n + 1 - 1
      BY <1>6, <2>2, <3>1
    <3>4. dev.next - n + i - 1 = (dev.next - n + 1 - 1) + i - 1
      <4>1. dev.next \in Int /\ i \in Int /\ n \in Int
        BY <1>4, <1>5
      <4> QED BY <4>1
    <3> QED BY <2>2, <3>2, <3>3, <3>4
  <2> QED BY <2>1, <2>2
<1>8. QED
  BY <1>6, <1>7 DEF ToRam

\* A transfer is what its program asked for, whatever moves it and whoever holds it up: the bytes are the
\* source's, in order, where they belong; the counters that the program reads back are true; and the CPU
\* is held by a controller that goes on, never by one that is through.
THEOREM TransfersAreTrue ==
  ASSUME DmaTransferAssumption, ~Resets, \A p \in Programs : Apart(p) /\ EndsInTime(p)
  PROVE  DmaSpec => [](DmaTypeOK /\ HeldByTheDma /\ CountIsTrue /\ BytesLand)
<1>1. DmaPremises
  BY DEF DmaPremises
<1>2. DmaInit => DmaInv
  BY <1>1, InitStands
<1>3. DmaInv /\ [DmaNext]_dmaVars => DmaInv'
  BY <1>1, StepStands
<1>4. DmaInv => DmaTypeOK /\ HeldByTheDma /\ CountIsTrue /\ BytesLand
  BY <1>1, StandsTyped, StandsCounted, StandsLanded
<1>5. QED
  BY <1>2, <1>3, <1>4, PTL DEF DmaSpec

=============================================================================

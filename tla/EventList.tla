------------------------------- MODULE EventList ------------------------------
(***************************************************************************)
(* The event manager's slots (vm/event.cpp): a doubly linked list of       *)
(* pending events sorted by their clock, a stack of free slots, and the    *)
(* devices that hold the slot numbers they were given (register_id).       *)
(*                                                                         *)
(* A timer is one event of one device: a register_id variable (MB8877 has  *)
(* one per event, PSUB one for the key repeat, ...), or no variable for an *)
(* event registered with NULL.  Devices act while a CPU runs (target is    *)
(* NoSlot) and inside event_callback, which update_event calls between two *)
(* turns of its loop.                                                      *)
(***************************************************************************)
EXTENDS Integers, Sequences, FiniteSets

CONSTANTS
  MaxEvent,   \* slots (64 in the code)
  Fraction,   \* parts of a clock that loops are kept in (1024 in the code)
  Timers,     \* the devices' timers
  Loops,      \* those registered as loops; the others are one-shots
  NoId,       \* one-shots registered with register_id = NULL
  Delays,     \* one-shot delays, in clocks
  Periods,    \* loop periods, in 1/Fraction of a clock
  Steps,      \* clocks update_event may be asked to advance by
  MaxClock,   \* bound of the clock in a run
  Nobody      \* no timer

EventListAssumption ==
  /\ MaxEvent \in Nat \ {0} /\ Fraction \in Nat \ {0} /\ MaxClock \in Nat
  /\ Loops \subseteq Timers /\ NoId \subseteq Timers \ Loops /\ Nobody \notin Timers
  /\ Delays \subseteq Nat /\ Steps \subseteq Nat
  /\ \A p \in Periods : p \in Nat /\ p >= Fraction

NoSlot    == -1
SlotIds == 0..(MaxEvent - 1)
Links   == SlotIds \union {NoSlot}

VARIABLES
  active, timer, expired, loop, slotAccum,  \* the slots: event_t
  next, prev,
  firstFree, firstFire,
  now,                                  \* event_clocks
  target,                               \* event_clocks_tmp, NoSlot outside
  calling,                              \* the timer in event_callback
  ids                                   \* the devices' register_id variables

slotVars == <<active, timer, expired, loop, slotAccum>>
linkVars == <<next, prev, firstFree, firstFire>>
listVars == <<slotVars, linkVars, now, target, calling, ids>>

ListTypeOK ==
  /\ active \in [SlotIds -> BOOLEAN]
  /\ timer \in [SlotIds -> Timers \union {Nobody}]
  /\ expired \in [SlotIds -> Nat] /\ loop \in [SlotIds -> Nat]
  /\ slotAccum \in [SlotIds -> 0..(Fraction - 1)]
  /\ next \in [SlotIds -> Links] /\ prev \in [SlotIds -> Links]
  /\ firstFree \in Links /\ firstFire \in Links
  /\ now \in 0..MaxClock /\ target \in {NoSlot} \union 0..MaxClock
  /\ calling \in Timers \union {Nobody}
  /\ ids \in [Timers -> Links]

\* The constructor.
ListInit ==
  /\ active = [s \in SlotIds |-> FALSE] /\ timer = [s \in SlotIds |-> Nobody]
  /\ expired = [s \in SlotIds |-> 0] /\ loop = [s \in SlotIds |-> 0]
  /\ slotAccum = [s \in SlotIds |-> 0]
  /\ next = [s \in SlotIds |-> IF s + 1 < MaxEvent THEN s + 1 ELSE NoSlot]
  /\ prev = [s \in SlotIds |-> NoSlot]
  /\ firstFree = 0 /\ firstFire = NoSlot
  /\ now = 0 /\ target = NoSlot /\ calling = Nobody
  /\ ids = [t \in Timers |-> NoSlot]

-----------------------------------------------------------------------------
(* The links, as functions of the whole state of the slots.                *)

\* The n-th slot from first along the next links, NoSlot beyond the end.
Walk(first, nx) ==
  LET at[n \in Nat] == IF n = 0 THEN first
                       ELSE IF at[n - 1] = NoSlot THEN NoSlot ELSE nx[at[n - 1]]
  IN at

\* A state of the links, so that operations can be composed in a step.
Lists == [next |-> next, prev |-> prev, free |-> firstFree, fire |-> firstFire]

\* Mutant: an event goes in front of those that fire in the same clock.
FiresWithOrAfter(exp, x, s) == exp[x] >= exp[s]

\* insert_event's comparison.
FiresAfter(exp, x, s) == exp[x] > exp[s]

\* insert_event: before the first slot that expires later, or at the tail.
Insert(l, exp, s) ==
  LET at  == Walk(l.fire, l.next)
      n   == CHOOSE i \in 0..MaxEvent :
               /\ at[i] = NoSlot \/ FiresAfter(exp, at[i], s)
               /\ \A j \in 0..(i - 1) : at[j] # NoSlot /\ ~FiresAfter(exp, at[j], s)
      was == at[n]
      bef == IF n = 0 THEN NoSlot ELSE at[n - 1]
  IN [l EXCEPT !.fire = IF bef = NoSlot THEN s ELSE @,
               !.next = [x \in SlotIds |-> IF x = s THEN was
                           ELSE IF x = bef THEN s ELSE @[x]],
               !.prev = [x \in SlotIds |-> IF x = s THEN bef
                           ELSE IF x = was THEN s ELSE @[x]]]

\* The free slots are a stack.
Free(l, s) == [l EXCEPT !.next = [@ EXCEPT ![s] = l.free], !.free = s]

\* A slot leaves the list: its neighbours are joined.
Detached(l, s) ==
  [l EXCEPT !.fire = IF l.prev[s] = NoSlot THEN l.next[s] ELSE @,
            !.next = [x \in SlotIds |-> IF x = l.prev[s] THEN l.next[s] ELSE @[x]],
            !.prev = [x \in SlotIds |-> IF x = l.next[s] THEN l.prev[s] ELSE @[x]]]

\* Mutant: the next slot is not told that it has a new predecessor.
UnlinkOneWay(l, s) == Free([Detached(l, s) EXCEPT !.prev = l.prev], s)

\* cancel_event, once the slot is known to be active.
Unlink(l, s) == Free(Detached(l, s), s)

SetLists(l) == next' = l.next /\ prev' = l.prev /\ firstFree' = l.free /\ firstFire' = l.fire

-----------------------------------------------------------------------------
(* The devices' calls.                                                     *)

\* A callback, or a CPU between two updates, is running device code.
DeviceRuns == target = NoSlot \/ calling # Nobody

\* The slot that setting the timer has to give back first.
Cancelled(t) == IF ids[t] # NoSlot /\ active[ids[t]] THEN ids[t] ELSE NoSlot

\* register_event(_by_clock), after the timer's slot s0 has been cancelled.
Register(t, l, act, delay, period) ==
  IF l.free = NoSlot
  THEN /\ SetLists(l) /\ active' = act
       /\ ids' = [ids EXCEPT ![t] = NoSlot]
       /\ UNCHANGED <<timer, expired, loop, slotAccum>>
  ELSE LET s   == l.free
           exp == [expired EXCEPT ![s] = now + (IF period = 0 THEN delay
                                                  ELSE period \div Fraction)]
       IN /\ active' = [act EXCEPT ![s] = TRUE]
          /\ timer' = [timer EXCEPT ![s] = t]
          /\ expired' = exp
          /\ loop' = [loop EXCEPT ![s] = period]
          /\ slotAccum' = [slotAccum EXCEPT ![s] = period % Fraction]
          /\ ids' = [ids EXCEPT ![t] = IF t \in NoId THEN NoSlot ELSE s]
          /\ SetLists(Insert([l EXCEPT !.free = l.next[s]], exp, s))

\* A device sets its timer, cancelling it first when it holds a slot.
Arm(t, delay, period) ==
  /\ DeviceRuns
  /\ IF Cancelled(t) = NoSlot
     THEN Register(t, Lists, active, delay, period)
     ELSE Register(t, Unlink(Lists, ids[t]), [active EXCEPT ![ids[t]] = FALSE],
                   delay, period)
  /\ UNCHANGED <<now, target, calling>>

Disarm(t) ==
  /\ DeviceRuns /\ ids[t] # NoSlot
  /\ IF active[ids[t]]
     THEN /\ SetLists(Unlink(Lists, ids[t]))
          /\ active' = [active EXCEPT ![ids[t]] = FALSE]
     ELSE UNCHANGED <<linkVars, active>>
  /\ ids' = [ids EXCEPT ![t] = NoSlot]
  /\ UNCHANGED <<timer, expired, loop, slotAccum, now, target, calling>>

-----------------------------------------------------------------------------
(* update_event.                                                           *)

UpdateTo(c) ==
  /\ target = NoSlot /\ now + c <= MaxClock
  /\ target' = now + c
  /\ UNCHANGED <<slotVars, linkVars, now, calling, ids>>

InLoop == target # NoSlot /\ calling = Nobody
Due    == firstFire # NoSlot /\ expired[firstFire] <= target

\* The first slot off the list.
Popped == [Lists EXCEPT !.fire = next[firstFire],
                        !.prev = [x \in SlotIds |-> IF x = next[firstFire]
                                                    THEN NoSlot ELSE @[x]]]

\* The callback of a one-shot begins by forgetting its slot number.
FireOnce ==
  /\ InLoop /\ Due /\ loop[firstFire] = 0
  /\ SetLists(Free(Popped, firstFire))
  /\ active' = [active EXCEPT ![firstFire] = FALSE]
  /\ now' = expired[firstFire]
  /\ calling' = timer[firstFire]
  /\ ids' = [ids EXCEPT ![timer[firstFire]] = NoSlot]
  /\ UNCHANGED <<timer, expired, loop, slotAccum, target>>

\* Mutant: the clocks added to expired_clock stay in accum_clocks as well.
FireLoopAccumulates ==
  /\ InLoop /\ Due /\ loop[firstFire] # 0
  /\ LET s   == firstFire
         sum == slotAccum[s] + loop[s]
         exp == [expired EXCEPT ![s] = @ + sum \div Fraction]
     IN /\ expired' = exp
        /\ slotAccum' = [slotAccum EXCEPT ![s] = sum]
        /\ SetLists(Insert(Popped, exp, s))
        /\ now' = expired[s]
        /\ calling' = timer[s]
  /\ UNCHANGED <<active, timer, loop, target, ids>>

\* A loop is due again one period later, whole clocks now and the rest kept.
FireLoop ==
  /\ InLoop /\ Due /\ loop[firstFire] # 0
  /\ LET s   == firstFire
         sum == slotAccum[s] + loop[s]
         exp == [expired EXCEPT ![s] = @ + sum \div Fraction]
     IN /\ expired' = exp
        /\ slotAccum' = [slotAccum EXCEPT ![s] = sum % Fraction]
        /\ SetLists(Insert(Popped, exp, s))
        /\ now' = expired[s]
        /\ calling' = timer[s]
  /\ UNCHANGED <<active, timer, loop, target, ids>>

CallbackReturns ==
  /\ calling # Nobody /\ calling' = Nobody
  /\ UNCHANGED <<slotVars, linkVars, now, target, ids>>

EndUpdate ==
  /\ InLoop /\ ~Due
  /\ now' = target /\ target' = NoSlot
  /\ UNCHANGED <<slotVars, linkVars, calling, ids>>

(* VM::reset, between frames: EVENT cancels everything but loops, slot by  *)
(* slot, and every device forgets the slot of its one-shots.               *)
ListResetTo(n) ==
  LET st[k \in 0..n] ==
        IF k = 0 THEN [lists |-> Lists, act |-> active]
        ELSE IF active[k - 1] /\ loop[k - 1] = 0
             THEN [lists |-> Unlink(st[k - 1].lists, k - 1),
                   act   |-> [st[k - 1].act EXCEPT ![k - 1] = FALSE]]
             ELSE st[k - 1]
  IN st[n]

\* Mutant: a device keeps the slot number of an event the reset cancelled.
ListResetKeepsIds ==
  /\ target = NoSlot
  /\ SetLists(ListResetTo(MaxEvent).lists)
  /\ active' = ListResetTo(MaxEvent).act
  /\ UNCHANGED <<timer, expired, loop, slotAccum, now, target, calling, ids>>

ListReset ==
  /\ target = NoSlot
  /\ SetLists(ListResetTo(MaxEvent).lists)
  /\ active' = ListResetTo(MaxEvent).act
  /\ ids' = [t \in Timers |-> IF t \in Loops THEN ids[t] ELSE NoSlot]
  /\ UNCHANGED <<timer, expired, loop, slotAccum, now, target, calling>>

ListNext ==
  \/ \E t \in Timers \ Loops, d \in Delays : Arm(t, d, 0)
  \/ \E t \in Loops, p \in Periods : Arm(t, 0, p)
  \/ \E t \in Timers : Disarm(t)
  \/ \E c \in Steps : UpdateTo(c)
  \/ FireOnce \/ FireLoop \/ CallbackReturns \/ EndUpdate \/ ListReset

ListSpec == ListInit /\ [][ListNext]_listVars

(* What a free slot was last used for is never read again: states that     *)
(* differ only in that are one state to a run.                             *)
OfActive(f) == [s \in SlotIds |-> IF active[s] THEN f[s] ELSE NoSlot]
UsedSlots == <<active, OfActive(timer), OfActive(expired), OfActive(loop), OfActive(slotAccum),
               OfActive(prev), next, firstFree, firstFire, now, target, calling,
               ids>>

-----------------------------------------------------------------------------
FireAt == Walk(firstFire, next)
FreeAt == Walk(firstFree, next)
Pending == Cardinality({s \in SlotIds : active[s]})

\* The fire list runs through the active slots, each once, in the order of
\* their clocks, with back links that mirror it, and the free stack through
\* all others: no slot is lost or handed out twice.
ListsAreWhole ==
  /\ {FireAt[n] : n \in 0..(Pending - 1)} = {s \in SlotIds : active[s]}
  /\ {FreeAt[n] : n \in 0..(MaxEvent - Pending - 1)} = {s \in SlotIds : ~active[s]}
  /\ FireAt[Pending] = NoSlot /\ FreeAt[MaxEvent - Pending] = NoSlot
  /\ firstFire # NoSlot => prev[firstFire] = NoSlot
  /\ \A s \in SlotIds : active[s] /\ next[s] # NoSlot =>
        prev[next[s]] = s /\ expired[s] <= expired[next[s]]

\* A slot number a device holds is that of its own pending event, so a
\* cancel never hits an event that took over the slot.
IdsAreOwn ==
  \A t \in Timers : ids[t] # NoSlot => active[ids[t]] /\ timer[ids[t]] = t

\* No slot is lost, handed out twice, or taken away from its owner.
SlotsAreWhole == ListsAreWhole /\ IdsAreOwn

\* The slots implement the line of events, in exact time.
InLine == [n \in 1..Pending |->
             LET s == FireAt[n - 1]
             IN [timer |-> timer[s], due |-> expired[s] * Fraction + slotAccum[s],
                 period |-> loop[s]]]
InTime == INSTANCE EventQueue WITH line <- InLine, Slots <- MaxEvent
IsAnEventQueue == InTime!EqSpec
=============================================================================

------------------------------ MODULE EventQueue ------------------------------
(***************************************************************************)
(* What the event manager promises the devices, without its slots and      *)
(* links: a line of pending events in the order they will fire, kept in    *)
(* exact time.  Time is counted in 1/Fraction of a clock; an event fires   *)
(* in the clock its time falls in, events of one clock in the order they   *)
(* were put in line, and a periodic event comes back exactly one period    *)
(* after the time it was due, so it never drifts.                          *)
(***************************************************************************)
EXTENDS Integers, Sequences

CONSTANTS Fraction,  \* parts of a clock (1024 in the code)
          Slots,     \* events that can be pending (64 in the code)
          Nobody     \* no timer is being called back

VARIABLES line,      \* records [timer, due, period], first to fire first
          now,       \* the clock, in whole clocks
          calling    \* the timer whose callback runs

eqVars == <<line, now, calling>>

Clock(e) == e.due \div Fraction

\* The event e between the first n of s and the others, and s without its i-th.
Inserted(s, n, e) ==
  [i \in 1..(Len(s) + 1) |-> IF i <= n THEN s[i] ELSE IF i = n + 1 THEN e ELSE s[i - 1]]
Without(s, i) == [j \in 1..(Len(s) - 1) |-> IF j < i THEN s[j] ELSE s[j + 1]]

\* t is s with e behind every event of its clock or an earlier one, and before
\* every later one.
PutInLine(s, e, t) ==
  \E n \in 0..Len(s) :
    /\ t = Inserted(s, n, e)
    /\ \A i \in 1..n : Clock(s[i]) <= Clock(e)
    /\ \A i \in (n + 1)..Len(s) : Clock(s[i]) > Clock(e)

EqInit == line = <<>> /\ now = 0 /\ calling = Nobody

\* t is s after an event joined that is not due before now.
Join(s, t) ==
  /\ Len(t) = Len(s) + 1 /\ Len(t) <= Slots
  /\ \E i \in DOMAIN t : t[i].due >= now * Fraction /\ PutInLine(s, t[i], t)

EqRegister == Join(line, line') /\ UNCHANGED <<now, calling>>

EqCancel == \E i \in DOMAIN line : line' = Without(line, i) /\ UNCHANGED <<now, calling>>

\* A timer that is set again leaves the line and joins it.
EqReplace == /\ \E i \in DOMAIN line : Join(Without(line, i), line')
             /\ UNCHANGED <<now, calling>>

\* The first event fires at its clock; a periodic one joins the line again.
EqFire ==
  /\ calling = Nobody /\ line # <<>>
  /\ LET e == line[1]
     IN /\ now' = Clock(e) /\ now' >= now
        /\ calling' = e.timer
        /\ IF e.period = 0 THEN line' = Without(line, 1)
           ELSE PutInLine(Without(line, 1), [e EXCEPT !.due = @ + e.period], line')

EqReturn == calling' = Nobody /\ UNCHANGED <<line, now>>

\* The clock moves on, but never past an event that has not fired.
EqAdvance ==
  /\ calling = Nobody
  /\ now' >= now
  /\ line # <<>> => now' < Clock(line[1])
  /\ UNCHANGED <<line, calling>>

\* A reset takes away every event but the periodic ones, which keep their order:
\* at[i] is where the i-th of those left was.
EqReset ==
  /\ UNCHANGED <<now, calling>>
  /\ \E at \in [1..Len(line') -> 1..Len(line)] :
       /\ \A i \in 1..Len(line') : line'[i] = line[at[i]]
       /\ \A i, j \in 1..Len(line') : i < j => at[i] < at[j]
       /\ {at[i] : i \in 1..Len(line')} = {i \in 1..Len(line) : line[i].period # 0}

EqNext == \/ EqReturn \/ EqRegister \/ EqCancel \/ EqReplace
          \/ EqFire \/ EqAdvance \/ EqReset

EqSpec == EqInit /\ [][EqNext]_eqVars
=============================================================================

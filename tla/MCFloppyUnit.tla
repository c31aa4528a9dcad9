----------------------------- MODULE MCFloppyUnit -----------------------------
(* Instances of FloppyUnit: a good and a damaged sector on track 0, a        *)
(* damaged id on the other tracks.                                           *)
EXTENDS FloppyUnit

MCBlank == [t \in Tracks |-> IF t = 0 THEN <<"good", "badData">> ELSE <<"badId">>]
\* Every group of commands, type 1 with and without verify and update.  The
\* bits a group fixes, or does not look at, are as in its byte.
Byte(op, four, two) == [op |-> op, bit4 |-> four, bit2 |-> two]
MCProgram ==
  {Byte(op, FALSE, FALSE) : op \in {"restore", "step", "rd", "wr", "rdAddr", "rdTrk"}}
  \cup {Byte(op, TRUE, FALSE) : op \in {"rd", "wr", "wrTrk", "stepOut", "forceInt"}}
  \cup {Byte(op, TRUE, TRUE) : op \in {"seek", "stepIn", "forceInt", "unknown"}}
================================================================================

------------------------------ MODULE TimaSpec ------------------------------
(***************************************************************************)
(* What the timer promises a program, with the divider abstracted away:    *)
(* TIMA counts at arbitrary moments; an overflow leaves it at 0 until one  *)
(* reload from TMA, which is also the interrupt; a TIMA write cancels a    *)
(* reload that has not happened, and has no effect in its M-cycle.         *)
(***************************************************************************)
EXTENDS Integers

CONSTANT TimaMod

VARIABLES mode, tima, tma

vars == <<mode, tima, tma>>

Byte == 0..TimaMod-1

Init == mode = "counting" /\ tima = 0 /\ tma = 0

Clock ==
  /\ mode # "overflowed"
  /\ tima' = (tima + 1) % TimaMod
  /\ mode' = IF tima' = 0 THEN "overflowed" ELSE mode
  /\ UNCHANGED tma

\* The reload, and with it the interrupt request.
Reload ==
  /\ mode = "overflowed"
  /\ mode' = "reloaded"
  /\ tima' = tma
  /\ UNCHANGED tma

\* The M-cycle of the reload ends.
Settle ==
  /\ mode = "reloaded"
  /\ mode' = "counting"
  /\ UNCHANGED <<tima, tma>>

WriteTIMA ==
  /\ mode # "reloaded"
  /\ mode' = "counting"
  /\ tima' \in Byte
  /\ UNCHANGED tma

WriteTMA ==
  /\ tma' \in Byte
  /\ tima' = IF mode = "reloaded" THEN tma' ELSE tima
  /\ UNCHANGED mode

Next == Clock \/ Reload \/ Settle \/ WriteTIMA \/ WriteTMA

Spec == Init /\ [][Next]_vars
=============================================================================

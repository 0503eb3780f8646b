------------------------------ MODULE MCTimer ------------------------------
(***************************************************************************)
(* Timer with narrow counters: a 7-bit divider, a 2-bit TIMA, and the four *)
(* taps at bits 6, 3, 4 and 5, so that all of them differ and their order  *)
(* (frequency 0 slowest, 1 fastest) is the code's.                         *)
(***************************************************************************)
EXTENDS Timer

MCHalfPeriod == [f \in 0..3 |-> CASE f = 0 -> 64 [] f = 1 -> 8
                                  [] f = 2 -> 16 [] f = 3 -> 32]
MCInitialDiv == {0, 44}
=============================================================================

--------------------------------- MODULE Rtc ---------------------------------
(***************************************************************************)
(* The clock of an MBC3 cartridge, crates/slopgb-core/src/cartridge/       *)
(* rtc.rs: struct Rtc as a record, its methods as operators.  The width of *)
(* every counter and the value it carries at are constants: seconds carry  *)
(* at 60 of 64, hours at 24 of 32, the day counter has 8 bits in DL and    *)
(* one in DH.                                                              *)
(***************************************************************************)
EXTENDS Integers

CONSTANTS CyclesPerSecond,  \* CYCLES_PER_SECOND
          Limit, Width,     \* of s, m and h: 60 60 24 and 64 64 32
          DayLow            \* the values of DL (256)

Fields == {"s", "m", "h"}
ASSUME RtcAssumption ==
  /\ CyclesPerSecond \in Nat \ {0} /\ DayLow \in Nat \ {0}
  /\ Limit \in [Fields -> Nat \ {0}] /\ Width \in [Fields -> Nat \ {0}]
  /\ \A i \in Fields : Limit[i] < Width[i]

\* high, halt and carry are bits 0, 6 and 7 of DH; the mask drops its others.
Regs == [s : 0..Width.s - 1, m : 0..Width.m - 1, h : 0..Width.h - 1, dl : 0..DayLow - 1,
         high : {0, 1}, halt : BOOLEAN, carry : BOOLEAN]
\* The latch register sees 0, 1 or another value.
Latches == {0, 1, 255}
RtcState == [regs : Regs, latched : Regs, subsec : 0..CyclesPerSecond - 1,
             latch_prev : Latches]

Midnight == [s |-> 0, m |-> 0, h |-> 0, dl |-> 0, high |-> 0, halt |-> FALSE,
             carry |-> FALSE]
NewRtc == [regs |-> Midnight, latched |-> Midnight, subsec |-> 0, latch_prev |-> 255]

write_latch(r, value) ==
  [r EXCEPT !.latched = IF r.latch_prev = 0 /\ value = 1 THEN r.regs ELSE @,
            !.latch_prev = value]

\* write_reg: regs is the old file with one register replaced; DH is one register.
same_but(old, new, i) ==
  \A j \in {"s", "m", "h", "dl"} \ {i} : new[j] = old[j]
write_reg(r, i, regs) ==
  [r EXCEPT !.regs = regs, !.subsec = IF i = "s" THEN 0 ELSE @]
OneRegister(old, i) ==
  {new \in Regs : /\ same_but(old, new, i)
                  /\ i # "dh" => /\ new.high = old.high /\ new.halt = old.halt
                                 /\ new.carry = old.carry}
-----------------------------------------------------------------------------
\* Mutant: the next day without an overflow clears the carry.
MutCarryNotSticky(g) ==
  LET day == g.high * DayLow + g.dl + 1
  IN  [g EXCEPT !.dl = day % DayLow, !.high = (day \div DayLow) % 2,
                !.carry = day = 2 * DayLow]
next_day(g) ==
  LET day == g.high * DayLow + g.dl + 1
  IN  [g EXCEPT !.dl = day % DayLow, !.high = (day \div DayLow) % 2,
                !.carry = @ \/ day = 2 * DayLow]

\* A counter wraps at its width, and carries only from the value below its limit.
bumped(g, i) == (g[i] + 1) % Width[i]
carries(g, i) == bumped(g, i) = Limit[i]
tick_second(g) ==
  CASE ~carries(g, "s") -> [g EXCEPT !.s = bumped(g, "s")]
    [] carries(g, "s") /\ ~carries(g, "m") -> [g EXCEPT !.s = 0, !.m = bumped(g, "m")]
    [] carries(g, "s") /\ carries(g, "m") /\ ~carries(g, "h") ->
         [g EXCEPT !.s = 0, !.m = 0, !.h = bumped(g, "h")]
    [] OTHER -> next_day([g EXCEPT !.s = 0, !.m = 0, !.h = 0])

\* The registers after each number of seconds.
seconds_from(g) ==
  LET after[n \in Nat] == IF n = 0 THEN g ELSE tick_second(after[n - 1])
  IN  after

\* tick_cycles: the whole seconds of t_cycles and of what was left over.
tick_cycles(r, t_cycles) ==
  LET total == r.subsec + t_cycles
  IN  IF r.regs.halt THEN r
      ELSE [r EXCEPT !.subsec = total % CyclesPerSecond,
                     !.regs = seconds_from(r.regs)[total \div CyclesPerSecond]]

\* load_save_data: this program's block restores everything, the footer of other
\* emulators neither the part of a second nor the armed latch.
rtc_reloaded(r, own) ==
  IF own THEN r ELSE [r EXCEPT !.subsec = 0, !.latch_prev = 255]
-----------------------------------------------------------------------------
(* The reference: a clock that counts T-cycles. *)

InRange(g) == \A i \in Fields : g[i] < Limit[i]
Days == 2 * DayLow
Second(g) == ((((g.high * DayLow + g.dl) * Limit.h + g.h) * Limit.m) + g.m) * Limit.s + g.s
Period == Days * Limit.h * Limit.m * Limit.s * CyclesPerSecond
Cycle(r) == Second(r.regs) * CyclesPerSecond + r.subsec
=============================================================================

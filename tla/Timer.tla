------------------------------- MODULE Timer -------------------------------
(***************************************************************************)
(* The DIV/TIMA timer (FF04-FF07), crates/slopgb-core/src/timer.rs.        *)
(*                                                                         *)
(* One step is one T-cycle of Timer::tick (tick_substep), or the single    *)
(* bus operation that follows the four T-cycles of an M-cycle: the bus     *)
(* ticks the machine first and then performs the CPU's access.             *)
(*                                                                         *)
(* The counter width, the TIMA width and the four taps are constants.  In  *)
(* the code DivMod = 65536, TimaMod = 256 and HalfPeriod is 512, 8, 32,    *)
(* 128 for TAC frequencies 0, 1, 2, 3.                                     *)
(***************************************************************************)
EXTENDS Integers

CONSTANTS DivMod,     \* number of values of the internal DIV counter
          TimaMod,    \* number of values of TIMA and TMA
          HalfPeriod, \* per TAC frequency: T-cycles for which its tap is low
          InitialDiv  \* the values set_div installs after the boot ROM

ASSUME DivModAssumption == DivMod \in Nat \ {0} /\ DivMod % 16 = 0
ASSUME TimaModAssumption == TimaMod \in Nat /\ TimaMod > 1
ASSUME HalfPeriodAssumption ==
  HalfPeriod \in [0..3 -> {8, 16, 32, 64, 128, 256, 512}]
ASSUME InitialDivAssumption ==
  InitialDiv \subseteq {d \in 0..DivMod-1 : d % 4 = 0}

VARIABLES t,        \* the fields of struct Timer
          substep,  \* T-cycles of the current M-cycle done; 4: the access is due
          iff,      \* TimerTick.iff # 0 for the current M-cycle
          late      \* TimerTick.late for the current M-cycle

vars == <<t, substep, iff, late>>

DivValue == 0..DivMod-1
Byte == 0..TimaMod-1
TimerState == [div : DivValue, tima : Byte, tma : Byte, tac : 0..7,
               reload_in : 0..4, reloaded : BOOLEAN]

wrapping_inc(v, mod) == IF v = mod - 1 THEN 0 ELSE v + 1

\* The DIV bit a TAC frequency selects, at counter value d.
selected_bit(f, d) == (d \div HalfPeriod[f]) % 2 = 1

\* The input of the falling-edge detector: selected bit AND enable.
mux_out(s) == s.tac \div 4 = 1 /\ selected_bit(s.tac % 4, s.div)

\* Mutants, here and below: a definition with the slip its comment names.
\* clock_tima with a saturating increment.
MutClockSaturates(s) ==
  [s EXCEPT !.tima = IF @ = TimaMod - 1 THEN @ ELSE @ + 1]

clock_tima(s) ==
  LET v == wrapping_inc(s.tima, TimaMod)
  IN [s EXCEPT !.tima = v, !.reload_in = IF v = 0 THEN 4 ELSE @]

\* edge_detect that looks at the level only.
MutLevelDetect(before, s) == IF ~mux_out(s) THEN clock_tima(s) ELSE s

\* The edge detector: s is the state after something moved its input.
edge_detect(before, s) == IF before /\ ~mux_out(s) THEN clock_tima(s) ELSE s

inc_div(s) ==
  edge_detect(mux_out(s), [s EXCEPT !.div = wrapping_inc(@, DivMod)])

\* The reload pipeline, which runs before the counter moves.
reload_fires(s) == s.reload_in = 1

reload_pipeline(s) ==
  IF reload_fires(s)
    THEN [s EXCEPT !.tima = s.tma, !.reload_in = 0, !.reloaded = TRUE]
    ELSE [s EXCEPT !.reload_in = IF @ > 0 THEN @ - 1 ELSE 0]

\* STOP feeds the divider four more T-cycles without the reload pipeline.
stop_div_presample(s) ==
  IF s.tac % 4 = 0 THEN s ELSE inc_div(inc_div(inc_div(inc_div(s))))

div_write(s) == edge_detect(mux_out(s), [s EXCEPT !.div = 0])
-----------------------------------------------------------------------------
Init ==
  /\ t \in [div : InitialDiv, tima : {0}, tma : {0}, tac : {0},
            reload_in : {0}, reloaded : {FALSE}]
  /\ substep = 0
  /\ iff = FALSE
  /\ late = FALSE

\* TickSubstep that calls the first half of the M-cycle the late one.
MutTickLateSwapped ==
  /\ substep < 4
  /\ LET s == IF substep = 0 THEN [t EXCEPT !.reloaded = FALSE] ELSE t
     IN /\ t' = inc_div(reload_pipeline(s))
        /\ iff' = (reload_fires(s) \/ (substep # 0 /\ iff))
        /\ late' = ((reload_fires(s) /\ substep < 2) \/ (substep # 0 /\ late))
  /\ substep' = substep + 1

\* One T-cycle of Timer::tick; the first one clears the per-M-cycle latches.
TickSubstep ==
  /\ substep < 4
  /\ LET s == IF substep = 0 THEN [t EXCEPT !.reloaded = FALSE] ELSE t
     IN /\ t' = inc_div(reload_pipeline(s))
        /\ iff' = (reload_fires(s) \/ (substep # 0 /\ iff))
        /\ late' = ((reload_fires(s) /\ substep >= 2) \/ (substep # 0 /\ late))
  /\ substep' = substep + 1

\* What one bus operation does to the timer after its tick.
Access(s) ==
  /\ substep = 4
  /\ substep' = 0
  /\ t' = s
  /\ UNCHANGED <<iff, late>>

WriteDIV == Access(div_write(t))

\* WriteTIMA that leaves the pending reload armed.
MutTimaNoCancel == \E v \in Byte :
  Access(IF t.reloaded THEN t ELSE [t EXCEPT !.tima = v])

WriteTIMA == \E v \in Byte :
  Access(IF t.reloaded THEN t ELSE [t EXCEPT !.tima = v, !.reload_in = 0])

WriteTMA == \E v \in Byte :
  Access([t EXCEPT !.tma = v, !.tima = IF t.reloaded THEN v ELSE @])

WriteTAC == \E v \in 0..7 : Access(edge_detect(mux_out(t), [t EXCEPT !.tac = v]))

\* STOP: the presample, then a DIV write.
Stop == Access(div_write(stop_div_presample(t)))

\* Every other bus operation leaves the timer alone.
OtherAccess == Access(t)

Next == \/ TickSubstep
        \/ WriteDIV \/ WriteTIMA \/ WriteTMA \/ WriteTAC
        \/ Stop \/ OtherAccess

Spec == Init /\ [][Next]_vars

\* The run loop keeps executing M-cycles, whatever the program does with them.
FairSpec == Spec /\ WF_vars(Next)
-----------------------------------------------------------------------------
\* Every field stays in its Rust type and reload_in within the 4 T-cycle delay.
TypeOK ==
  /\ t \in TimerState
  /\ substep \in 0..4
  /\ iff \in BOOLEAN
  /\ late \in BOOLEAN

\* From an overflow to its reload TIMA reads 0 (timer.rs: "it reads 0x00 for 4
\* T-cycles"): nothing, not even a TAC write that re-raises the edge detector's
\* input inside the window, can clock TIMA before the reload.
OverflowWindowReadsZero == t.reload_in > 0 => t.tima = 0

\* The access of the M-cycle in which the reload happened finds TIMA equal to
\* TMA: no edge of that same M-cycle can have clocked the freshly loaded value.
ReloadCycleShowsTMA == substep = 4 /\ t.reloaded => t.tima = t.tma

\* A reload always lands in the second half of its M-cycle, so the halt-exit
\* sampler, which misses `late` commits, sees every timer interrupt one M-cycle
\* late.  It rests on the DIV counter staying a multiple of 4 at M-cycle
\* boundaries through boot, DIV writes and STOP's presample.
TimerInterruptIsLate == iff => late

\* STOP can clock TIMA at most once, the presample and the DIV write together.
StopClocksOnce ==
  LET s == div_write(stop_div_presample(t))
  IN substep = 4 => s.tima \in {t.tima, wrapping_inc(t.tima, TimaMod)}

\* In the M-cycle of a reload a write to TIMA or TMA leaves TIMA showing TMA:
\* only a DIV or TAC write (STOP writes DIV) can move TIMA off TMA there.
ReloadCycleWritesKeepTMA ==
  [][substep = 4 /\ t.reloaded /\ t'.div = t.div /\ t'.tac = t.tac
       => t'.tima = t'.tma]_vars

\* An enabled timer that the program leaves alone interrupts again and again,
\* whatever TMA holds and wherever the divider stood.
RunningTimerInterrupts ==
  <>[](t.tac \div 4 = 1) /\ <>[][TickSubstep \/ OtherAccess]_vars => []<>iff

\* TIMA as the program sees it implements TimaSpec: the divider, the taps and
\* the reload counter are hidden, and the interrupt is the "reloaded" mode.
Tima == INSTANCE TimaSpec WITH
  tima <- t.tima, tma <- t.tma,
  mode <- IF t.reload_in > 0 THEN "overflowed"
          ELSE IF iff THEN "reloaded" ELSE "counting"

TimaRefinement == Tima!Spec
=============================================================================

-------------------------------- MODULE Sm83 --------------------------------
(***************************************************************************)
(* The control of the SM83 CPU: interrupt dispatch, the EI delay, HALT and *)
(* STOP (crates/slopgb-core/src/cpu/execute.rs) against the interrupt      *)
(* registers, the windows in which a request is not heard and the core     *)
(* clock gate of the bus (crates/slopgb-core/src/interconnect/: tick.rs,   *)
(* bus.rs, speed.rs; ppu/stat_irq/reclock.rs).                             *)
(*                                                                         *)
(* A step is one M-cycle: the bus ticks the machine, which may raise       *)
(* interrupts, and the CPU then performs the access of that cycle.  The    *)
(* variable at says which M-cycle of Cpu::step comes next.  An instruction *)
(* is its effect on this state; the program is any sequence of them.  PC,  *)
(* and with it the rewinds of PC, is data and left out, as are the VRAM    *)
(* DMA blocks and the calls of the link cable between two of these cycles. *)
(*                                                                         *)
(* The rest of the machine is the choice of w in Cycle: which sources      *)
(* raise IF in this M-cycle, at which PPU dot, and which of them commit in *)
(* its second half.  The variable h is a history the CPU never reads.      *)
(***************************************************************************)
EXTENDS Integers

CONSTANTS Sources,  \* the interrupt sources of the instance: IF bits
          Families, \* the hardware families explored
          MaxLate   \* bound on consecutive M-cycles with a second-half commit

STAT == 1
TIMER == 2
SERIAL == 3
PpuSource == Sources \cap {0, 1}
ClockSource == Sources \cap {2, 3}
LateSource == Sources \cap {STAT, TIMER}

ASSUME SourcesAssumption == Sources \subseteq 0..4 /\ Sources # {}
ASSUME FamiliesAssumption == Families \subseteq {"dmg", "cgb"} /\ Families # {}
ASSUME MaxLateAssumption == MaxLate \in Nat

VARIABLES cpu,     \* ime, ime_pending, halted, stopped, halt_bug, locked
          bus,     \* IF, IE, the late masks, the two windows, the gate
          model,   \* the family and the speed
          at,      \* the M-cycle of Cpu::step that comes next
          eiDelay, \* the local ei_delay of run_step
          ieLatch, \* the local ie of dispatch_interrupt
          h        \* history

vars == <<cpu, bus, model, at, eiDelay, ieLatch, h>>

NoSource == -1
At == {"boundary", "disp1", "disp2", "disp3", "disp4", "vector", "exec", "other",
       "writeIF", "writeIE", "reti3", "reti2", "reti1", "down", "enter", "leave", "pause"}
Dispatching == {"disp1", "disp2", "disp3", "disp4"}

Cpu == [ime : BOOLEAN, pend : BOOLEAN, halted : BOOLEAN, stopped : BOOLEAN,
        bug : BOOLEAN, locked : BOOLEAN]
Bus == [intf : SUBSET Sources, ie : SUBSET Sources, late : SUBSET LateSource,
        hidden : SUBSET LateSource, sqMask : Sources \cup {NoSource},
        sqTicks : 0..1, sqDots : 0..6, sqStore : 0..2, borrowed : BOOLEAN,
        gate : BOOLEAN]

\* masked: no EI or RETI since the last DI or dispatch.  afterEi: the instruction
\* before this one was EI.  cutEi: a dispatch fell into an EI delay of this step.
\* accepted, age: the source acknowledged last, and the M-cycles since.  clears,
\* cleared: this M-cycle's access, and the one before it, stored to IF with STAT's bit
\* clear.  lost: the requests the two windows swallowed in this M-cycle.  overslept: idle
\* M-cycles of this HALT that ended with IE & IF # 0.  lateRun: M-cycles in a row
\* with a late commit.  idled: this sleep has completed an idle cycle.  Of the
\* dispatch: hit, a push landed on IE or IF; phantom, it was woken by no request;
\* veiled, a second-half STAT commit fell into the cycle that samples IF;
\* cancelled, it ended without a source.
History ==
  [masked : BOOLEAN, afterEi : BOOLEAN, cutEi : BOOLEAN,
   accepted : Sources \cup {NoSource}, age : 0..4, clears : BOOLEAN,
   cleared : BOOLEAN, lost : SUBSET Sources,
   overslept : 0..MaxLate + 1, lateRun : 0..MaxLate, idled : BOOLEAN,
   hit : BOOLEAN, phantom : BOOLEAN, veiled : BOOLEAN, cancelled : BOOLEAN]

Init ==
  /\ cpu = [ime |-> FALSE, pend |-> FALSE, halted |-> FALSE, stopped |-> FALSE,
            bug |-> FALSE, locked |-> FALSE]
  /\ bus = [intf |-> {}, ie |-> {}, late |-> {}, hidden |-> {},
            sqMask |-> NoSource, sqTicks |-> 0, sqDots |-> 0, sqStore |-> 0,
            borrowed |-> FALSE, gate |-> FALSE]
  /\ model \in [family : Families, double : {FALSE}]
  /\ at = "boundary"
  /\ eiDelay = FALSE
  /\ ieLatch = {}
  /\ h = [masked |-> TRUE, afterEi |-> FALSE, cutEi |-> FALSE,
          accepted |-> NoSource, age |-> 0, clears |-> FALSE,
          cleared |-> FALSE, lost |-> {}, overslept |-> 0, lateRun |-> 0,
          idled |-> FALSE, hit |-> FALSE, phantom |-> FALSE, veiled |-> FALSE,
          cancelled |-> FALSE]
-----------------------------------------------------------------------------
(* One M-cycle of the machine: Interconnect::tick_machine. *)

\* What the peripherals may do in an M-cycle: src raise IF, the PPU's at dot;
\* those in late commit after the halt-exit sample, those in hidden after the
\* CPU's sample too (the DMG family's OAM pulse at the vblank entry).  A raced
\* rise of STAT is of the kind a store to IF races with: mode 0 at double speed,
\* LYC at single speed.  A cycle that stores may borrow the first dot of the next.
AnyRise == {w \in [src : SUBSET Sources, late : SUBSET LateSource, dot : 1..5,
                   hidden : SUBSET (Sources \cap {STAT}), raced : BOOLEAN,
                   borrow : BOOLEAN] :
              /\ w.hidden \subseteq w.late /\ w.late \subseteq w.src
              /\ w.raced => STAT \in w.src /\ w.hidden = {}
              /\ w.src \cap PpuSource = {} => w.dot = 1}

\* The PPU dots of this M-cycle.
Dots(w) == IF model.double THEN 2
           ELSE 4 - (IF bus.borrowed THEN 1 ELSE 0) + (IF w.borrow THEN 1 ELSE 0)

\* ... of an M-cycle that stores to "if", "ie" or an "other" place, or to "none".
Rises(on) ==
  {w \in AnyRise :
     /\ w.hidden # {} => model.family = "dmg"
     /\ w.late # {} => h.lateRun < MaxLate
     /\ w.borrow => /\ ~model.double
                    /\ on = "if" \/ (on = "other" /\ model.family = "cgb")
     /\ w.dot <= Dots(w)
     /\ w.raced => bus.sqStore > 0
     /\ bus.sqDots = 0 /\ bus.sqStore = 0 => w.dot = 1}
Quiet == Rises("none")

\* A store to IF that clears STAT's bit consumes the rise it races with: the PPU
\* spends the edge and raises nothing.
consumed(b, w) ==
  IF w.raced /\ b.sqStore - (w.dot - 1) >= (IF model.double THEN 1 ELSE 2)
  THEN {STAT} ELSE {}

\* The requests not heard: those, and in the acknowledge window the accepted
\* source's own.
squashed(b, w) ==
  consumed(b, w) \cup
    ((w.src \cap {b.sqMask}) \cap
       ((IF b.sqTicks > 0 THEN ClockSource ELSE {})
          \cup (IF b.sqDots >= w.dot THEN PpuSource ELSE {})))

\* Mutants, here and below: a definition with the slip its comment names.
\* closing that forgets to count.
MutClosingNever(n, dots) == n

\* What is left, after an M-cycle of so many dots, of a window of n dots.
closing(n, dots) == IF n > dots THEN n - dots ELSE 0

\* late_mask that accumulates.
MutLateMaskKeeps(b, w) ==
  b.late \cup (w.late \ ((squashed(b, w) \cap {TIMER}) \cup consumed(b, w)))

\* if_late is made anew each M-cycle; a squashed timer request and a consumed STAT
\* edge leave no mark.
late_mask(b, w) == w.late \ ((squashed(b, w) \cap {TIMER}) \cup consumed(b, w))

ticked(b, w) ==
  [b EXCEPT !.intf = @ \cup (w.src \ squashed(b, w)),
            !.late = late_mask(b, w),
            !.hidden = w.hidden,
            !.sqTicks = 0,
            !.sqDots = closing(@, Dots(w)),
            !.sqStore = closing(@, Dots(w)),
            !.borrowed = w.borrow]

\* The history's side of an M-cycle.
aged(w) ==
  LET old == h.accepted = NoSource \/ h.age = 4
  IN [h EXCEPT !.lost = squashed(bus, w),
               !.accepted = IF old THEN NoSource ELSE @,
               !.age = IF old THEN 0 ELSE @ + 1,
               !.clears = FALSE,
               !.cleared = h.clears,
               !.lateRun = IF w.late = {} THEN 0 ELSE @ + 1]

\* The samples of bus.rs and speed.rs.  peek is the PPU's projected mode-0 flip,
\* which the halt samplers take for a request.
iflags(b) == b.intf \ b.hidden
pending(b) == (b.intf \cap b.ie) \ b.hidden
peeked(b, peek) == IF peek THEN {STAT} \cap b.ie ELSE {}
halt_wake(b, peek) == ((b.intf \ b.late) \cap b.ie) \cup peeked(b, peek)
halt_entry(b, peek) == pending(b) \cup peeked(b, peek)
WakePeeks ==
  IF model.family = "cgb" /\ ~model.double /\ bus.gate THEN BOOLEAN ELSE {FALSE}
EntryPeeks ==
  IF model.family = "cgb" /\ model.double THEN {FALSE} ELSE BOOLEAN
-----------------------------------------------------------------------------
(* Cpu::step at an instruction boundary. *)

LockedCycle ==
  /\ at = "boundary" /\ cpu.locked
  /\ \E w \in Quiet : bus' = ticked(bus, w) /\ h' = aged(w)
  /\ UNCHANGED <<cpu, model, at, eiDelay, ieLatch>>

Sleeps(w, b) ==
  [aged(w) EXCEPT !.idled = TRUE,
                  !.overslept = IF b.intf \cap b.ie = {} THEN 0
                                ELSE IF @ > MaxLate THEN @ ELSE @ + 1]
Awake(k) == [k EXCEPT !.idled = FALSE, !.overslept = 0]

\* A halted CPU fetches, and sleeps on while the halt-exit sample is empty; the
\* gate engages only after this first idle cycle.
HaltIdle ==
  /\ at = "boundary" /\ cpu.halted
  /\ \E w \in Quiet : LET b == ticked(bus, w) IN
       /\ \E peek \in WakePeeks : halt_wake(b, peek) = {}
       /\ bus' = [b EXCEPT !.gate = TRUE]
       /\ h' = Sleeps(w, b)
  /\ UNCHANGED <<cpu, model, at, eiDelay, ieLatch>>

\* HaltWake that leaves the gate on.
MutHaltWakeKeepsGate ==
  /\ at = "boundary" /\ cpu.halted
  /\ \E w \in Quiet, peek \in WakePeeks : LET b == ticked(bus, w) IN
       /\ halt_wake(b, peek) # {}
       /\ bus' = b
       /\ h' = [Awake(aged(w)) EXCEPT !.phantom = cpu.ime /\ pending(b) = {}]
  /\ cpu' = [cpu EXCEPT !.halted = FALSE]
  /\ at' = IF cpu.ime THEN "disp1" ELSE "exec"
  /\ UNCHANGED <<model, eiDelay, ieLatch>>

\* ... and wakes otherwise, into the dispatch or into the instruction fetched.
HaltWake ==
  /\ at = "boundary" /\ cpu.halted
  /\ \E w \in Quiet, peek \in WakePeeks : LET b == ticked(bus, w) IN
       /\ halt_wake(b, peek) # {}
       /\ bus' = [b EXCEPT !.gate = FALSE]
       /\ h' = [Awake(aged(w)) EXCEPT !.phantom = cpu.ime /\ pending(b) = {}]
  /\ cpu' = [cpu EXCEPT !.halted = FALSE]
  /\ at' = IF cpu.ime THEN "disp1" ELSE "exec"
  /\ UNCHANGED <<model, eiDelay, ieLatch>>

StopIdle ==
  /\ at = "boundary" /\ cpu.stopped /\ pending(bus) = {}
  /\ \E w \in Quiet : /\ bus' = [ticked(bus, w) EXCEPT !.gate = TRUE]
                      /\ h' = [aged(w) EXCEPT !.idled = TRUE]
  /\ UNCHANGED <<cpu, model, at, eiDelay, ieLatch>>

\* The opcode fetch of a running CPU, or of one that leaves STOP in this step.
\* IE & IF is sampled at its end; a dispatch discards the opcode.
Fetch ==
  /\ at = "boundary" /\ ~cpu.locked /\ ~cpu.halted
  /\ cpu.stopped => pending(bus) # {}
  /\ \E w \in Quiet :
       LET b == [ticked(bus, w) EXCEPT !.gate = IF cpu.stopped THEN FALSE ELSE @]
       IN /\ bus' = b
          /\ at' = IF cpu.ime /\ pending(b) # {} THEN "disp1" ELSE "exec"
          /\ h' = Awake(aged(w))
  /\ cpu' = [cpu EXCEPT !.bug = FALSE, !.stopped = FALSE]
  /\ eiDelay' = cpu.pend
  /\ UNCHANGED <<model, ieLatch>>
-----------------------------------------------------------------------------
(* dispatch_interrupt: two internal cycles, two pushes, the handler's fetch. *)

Dispatch1 ==
  /\ at = "disp1" /\ at' = "disp2"
  /\ cpu' = [cpu EXCEPT !.ime = FALSE, !.pend = FALSE]
  /\ \E w \in Quiet :
       /\ bus' = ticked(bus, w)
       /\ h' = [aged(w) EXCEPT !.masked = TRUE, !.afterEi = FALSE, !.cutEi = eiDelay]
  /\ UNCHANGED <<model, eiDelay, ieLatch>>

Dispatch2 ==
  /\ at = "disp2" /\ at' = "disp3"
  /\ \E w \in Quiet : bus' = ticked(bus, w) /\ h' = aged(w)
  /\ UNCHANGED <<cpu, model, eiDelay, ieLatch>>

\* A push lands on IE or IF (with SP near 0 or FF10), where v is the byte of PC
\* pushed, or elsewhere.  A store to a device's register may itself raise v.
Raised == SUBSET (Sources \cap {STAT, SERIAL})
Pushed(on) == IF on = "other" THEN Raised ELSE SUBSET Sources

\* A store to IF races with the PPU while the LCD's dots and the CPU's cycles are
\* aligned: when it borrows, at single speed; at double speed it borrows nothing.
Races(on, w) == IF on # "if" THEN {FALSE}
                ELSE IF model.double THEN BOOLEAN ELSE {w.borrow}
stored(b, v, race) ==
  [b EXCEPT !.intf = v, !.sqStore = IF race /\ STAT \notin v THEN 2 ELSE @]
ClearsSTAT(on, v) == on = "if" /\ STAT \notin v
pushed(b, on, v, race) == CASE on = "ie" -> [b EXCEPT !.ie = v]
                            [] on = "if" -> stored(b, v, race)
                            [] OTHER -> [b EXCEPT !.intf = @ \cup v]

\* The high push; IE is latched after it.
Dispatch3 ==
  /\ at = "disp3" /\ at' = "disp4"
  /\ \E on \in {"ie", "if", "other"} : \E w \in Rises(on), v \in Pushed(on) :
       \E race \in Races(on, w) :
       LET b == pushed(ticked(bus, w), on, v, race)
       IN /\ bus' = b
          /\ ieLatch' = b.ie
          /\ h' = [aged(w) EXCEPT !.hit = (on # "other"),
                                  !.clears = ClearsSTAT(on, v)]
  /\ UNCHANGED <<cpu, model, eiDelay>>

first_of(set) == CHOOSE i \in set : \A j \in set : i <= j

\* MutCleared: the acknowledge of a CPU that clears every request.
MutCleared(set, src) == {}
\* The acknowledge clears the accepted source ...
cleared(set, src) == set \ {src}

\* ... and opens the window in which that source is not heard: dots for the PPU's,
\* an M-cycle on the CGB family for the timer and the serial port.
AckDots == IF model.double THEN {1, 2} ELSE {2, 6}
acked(b, src, dots) ==
  IF src \in PpuSource \cup ClockSource
  THEN [b EXCEPT !.intf = cleared(@, src), !.sqMask = src,
                 !.sqTicks = IF src \in ClockSource /\ model.family = "cgb" THEN 1 ELSE 0,
                 !.sqDots = IF src \in PpuSource THEN dots ELSE 0]
  ELSE [b EXCEPT !.intf = cleared(@, src)]

\* choice that reads IE afresh instead of the latch.
MutChoiceLateIE(b) == b.ie \cap iflags(b)

\* The sources the dispatch chooses from: the latched IE and the IF of now.
choice(b) == ieLatch \cap iflags(b)

\* The low push; IF is sampled after it, or before it when it lands on IF itself.
Dispatch4 ==
  /\ at = "disp4" /\ at' = "vector"
  /\ \E on \in {"ie", "if", "other"}, dots \in AckDots :
       \E w \in Rises(on), v \in Pushed(on) : \E race \in Races(on, w) :
       LET b == pushed(ticked(bus, w), on, v, race)
           seen == IF on = "if" THEN bus ELSE b
           chosen == choice(seen)
           k == [aged(w) EXCEPT !.hit = @ \/ on = "if",
                                !.clears = ClearsSTAT(on, v),
                                !.veiled = ieLatch \cap seen.hidden # {},
                                !.cancelled = (chosen = {})]
       IN IF chosen = {} THEN bus' = b /\ h' = k
          ELSE /\ bus' = acked(b, first_of(chosen), dots)
               /\ h' = [k EXCEPT !.accepted = first_of(chosen), !.age = 0]
  /\ UNCHANGED <<cpu, model, eiDelay, ieLatch>>

HandlerFetch ==
  /\ at = "vector" /\ at' = "exec"
  /\ \E w \in Quiet : /\ bus' = ticked(bus, w)
                      /\ h' = [aged(w) EXCEPT !.hit = FALSE, !.phantom = FALSE,
                                              !.veiled = FALSE, !.cancelled = FALSE]
  /\ ieLatch' = {}
  /\ UNCHANGED <<cpu, model, eiDelay>>
-----------------------------------------------------------------------------
(* execute: the instructions that touch this state, and Other for the rest. *)

\* The step is over: an EI before it takes effect.
Finish(c) ==
  /\ cpu' = IF eiDelay /\ c.pend THEN [c EXCEPT !.pend = FALSE, !.ime = TRUE] ELSE c
  /\ at' = "boundary"
  /\ eiDelay' = FALSE

Executed(k) == [k EXCEPT !.afterEi = FALSE, !.cutEi = FALSE]

\* Any other instruction of one M-cycle, or the first cycle of a longer one; the
\* further ones, up to five in the code and any number here, may store to a device's
\* register.
Other ==
  /\ at = "exec"
  /\ \/ Finish(cpu)
     \/ at' = "other" /\ UNCHANGED <<cpu, eiDelay>>
  /\ h' = IF at' = "boundary" THEN Executed(h) ELSE h
  /\ UNCHANGED <<bus, model, ieLatch>>
OtherCycle ==
  /\ at = "other"
  /\ \/ Finish(cpu)
     \/ at' = "other" /\ UNCHANGED <<cpu, eiDelay>>
  /\ \E w \in Rises("other"), v \in Raised :
       /\ bus' = [ticked(bus, w) EXCEPT !.intf = @ \cup v]
       /\ h' = IF at' = "boundary" THEN Executed(aged(w)) ELSE aged(w)
  /\ UNCHANGED <<model, ieLatch>>

Ei ==
  /\ at = "exec"
  /\ Finish([cpu EXCEPT !.pend = TRUE])
  /\ h' = [Executed(h) EXCEPT !.masked = FALSE, !.afterEi = TRUE]
  /\ UNCHANGED <<bus, model, ieLatch>>

\* Di that leaves a pending EI alone.
MutDiKeepsEi ==
  /\ at = "exec"
  /\ Finish([cpu EXCEPT !.ime = FALSE])
  /\ h' = [Executed(h) EXCEPT !.masked = TRUE]
  /\ UNCHANGED <<bus, model, ieLatch>>

Di ==
  /\ at = "exec"
  /\ Finish([cpu EXCEPT !.ime = FALSE, !.pend = FALSE])
  /\ h' = [Executed(h) EXCEPT !.masked = TRUE]
  /\ UNCHANGED <<bus, model, ieLatch>>

\* RETI: two reads and an internal cycle, then IME without delay.
RetiStarts == at = "exec" /\ at' = "reti3" /\ UNCHANGED <<cpu, bus, model, eiDelay, ieLatch, h>>
RetiCycle ==
  /\ \/ at = "reti3" /\ at' = "reti2"
     \/ at = "reti2" /\ at' = "reti1"
  /\ \E w \in Quiet : bus' = ticked(bus, w) /\ h' = aged(w)
  /\ UNCHANGED <<cpu, model, eiDelay, ieLatch>>
RetiEnds ==
  /\ at = "reti1"
  /\ Finish([cpu EXCEPT !.ime = TRUE])
  /\ \E w \in Quiet : /\ bus' = ticked(bus, w)
                      /\ h' = [Executed(aged(w)) EXCEPT !.masked = FALSE]
  /\ UNCHANGED <<model, ieLatch>>

\* A store to FF0F or FFFF.
StoreStarts ==
  /\ at = "exec" /\ at' \in {"writeIF", "writeIE"}
  /\ UNCHANGED <<cpu, bus, model, eiDelay, ieLatch, h>>
StoreIF ==
  /\ at = "writeIF"
  /\ Finish(cpu)
  /\ \E w \in Rises("if"), v \in SUBSET Sources : \E race \in Races("if", w) :
       /\ bus' = stored(ticked(bus, w), v, race)
       /\ h' = [Executed(aged(w)) EXCEPT !.clears = ClearsSTAT("if", v)]
  /\ UNCHANGED <<model, ieLatch>>
StoreIE ==
  /\ at = "writeIE"
  /\ Finish(cpu)
  /\ \E w \in Quiet, v \in SUBSET Sources :
       /\ bus' = [ticked(bus, w) EXCEPT !.ie = v]
       /\ h' = Executed(aged(w))
  /\ UNCHANGED <<model, ieLatch>>

Lock ==
  /\ at = "exec"
  /\ Finish([cpu EXCEPT !.locked = TRUE])
  /\ h' = Executed(h)
  /\ UNCHANGED <<bus, model, ieLatch>>

\* With IME off and a request pending HALT arms the halt bug; with IME on, or
\* about to be, it steps back to itself; otherwise it sleeps.
Halt ==
  /\ at = "exec"
  /\ \E peek \in EntryPeeks :
       LET masked == ~cpu.ime /\ ~cpu.pend
           quiet == IF ~masked /\ model.family = "cgb" /\ model.double THEN TRUE
                    ELSE halt_entry(bus, peek) = {}
       IN Finish([cpu EXCEPT !.bug = masked /\ ~quiet, !.halted = quiet])
  /\ h' = Executed(h)
  /\ UNCHANGED <<bus, model, ieLatch>>
-----------------------------------------------------------------------------
(* STOP: op_stop and stop_impl.  KEY1 is the program's. *)

\* No speed switch armed: deep stop, after the skipped byte's read unless a
\* request is pending.
StopDeep ==
  /\ at = "exec"
  /\ Finish([cpu EXCEPT !.stopped = TRUE])
  /\ IF pending(bus) # {} THEN bus' = bus /\ h' = Executed(h)
     ELSE \E w \in Quiet : bus' = ticked(bus, w) /\ h' = Executed(aged(w))
  /\ UNCHANGED <<model, ieLatch>>

\* With a request pending an armed switch is instantaneous.
StopSwitchNow ==
  /\ at = "exec" /\ model.family = "cgb" /\ pending(bus) # {}
  /\ model' = [model EXCEPT !.double = ~@]
  /\ Finish(cpu)
  /\ h' = Executed(h)
  /\ UNCHANGED <<bus, ieLatch>>

\* Otherwise: the read, the gate, one cycle, and the pause.  Leaving double speed
\* the clock changes before the read, which has a single-speed cycle's dots.
SwitchDown ==
  /\ at = "exec" /\ model.family = "cgb" /\ model.double /\ pending(bus) = {}
  /\ at' = "down"
  /\ model' = [model EXCEPT !.double = FALSE]
  /\ UNCHANGED <<cpu, bus, eiDelay, ieLatch, h>>

\* Entering it the clock changes after the cycle under the gate.
StopSwitch ==
  /\ \/ at = "down" /\ at' = "leave"
     \/ /\ at = "exec" /\ model.family = "cgb" /\ ~model.double /\ pending(bus) = {}
        /\ at' = "enter"
  /\ \E w \in Quiet : bus' = [ticked(bus, w) EXCEPT !.gate = TRUE] /\ h' = aged(w)
  /\ UNCHANGED <<cpu, model, eiDelay, ieLatch>>
StopGated ==
  /\ at \in {"enter", "leave"} /\ at' = "pause"
  /\ \E w \in Quiet : bus' = ticked(bus, w) /\ h' = aged(w)
  /\ model' = [model EXCEPT !.double = (at = "enter")]
  /\ UNCHANGED <<cpu, eiDelay, ieLatch>>
PauseCycle ==
  /\ at = "pause" /\ bus.intf \cap bus.ie = {}
  /\ \E w \in Quiet : bus' = ticked(bus, w) /\ h' = aged(w)
  /\ UNCHANGED <<cpu, model, at, eiDelay, ieLatch>>

\* A request, or the end of its 0x7FFF cycles, ends the pause.  A switch back to
\* single speed then advances the PPU by a few half-dots.
PauseEnds ==
  /\ at = "pause"
  /\ \E src \in SUBSET (IF model.double THEN {} ELSE PpuSource) :
       bus' = [bus EXCEPT !.intf = @ \cup src, !.gate = FALSE]
  /\ Finish(cpu)
  /\ h' = Executed(h)
  /\ UNCHANGED <<model, ieLatch>>
-----------------------------------------------------------------------------
Step ==
  \/ LockedCycle \/ HaltIdle \/ HaltWake \/ StopIdle \/ Fetch
  \/ Dispatch1 \/ Dispatch2 \/ Dispatch3 \/ Dispatch4 \/ HandlerFetch
  \/ RetiCycle \/ RetiEnds \/ StoreIF \/ StoreIE \/ OtherCycle
  \/ StopGated \/ PauseCycle \/ PauseEnds
Execute ==
  \/ Other \/ Ei \/ Di \/ RetiStarts \/ StoreStarts \/ Lock \/ Halt
  \/ StopDeep \/ StopSwitchNow \/ SwitchDown \/ StopSwitch

Next == Step \/ Execute
Spec == Init /\ [][Next]_vars
-----------------------------------------------------------------------------
(* Properties. *)

\* Every field holds a value of its type.
TypeOK ==
  /\ cpu \in Cpu /\ bus \in Bus
  /\ model \in [family : Families, double : BOOLEAN]
  /\ at \in At /\ eiDelay \in BOOLEAN /\ ieLatch \in SUBSET Sources
  /\ h \in History

\* The states of sleep exclude each other, the halt bug and an EI not yet
\* committed (the debug_assert of run_step and the restores of PC rely on it), and
\* only a CPU that is running is in the middle of an instruction.
OneWayToSleep ==
  /\ cpu.halted => ~cpu.stopped /\ ~cpu.bug /\ ~cpu.locked /\ ~cpu.pend
  /\ cpu.stopped => ~cpu.bug /\ ~cpu.locked /\ ~cpu.pend
  /\ cpu.bug => ~cpu.locked /\ ~cpu.ime /\ ~cpu.pend
  /\ cpu.halted \/ cpu.stopped \/ cpu.bug \/ cpu.locked => at = "boundary"

\* After DI, or once an interrupt is being served, no interrupt is taken until the
\* program executes EI or RETI: a pending EI does not survive either.
DiHolds == h.masked /\ at # "disp1" => ~cpu.ime /\ ~cpu.pend

\* The core clock is gated exactly while the CPU has slept a whole M-cycle, or a
\* speed switch pauses it: the OAM DMA freezes neither sooner nor longer.
GateFollowsSleep ==
  bus.gate <=> \/ at \in {"enter", "leave", "pause"}
               \/ at = "boundary" /\ (cpu.halted \/ cpu.stopped) /\ h.idled

\* HALT sleeps on through a pending request for no more M-cycles than second-half
\* commits hide one from its sampler.
HaltEndsPromptly == h.overslept <= MaxLate

\* A request that is raised and not heard is one the program or the CPU has just taken
\* out of IF: the source acknowledged in the last three M-cycles (the third when a STOP
\* switches to double speed meanwhile), or STAT in the M-cycle after a store cleared
\* its bit.  No other source is lost, and neither window outlives that.
OnlyTheClearedIsSquashed ==
  \A s \in h.lost : \/ s = h.accepted /\ h.age <= 3
                    \/ s = STAT /\ h.cleared

\* A dispatch ends without a source, at address 0 with interrupts off, only if its
\* pushes hit IE or IF, if the projected mode-0 flip woke HALT without a request, or
\* if a second-half STAT commit veiled the request it was for.
CancelledOnlyFor == h.cancelled => h.hit \/ h.phantom \/ h.veiled

\* A request leaves IF only by being accepted or by a program's write.
RequestsSurvive ==
  [][\A s \in bus.intf \ bus'.intf :
       \/ at = "disp4" /\ h'.accepted = s /\ h'.age = 0
       \/ at = "writeIF"
       \/ at \in {"disp3", "disp4"} /\ h'.hit]_vars

=============================================================================

------------------------------- MODULE VramDma -------------------------------
(***************************************************************************)
(* VRAM DMA (crates/slopgb-core/src/interconnect/: hdma.rs, tick.rs,       *)
(* speed.rs): the engine that steals the bus from the CPU for blocks of    *)
(* 16 bytes, one per HBlank, or for a whole transfer at once, against the  *)
(* clock gate of HALT and STOP, which defers it.                           *)
(*                                                                         *)
(* A step is one M-cycle (Interconnect::tick_machine) with the access of   *)
(* the CPU that follows it, or a decision between two M-cycles.  The PPU   *)
(* is the position in a line whose mode-0 flip falls where the pixel       *)
(* pipe happens to end.  What is copied is data and left out.              *)
(***************************************************************************)
EXTENDS Integers

CONSTANTS MaxLen,     \* FF55's length runs from 0 to MaxLen (127 in the code)
          DstBlocks,  \* blocks of the destination counter (4096 in the code)
          CopyCycles, \* M-cycles a block takes at normal speed (8)
          LineDots,   \* dots of a line (456)
          Flips,      \* the dots the mode-0 flip of a line may fall on
          MaxOps,     \* bus operations of an instruction after its fetch
          MaxShift    \* dots the speed switches of a run may shift the PPU by

ASSUME DmaAssumption ==
  /\ MaxLen \in Nat /\ MaxOps \in Nat /\ MaxShift \in Nat
  /\ DstBlocks \in Nat \ {0} /\ CopyCycles \in Nat \ {0}
  /\ LineDots \in Nat /\ Flips # {}
  /\ \A f \in Flips : f \in 4..LineDots - 10

VARIABLES ppu, \* where the scan is, and the shift of its frame
          v,   \* the VRAM DMA engine: the registers and the pending request
          svc, \* the service of a request that has the bus
          cpu, \* which bus operation the CPU does next, the gate, the speed
          st,  \* the locals of stop_impl
          h    \* history

vars == <<ppu, v, svc, cpu, st, h>>

NoDebt == -1
Requests == {"none", "hblank", "unhalt", "gdma"}
Modes == {"off", "armedLcdOff", "armedLcdOn"}
HaltHdma == {"low", "high", "requested"}
At == {"fetch", "fetched", "dispatch", "vector", "vectored", "exec", "idle", "sample",
       "woken", "stopIdle", "stopEnter", "pause"}

Ppu == [on : BOOLEAN, visible : BOOLEAN, after : BOOLEAN, dot : 0..LineDots - 1,
        flip : Flips, shift : 0..MaxShift]
Engine == [len : 0..MaxLen, done : BOOLEAN, dst : 0..DstBlocks - 1, mode : Modes,
           req : Requests, halt : HaltHdma, prev : BOOLEAN]
Service == [kind : Requests, copy : Nat, rem : 0..MaxLen + 1]
NoStop == [entering |-> FALSE, req |-> "none"]
NoService == [kind |-> "none", copy |-> 0, rem |-> 0]

\* paid: the blocks the mode-0 entry of this line and a wake in it have asked for.
\* blind: how often a sleep began too late, or a wake came too early, to know of the
\* block of this HBlank.  owed: the blocks the armed transfer has still to copy, NoDebt
\* when the program or the LCD cut it short.  killed: the LCD went off under an armed
\* transfer since FF55 was written.
History == [paid : 0..3, blind : 0..2, owed : NoDebt..MaxLen + 1, killed : BOOLEAN]

Init ==
  /\ ppu \in [on : {TRUE}, visible : BOOLEAN, after : {FALSE}, dot : {0}, flip : Flips,
             shift : {0}]
  /\ v = [len |-> MaxLen, done |-> TRUE, dst |-> 0, mode |-> "off", req |-> "none",
          halt |-> "low", prev |-> FALSE]
  /\ svc = NoService
  /\ cpu = [at |-> "fetch", n |-> 0, gate |-> FALSE, double |-> FALSE, seam |-> TRUE]
  /\ st = NoStop
  /\ h = [paid |-> 0, blind |-> 0, owed |-> NoDebt,
          killed |-> FALSE]
-----------------------------------------------------------------------------
(* The PPU as the engines see it. *)

\* The mode-0 flip leads the pipe's end by three dots, the DMA trigger by one.
hdma_trigger_level(p) == p.on /\ p.visible /\ p.dot >= p.flip + 2
\* hdma_period_law: the window ends three dots before the line, in the frame of a run
\* without speed switches.
hdma_period(p) ==
  hdma_trigger_level(p) /\ p.dot >= p.shift /\ (p.dot - p.shift) + 3 < LineDots
\* The halt's view keeps the window of a visible line open two dots past the wrap.
hdma_period_halt(p) == hdma_period(p) \/ (p.on /\ p.after /\ p.dot < 2)
m0_stat_flip_reached(p) ==
  p.on /\ p.visible /\ p.flip <= p.dot /\ p.dot < p.flip + 4
hdma_block_m_cycle(p) == p.visible /\ p.flip + 5 <= p.dot /\ p.dot < p.flip + 9

\* Where the scan may be some dots later: a new line may be a visible one.
scan(p, dots) ==
  IF ~p.on THEN {p}
  ELSE IF p.dot + dots < LineDots THEN {[p EXCEPT !.dot = @ + dots]}
  ELSE {[on |-> TRUE, visible |-> vis, after |-> p.visible,
         dot |-> p.dot + dots - LineDots, flip |-> f, shift |-> p.shift] : vis \in BOOLEAN, f \in Flips}
Dots == IF cpu.double THEN 2 ELSE 4
\* The HBlank of a line ends two dots into the next.
HBlankOver(p2) == p2.dot >= 2 /\ (ppu.dot < 2 \/ p2.dot < ppu.dot)
-----------------------------------------------------------------------------
(* The VRAM DMA engine. *)

\* The level detector's edge, which flags one block of an armed transfer.
Edge(e, p2) == hdma_trigger_level(p2) /\ ~e.prev /\ e.mode = "armedLcdOn" /\ ~cpu.gate

\* Mutant: the detector flags under the gate as well.
MutFoldedGated(e, p2) ==
  [e EXCEPT !.prev = hdma_trigger_level(p2),
            !.req = IF hdma_trigger_level(p2) /\ ~e.prev /\ e.mode = "armedLcdOn"
                    THEN "hblank" ELSE @]

folded(e, p2) ==
  [e EXCEPT !.prev = hdma_trigger_level(p2),
            !.req = IF Edge(e, p2) THEN "hblank" ELSE @]

\* Mutant: a cancel disarms and leaves the counter active.
MutHdma5CancelsSilently(e, bit7, len) ==
  LET w == [e EXCEPT !.len = len, !.done = FALSE]
  IN IF e.mode # "off" THEN (IF bit7 THEN w ELSE [w EXCEPT !.mode = "off"])
     ELSE IF ~bit7 THEN [w EXCEPT !.req = "gdma"]
     ELSE IF ~ppu'.on THEN [w EXCEPT !.mode = "armedLcdOff", !.req = "hblank"]
     ELSE [w EXCEPT !.mode = "armedLcdOn",
                    !.req = IF hdma_period(ppu') THEN "hblank" ELSE @]

\* hdma5_write.
hdma5_written(e, bit7, len) ==
  LET w == [e EXCEPT !.len = len, !.done = FALSE]
  IN IF e.mode # "off"
     THEN IF bit7 THEN w ELSE [w EXCEPT !.done = TRUE, !.mode = "off"]
     ELSE IF ~bit7 THEN [w EXCEPT !.req = "gdma"]
     ELSE IF ~ppu'.on THEN [w EXCEPT !.mode = "armedLcdOff", !.req = "hblank"]
     ELSE [w EXCEPT !.mode = "armedLcdOn",
                    !.req = IF hdma_period(ppu') THEN "hblank" ELSE @]

\* The LCDC write's side of the engine.
lcd_switched(e, on) ==
  CASE ~on /\ e.mode = "armedLcdOn"  -> [e EXCEPT !.mode = "off", !.req = "hblank"]
    [] on /\ e.mode = "armedLcdOff" -> [e EXCEPT !.mode = "armedLcdOn"]
    [] OTHER -> e

\* run_vram_dma up to its first M-cycle: what is taken, and what is left of it.
Blocks(e) == IF e.req = "gdma" THEN e.len + 1 ELSE 1
Truncated(e) == Blocks(e) >= DstBlocks - e.dst
Taken(e) == IF Truncated(e) THEN DstBlocks - e.dst ELSE Blocks(e)

begun(e) ==
  [e EXCEPT !.req = "none", !.done = @ \/ Truncated(e),
            !.dst = (@ + Taken(e)) % DstBlocks]
service(e) ==
  [kind |-> e.req, copy |-> Taken(e) * CopyCycles * (IF cpu.double THEN 2 ELSE 1),
   rem |-> IF e.req = "gdma" /\ ~ppu'.on THEN 0 ELSE e.len + 1 - Taken(e)]

\* Mutant: the counter holds the blocks left, not one less.
MutFinishedCounts(e, s) ==
  LET c == IF cpu.gate THEN [e EXCEPT !.done = TRUE]
           ELSE [e EXCEPT !.len = IF s.rem > MaxLen THEN MaxLen ELSE s.rem,
                          !.done = @ \/ s.rem = 0]
  IN IF c.done THEN [c EXCEPT !.mode = "off"] ELSE c

\* ... and its end: under the gate the transfer is aborted, its count latched.
finished(e, s) ==
  LET c == IF cpu.gate THEN [e EXCEPT !.done = TRUE]
           ELSE [e EXCEPT !.len = IF s.rem = 0 THEN MaxLen ELSE s.rem - 1,
                          !.done = @ \/ s.rem = 0]
  IN IF c.done THEN [c EXCEPT !.mode = "off"] ELSE c

\* vram_dma_unhalt, with m0 the enabled mode-0 STAT flip of this moment.
WakeFires(e, window, m0) == e.halt = "low" /\ e.mode = "armedLcdOn" /\ (window \/ m0)
vram_dma_unhalt(e, window, m0) ==
  [e EXCEPT !.req = IF e.halt = "requested" THEN "unhalt"
                    ELSE IF WakeFires(e, window, m0) THEN "hblank" ELSE @,
            !.halt = "low"]
FlipSeen(p) == IF m0_stat_flip_reached(p) THEN BOOLEAN ELSE {FALSE}

\* Mutant: a sleep forgets that the window was open.
MutHaltForgetsWindow(e, p) ==
  [e EXCEPT !.req = "none", !.halt = IF e.req # "none" THEN "requested" ELSE "low"]

\* set_cpu_halted(true): the gate engages once, and defers what is pending.
halt_gated(e, p) ==
  [e EXCEPT !.req = "none",
            !.halt = IF e.req # "none" THEN "requested"
                     ELSE IF e.mode = "armedLcdOn" /\ hdma_period_halt(p) THEN "high"
                     ELSE "low"]
-----------------------------------------------------------------------------
(* One M-cycle: Interconnect::tick_machine, stolen or not. *)

HistoryAt(k, p2) == IF HBlankOver(p2) THEN [k EXCEPT !.paid = 0, !.blind = 0] ELSE k

Ticked(p2) ==
  LET line == HistoryAt(h, p2)
  IN [v |-> folded(v, p2),
      h |-> IF Edge(v, p2)
            THEN [line EXCEPT !.paid = @ + 1]
            ELSE line]

\* The block a service takes from the armed transfer.
charged(k, e) ==
  IF e.req = "gdma" THEN k
  ELSE [k EXCEPT !.owed = IF @ > 0 THEN @ - 1 ELSE @]
-----------------------------------------------------------------------------
(* The CPU's M-cycles. *)

\* service_vram_dma: the engine e takes the bus if it may and something is flagged.
Serves(may, e, k) ==
  IF may /\ e.req # "none"
  THEN v' = begun(e) /\ svc' = service(e) /\ h' = charged(k, e)
  ELSE v' = e /\ svc' = NoService /\ h' = k

Idle(at) == svc = NoService /\ cpu.at = at
Goes(at) == cpu' = [cpu EXCEPT !.at = at]

\* A cycle without a read, and one with a read, which yields to the engine unless the
\* block was flagged in this very cycle.
PlainCycle ==
  \E p2 \in scan(ppu, Dots) : LET t == Ticked(p2) IN
    ppu' = p2 /\ Serves(FALSE, t.v, t.h)
ReadCycle ==
  \E p2 \in scan(ppu, Dots) : LET t == Ticked(p2) IN
    ppu' = p2 /\ Serves(~Edge(v, p2), t.v, t.h)

\* The opcode fetch; run_dma follows it (Serve).
Fetch == Idle("fetch") /\ PlainCycle /\ Goes("fetched") /\ UNCHANGED st

Seams == {"fetched", "vectored", "sample", "woken", "pause"}
Serve ==
  /\ svc = NoService /\ cpu.at \in Seams /\ v.req # "none"
  /\ ppu' = ppu /\ Serves(TRUE, v, h)
  /\ UNCHANGED <<cpu, st>>

\* An M-cycle of run_vram_dma: copying, or the teardown, which a deferred block saves.
Steal ==
  /\ svc # NoService
  /\ \E p2 \in scan(ppu, Dots) :
       LET t == Ticked(p2)
           more == svc.copy > 1 \/ (svc.copy = 1 /\ svc.kind # "unhalt")
       IN /\ ppu' = p2
          /\ IF more THEN v' = t.v /\ svc' = [svc EXCEPT !.copy = @ - 1] /\ h' = t.h
             ELSE Serves(cpu.at = "exec", finished(t.v, svc), t.h)
  /\ UNCHANGED <<cpu, st>>

\* An interrupt is dispatched after the fetch, or at a wake: four cycles that do not
\* read, and the fetch from the vector, after which only the first of the two runs the
\* engine once more.
Interrupt ==
  /\ svc = NoService /\ v.req = "none" /\ cpu.at \in {"fetched", "woken"}
  /\ cpu' = [cpu EXCEPT !.at = "dispatch", !.n = 4, !.seam = cpu.at = "fetched"]
  /\ UNCHANGED <<ppu, v, svc, st, h>>

DispatchCycle ==
  /\ Idle("dispatch") /\ PlainCycle
  /\ cpu' = [cpu EXCEPT !.n = @ - 1, !.at = IF cpu.n = 1 THEN "vector" ELSE @]
  /\ UNCHANGED st

FetchVector ==
  /\ Idle("vector")
  /\ ReadCycle
  /\ cpu' = [cpu EXCEPT !.at = IF cpu.seam THEN "vectored" ELSE "exec", !.seam = TRUE]
  /\ UNCHANGED st

Decode ==
  /\ svc = NoService /\ v.req = "none" /\ cpu.at \in {"fetched", "vectored", "woken"}
  /\ Goes("exec")
  /\ UNCHANGED <<ppu, v, svc, st, h>>

\* The operations of an instruction.
Operation ==
  /\ Idle("exec") /\ cpu.n < MaxOps
  /\ cpu' = [cpu EXCEPT !.n = @ + 1]
  /\ UNCHANGED st

Finish ==
  /\ Idle("exec")
  /\ cpu' = [cpu EXCEPT !.at = "fetch", !.n = 0]
  /\ UNCHANGED <<ppu, v, svc, st, h>>

ReadOperand == Operation /\ ReadCycle
OtherCycle == Operation /\ PlainCycle

\* A store ticks first and commits then; only these stores concern the engines.
Store == Operation /\ UNCHANGED svc

WriteHDMA5(bit7, len) ==
  /\ Store
  /\ \E p2 \in scan(ppu, Dots) : LET t == Ticked(p2) IN
       /\ ppu' = p2 /\ v' = hdma5_written(t.v, bit7, len)
       /\ h' = [t.h EXCEPT !.owed = IF bit7 THEN len + 1 ELSE NoDebt, !.killed = FALSE]

WriteHDMA34(d) ==
  /\ Store
  /\ \E p2 \in scan(ppu, Dots) : LET t == Ticked(p2) IN
       ppu' = p2 /\ v' = [t.v EXCEPT !.dst = d] /\ h' = t.h

WriteLCDC ==
  /\ Store
  /\ \E p2 \in scan(ppu, Dots) :
       LET t == Ticked(p2)
           kills == ppu.on /\ t.v.mode = "armedLcdOn"
       IN /\ ppu' = [on |-> ~ppu.on, visible |-> TRUE, after |-> FALSE, dot |-> 0,
                     flip |-> p2.flip, shift |-> p2.shift]
          /\ v' = lcd_switched(t.v, ~ppu.on)
          /\ h' = [t.h EXCEPT !.paid = 0, !.blind = 0,
                              !.killed = @ \/ kills, !.owed = IF kills THEN NoDebt ELSE @]

-----------------------------------------------------------------------------
(* HALT. *)

Halt == Idle("exec") /\ cpu.n = 0 /\ Goes("idle") /\ UNCHANGED <<ppu, v, svc, st, h>>

\* The idle fetch yields to the engine even in the trigger's own cycle (Serve).
HaltIdle == Idle("idle") /\ PlainCycle /\ Goes("sample") /\ UNCHANGED st

\* The history of a sleep and of a wake: a sleep that begins between the two windows
\* does not know that the HBlank has paid, nor does a wake ahead of the trigger.
gapped(k, p) ==
  [k EXCEPT !.blind = IF hdma_trigger_level(p) /\ ~hdma_period(p) THEN @ + 1 ELSE @]
woken(k, e, p, window, m0) ==
  LET fires == WakeFires(e, window, m0)
  IN [k EXCEPT !.paid = IF fires THEN @ + 1 ELSE @,
               !.blind = IF fires /\ ~window /\ ~hdma_trigger_level(p) THEN @ + 1 ELSE @]

Gated(at) ==
  /\ cpu' = [cpu EXCEPT !.at = at, !.gate = TRUE]
  /\ IF cpu.gate THEN UNCHANGED <<v, h>>
     ELSE v' = halt_gated(v, ppu) /\ h' = gapped(h, ppu)

HaltStays ==
  /\ Idle("sample") /\ v.req = "none"
  /\ Gated("idle")
  /\ UNCHANGED <<ppu, svc, st>>

\* The wake releases the gate, and the engine looks at what the sleep deferred.
Ungated(at) ==
  /\ cpu' = [cpu EXCEPT !.at = at, !.gate = FALSE]
  /\ IF ~cpu.gate THEN UNCHANGED <<v, h>>
     ELSE \E m0 \in FlipSeen(ppu) :
            /\ v' = vram_dma_unhalt(v, hdma_period_halt(ppu), m0)
            /\ h' = woken(h, v, ppu, hdma_period_halt(ppu), m0)

HaltWakes ==
  /\ Idle("sample") /\ v.req = "none"
  /\ Ungated("woken")
  /\ UNCHANGED <<ppu, svc, st>>
-----------------------------------------------------------------------------
(* STOP: stop_impl, and the sleep of a STOP that does not switch. *)

\* The snapshot of a pause: a request met by STOP is deferred only when leaving double
\* speed, and the window is the one of before the skipped byte.
paused(e, entering) ==
  [e EXCEPT !.halt = IF v.req # "none" /\ ~entering THEN "requested"
                     ELSE IF v.mode = "armedLcdOn" /\ hdma_period(ppu) THEN "high"
                     ELSE "low"]

\* A STOP that is not interrupted reads the skipped byte first, at the speed it leaves
\* to.  One that switches then gates the core clock; the other keeps the request.
Stop(switching) ==
  /\ Idle("exec") /\ cpu.n = 0
  /\ LET entering == switching /\ ~cpu.double
         double == cpu.double /\ ~switching
     IN \E p2 \in scan(ppu, IF double THEN 2 ELSE 4) :
          LET t == Ticked(p2)
              back == [t.v EXCEPT !.req = IF v.req # "none" THEN v.req ELSE @]
          IN /\ ppu' = p2
             /\ h' = IF switching THEN HistoryAt(h, p2) ELSE t.h
             /\ v' = IF switching THEN paused(t.v, entering) ELSE back
             /\ st' = IF switching THEN [entering |-> entering, req |-> v.req] ELSE st
             /\ cpu' = [cpu EXCEPT !.double = double, !.gate = switching,
                                   !.at = IF switching THEN "stopEnter" ELSE "stopIdle"]
  /\ svc' = svc

\* With an interrupt pending a switch is instantaneous, and a STOP that does not switch
\* wakes as soon as it sleeps.
StopInterrupted(switching) ==
  /\ Idle("exec") /\ cpu.n = 0
  /\ cpu' = [cpu EXCEPT !.double = IF switching THEN ~@ ELSE @,
                        !.at = IF switching THEN "fetch" ELSE "stopIdle"]
  /\ UNCHANGED <<ppu, v, svc, st, h>>

\* The cycle before the pause, at the old speed when entering double speed.  It forgets
\* the edges of these two cycles and aborts a transfer caught in its block's cycle; what
\* STOP met when entering comes back, to be run under the gate (Serve).
StopEnter ==
  /\ Idle("stopEnter")
  /\ \E p2 \in scan(ppu, Dots) :
       LET t == Ticked(p2)
           aborts == st.entering /\ t.v.mode = "armedLcdOn" /\ hdma_period(p2)
                     /\ hdma_block_m_cycle(p2)
       IN /\ ppu' = p2 /\ h' = t.h
          /\ v' = [t.v EXCEPT !.req = IF st.entering THEN st.req ELSE "none",
                              !.done = @ \/ aborts,
                              !.mode = IF aborts THEN "off" ELSE @]
  /\ cpu' = [cpu EXCEPT !.double = @ \/ st.entering, !.at = "pause"]
  /\ UNCHANGED <<svc, st>>

\* The pause lasts as long as it likes: a request of an interrupt ends it early.
PauseCycle == Idle("pause") /\ v.req = "none" /\ PlainCycle /\ UNCHANGED <<cpu, st>>

\* Leaving double speed the PPU gains k half-dots.  Its wake takes
\* the window of the law, without the two dots past the wrap.
PauseEnds ==
  /\ Idle("pause") /\ v.req = "none"
  /\ \E k \in IF st.entering THEN {0} ELSE {2, 6} :
     \E p2 \in scan(ppu, k \div 2) : \E m0 \in FlipSeen(p2) :
       LET e == folded(v, p2)
           line == HistoryAt(h, p2)
           shifted == [p2 EXCEPT !.shift = @ + (k \div 2)]
           window == hdma_period(shifted)
       IN /\ shifted.shift <= MaxShift
          /\ ppu' = shifted
          /\ v' = vram_dma_unhalt(e, window, m0)
          /\ h' = woken(line, e, shifted, window, m0)
  /\ cpu' = [cpu EXCEPT !.gate = FALSE, !.at = "fetch"]
  /\ st' = NoStop
  /\ UNCHANGED svc

\* The sleep of a STOP that does not switch is sampled between steps, and its wake does
\* not serve before the fetch.
StopSleeps ==
  /\ Idle("stopIdle")
  /\ \E p2 \in scan(ppu, Dots) : LET t == Ticked(p2) IN
       /\ ppu' = p2
       /\ v' = IF cpu.gate THEN t.v ELSE halt_gated(t.v, p2)
       /\ h' = IF cpu.gate THEN t.h ELSE gapped(t.h, p2)
  /\ cpu' = [cpu EXCEPT !.gate = TRUE]
  /\ UNCHANGED <<svc, st>>

StopWakes == Idle("stopIdle") /\ Ungated("fetch") /\ UNCHANGED <<ppu, svc, st>>
-----------------------------------------------------------------------------
Next ==
  \/ Fetch \/ Serve \/ Steal
  \/ Interrupt \/ DispatchCycle \/ FetchVector \/ Decode
  \/ ReadOperand \/ OtherCycle \/ Finish
  \/ \E bit7 \in BOOLEAN, len \in 0..MaxLen : WriteHDMA5(bit7, len)
  \/ \E d \in 0..DstBlocks - 1 : WriteHDMA34(d)
  \/ WriteLCDC
  \/ Halt \/ HaltIdle \/ HaltStays \/ HaltWakes
  \/ \E switching \in BOOLEAN : Stop(switching) \/ StopInterrupted(switching)
  \/ StopEnter \/ PauseCycle \/ PauseEnds \/ StopSleeps \/ StopWakes

Spec == Init /\ [][Next]_vars
-----------------------------------------------------------------------------
\* Every register keeps its width: FF55 seven bits, the destination counter sixteen, and
\* the program meets no more than three requests in an HBlank.
TypeOK ==
  /\ ppu \in Ppu /\ v \in Engine /\ svc \in Service
  /\ cpu \in [at : At, n : 0..MaxOps + 4, gate : BOOLEAN, double : BOOLEAN,
              seam : BOOLEAN]
  /\ st \in [entering : BOOLEAN, req : Requests]
  /\ h \in History

\* Between two services FF55 and the engine agree (hdma.rs:51-117, memory.rs:459): an
\* armed engine reads active, and a counter that reads active without an arming is a
\* transfer requested in this moment or one the LCD took the arming from.
ActiveMeansArmed ==
  svc = NoService =>
    /\ v.mode # "off" => ~v.done
    /\ ~v.done /\ v.mode = "off" => v.req = "gdma" \/ h.killed

\* Between two blocks FF55 holds, less one, the blocks that the program asked for and has
\* not got, whatever sleeps, switches and cancels came between (hdma.rs:67, 110).
LengthIsWhatIsOwed ==
  v.mode # "off" /\ svc = NoService /\ h.owed # NoDebt => h.owed = v.len + 1

\* However often the CPU sleeps and wakes in an HBlank, it pays for one block (the halt_hdma
\* memory, hdma.rs:121-155), unless a sleep began in the last dots of a line, which belong
\* to neither window, or a wake came between the mode-0 flip and the trigger: each of the
\* two costs at most one block more.
OneBlockPerHBlank == h.paid <= 1 + h.blind

\* A sleep defers the engine and never runs it (tick.rs:188-195, 233-247, speed.rs:246):
\* under the gate a block is pending or served only around the pause that enters double
\* speed, and what a sleep deferred is forgotten when it ends.
SleepDefers ==
  /\ cpu.gate /\ cpu.at \notin {"stopEnter", "pause"} => v.req = "none" /\ svc = NoService
  /\ cpu.gate /\ svc # NoService => st.entering
  /\ v.halt # "low" => cpu.gate
=============================================================================

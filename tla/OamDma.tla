-------------------------------- MODULE OamDma --------------------------------
(***************************************************************************)
(* The OAM DMA controller (crates/slopgb-core/src/interconnect/oam_dma.rs) *)
(* beside everything that runs or stops its clock: the M-cycles of the     *)
(* CPU, the gate of HALT and STOP with its two ways out (tick.rs:225-293,  *)
(* speed.rs:246, 375), the M-cycles VRAM DMA steals (hdma.rs:75-100) and   *)
(* writes to FF46 in the middle of a transfer (memory.rs:428).             *)
(*                                                                         *)
(* A byte of OAM is named by the source page it was copied from.  A step   *)
(* is one M-cycle, in which the controller comes before the dots of the    *)
(* PPU, or a decision between two.                                         *)
(***************************************************************************)
EXTENDS Integers

CONSTANTS OamBytes, \* bytes of a transfer (160)
          Pages,    \* the source pages the program writes to FF46
          Other     \* what else an OAM byte may hold

ASSUME OamAssumption == OamBytes \in Nat \ {0, 1} /\ Other \notin Pages

VARIABLES dma,  \* the controller
          oam,  \* where each byte of OAM was copied from
          gate, \* what gates the core clock, and whether a cycle has passed since
          seen  \* history

oamVars == <<dma, oam, gate, seen>>

None == -1
Index == 0..OamBytes - 1
Bytes == Pages \union {Other}

\* run: the byte to copy next.  start: the cycles before a new transfer replaces the old
\* one.  pending, byte: the copy staged to land with the next cycle.  src: the page both
\* transfers read.  owned: run as of the last cycle.  active: what the dots of the PPU see.
Controller == [run : Index \union {None}, start : {None, 0, 1},
               pending : Index \union {None}, byte : Bytes, src : Bytes,
               owned : BOOLEAN, active : BOOLEAN]
Gates == [by : {"none", "halt", "stop", "pause"}, slept : BOOLEAN]
Open == [by |-> "none", slept |-> FALSE]

\* age: clocks of the controller since FF46 was written, up to the end of the transfer.
\* clean: VRAM DMA took none of the cycles since its first byte.  fresh: OAM changed
\* after the dots of the last cycle.  torn: the last dots saw an OAM not theirs.  rash: a
\* STOP woke before a cycle had passed in its sleep, and no dots were drawn since.
OamHistory == [age : 0..OamBytes + 1, clean : BOOLEAN, fresh : BOOLEAN, torn : BOOLEAN,
            rash : BOOLEAN]

OamInit ==
  /\ dma = [run |-> None, start |-> None, pending |-> None, byte |-> Other, src |-> Other,
          owned |-> FALSE, active |-> FALSE]
  /\ oam = [i \in Index |-> Other]
  /\ gate = Open
  /\ seen = [age |-> OamBytes + 1, clean |-> FALSE, fresh |-> FALSE, torn |-> FALSE,
          rash |-> FALSE]
-----------------------------------------------------------------------------

\* The position after byte i.
stepped(i) == IF i < OamBytes - 1 THEN i + 1 ELSE None

\* Mutant: the delay is a cycle short.
MutPromoteEarly(d) ==
  IF d.start # None THEN [d EXCEPT !.start = None, !.run = 0] ELSE d

\* The old transfer keeps copying through the delay of the new one.
oam_dma_promote_start(d) ==
  CASE d.start = 0 -> [d EXCEPT !.start = None, !.run = 0]
    [] d.start = 1 -> [d EXCEPT !.start = 0]
    [] OTHER -> d

\* oam_dma_commit_pending: the staged byte lands.
committed(d) == IF d.pending = None THEN oam ELSE [oam EXCEPT ![d.pending] = d.byte]

\* Mutant: OAM is disconnected only for the cycles that copy.
MutHeldOnlyRunning(d) ==
  [d EXCEPT !.pending = None, !.byte = Other, !.owned = d.run # None,
            !.active = d.run # None]

\* The PPU's hold on OAM trails the controller by a cycle at both ends, frozen or not.
held(d) ==
  [d EXCEPT !.pending = None, !.byte = Other, !.owned = d.run # None,
            !.active = d.run # None \/ d.owned]

\* A clock of its own: the byte is read now, and lands with the next cycle.
staged(d) ==
  IF d.run = None THEN d
  ELSE [d EXCEPT !.pending = d.run, !.byte = d.src, !.run = stepped(d.run)]

\* A clock during a theft moves the position and reads nothing.
skipped(d) == [d EXCEPT !.run = IF @ = None THEN None ELSE stepped(@)]

oam_dma_tick(d, frozen) ==
  IF frozen THEN held(d) ELSE staged(oam_dma_promote_start(held(d)))

\* The history of a clock, and of the dots that follow the controller in a cycle.
aged(k) == [k EXCEPT !.age = IF @ = OamBytes + 1 THEN @ ELSE @ + 1]
drawn(k, landed, active) ==
  [k EXCEPT !.fresh = FALSE, !.rash = FALSE,
            !.torn = (k.fresh \/ landed) /\ ~active /\ ~k.rash]
-----------------------------------------------------------------------------
\* An M-cycle, gated or not.
ClockGated == gate.by # "none"

Cycle ==
  /\ dma' = oam_dma_tick(dma, ClockGated)
  /\ oam' = committed(dma)
  /\ gate' = [gate EXCEPT !.slept = ClockGated]
  /\ seen' = drawn(IF ClockGated THEN seen ELSE aged(seen), dma.pending # None, dma'.active)

\* A cycle of a store, which commits after the dots: a transfer under way reads the new
\* page at once, until the new one replaces it.
WriteDMA(page) ==
  /\ ~ClockGated
  /\ LET d == oam_dma_tick(dma, FALSE)
     IN /\ dma' = [d EXCEPT !.start = 1, !.src = page]
        /\ oam' = committed(dma)
        /\ seen' = [drawn(seen, dma.pending # None, d.active) EXCEPT !.age = 0, !.clean = TRUE]
  /\ UNCHANGED gate

\* A cycle VRAM DMA steals to copy: what it drives on the bus lands in the OAM byte that
\* its source address names, or outside OAM.  Under the gate it steals in a pause only.
StolenCycle(p) ==
  /\ gate.by \in {"none", "pause"}
  /\ LET d == oam_dma_tick(dma, TRUE)
         on == oam_dma_promote_start(d)
         captures == ~ClockGated /\ on.run # None
         k == IF ClockGated THEN seen ELSE aged(seen)
     IN /\ dma' = IF ClockGated THEN d ELSE skipped(on)
        /\ oam' = IF captures /\ p # None THEN [committed(dma) EXCEPT ![p] = Other]
                  ELSE committed(dma)
        /\ seen' = [drawn(k, dma.pending # None, d.active) EXCEPT
                   !.clean = @ /\ ~(captures /\ k.age >= 2),
                   !.fresh = captures /\ p # None]
  /\ gate' = [gate EXCEPT !.slept = ClockGated]

\* set_cpu_halted and the pause of a speed switch engage the gate between two cycles.
Gate(by) ==
  /\ ~ClockGated
  /\ gate' = [by |-> by, slept |-> FALSE]
  /\ UNCHANGED <<dma, oam, seen>>

\* Mutant: the catch-up forgets the byte it staged.
MutWakeDrops ==
  /\ gate.by \in {"halt", "stop"} /\ (gate.by = "halt" => gate.slept) /\ gate' = Open
  /\ LET d == oam_dma_tick(dma, FALSE)
     IN dma' = [d EXCEPT !.pending = None, !.byte = Other] /\ oam' = committed(dma)
  /\ seen' = [aged(seen) EXCEPT !.fresh = @ \/ dma.pending # None, !.rash = ~gate.slept]

\* A wake clocks the controller once ahead of the CPU, and lands that byte at once.  HALT
\* idles a cycle before it wakes; STOP looks for a wake between two steps.
Wake ==
  /\ gate.by \in {"halt", "stop"} /\ (gate.by = "halt" => gate.slept) /\ gate' = Open
  /\ LET d == oam_dma_tick(dma, FALSE)
         landed == committed(dma)
     IN /\ dma' = [d EXCEPT !.pending = None, !.byte = Other]
        /\ oam' = IF d.pending = None THEN landed ELSE [landed EXCEPT ![d.pending] = d.byte]
        /\ seen' = [aged(seen) EXCEPT !.fresh = @ \/ dma.pending # None \/ d.pending # None,
                                !.rash = ~gate.slept]

\* The pause goes without.
PauseOver ==
  gate.by = "pause" /\ gate.slept /\ gate' = Open /\ UNCHANGED <<dma, oam, seen>>

OamNext ==
  \/ Cycle
  \/ \E page \in Pages : WriteDMA(page)
  \/ \E p \in Index \union {None} : StolenCycle(p)
  \/ \E by \in {"halt", "stop", "pause"} : Gate(by)
  \/ Wake \/ PauseOver

OamSpec == OamInit /\ [][OamNext]_oamVars
-----------------------------------------------------------------------------
\* Every field keeps its type: no position runs past the last byte (oam_dma.rs:73).
OamTypeOK ==
  /\ dma \in Controller /\ oam \in [Index -> Bytes] /\ gate \in Gates /\ seen \in OamHistory

\* A transfer takes two cycles of delay and one for each byte, counted in clocks of the
\* controller alone: no restart, theft, sleep or wake makes it skip a step or take one
\* twice (oam_dma.rs:56-89, tick.rs:249-273).
OnSchedule ==
  IF seen.age < 2 THEN dma.start = 1 - seen.age
  ELSE /\ dma.start = None
       /\ dma.run = IF seen.age - 1 < OamBytes THEN seen.age - 1 ELSE None

\* What the running transfer has copied is in OAM, from its page and nowhere else, but
\* for the byte in flight, unless VRAM DMA took a cycle of it (oam_dma.rs:13-22, 57-68).
CopiedIsInOam ==
  seen.age >= 2 /\ seen.clean =>
    \A i \in 0..seen.age - 2 :
      IF i = dma.pending THEN dma.byte = dma.src ELSE oam[i] = dma.src

\* The PPU never draws from an OAM that the controller changed since the dots before,
\* except through the disconnected view (oam_dma.rs:27-44): the hold trails the
\* controller by a cycle at both ends, freezes with it and outlasts its last byte.  A
\* STOP that wakes at once is the exception: its catch-up clock has no dots.
NeverTorn == ~seen.torn
=============================================================================

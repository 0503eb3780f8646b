------------------------------ MODULE DmaProofs ------------------------------
(***************************************************************************)
(* Proofs about the two engines that copy behind the CPU: OamDma and       *)
(* VramDma.                                                                *)
(*                                                                         *)
(* OamDma, for transfers of any length, any set of pages and every         *)
(* interleaving with the gate and the thefts.                              *)
(*                                                                         *)
(* VramDma, for every length, destination counter, line and position of    *)
(* the mode-0 flip.  The first part follows the request, and where the     *)
(* scan is plays no part in it: a request of a whole transfer is only      *)
(* pending from its store to the next fetch, so no sleep and no STOP meets *)
(* one; a block in service leaves FF55 as the program will read it; and    *)
(* the gate keeps requests out but for the pause of a speed switch.  The   *)
(* second part follows the scan through an HBlank and the two dots of it   *)
(* past the wrap, for the blocks the HBlank has paid for.                  *)
(***************************************************************************)
EXTENDS OamDma, VramDma, TLAPS

(* The OAM DMA controller. *)

\* The byte in flight is the one before the position; a sleep that has begun has landed
\* it; and while OAM has just changed or is about to, the next dots are disconnected.
InFlight == seen.age >= 2 => dma.pending \in {None, seen.age - 2}
SleepLanded ==
  /\ gate.slept => ClockGated /\ dma.pending = None /\ ~seen.fresh
  /\ seen.rash => ~gate.slept
HoldCovers ==
  (seen.fresh \/ dma.pending # None) /\ ~seen.rash => dma.run # None \/ dma.owned

OamInv ==
  /\ OamTypeOK /\ OnSchedule /\ CopiedIsInOam /\ NeverTorn
  /\ InFlight /\ SleepLanded /\ HoldCovers

\* Power-on: no transfer, no debt.
LEMMA InitInv == OamInit => OamInv
BY OamAssumption DEF OamInit, OamInv, OamTypeOK, OnSchedule, CopiedIsInOam, NeverTorn, InFlight,
   SleepLanded, HoldCovers, Controller, Index, None, Bytes, Gates, Open, OamHistory

-----------------------------------------------------------------------------
(* The controller's operators. *)

\* A position moves to the next byte or, after the last, to none.
LEMMA SteppedType ==
  ASSUME NEW i \in Index
  PROVE  /\ stepped(i) \in Index \union {None}
         /\ stepped(i) = IF i + 1 < OamBytes THEN i + 1 ELSE None
BY OamAssumption DEF stepped, Index, None

\* A transfer has at least two bytes.
LEMMA SecondByte == stepped(0) = 1 /\ 1 # None
BY SteppedType, OamAssumption DEF Index, None

\* None is not a position.
LEMMA NoneIsNoIndex == None \notin Index
BY DEF None, Index

\* A restart replaces the running transfer in the cycle its delay ends, and not before.
LEMMA Promotion ==
  ASSUME NEW d \in Controller
  PROVE  LET on == oam_dma_promote_start(d)
         IN /\ on \in Controller
            /\ on.run = IF d.start = 0 THEN 0 ELSE d.run
            /\ on.start = IF d.start = 1 THEN 0 ELSE None
            /\ on.src = d.src /\ on.pending = d.pending /\ on.owned = d.owned
            /\ on.active = d.active
<1>1. 0 \in Index
  BY OamAssumption DEF Index
<1>2. CASE d.start = 0
  <2>1. oam_dma_promote_start(d) = [d EXCEPT !.start = None, !.run = 0]
    BY <1>2 DEF oam_dma_promote_start
  <2> DEFINE on == oam_dma_promote_start(d)
  <2>2. on.run = 0 /\ on.start = None
    BY <2>1 DEF Controller
  <2>3. /\ on \in Controller
        /\ on.src = d.src /\ on.pending = d.pending /\ on.owned = d.owned
        /\ on.active = d.active
    BY <1>1, <2>1 DEF Controller
  <2> QED BY <1>2, <2>2, <2>3 DEF None
<1>3. CASE d.start = 1
  BY <1>3 DEF oam_dma_promote_start, Controller, None
<1>4. CASE d.start = None
  BY <1>4 DEF oam_dma_promote_start, Controller, None
<1> QED BY <1>2, <1>3, <1>4 DEF Controller

\* A clock of its own, as the schedule sees it.
LEMMA TickRun ==
  ASSUME NEW d \in Controller
  PROVE  LET e == oam_dma_tick(d, FALSE)
             first == IF d.start = 0 THEN 0 ELSE d.run
         IN /\ e \in Controller
            /\ e.start = IF d.start = 1 THEN 0 ELSE None
            /\ e.run = IF first = None THEN None ELSE stepped(first)
            /\ e.pending = first
            /\ first # None => e.byte = d.src
            /\ e.src = d.src
            /\ e.owned = (d.run # None)
            /\ e.active = (d.run # None \/ d.owned)
<1> DEFINE on == oam_dma_promote_start(held(d))
<1>1. held(d) \in Controller
  BY DEF held, Controller, Bytes, None
<1>2. /\ on \in Controller
      /\ on.run = IF d.start = 0 THEN 0 ELSE d.run
      /\ on.start = IF d.start = 1 THEN 0 ELSE None
      /\ on.src = d.src /\ on.pending = None /\ on.owned = (d.run # None)
      /\ on.active = (d.run # None \/ d.owned)
  <2>1. /\ held(d).start = d.start /\ held(d).run = d.run /\ held(d).src = d.src
        /\ held(d).pending = None /\ held(d).owned = (d.run # None)
        /\ held(d).active = (d.run # None \/ d.owned)
    BY DEF held, Controller
  <2> QED BY <1>1, <2>1, Promotion
<1>3. CASE on.run = None
  BY <1>2, <1>3 DEF oam_dma_tick, staged
<1>4. CASE on.run # None
  <2>1. on.run \in Index /\ stepped(on.run) \in Index \union {None}
    BY <1>2, <1>4, SteppedType DEF Controller
  <2>2. oam_dma_tick(d, FALSE)
          = [on EXCEPT !.pending = on.run, !.byte = on.src, !.run = stepped(on.run)]
    BY <1>4 DEF oam_dma_tick, staged
  <2> DEFINE e == oam_dma_tick(d, FALSE)
  <2>3. /\ e \in Controller
        /\ e.start = on.start /\ e.run = stepped(on.run) /\ e.pending = on.run
        /\ e.byte = on.src /\ e.src = on.src /\ e.owned = on.owned /\ e.active = on.active
    <3> HIDE DEF on
    <3> QED BY <1>2, <2>1, <2>2 DEF Controller
  <2> HIDE DEF e
  <2> QED BY <1>2, <1>4, <2>3 DEF on, e
<1> QED BY <1>3, <1>4

\* Under the gate the controller lands its staged byte and moves no further.
LEMMA HeldRun ==
  ASSUME NEW d \in Controller
  PROVE  LET e == oam_dma_tick(d, TRUE)
         IN /\ e \in Controller
            /\ e.start = d.start /\ e.run = d.run /\ e.src = d.src
            /\ e.pending = None
            /\ e.owned = (d.run # None)
            /\ e.active = (d.run # None \/ d.owned)
BY DEF oam_dma_tick, held, Controller, Bytes, None

\* A clock in a stolen cycle.
LEMMA SkipRun ==
  ASSUME NEW d \in Controller
  PROVE  LET on == oam_dma_promote_start(oam_dma_tick(d, TRUE))
             e == skipped(on)
             first == IF d.start = 0 THEN 0 ELSE d.run
         IN /\ e \in Controller
            /\ on.run = first
            /\ e.start = IF d.start = 1 THEN 0 ELSE None
            /\ e.run = IF first = None THEN None ELSE stepped(first)
            /\ e.pending = None
            /\ e.src = d.src
            /\ e.owned = (d.run # None)
<1> DEFINE t == oam_dma_tick(d, TRUE)
           on == oam_dma_promote_start(t)
<1>1. /\ t \in Controller /\ t.start = d.start /\ t.run = d.run /\ t.src = d.src
      /\ t.pending = None /\ t.owned = (d.run # None)
  BY HeldRun
<1>2. /\ on \in Controller
      /\ on.run = IF d.start = 0 THEN 0 ELSE d.run
      /\ on.start = IF d.start = 1 THEN 0 ELSE None
      /\ on.src = d.src /\ on.pending = None /\ on.owned = (d.run # None)
  <2> HIDE DEF t
  <2> QED BY <1>1, Promotion
<1>3. on.run # None => on.run \in Index /\ stepped(on.run) \in Index \union {None}
  BY <1>2, SteppedType DEF Controller
<1> HIDE DEF on
<1>4. /\ skipped(on) \in Controller
      /\ skipped(on).run = IF on.run = None THEN None ELSE stepped(on.run)
      /\ skipped(on).start = on.start /\ skipped(on).pending = None
      /\ skipped(on).src = on.src /\ skipped(on).owned = on.owned
  BY <1>2, <1>3 DEF skipped, Controller, None
<1> QED BY <1>2, <1>4 DEF on, t
-----------------------------------------------------------------------------
(* OAM. *)

\* The staged byte is all that a cycle changes in OAM.
LEMMA CommittedIs ==
  ASSUME OamTypeOK
  PROVE  /\ committed(dma) \in [Index -> Bytes]
         /\ \A i \in Index :
              committed(dma)[i] = IF i = dma.pending THEN dma.byte ELSE oam[i]
<1>1. dma.pending \in Index \union {None} /\ dma.byte \in Bytes /\ oam \in [Index -> Bytes]
  BY DEF OamTypeOK, Controller
<1> QED BY <1>1, NoneIsNoIndex DEF committed

\* The clocks since FF46 was written.
LEMMA AgedIs ==
  ASSUME NEW k \in OamHistory
  PROVE  /\ aged(k) \in OamHistory
         /\ aged(k).age = IF k.age = OamBytes + 1 THEN k.age ELSE k.age + 1
         /\ aged(k).clean = k.clean /\ aged(k).fresh = k.fresh
         /\ aged(k).torn = k.torn /\ aged(k).rash = k.rash
BY OamAssumption DEF aged, OamHistory

\* Drawing leaves the age and the clean mark of the history alone, and nothing fresh.
LEMMA DrawnIs ==
  ASSUME NEW k \in OamHistory, NEW landed \in BOOLEAN, NEW active \in BOOLEAN
  PROVE  /\ drawn(k, landed, active) \in OamHistory
         /\ drawn(k, landed, active).age = k.age
         /\ drawn(k, landed, active).clean = k.clean
         /\ ~drawn(k, landed, active).fresh
         /\ ~drawn(k, landed, active).rash
         /\ drawn(k, landed, active).torn <=> (k.fresh \/ landed) /\ ~active /\ ~k.rash
BY DEF drawn, OamHistory

\* A clock moves the schedule by one: the position it leaves is the one the age names,
\* and the byte it took up is the one before.
LEMMA ScheduleMoves ==
  ASSUME OamTypeOK, OnSchedule, NEW age \in Nat,
         age = IF seen.age = OamBytes + 1 THEN seen.age ELSE seen.age + 1,
         NEW first, first = IF dma.start = 0 THEN 0 ELSE dma.run,
         NEW start, start = IF dma.start = 1 THEN 0 ELSE None,
         NEW run, run = IF first = None THEN None ELSE stepped(first)
  PROVE  /\ IF age < 2 THEN start = 1 - age
            ELSE start = None /\ run = IF age - 1 < OamBytes THEN age - 1 ELSE None
         /\ age >= 2 => first = IF seen.age = OamBytes + 1 THEN None ELSE age - 2
         /\ age \in 0..OamBytes + 1
<1>1. seen.age \in 0..OamBytes + 1 /\ OamBytes \in Nat /\ OamBytes >= 2
  BY OamAssumption DEF OamTypeOK, OamHistory
<1>2. CASE seen.age = 0
  BY <1>1, <1>2 DEF OnSchedule, None
<1>3. CASE seen.age = 1
  <2>1. dma.start = 0 /\ first = 0 /\ start = None /\ age = 2
    BY <1>1, <1>3 DEF OnSchedule, None
  <2>2. run = 1
    BY <1>1, <2>1, SteppedType DEF Index, None
  <2> QED BY <1>1, <1>3, <2>1, <2>2 DEF None
<1>4. CASE seen.age = OamBytes + 1
  <2>1. dma.start = None /\ dma.run = None /\ first = None /\ age = OamBytes + 1
    BY <1>1, <1>4 DEF OnSchedule, None
  <2> QED BY <1>1, <1>4, <2>1 DEF None
<1>5. CASE seen.age >= 2 /\ seen.age < OamBytes + 1
  <2>1. /\ dma.start = None /\ dma.run = seen.age - 1 /\ first = seen.age - 1
        /\ age = seen.age + 1 /\ first \in Index
    BY <1>1, <1>5 DEF OnSchedule, None, Index
  <2>2. run = IF seen.age < OamBytes THEN seen.age ELSE None
    BY <1>1, <1>5, <2>1, SteppedType DEF Index, None
  <2> QED BY <1>1, <1>5, <2>1, <2>2 DEF None
<1> QED BY <1>1, <1>2, <1>3, <1>4, <1>5
-----------------------------------------------------------------------------
(* Every step preserves the invariant. *)

\* What a clock copies: of the bytes the new age counts, all but the one in flight are
\* in OAM once the last staged byte has landed.
LEMMA ClockCopies ==
  ASSUME OamInv, NEW age \in Nat,
         age = IF seen.age = OamBytes + 1 THEN seen.age ELSE seen.age + 1,
         NEW first, first = IF dma.start = 0 THEN 0 ELSE dma.run,
         age >= 2, seen.clean
  PROVE  /\ first \in {None, age - 2}
         /\ \A i \in 0..age - 2 : i = first \/ committed(dma)[i] = dma.src
<1>1. seen.age \in 0..OamBytes + 1 /\ OamBytes \in Nat /\ OamBytes >= 2
  BY OamAssumption DEF OamInv, OamTypeOK, OamHistory
<1>2. \A i \in Index : committed(dma)[i] = IF i = dma.pending THEN dma.byte ELSE oam[i]
  BY CommittedIs DEF OamInv
<1>3. seen.age >= 2 => \A i \in 0..seen.age - 2 : committed(dma)[i] = dma.src
  BY <1>1, <1>2 DEF OamInv, CopiedIsInOam, Index
<1>4. first = IF seen.age = OamBytes + 1 THEN None ELSE age - 2
  BY ScheduleMoves DEF OamInv
<1>5. CASE seen.age = OamBytes + 1
  BY <1>1, <1>3, <1>4, <1>5
<1>6. CASE seen.age < OamBytes + 1
  <2>1. age = seen.age + 1 /\ first = seen.age - 1
    BY <1>1, <1>4, <1>6
  <2>2. \A i \in 0..age - 2 : i # first => seen.age >= 2 /\ i \in 0..seen.age - 2
    BY <1>1, <2>1
  <2> QED BY <1>1, <1>3, <2>1, <2>2
<1> QED BY <1>1, <1>5, <1>6

\* An M-cycle of the CPU.
LEMMA CycleInv == OamInv /\ Cycle => OamInv'
<1> SUFFICES ASSUME OamInv, Cycle PROVE OamInv'
  OBVIOUS
<1> DEFINE k == IF ClockGated THEN seen ELSE aged(seen)
           d == oam_dma_tick(dma, ClockGated)
           first == IF dma.start = 0 THEN 0 ELSE dma.run
<1>1. /\ dma \in Controller /\ seen \in OamHistory /\ oam \in [Index -> Bytes] /\ gate \in Gates
      /\ ClockGated \in BOOLEAN /\ gate.slept \in BOOLEAN
      /\ seen.age \in 0..OamBytes + 1 /\ OamBytes \in Nat /\ OamBytes >= 2
  BY OamAssumption DEF OamInv, OamTypeOK, OamHistory, ClockGated, Gates
<1>2. /\ dma' = d /\ oam' = committed(dma) /\ gate' = [gate EXCEPT !.slept = ClockGated]
      /\ seen' = drawn(k, dma.pending # None, dma'.active)
  BY DEF Cycle
<1>3. /\ k \in OamHistory /\ k.clean = seen.clean /\ k.fresh = seen.fresh /\ k.rash = seen.rash
      /\ k.age = IF ClockGated \/ seen.age = OamBytes + 1 THEN seen.age ELSE seen.age + 1
  BY <1>1, AgedIs
<1>4. /\ dma' \in Controller /\ dma'.active = (dma.run # None \/ dma.owned)
      /\ dma'.owned = (dma.run # None)
  <2>1. CASE ClockGated
    BY <1>1, <1>2, <2>1, HeldRun
  <2>2. CASE ~ClockGated
    BY <1>1, <1>2, <2>2, TickRun
  <2> QED BY <2>1, <2>2
<1>5. /\ seen' \in OamHistory /\ seen'.age = k.age /\ seen'.clean = seen.clean
      /\ ~seen'.fresh /\ ~seen'.rash
      /\ seen'.torn <=> (seen.fresh \/ dma.pending # None) /\ ~dma'.active /\ ~seen.rash
  <2> DEFINE landed == dma.pending # None
             active == dma'.active
  <2>1. landed \in BOOLEAN /\ active \in BOOLEAN
    BY <1>4 DEF Controller
  <2>2. seen' = drawn(k, landed, active)
    BY <1>2
  <2> HIDE DEF k, landed, active
  <2>3. /\ seen' \in OamHistory /\ seen'.age = k.age /\ seen'.clean = k.clean
        /\ ~seen'.fresh /\ ~seen'.rash
        /\ seen'.torn <=> (k.fresh \/ landed) /\ ~active /\ ~k.rash
    BY <1>3, <2>1, <2>2, DrawnIs
  <2> QED BY <1>3, <2>3 DEF landed, active
<1>6. OamTypeOK'
  BY <1>1, <1>2, <1>4, <1>5, CommittedIs DEF OamInv, OamTypeOK, Gates
<1>7. NeverTorn'
  BY <1>4, <1>5 DEF OamInv, HoldCovers, NeverTorn
<1>8. gate'.slept = ClockGated /\ ClockGated' = ClockGated
  BY <1>1, <1>2 DEF Gates, ClockGated
<1>9. CASE ClockGated
  <2>1. /\ dma'.start = dma.start /\ dma'.run = dma.run /\ dma'.src = dma.src /\ dma'.pending = None
        /\ seen'.age = seen.age
    BY <1>1, <1>2, <1>3, <1>5, <1>9, HeldRun
  <2>2. OnSchedule'
    BY <2>1 DEF OamInv, OnSchedule
  <2>3. CopiedIsInOam'
    <3> SUFFICES ASSUME seen.age >= 2, seen.clean, NEW i \in 0..seen.age - 2
                 PROVE  oam'[i] = dma.src
      BY <1>1, <1>5, <2>1 DEF CopiedIsInOam, None
    <3>1. i \in Index
      BY <1>1 DEF Index
    <3> QED BY <1>2, <3>1, CommittedIs DEF OamInv, CopiedIsInOam
  <2>4. InFlight' /\ SleepLanded' /\ HoldCovers'
    BY <1>5, <1>8, <1>9, <2>1 DEF InFlight, SleepLanded, HoldCovers
  <2> QED BY <1>6, <1>7, <2>2, <2>3, <2>4 DEF OamInv
<1>10. CASE ~ClockGated
  <2>1. /\ dma'.start = IF dma.start = 1 THEN 0 ELSE None
        /\ dma'.run = IF first = None THEN None ELSE stepped(first)
        /\ dma'.pending = first /\ (first # None => dma'.byte = dma.src) /\ dma'.src = dma.src
    BY <1>1, <1>2, <1>10, TickRun
  <2>2. /\ seen'.age \in Nat
        /\ seen'.age = IF seen.age = OamBytes + 1 THEN seen.age ELSE seen.age + 1
    BY <1>1, <1>3, <1>5, <1>10
  <2> HIDE DEF first
  <2>3. /\ OnSchedule'
        /\ seen'.age >= 2 => first = IF seen.age = OamBytes + 1 THEN None ELSE seen'.age - 2
    BY <2>1, <2>2, ScheduleMoves DEF OamInv, OnSchedule, first
  <2>4. CopiedIsInOam'
    <3> SUFFICES ASSUME seen'.age >= 2, seen.clean, NEW i \in 0..seen'.age - 2
                 PROVE  IF i = first THEN dma'.byte = dma.src ELSE oam'[i] = dma.src
      BY <1>5, <2>1 DEF CopiedIsInOam
    <3>1. i = first \/ committed(dma)[i] = dma.src
      BY <2>2, ClockCopies DEF first
    <3>2. i # None
      BY <2>2 DEF None
    <3> QED BY <1>2, <2>1, <3>1, <3>2
  <2>5. InFlight'
    BY <2>1, <2>3 DEF InFlight
  <2>6. SleepLanded'
    BY <1>5, <1>8, <1>10 DEF SleepLanded
  <2>7. HoldCovers'
    <3>1. first # None /\ dma.run = None => dma'.run # None
      BY <1>1, <2>1, SteppedType DEF first, Index, None
    <3> QED BY <1>4, <1>5, <2>1, <3>1 DEF HoldCovers
  <2> QED BY <1>6, <1>7, <2>3, <2>4, <2>5, <2>6, <2>7 DEF OamInv
<1> QED BY <1>9, <1>10
\* An FF46 write, in the middle of a transfer or not.
LEMMA WriteInv == OamInv /\ (\E page \in Pages : WriteDMA(page)) => OamInv'
<1> SUFFICES ASSUME OamInv, NEW page \in Pages, WriteDMA(page) PROVE OamInv'
  OBVIOUS
<1> DEFINE d == oam_dma_tick(dma, FALSE)
           first == IF dma.start = 0 THEN 0 ELSE dma.run
           landed == dma.pending # None
           active == d.active
           k == drawn(seen, landed, active)
<1>1. /\ dma \in Controller /\ seen \in OamHistory /\ oam \in [Index -> Bytes] /\ gate \in Gates
      /\ OamBytes \in Nat /\ OamBytes >= 2 /\ page \in Bytes
  BY OamAssumption DEF OamInv, OamTypeOK, Bytes
<1>2. /\ dma' = [d EXCEPT !.start = 1, !.src = page]
      /\ oam' = committed(dma) /\ gate' = gate /\ ~ClockGated
      /\ seen' = [k EXCEPT !.age = 0, !.clean = TRUE]
  BY DEF WriteDMA
<1>3. /\ d \in Controller /\ d.run = IF first = None THEN None ELSE stepped(first)
      /\ d.pending = first /\ d.owned = (dma.run # None)
      /\ d.active = (dma.run # None \/ dma.owned)
  BY <1>1, TickRun
<1>4. /\ dma' \in Controller /\ dma'.start = 1 /\ dma'.run = d.run /\ dma'.pending = first
      /\ dma'.owned = (dma.run # None)
  <2> HIDE DEF d, first
  <2> QED BY <1>1, <1>2, <1>3 DEF Controller
<1>5. /\ k \in OamHistory /\ ~k.fresh /\ ~k.rash
      /\ k.torn <=> (seen.fresh \/ landed) /\ ~active /\ ~seen.rash
  <2>1. landed \in BOOLEAN /\ active \in BOOLEAN
    BY <1>3 DEF Controller
  <2> HIDE DEF landed, active
  <2> QED BY <1>1, <2>1, DrawnIs
<1>6. /\ seen' \in OamHistory /\ seen'.age = 0 /\ ~seen'.fresh /\ ~seen'.rash /\ seen'.torn = k.torn
  <2> HIDE DEF k
  <2>1. seen' = [k EXCEPT !.age = 0, !.clean = TRUE]
    BY <1>2
  <2>2. 0 \in 0..OamBytes + 1 /\ k \in OamHistory /\ ~k.fresh /\ ~k.rash
    BY <1>1, <1>5
  <2>3. seen' \in OamHistory /\ seen'.age = 0 /\ seen'.fresh = k.fresh /\ seen'.rash = k.rash
        /\ seen'.torn = k.torn
    BY <2>1, <2>2 DEF OamHistory
  <2> QED BY <2>2, <2>3
<1>7. OamTypeOK'
  BY <1>1, <1>2, <1>4, <1>6, CommittedIs DEF OamInv, OamTypeOK
<1>8. OnSchedule' /\ CopiedIsInOam' /\ InFlight'
  BY <1>4, <1>6 DEF OnSchedule, CopiedIsInOam, InFlight
<1>9. NeverTorn'
  BY <1>3, <1>5, <1>6 DEF OamInv, HoldCovers, NeverTorn
<1>10. SleepLanded'
  BY <1>2, <1>6 DEF OamInv, SleepLanded, ClockGated
<1>11. HoldCovers'
  <2>1. first # None /\ dma.run = None => first = 0
    OBVIOUS
  <2> HIDE DEF first, d
  <2>2. first = 0 => dma'.run = 1
    BY <1>3, <1>4, SecondByte DEF None
  <2>3. first # None /\ dma.run = None => dma'.run # None
    BY <2>1, <2>2, SecondByte
  <2> QED BY <1>4, <1>6, <2>3 DEF HoldCovers
<1> QED BY <1>7, <1>8, <1>9, <1>10, <1>11 DEF OamInv

\* HALT, STOP and the pause engage the gate.
LEMMA GateInv == OamInv /\ (\E by \in {"halt", "stop", "pause"} : Gate(by)) => OamInv'
<1> SUFFICES ASSUME OamInv, NEW by \in {"halt", "stop", "pause"}, Gate(by) PROVE OamInv'
  OBVIOUS
<1>1. UNCHANGED <<dma, oam, seen>> /\ gate' = [by |-> by, slept |-> FALSE]
  BY DEF Gate
<1>2. gate' \in Gates /\ ~gate'.slept
  BY <1>1 DEF Gates
<1>3. OamTypeOK' /\ OnSchedule' /\ CopiedIsInOam' /\ NeverTorn' /\ InFlight' /\ HoldCovers'
  BY <1>1, <1>2 DEF OamInv, OamTypeOK, OnSchedule, CopiedIsInOam, NeverTorn, InFlight, HoldCovers
<1>4. SleepLanded'
  BY <1>2 DEF SleepLanded
<1> QED BY <1>3, <1>4 DEF OamInv

\* The pause of a speed switch ends without a catch-up clock.
LEMMA PauseEndsInv == OamInv /\ PauseOver => OamInv'
<1> SUFFICES ASSUME OamInv, PauseOver PROVE OamInv'
  OBVIOUS
<1>1. UNCHANGED <<dma, oam, seen>> /\ gate' \in Gates /\ ~gate'.slept
  BY DEF PauseOver, Open, Gates
<1>2. OamTypeOK' /\ OnSchedule' /\ CopiedIsInOam' /\ NeverTorn' /\ InFlight' /\ HoldCovers'
  BY <1>1 DEF OamInv, OamTypeOK, OnSchedule, CopiedIsInOam, NeverTorn, InFlight, HoldCovers
<1>3. SleepLanded'
  BY <1>1 DEF SleepLanded
<1> QED BY <1>2, <1>3 DEF OamInv

\* HALT or STOP wakes, with the catch-up clock of the controller.
LEMMA WakeInv == OamInv /\ Wake => OamInv'
<1> SUFFICES ASSUME OamInv, Wake PROVE OamInv'
  OBVIOUS
<1> DEFINE d == oam_dma_tick(dma, FALSE)
           first == IF dma.start = 0 THEN 0 ELSE dma.run
<1>1. /\ dma \in Controller /\ seen \in OamHistory /\ oam \in [Index -> Bytes] /\ gate \in Gates
      /\ OamBytes \in Nat /\ OamBytes >= 2
  BY OamAssumption DEF OamInv, OamTypeOK
<1>2. /\ dma' = [d EXCEPT !.pending = None, !.byte = Other]
      /\ oam' = IF d.pending = None THEN committed(dma)
                ELSE [committed(dma) EXCEPT ![d.pending] = d.byte]
      /\ gate' = Open
      /\ seen' = [aged(seen) EXCEPT !.fresh = @ \/ dma.pending # None \/ d.pending # None,
                              !.rash = ~gate.slept]
  BY DEF Wake
<1>3. /\ d \in Controller /\ d.start = IF dma.start = 1 THEN 0 ELSE None
      /\ d.run = IF first = None THEN None ELSE stepped(first)
      /\ d.pending = first /\ (first # None => d.byte = dma.src) /\ d.src = dma.src
      /\ d.owned = (dma.run # None)
  BY <1>1, TickRun
<1>4. /\ dma' \in Controller /\ dma'.start = d.start /\ dma'.run = d.run /\ dma'.pending = None
      /\ dma'.src = dma.src /\ dma'.owned = (dma.run # None)
  <2> HIDE DEF d, first
  <2> QED BY <1>1, <1>2, <1>3 DEF Controller, Bytes
<1>5. /\ seen' \in OamHistory /\ seen'.clean = seen.clean /\ seen'.torn = seen.torn
      /\ seen'.age = IF seen.age = OamBytes + 1 THEN seen.age ELSE seen.age + 1
      /\ seen'.rash = ~gate.slept
      /\ seen'.fresh = (seen.fresh \/ dma.pending # None \/ d.pending # None)
  <2>1. /\ aged(seen) \in OamHistory /\ aged(seen).clean = seen.clean /\ aged(seen).torn = seen.torn
        /\ aged(seen).age = IF seen.age = OamBytes + 1 THEN seen.age ELSE seen.age + 1
        /\ aged(seen).fresh = seen.fresh
    BY <1>1, AgedIs
  <2>2. gate.slept \in BOOLEAN
    BY <1>1 DEF Gates
  <2> DEFINE k == aged(seen)
             p == d.pending
  <2> HIDE DEF k, p
  <2>3. seen' = [k EXCEPT !.fresh = @ \/ dma.pending # None \/ p # None, !.rash = ~gate.slept]
    BY <1>2 DEF k, p
  <2>4. /\ k \in OamHistory /\ k.clean = seen.clean /\ k.torn = seen.torn /\ k.fresh = seen.fresh
        /\ k.age = IF seen.age = OamBytes + 1 THEN seen.age ELSE seen.age + 1
    BY <2>1 DEF k
  <2>5. /\ seen' \in OamHistory /\ seen'.clean = k.clean /\ seen'.torn = k.torn /\ seen'.age = k.age
        /\ seen'.rash = ~gate.slept
        /\ seen'.fresh = (k.fresh \/ dma.pending # None \/ p # None)
    BY <2>2, <2>3, <2>4 DEF OamHistory
  <2> QED BY <2>4, <2>5 DEF p
<1> HIDE DEF d
<1>6. /\ oam' \in [Index -> Bytes]
      /\ \A i \in Index :
           oam'[i] = IF i = first THEN dma.src ELSE committed(dma)[i]
  <2>1. committed(dma) \in [Index -> Bytes]
    BY CommittedIs DEF OamInv
  <2>2. CASE first = None
    BY <1>2, <1>3, <2>1, <2>2, NoneIsNoIndex
  <2>3. CASE first # None
    <3>1. first \in Index /\ d.byte = dma.src /\ dma.src \in Bytes
      BY <1>1, <1>3, <2>3 DEF Controller
    <3> QED BY <1>2, <1>3, <2>1, <2>3, <3>1
  <2> QED BY <2>2, <2>3
<1>7. seen'.age \in Nat /\ seen'.age \in 0..OamBytes + 1
  BY <1>1, <1>5 DEF OamHistory
<1>8. OamTypeOK' /\ NeverTorn'
  BY <1>2, <1>4, <1>5, <1>6 DEF OamInv, OamTypeOK, NeverTorn, Open, Gates
<1> HIDE DEF first
<1>9. OnSchedule'
  BY <1>3, <1>4, <1>5, <1>7, ScheduleMoves DEF OamInv, OnSchedule, first
<1>10. CopiedIsInOam'
  <2> SUFFICES ASSUME seen'.age >= 2, seen.clean, NEW i \in 0..seen'.age - 2
               PROVE  oam'[i] = dma.src
    BY <1>4, <1>5, <1>7 DEF CopiedIsInOam, None
  <2>1. i \in Index
    BY <1>1, <1>7 DEF Index
  <2>2. i = first \/ committed(dma)[i] = dma.src
    BY <1>5, <1>7, ClockCopies DEF first
  <2> QED BY <1>6, <2>1, <2>2
<1>11. InFlight' /\ SleepLanded'
  BY <1>2, <1>4 DEF InFlight, SleepLanded, Open
<1>12. HoldCovers'
  <2> SUFFICES ASSUME seen'.fresh, gate.slept PROVE dma'.run # None \/ dma'.owned
    BY <1>1, <1>4, <1>5 DEF HoldCovers, Gates
  <2>1. first # None
    BY <1>3, <1>5 DEF OamInv, SleepLanded
  <2>2. dma.run = None => first = 0
    BY <2>1 DEF first
  <2>3. first = 0 => dma'.run = 1
    BY <1>3, <1>4, SecondByte DEF None
  <2> QED BY <1>4, <2>2, <2>3, SecondByte
<1> QED BY <1>8, <1>9, <1>10, <1>11, <1>12 DEF OamInv
\* An M-cycle stolen by VRAM DMA.
LEMMA StealInv == OamInv /\ (\E p \in Index \union {None} : StolenCycle(p)) => OamInv'
<1> SUFFICES ASSUME OamInv, NEW p \in Index \union {None}, StolenCycle(p) PROVE OamInv'
  OBVIOUS
<1> DEFINE d == oam_dma_tick(dma, TRUE)
           on == oam_dma_promote_start(d)
           first == IF dma.start = 0 THEN 0 ELSE dma.run
           captures == ~ClockGated /\ on.run # None
           landed == dma.pending # None
           active == d.active
           k == IF ClockGated THEN seen ELSE aged(seen)
           w == drawn(k, landed, active)
           moves == captures /\ p # None
           cleans == ~(captures /\ k.age >= 2)
<1>1. /\ dma \in Controller /\ seen \in OamHistory /\ oam \in [Index -> Bytes] /\ gate \in Gates
      /\ OamBytes \in Nat /\ OamBytes >= 2 /\ ClockGated \in BOOLEAN
  BY OamAssumption DEF OamInv, OamTypeOK, ClockGated
<1>2. /\ dma' = IF ClockGated THEN d ELSE skipped(on)
      /\ oam' = IF moves THEN [committed(dma) EXCEPT ![p] = Other] ELSE committed(dma)
      /\ seen' = [w EXCEPT !.clean = @ /\ cleans, !.fresh = moves]
      /\ gate' = [gate EXCEPT !.slept = ClockGated]
  BY DEF StolenCycle
<1>3. /\ d \in Controller /\ d.start = dma.start /\ d.run = dma.run /\ d.src = dma.src
      /\ d.pending = None /\ d.owned = (dma.run # None)
      /\ d.active = (dma.run # None \/ dma.owned)
  BY <1>1, HeldRun
<1>4. /\ skipped(on) \in Controller /\ on.run = first
      /\ skipped(on).start = IF dma.start = 1 THEN 0 ELSE None
      /\ skipped(on).run = IF first = None THEN None ELSE stepped(first)
      /\ skipped(on).pending = None /\ skipped(on).src = dma.src
      /\ skipped(on).owned = (dma.run # None)
  BY <1>1, SkipRun
<1>5. /\ k \in OamHistory /\ k.clean = seen.clean /\ k.fresh = seen.fresh /\ k.rash = seen.rash
      /\ k.age = IF ClockGated \/ seen.age = OamBytes + 1 THEN seen.age ELSE seen.age + 1
  BY <1>1, AgedIs
<1>6. /\ w \in OamHistory /\ w.age = k.age /\ w.clean = k.clean /\ ~w.rash
      /\ w.torn <=> (seen.fresh \/ landed) /\ ~active /\ ~seen.rash
  <2>1. landed \in BOOLEAN /\ active \in BOOLEAN
    BY <1>3 DEF Controller
  <2> HIDE DEF landed, active, k
  <2> QED BY <1>5, <2>1, DrawnIs
<1>7. /\ seen' \in OamHistory /\ seen'.age = k.age /\ seen'.clean = (seen.clean /\ cleans)
      /\ seen'.fresh = moves /\ ~seen'.rash /\ seen'.torn = w.torn
  <2>1. cleans \in BOOLEAN /\ moves \in BOOLEAN
    OBVIOUS
  <2> HIDE DEF w, cleans, moves, k
  <2> QED BY <1>2, <1>5, <1>6, <2>1 DEF OamHistory
<1>8. /\ dma' \in Controller /\ dma'.pending = None /\ dma'.src = dma.src
      /\ dma'.owned = (dma.run # None)
  <2> HIDE DEF d, on
  <2> QED BY <1>2, <1>3, <1>4
<1>9. OamTypeOK'
  <2>1. committed(dma) \in [Index -> Bytes] /\ Other \in Bytes
    BY CommittedIs DEF OamInv, Bytes
  <2>2. oam' \in [Index -> Bytes]
    BY <1>2, <2>1
  <2>3. gate' \in Gates
    BY <1>1, <1>2 DEF Gates
  <2> QED BY <1>7, <1>8, <2>2, <2>3 DEF OamTypeOK
<1>10. NeverTorn'
  BY <1>3, <1>6, <1>7 DEF OamInv, HoldCovers, NeverTorn
<1>11. gate'.slept = ClockGated /\ ClockGated' = ClockGated
  BY <1>1, <1>2 DEF Gates, ClockGated
<1>12. InFlight'
  BY <1>8 DEF InFlight
<1>13. SleepLanded'
  BY <1>7, <1>8, <1>11 DEF SleepLanded
<1> HIDE DEF d, k, w, on
<1>14. CASE ClockGated
  <2>1. /\ dma'.start = dma.start /\ dma'.run = dma.run /\ seen'.age = seen.age /\ ~moves /\ cleans
    BY <1>2, <1>3, <1>5, <1>7, <1>14
  <2>2. OnSchedule'
    BY <2>1 DEF OamInv, OnSchedule
  <2>3. CopiedIsInOam'
    <3> SUFFICES ASSUME seen.age >= 2, seen.clean, NEW i \in 0..seen.age - 2
                 PROVE  oam'[i] = dma.src
      BY <1>1, <1>7, <1>8, <2>1 DEF CopiedIsInOam, None, OamHistory
    <3>1. i \in Index
      BY <1>1 DEF Index, OamHistory
    <3>2. oam' = committed(dma)
      BY <1>2, <2>1
    <3> QED BY <3>1, <3>2, CommittedIs DEF OamInv, CopiedIsInOam
  <2>4. HoldCovers'
    BY <1>7, <1>8, <2>1 DEF HoldCovers
  <2> QED BY <1>9, <1>10, <1>12, <1>13, <2>2, <2>3, <2>4 DEF OamInv
<1>15. CASE ~ClockGated
  <2>1. /\ dma'.start = IF dma.start = 1 THEN 0 ELSE None
        /\ dma'.run = IF first = None THEN None ELSE stepped(first)
        /\ captures = (first # None)
    BY <1>2, <1>4, <1>15
  <2>2. /\ seen'.age \in Nat
        /\ seen'.age = IF seen.age = OamBytes + 1 THEN seen.age ELSE seen.age + 1
    BY <1>1, <1>5, <1>7, <1>15 DEF OamHistory
  <2>3. k.age = seen'.age
    BY <1>7
  <2> HIDE DEF first
  <2>4. /\ OnSchedule'
        /\ seen'.age >= 2 => first = IF seen.age = OamBytes + 1 THEN None ELSE seen'.age - 2
    BY <2>1, <2>2, ScheduleMoves DEF OamInv, OnSchedule, first
  <2>7. cleans /\ seen'.age >= 2 => ~captures
    BY <2>3
  <2>8. seen'.clean => seen.clean /\ cleans
    BY <1>7
  <2> HIDE DEF cleans
  <2>5. CopiedIsInOam'
    <3> SUFFICES ASSUME seen'.age >= 2, seen.clean, cleans, NEW i \in 0..seen'.age - 2
                 PROVE  oam'[i] = dma.src
      BY <1>8, <2>2, <2>8 DEF CopiedIsInOam, None
    <3>1. first = None /\ ~moves
      BY <2>1, <2>7
    <3>2. i = first \/ committed(dma)[i] = dma.src
      BY <2>2, ClockCopies DEF first
    <3>3. i # None
      BY <2>2 DEF None
    <3> QED BY <1>2, <3>1, <3>2, <3>3
  <2>6. HoldCovers'
    <3>1. first # None /\ dma.run = None => first = 0
      BY DEF first
    <3>2. first = 0 => dma'.run = 1
      BY <2>1, SecondByte DEF None
    <3> QED BY <1>7, <1>8, <2>1, <3>1, <3>2, SecondByte DEF HoldCovers
  <2> QED BY <1>9, <1>10, <1>12, <1>13, <2>4, <2>5, <2>6 DEF OamInv
<1> QED BY <1>14, <1>15

\* The invariant speaks of variables only.
LEMMA StutterInv == OamInv /\ UNCHANGED oamVars => OamInv'
<1> SUFFICES ASSUME OamInv, UNCHANGED oamVars PROVE OamInv'
  OBVIOUS
<1>1. dma' = dma /\ oam' = oam /\ gate' = gate /\ seen' = seen
  BY DEF oamVars
<1> QED BY <1>1 DEF OamInv, OamTypeOK, OnSchedule, CopiedIsInOam, NeverTorn, InFlight,
           SleepLanded, HoldCovers, ClockGated
-----------------------------------------------------------------------------
\* The invariant is inductive, so every reachable state satisfies it.
THEOREM OamInductive == OamSpec => []OamInv
<1>1. OamInv /\ [OamNext]_oamVars => OamInv'
  BY CycleInv, WriteInv, StealInv, GateInv, WakeInv, PauseEndsInv, StutterInv DEF OamNext
<1> QED BY <1>1, InitInv, PTL DEF OamSpec

\* The controller's fields keep their types, whatever runs or stops its clock.
THEOREM OamTypeCorrect == OamSpec => []OamTypeOK
<1>1. OamInv => OamTypeOK
  BY DEF OamInv
<1> QED BY <1>1, OamInductive, PTL

\* For transfers of any length: the position is a function of the clocks since FF46 was
\* written, whatever sleeps, wakes and thefts came between.
THEOREM ScheduleKept == OamSpec => []OnSchedule
<1>1. OamInv => OnSchedule
  BY DEF OamInv
<1> QED BY <1>1, OamInductive, PTL

\* For transfers of any length and any pages: what an undisturbed transfer has passed is
\* in OAM, from its page.
THEOREM CopyCorrect == OamSpec => []CopiedIsInOam
<1>1. OamInv => CopiedIsInOam
  BY DEF OamInv
<1> QED BY <1>1, OamInductive, PTL

\* The PPU draws from no OAM that changed under it, but for a STOP that woke at once.
THEOREM HoldSafe == OamSpec => []NeverTorn
<1>1. OamInv => NeverTorn
  BY DEF OamInv
<1> QED BY <1>1, OamInductive, PTL
-----------------------------------------------------------------------------
(* The VRAM DMA engine. *)

Debt == [paid : Nat, blind : Nat, owed : NoDebt..(MaxLen + 1), killed : BOOLEAN]
Cpu == [at : At, n : Nat, gate : BOOLEAN, double : BOOLEAN, seam : BOOLEAN]
Serving == {s \in [kind : Requests, copy : Int, rem : 0..(MaxLen + 1)] : s.kind # "none"}

\* FF55, the engine and the debt agree: with no service under way ...
Rest(e, k) ==
  /\ e.mode # "off" => ~e.done
  /\ ~e.done /\ e.mode = "off" => e.req = "gdma" \/ k.killed
  /\ e.mode # "off" /\ k.owed # NoDebt => k.owed = e.len + 1
\* ... and with one, about to leave them so.
Busy(e, s, k) ==
  /\ s \in Serving
  /\ s.kind = "gdma" => s.rem = 0 \/ e.done
  /\ s.kind # "gdma" /\ ~e.done =>
       IF e.mode = "off" THEN k.killed ELSE s.rem = e.len /\ (k.owed # NoDebt => k.owed = s.rem)

\* Where the CPU is when a request is pending or served, and when the gate is engaged.
Asleep == {"idle", "sample", "stopIdle"}
Placed ==
  /\ cpu.at = "dispatch" => cpu.n > 0
  /\ cpu.gate => cpu.at \in Asleep \union {"stopEnter", "pause"}
  /\ cpu.at \in {"stopEnter", "pause"} => cpu.gate
  /\ cpu.gate /\ cpu.at \in Asleep => v.req = "none"
  /\ svc # NoService => cpu.at \in Seams \union {"exec"}
  /\ svc # NoService /\ cpu.gate => cpu.at = "pause" /\ st.entering
  /\ cpu.at = "pause" /\ v.req # "none" => st.entering
  /\ v.halt # "low" => cpu.gate
  /\ v.req = "gdma" =>
       svc = NoService /\ (cpu.at \in {"fetch", "fetched"} \/ (cpu.at = "exec" /\ cpu.n > 0))
  /\ st.req # "gdma"

Typed ==
  /\ v \in Engine /\ h \in Debt /\ cpu \in Cpu
  /\ st \in [entering : BOOLEAN, req : Requests]

IInv ==
  /\ Typed /\ Placed
  /\ IF svc = NoService THEN Rest(v, h) ELSE Busy(v, svc, h)
-----------------------------------------------------------------------------
(* The engine. *)

Fields(e) == <<e.len, e.done, e.dst, e.mode, e.halt>>
Owes(k, k0) == k \in Debt /\ k.owed = k0.owed /\ k.killed = k0.killed

\* A cycle moves the request and nothing else of the engine, and never under the gate.
LEMMA Ticking ==
  ASSUME Typed, NEW p2
  PROVE  LET t == Ticked(p2)
         IN /\ t.v \in Engine /\ Owes(t.h, h)
            /\ t.v.len = v.len /\ t.v.done = v.done /\ t.v.dst = v.dst
            /\ t.v.mode = v.mode /\ t.v.halt = v.halt
            /\ \/ t.v.req = v.req
               \/ t.v.req = "hblank" /\ v.mode = "armedLcdOn" /\ ~cpu.gate
            /\ Rest(v, h) => Rest(t.v, t.h)
<1> DEFINE up == hdma_trigger_level(p2)
           r == IF Edge(v, p2) THEN "hblank" ELSE v.req
           e == [v EXCEPT !.prev = up, !.req = r]
           line == HistoryAt(h, p2)
           k == IF Edge(v, p2) THEN [line EXCEPT !.paid = @ + 1] ELSE line
<1>1. up \in BOOLEAN
  BY DEF hdma_trigger_level
<1>2. /\ r \in Requests
      /\ r = v.req \/ (r = "hblank" /\ v.mode = "armedLcdOn" /\ ~cpu.gate)
  BY DEF Typed, Engine, Edge, Requests
<1>3. Owes(line, h)
  BY DEF Owes, HistoryAt, Typed, Debt
<1> HIDE DEF up, line
<1>4. Owes(k, h)
  BY <1>3 DEF Owes, Debt
<1> HIDE DEF k, r
<1>5. /\ e \in Engine /\ e.len = v.len /\ e.done = v.done /\ e.dst = v.dst
      /\ e.mode = v.mode /\ e.halt = v.halt /\ e.req = r
  BY <1>1, <1>2 DEF Typed, Engine
<1>6. Ticked(p2).v = e /\ Ticked(p2).h = k
  BY DEF Ticked, folded, up, r, k, line
<1> HIDE DEF e
<1>7. Rest(v, h) => Rest(e, k)
  BY <1>2, <1>4, <1>5 DEF Rest, Owes
<1> QED BY <1>2, <1>4, <1>5, <1>6, <1>7

\* What a service takes: one block of an armed transfer, all of a whole one, unless the
\* destination counter ends first.
LEMMA Taking ==
  ASSUME NEW e \in Engine
  PROVE  /\ Taken(e) \in 1..(e.len + 1)
         /\ (e.req # "gdma" => Taken(e) = 1)
         /\ (e.req = "gdma" => Truncated(e) \/ Taken(e) = e.len + 1)
<1>1. e.len \in 0..MaxLen /\ e.dst \in 0..(DstBlocks - 1)
  BY DEF Engine
<1> QED BY <1>1, DmaAssumption DEF Taken, Truncated, Blocks

\* A service begins.
LEMMA Serving1 ==
  ASSUME Typed, NEW e \in Engine, NEW k \in Debt, Rest(e, k), NEW may, Serves(may, e, k)
  PROVE  /\ v' \in Engine /\ h' \in Debt /\ v'.halt = e.halt
         /\ \/ svc' = NoService /\ Rest(v', h') /\ v' = e /\ h' = k
            \/ /\ svc' # NoService /\ Busy(v', svc', h') /\ may /\ e.req # "none"
               /\ v'.req = "none"
<1>1. CASE ~(may /\ e.req # "none")
  BY <1>1 DEF Serves
<1>2. CASE may /\ e.req # "none"
  <2> DEFINE n == Taken(e)
             cut == Truncated(e)
             d == (e.dst + n) % DstBlocks
             c == n * CopyCycles * (IF cpu.double THEN 2 ELSE 1)
             left == IF e.req = "gdma" /\ ~ppu'.on THEN 0 ELSE e.len + 1 - n
             o == IF k.owed > 0 THEN k.owed - 1 ELSE k.owed
  <2>1. /\ e.len \in 0..MaxLen /\ e.dst \in 0..(DstBlocks - 1) /\ e.req \in Requests
        /\ e.done \in BOOLEAN /\ k.owed \in NoDebt..(MaxLen + 1)
    BY DEF Engine, Debt
  <2>2. /\ n \in 1..(e.len + 1) /\ (e.req # "gdma" => n = 1)
        /\ (e.req = "gdma" => cut \/ n = e.len + 1)
    BY Taking
  <2>3. cut \in BOOLEAN
    BY DEF Truncated
  <2> HIDE DEF n, cut
  <2>4. d \in 0..(DstBlocks - 1)
    BY <2>1, <2>2, DmaAssumption
  <2>5. c \in Int
    <3>1. n \in Int /\ CopyCycles \in Int /\ (IF cpu.double THEN 2 ELSE 1) \in Int
      BY <2>1, <2>2, DmaAssumption
    <3> QED BY <3>1
  <2>6. left \in 0..(MaxLen + 1) /\ (e.req # "gdma" => left = e.len)
        /\ (e.req = "gdma" => cut \/ left = 0)
    BY <2>1, <2>2, DmaAssumption
  <2>7. /\ v' = [e EXCEPT !.req = "none", !.done = @ \/ cut, !.dst = d]
        /\ svc' = [kind |-> e.req, copy |-> c, rem |-> left]
        /\ h' = IF e.req = "gdma" THEN k ELSE [k EXCEPT !.owed = o]
    BY <1>2 DEF Serves, begun, service, charged, n, cut
  <2>8. /\ o \in NoDebt..(MaxLen + 1) /\ (k.owed = e.len + 1 => o = e.len)
        /\ k.owed = NoDebt => o = NoDebt
    BY <2>1, DmaAssumption DEF NoDebt
  <2> HIDE DEF d, c, left, o
  <2>9. /\ v' \in Engine /\ v'.req = "none" /\ (v'.done <=> e.done \/ cut)
        /\ v'.mode = e.mode /\ v'.len = e.len /\ v'.halt = e.halt
    BY <2>1, <2>3, <2>4, <2>7 DEF Engine, Requests
  <2>10. svc' \in Serving /\ svc'.kind = e.req /\ svc'.rem = left /\ svc' # NoService
    BY <1>2, <2>1, <2>5, <2>6, <2>7 DEF Serving, NoService
  <2>11. h' \in Debt /\ h'.killed = k.killed /\ (e.req # "gdma" => h'.owed = o)
    BY <2>7, <2>8 DEF Debt
  <2>12. Busy(v', svc', h')
    BY <2>1, <2>6, <2>8, <2>9, <2>10, <2>11 DEF Rest, Busy, NoDebt
  <2> QED BY <1>2, <2>9, <2>10, <2>11, <2>12
<1> QED BY <1>1, <1>2

\* A service ends: FF55 and the arming agree with the debt again.
LEMMA Finishing ==
  ASSUME Typed, NEW e \in Engine, NEW s, NEW k \in Debt, Busy(e, s, k)
  PROVE  /\ finished(e, s) \in Engine /\ Rest(finished(e, s), k)
         /\ finished(e, s).req = e.req /\ finished(e, s).halt = e.halt
<1> DEFINE n == IF cpu.gate THEN e.len ELSE IF s.rem = 0 THEN MaxLen ELSE s.rem - 1
           d == IF cpu.gate THEN TRUE ELSE e.done \/ s.rem = 0
           c == [e EXCEPT !.len = n, !.done = d]
<1>1. s.rem \in 0..(MaxLen + 1) /\ e.len \in 0..MaxLen /\ e.done \in BOOLEAN
      /\ k.owed \in NoDebt..(MaxLen + 1)
  BY DEF Busy, Serving, Engine, Debt
<1>2. n \in 0..MaxLen /\ d \in BOOLEAN
  <2>1. n \in 0..MaxLen
    BY <1>1, DmaAssumption
  <2>2. d \in BOOLEAN
    <3>1. CASE cpu.gate
      BY <3>1
    <3>2. CASE ~cpu.gate
      BY <3>2
    <3> QED BY <3>1, <3>2
  <2> QED BY <2>1, <2>2
<1>3. d \/ (~e.done /\ s.rem # 0 /\ n = s.rem - 1)
  BY <1>1
<1>4. finished(e, s) = IF c.done THEN [c EXCEPT !.mode = "off"] ELSE c
  <2>1. CASE cpu.gate
    <3>1. c = [e EXCEPT !.done = TRUE]
      BY <2>1 DEF Engine
    <3> QED BY <2>1, <3>1 DEF finished
  <2>2. CASE ~cpu.gate
    BY <2>2 DEF finished
  <2> QED BY <2>1, <2>2
<1> HIDE DEF n, d
<1>5. /\ c \in Engine /\ (c.done <=> d) /\ c.len = n /\ c.mode = e.mode /\ c.req = e.req
      /\ c.halt = e.halt
  BY <1>2 DEF Engine
<1> HIDE DEF c
<1> DEFINE w == finished(e, s)
<1>6. /\ w \in Engine /\ (w.done <=> d) /\ w.len = n /\ w.req = e.req /\ w.halt = e.halt
      /\ w.mode = IF d THEN "off" ELSE e.mode
  BY <1>4, <1>5 DEF Engine, Modes
<1> HIDE DEF w
<1>7. Rest(w, k)
  BY <1>1, <1>2, <1>3, <1>6 DEF Rest, Busy, NoDebt
<1> QED BY <1>6, <1>7 DEF w
-----------------------------------------------------------------------------
(* The two kinds of M-cycle of the CPU. *)

\* What a cycle leaves when nothing is served.
Cycled ==
  /\ svc' = NoService /\ Rest(v', h')
  /\ \/ v'.req = v.req
     \/ v'.req = "hblank" /\ ~cpu.gate

\* An M-cycle in which no service has the bus leaves a typed engine.
LEMMA Plain ==
  ASSUME IInv, svc = NoService, PlainCycle
  PROVE  v' \in Engine /\ h' \in Debt /\ v'.halt = v.halt /\ Cycled
<1>1. Typed /\ Rest(v, h)
  BY DEF IInv
<1>2. PICK p2 \in scan(ppu, Dots) : Serves(FALSE, Ticked(p2).v, Ticked(p2).h)
  BY DEF PlainCycle
<1>3. v' = Ticked(p2).v /\ h' = Ticked(p2).h /\ svc' = NoService
  BY <1>2 DEF Serves
<1> QED BY <1>1, <1>3, Ticking DEF Cycled, Owes

\* A read may find the engine on the bus.
LEMMA Reading ==
  ASSUME IInv, svc = NoService, ReadCycle
  PROVE  /\ v' \in Engine /\ h' \in Debt /\ v'.halt = v.halt
         /\ \/ Cycled
            \/ svc' # NoService /\ Busy(v', svc', h') /\ v'.req = "none"
<1>1. Typed /\ Rest(v, h)
  BY DEF IInv
<1>2. PICK p2 \in scan(ppu, Dots) : Serves(~Edge(v, p2), Ticked(p2).v, Ticked(p2).h)
  BY DEF ReadCycle
<1> DEFINE e == Ticked(p2).v
           k == Ticked(p2).h
<1>3. /\ e \in Engine /\ k \in Debt /\ e.halt = v.halt /\ Rest(e, k)
      /\ e.req = v.req \/ (e.req = "hblank" /\ ~cpu.gate)
  BY <1>1, Ticking DEF Owes
<1>4. Serves(~Edge(v, p2), e, k)
  BY <1>2
<1> HIDE DEF e, k
<1> QED BY <1>1, <1>3, <1>4, Serving1 DEF Cycled

\* Power-on: the engine off, nothing owed.
LEMMA InitHolds == Init => IInv
<1> SUFFICES ASSUME Init PROVE IInv
  OBVIOUS
<1>1. v \in Engine
  BY DmaAssumption DEF Init, Engine, Modes, Requests, HaltHdma
<1>2. h \in Debt /\ h.owed = NoDebt
  BY DmaAssumption DEF Init, Debt, NoDebt
<1>3. cpu \in Cpu /\ st \in [entering : BOOLEAN, req : Requests]
  BY DEF Init, Cpu, At, NoStop, Requests
<1> QED BY <1>1, <1>2, <1>3 DEF Init, IInv, Typed, Placed, Rest, NoStop, Asleep

\* The cycles of an instruction and of a dispatch.
LEMMA CyclesKeep ==
  IInv /\ (Fetch \/ DispatchCycle \/ FetchVector \/ ReadOperand \/ OtherCycle \/ HaltIdle
           \/ PauseCycle) => IInv'
<1> SUFFICES ASSUME IInv, Fetch \/ DispatchCycle \/ FetchVector \/ ReadOperand \/ OtherCycle
                           \/ HaltIdle \/ PauseCycle
             PROVE  IInv'
  OBVIOUS
<1>0. Typed /\ Placed
  BY DEF IInv
<1>1. ASSUME NEW at \in At, svc = NoService, PlainCycle, Goes(at), st' = st,
             cpu.at # "stopEnter", at \notin {"stopEnter", "dispatch", "exec"},
             cpu.gate => (cpu.at = "pause" /\ at = "pause") \/ (cpu.at \in Asleep /\ at \in Asleep),
             at = "pause" => cpu.at = "pause" /\ v.req = "none",
             v.req = "gdma" => at = "fetched"
      PROVE  IInv'
  <2>1. v' \in Engine /\ h' \in Debt /\ v'.halt = v.halt /\ Cycled
    BY <1>1, Plain
  <2>2. cpu' \in Cpu /\ cpu'.at = at /\ cpu'.gate = cpu.gate
    BY <1>0, <1>1 DEF Goes, Typed, Cpu
  <2>3. Typed'
    BY <1>0, <1>1, <2>1, <2>2 DEF Typed
  <2>4. Placed'
    BY <1>0, <1>1, <2>1, <2>2 DEF Placed, Cycled, Asleep
  <2> QED BY <2>1, <2>3, <2>4 DEF IInv, Cycled
<1>2. CASE Fetch
  BY <1>0, <1>1, <1>2 DEF Fetch, Idle, Placed, At, Asleep
<1>3. CASE HaltIdle
  BY <1>0, <1>1, <1>3 DEF HaltIdle, Idle, Placed, At, Asleep
<1>4. CASE PauseCycle
  <2>1. Goes("pause")
    BY <1>0, <1>4 DEF PauseCycle, Idle, Goes, Typed, Cpu
  <2> QED BY <1>0, <1>1, <1>4, <2>1 DEF PauseCycle, Idle, Placed, At, Asleep
<1>5. CASE DispatchCycle
  <2>1. v' \in Engine /\ h' \in Debt /\ v'.halt = v.halt /\ Cycled /\ st' = st
    BY <1>5, Plain DEF DispatchCycle, Idle
  <2>2. cpu.at = "dispatch" /\ cpu.n > 0 /\ svc = NoService /\ ~cpu.gate
    BY <1>0, <1>5 DEF DispatchCycle, Idle, Placed, Asleep
  <2>3. /\ cpu' \in Cpu /\ cpu'.gate = cpu.gate /\ cpu'.at \in {"dispatch", "vector"}
        /\ cpu'.at = "dispatch" => cpu'.n > 0
    <3> DEFINE n == cpu.n - 1
               a == IF cpu.n = 1 THEN "vector" ELSE cpu.at
    <3>1. cpu' = [cpu EXCEPT !.n = n, !.at = a]
      BY <1>5 DEF DispatchCycle
    <3>2. n \in Nat /\ a \in {"dispatch", "vector"} /\ (a = "dispatch" => n > 0)
      BY <1>0, <2>2 DEF Typed, Cpu
    <3> HIDE DEF n, a
    <3>3. a \in At
      BY <3>2 DEF At
    <3> QED BY <1>0, <3>1, <3>2, <3>3 DEF Typed, Cpu
  <2>4. Typed' /\ Placed'
    BY <1>0, <2>1, <2>2, <2>3 DEF Typed, Placed, Cycled, Asleep
  <2> QED BY <2>1, <2>4 DEF IInv, Cycled
<1>6. CASE FetchVector
  <2>1. /\ v' \in Engine /\ h' \in Debt /\ v'.halt = v.halt /\ st' = st
        /\ Cycled \/ (svc' # NoService /\ Busy(v', svc', h') /\ v'.req = "none")
    BY <1>6, Reading DEF FetchVector, Idle
  <2>2. cpu.at = "vector" /\ svc = NoService /\ ~cpu.gate
    BY <1>0, <1>6 DEF FetchVector, Idle, Placed, Asleep
  <2>3. cpu' \in Cpu /\ cpu'.gate = cpu.gate /\ cpu'.at \in {"vectored", "exec"}
    BY <1>0, <1>6, <2>2 DEF FetchVector, Typed, Cpu, At
  <2>4. Typed' /\ Placed'
    BY <1>0, <2>1, <2>2, <2>3 DEF Typed, Placed, Cycled, Asleep, Seams
  <2> QED BY <2>1, <2>4 DEF IInv, Cycled
<1>7. CASE ReadOperand \/ OtherCycle
  <2>1. svc = NoService /\ cpu.at = "exec" /\ cpu' = [cpu EXCEPT !.n = @ + 1] /\ st' = st
    BY <1>7 DEF ReadOperand, OtherCycle, Operation, Idle
  <2>2. /\ v' \in Engine /\ h' \in Debt /\ v'.halt = v.halt
        /\ Cycled \/ (svc' # NoService /\ Busy(v', svc', h') /\ v'.req = "none")
    BY <1>7, <2>1, Plain, Reading DEF ReadOperand, OtherCycle
  <2>3. cpu' \in Cpu /\ cpu'.gate = cpu.gate /\ cpu'.at = "exec" /\ cpu'.n > 0 /\ ~cpu.gate
    BY <1>0, <2>1 DEF Typed, Cpu, Placed, Asleep
  <2>4. Typed' /\ Placed'
    BY <1>0, <2>1, <2>2, <2>3 DEF Typed, Placed, Cycled, Asleep, Seams
  <2> QED BY <2>2, <2>4 DEF IInv, Cycled
<1> QED BY <1>2, <1>3, <1>4, <1>5, <1>6, <1>7
\* The engine takes a cycle, or the bus.
LEMMA EngineKeeps == IInv /\ (Serve \/ Steal) => IInv'
<1> SUFFICES ASSUME IInv, Serve \/ Steal PROVE IInv'
  OBVIOUS
<1>0. Typed /\ Placed /\ UNCHANGED <<cpu, st>>
  BY DEF IInv, Serve, Steal
<1>1. CASE Serve
  <2>1. Serves(TRUE, v, h) /\ v \in Engine /\ h \in Debt /\ Rest(v, h)
        /\ v.req # "none" /\ cpu.at \in Seams
    BY <1>0, <1>1 DEF Serve, IInv, Typed
  <2>2. svc' # NoService /\ v' \in Engine /\ h' \in Debt /\ v'.halt = v.halt
        /\ Busy(v', svc', h') /\ v'.req = "none"
    <3>1. svc' = service(v) /\ service(v).kind # "none"
      BY <2>1 DEF Serves, service
    <3>2. svc' # NoService
      BY <3>1 DEF NoService
    <3> QED BY <1>0, <2>1, <3>2, Serving1
  <2>3. Typed' /\ Placed'
    BY <1>0, <2>1, <2>2 DEF Typed, Placed, Seams, Asleep
  <2> QED BY <2>2, <2>3 DEF IInv
<1>2. CASE Steal
  <2>1. PICK p2 \in scan(ppu, Dots) :
          IF svc.copy > 1 \/ (svc.copy = 1 /\ svc.kind # "unhalt")
          THEN /\ v' = Ticked(p2).v /\ svc' = [svc EXCEPT !.copy = @ - 1]
               /\ h' = Ticked(p2).h
          ELSE Serves(cpu.at = "exec", finished(Ticked(p2).v, svc), Ticked(p2).h)
    BY <1>2 DEF Steal
  <2> DEFINE e == Ticked(p2).v
             k == Ticked(p2).h
  <2>2. /\ e \in Engine /\ Owes(k, h) /\ e.halt = v.halt
        /\ e.len = v.len /\ e.done = v.done /\ e.mode = v.mode
        /\ e.req = v.req \/ (e.req = "hblank" /\ ~cpu.gate)
    BY <1>0, Ticking
  <2>3. Busy(v, svc, h) /\ svc # NoService
    BY <1>2 DEF Steal, IInv
  <2>4. Busy(e, svc, k)
    BY <2>2, <2>3 DEF Busy, Owes
  <2>5. v.req # "gdma" /\ cpu.at \in Seams \union {"exec"} /\ (cpu.gate => cpu.at = "pause" /\ st.entering)
    BY <1>0, <2>3 DEF Placed
  <2>6. IF svc.copy > 1 \/ (svc.copy = 1 /\ svc.kind # "unhalt")
        THEN v' = e /\ svc' = [svc EXCEPT !.copy = @ - 1] /\ h' = k
        ELSE Serves(cpu.at = "exec", finished(e, svc), k)
    BY <2>1
  <2> HIDE DEF e, k
  <2>7. CASE svc.copy > 1 \/ (svc.copy = 1 /\ svc.kind # "unhalt")
    <3>1. v' = e /\ svc' = [svc EXCEPT !.copy = @ - 1] /\ h' = k
      BY <2>6, <2>7
    <3>2. svc' \in Serving /\ svc'.kind = svc.kind /\ svc'.rem = svc.rem /\ svc' # NoService
      BY <2>3, <3>1 DEF Busy, Serving, NoService
    <3>3. Busy(v', svc', h')
      BY <2>4, <3>1, <3>2 DEF Busy
    <3>4. Typed' /\ Placed'
      BY <1>0, <2>2, <2>5, <3>1, <3>2 DEF Typed, Placed, Seams, Asleep, Owes
    <3> QED BY <3>2, <3>3, <3>4 DEF IInv
  <2>8. CASE ~(svc.copy > 1 \/ (svc.copy = 1 /\ svc.kind # "unhalt"))
    <3> DEFINE w == finished(e, svc)
    <3>1. w \in Engine /\ Rest(w, k) /\ w.req = e.req /\ w.halt = e.halt /\ k \in Debt
      BY <1>0, <2>2, <2>4, Finishing DEF Owes
    <3>2. Serves(cpu.at = "exec", w, k)
      BY <2>6, <2>8
    <3> HIDE DEF w
    <3>3. /\ v' \in Engine /\ h' \in Debt /\ v'.halt = v.halt
          /\ \/ svc' = NoService /\ Rest(v', h') /\ v'.req = e.req
             \/ /\ svc' # NoService /\ Busy(v', svc', h') /\ cpu.at = "exec"
                /\ v'.req = "none"
      BY <1>0, <2>2, <3>1, <3>2, Serving1
    <3>4. Typed' /\ Placed'
      BY <1>0, <2>2, <2>5, <3>3 DEF Typed, Placed, Seams, Asleep
    <3> QED BY <3>3, <3>4 DEF IInv
  <2> QED BY <2>7, <2>8
<1> QED BY <1>1, <1>2

\* The decisions between two cycles that leave the engine alone.
LEMMA DecisionsKeep ==
  IInv /\ (Interrupt \/ Decode \/ Finish \/ Halt
           \/ \E switching \in BOOLEAN : StopInterrupted(switching)) => IInv'
<1> SUFFICES ASSUME IInv, Interrupt \/ Decode \/ Finish \/ Halt
                           \/ \E switching \in BOOLEAN : StopInterrupted(switching)
             PROVE  IInv'
  OBVIOUS
<1>0. Typed /\ Placed /\ UNCHANGED <<v, svc, st, h>> /\ svc = NoService
  BY DEF IInv, Interrupt, Decode, Finish, Halt, StopInterrupted, Idle
<1> SUFFICES Typed' /\ Placed'
  BY <1>0 DEF IInv, Rest
<1>1. CASE Interrupt
  <2>1. /\ cpu' \in Cpu /\ cpu'.at = "dispatch" /\ cpu'.n > 0 /\ cpu'.gate = cpu.gate
        /\ cpu.at \in {"fetched", "woken"} /\ v.req = "none"
    <3> DEFINE b == cpu.at = "fetched"
    <3>1. cpu' = [cpu EXCEPT !.at = "dispatch", !.n = 4, !.seam = b] /\ b \in BOOLEAN
      BY <1>1 DEF Interrupt
    <3>2. cpu.at \in {"fetched", "woken"} /\ v.req = "none"
      BY <1>1 DEF Interrupt
    <3>3. "dispatch" \in At /\ 4 \in Nat /\ 4 > 0
      BY DEF At
    <3> HIDE DEF b
    <3> QED BY <1>0, <3>1, <3>2, <3>3 DEF Typed, Cpu
  <2> QED BY <1>0, <2>1 DEF Typed, Placed, Asleep
<1>2. CASE Decode
  <2>1. cpu' \in Cpu /\ cpu'.at = "exec" /\ cpu'.gate = cpu.gate /\ v.req = "none"
        /\ cpu.at \in {"fetched", "vectored", "woken"}
    BY <1>0, <1>2 DEF Decode, Goes, Typed, Cpu, At
  <2> QED BY <1>0, <2>1 DEF Typed, Placed, Asleep
<1>3. CASE Finish
  <2>1. cpu' \in Cpu /\ cpu'.at = "fetch" /\ cpu'.gate = cpu.gate /\ cpu.at = "exec"
    BY <1>0, <1>3 DEF Finish, Idle, Typed, Cpu, At
  <2> QED BY <1>0, <2>1 DEF Typed, Placed, Asleep
<1>4. CASE Halt
  <2>1. cpu' \in Cpu /\ cpu'.at = "idle" /\ cpu'.gate = cpu.gate /\ cpu.at = "exec" /\ cpu.n = 0
    BY <1>0, <1>4 DEF Halt, Idle, Goes, Typed, Cpu, At
  <2> QED BY <1>0, <2>1 DEF Typed, Placed, Asleep
<1>5. ASSUME NEW switching \in BOOLEAN, StopInterrupted(switching) PROVE Typed' /\ Placed'
  <2>1. /\ cpu' \in Cpu /\ cpu'.at \in {"fetch", "stopIdle"} /\ cpu'.gate = cpu.gate
        /\ cpu.at = "exec" /\ cpu.n = 0
    <3> DEFINE d == IF switching THEN ~cpu.double ELSE cpu.double
               a == IF switching THEN "fetch" ELSE "stopIdle"
    <3>1. cpu' = [cpu EXCEPT !.double = d, !.at = a] /\ cpu.at = "exec" /\ cpu.n = 0
      BY <1>5 DEF StopInterrupted, Idle
    <3>2. d \in BOOLEAN
      BY <1>0 DEF Typed, Cpu
    <3>3. a \in At /\ a \in {"fetch", "stopIdle"}
      BY DEF At
    <3> HIDE DEF d, a
    <3> QED BY <1>0, <3>1, <3>2, <3>3 DEF Typed, Cpu
  <2> QED BY <1>0, <2>1 DEF Typed, Placed, Asleep
<1> QED BY <1>1, <1>2, <1>3, <1>4, <1>5
-----------------------------------------------------------------------------
(* The stores. *)

\* A store moves the program on and changes nothing else of where it is.
LEMMA Storing ==
  ASSUME IInv, Store
  PROVE  /\ cpu' \in Cpu /\ cpu'.at = "exec" /\ cpu'.n > 0 /\ ~cpu'.gate /\ ~cpu.gate
         /\ st' = st /\ svc = NoService /\ svc' = NoService
         /\ Rest(v, h) /\ v.halt = "low" /\ Typed
<1>1. cpu.at = "exec" /\ svc = NoService /\ svc' = NoService /\ cpu' = [cpu EXCEPT !.n = @ + 1] /\ st' = st
  BY DEF Store, Operation, Idle
<1>2. Typed /\ Placed /\ Rest(v, h)
  BY <1>1 DEF IInv
<1>3. ~cpu.gate /\ v.halt = "low"
  BY <1>1, <1>2 DEF Placed, Asleep
<1> QED BY <1>1, <1>2, <1>3 DEF Typed, Cpu

\* What is left to show of a store.
LEMMA Stored ==
  ASSUME IInv, Store, v' \in Engine, h' \in Debt, v'.halt = v.halt, Rest(v', h')
  PROVE  IInv'
<1>1. Typed' /\ Placed'
  BY Storing DEF Typed, Placed, Asleep, IInv, Seams
<1> QED BY <1>1, Storing DEF IInv

\* The stores to FF53, FF54, FF55 and LCDC keep the invariant.
LEMMA StoresKeep ==
  IInv /\ (\/ \E bit7 \in BOOLEAN, len \in 0..MaxLen : WriteHDMA5(bit7, len)
           \/ \E d \in 0..DstBlocks - 1 : WriteHDMA34(d)
           \/ WriteLCDC) => IInv'
<1>1. ASSUME IInv, NEW bit7 \in BOOLEAN, NEW len \in 0..MaxLen, WriteHDMA5(bit7, len)
      PROVE  IInv'
  <2>1. Store /\ Typed /\ Rest(v, h)
    BY <1>1, Storing DEF WriteHDMA5
  <2>2. PICK p2 \in scan(ppu, Dots) :
          /\ v' = hdma5_written(Ticked(p2).v, bit7, len)
          /\ h' = [Ticked(p2).h EXCEPT !.owed = IF bit7 THEN len + 1 ELSE NoDebt,
                                       !.killed = FALSE]
    BY <1>1 DEF WriteHDMA5
  <2> DEFINE e == Ticked(p2).v
             k == Ticked(p2).h
             o == IF bit7 THEN len + 1 ELSE NoDebt
             w == [e EXCEPT !.len = len, !.done = FALSE]
             r == IF hdma_period(ppu') THEN "hblank" ELSE w.req
  <2>3. e \in Engine /\ k \in Debt /\ e.halt = v.halt /\ Rest(e, k)
    BY <2>1, Ticking DEF Owes
  <2>4. o \in NoDebt..(MaxLen + 1) /\ (bit7 => o = len + 1) /\ (~bit7 => o = NoDebt)
    BY DmaAssumption DEF NoDebt
  <2>5. /\ v' = IF e.mode # "off"
                THEN IF bit7 THEN w ELSE [w EXCEPT !.done = TRUE, !.mode = "off"]
                ELSE IF ~bit7 THEN [w EXCEPT !.req = "gdma"]
                ELSE IF ~ppu'.on THEN [w EXCEPT !.mode = "armedLcdOff", !.req = "hblank"]
                ELSE [w EXCEPT !.mode = "armedLcdOn", !.req = r]
        /\ h' = [k EXCEPT !.owed = o, !.killed = FALSE]
    <3>1. [w EXCEPT !.mode = "armedLcdOn",
                    !.req = IF hdma_period(ppu') THEN "hblank" ELSE @]
            = [w EXCEPT !.mode = "armedLcdOn", !.req = r]
      OBVIOUS
    <3> QED BY <2>2, <3>1 DEF hdma5_written
  <2> HIDE DEF e, k, o
  <2>6. h' \in Debt /\ h'.owed = o /\ ~h'.killed
    BY <2>3, <2>4, <2>5 DEF Debt
  <2>7. /\ w \in Engine /\ w.len = len /\ ~w.done /\ w.halt = e.halt /\ w.mode = e.mode
        /\ w.req = e.req
    BY <2>3 DEF Engine
  <2> HIDE DEF w
  <2>8. r \in Requests
    BY <2>7 DEF Engine, Requests
  <2> HIDE DEF r
  <2>9. v' \in Engine /\ v'.halt = v.halt /\ Rest(v', h')
    <3>1. CASE e.mode # "off" /\ bit7
      BY <2>3, <2>4, <2>5, <2>6, <2>7, <3>1 DEF Rest, Engine
    <3>2. CASE e.mode # "off" /\ ~bit7
      BY <2>3, <2>4, <2>5, <2>6, <2>7, <3>2 DEF Rest, Engine, Modes
    <3>3. CASE e.mode = "off" /\ ~bit7
      BY <2>3, <2>4, <2>5, <2>6, <2>7, <3>3 DEF Rest, Engine, Requests
    <3>4. CASE e.mode = "off" /\ bit7 /\ ~ppu'.on
      BY <2>3, <2>4, <2>5, <2>6, <2>7, <3>4 DEF Rest, Engine, Requests, Modes
    <3>5. CASE e.mode = "off" /\ bit7 /\ ppu'.on
      BY <2>3, <2>4, <2>5, <2>6, <2>7, <2>8, <3>5 DEF Rest, Engine, Modes
    <3> QED BY <3>1, <3>2, <3>3, <3>4, <3>5
  <2> QED BY <1>1, <2>1, <2>6, <2>9, Stored
<1>2. ASSUME IInv, NEW d \in 0..(DstBlocks - 1), WriteHDMA34(d) PROVE IInv'
  <2>1. Store /\ Typed /\ Rest(v, h)
    BY <1>2, Storing DEF WriteHDMA34
  <2>2. PICK p2 \in scan(ppu, Dots) :
          v' = [Ticked(p2).v EXCEPT !.dst = d] /\ h' = Ticked(p2).h
    BY <1>2 DEF WriteHDMA34
  <2>3. /\ Ticked(p2).v \in Engine /\ h' \in Debt /\ Ticked(p2).v.halt = v.halt
        /\ Rest(Ticked(p2).v, h')
    BY <2>1, <2>2, Ticking DEF Owes
  <2>4. v' \in Engine /\ v'.halt = v.halt /\ Rest(v', h')
    BY <2>2, <2>3 DEF Rest, Engine
  <2> QED BY <1>2, <2>1, <2>3, <2>4, Stored
<1>3. ASSUME IInv, WriteLCDC PROVE IInv'
  <2>1. Store /\ Typed /\ Rest(v, h)
    BY <1>3, Storing DEF WriteLCDC
  <2>2. PICK p2 \in scan(ppu, Dots) :
          LET t == Ticked(p2)
              kills == ppu.on /\ t.v.mode = "armedLcdOn"
          IN /\ v' = lcd_switched(t.v, ~ppu.on)
             /\ h' = [t.h EXCEPT !.paid = 0, !.blind = 0, !.killed = @ \/ kills,
                                 !.owed = IF kills THEN NoDebt ELSE @]
    BY <1>3 DEF WriteLCDC
  <2> DEFINE e == Ticked(p2).v
             k == Ticked(p2).h
             kills == ppu.on /\ e.mode = "armedLcdOn"
             o == IF kills THEN NoDebt ELSE k.owed
             d == k.killed \/ kills
  <2>3. e \in Engine /\ k \in Debt /\ e.halt = v.halt /\ Rest(e, k)
    BY <2>1, Ticking DEF Owes
  <2>4. v' = lcd_switched(e, ~ppu.on) /\ h' = [k EXCEPT !.paid = 0, !.blind = 0, !.killed = d, !.owed = o]
    BY <2>2
  <2> HIDE DEF e, k
  <2>5. o \in NoDebt..(MaxLen + 1) /\ d \in BOOLEAN
    BY <2>3, DmaAssumption DEF Debt, NoDebt
  <2> HIDE DEF o, d
  <2>6. h' \in Debt /\ h'.owed = o /\ (h'.killed <=> d)
    BY <2>3, <2>4, <2>5 DEF Debt
  <2>7. CASE kills
    <3>1. v' = [e EXCEPT !.mode = "off", !.req = "hblank"]
      BY <2>4, <2>7 DEF lcd_switched
    <3>2. v' \in Engine /\ v'.halt = v.halt /\ v'.mode = "off"
      BY <2>3, <3>1 DEF Engine, Modes, Requests
    <3>3. h'.killed
      BY <2>6, <2>7 DEF d
    <3>4. Rest(v', h')
      BY <3>2, <3>3 DEF Rest
    <3> QED BY <1>3, <2>1, <2>6, <3>2, <3>4, Stored
  <2>8. CASE ~kills
    <3>1. h'.owed = k.owed /\ (h'.killed <=> k.killed)
      BY <2>6, <2>8 DEF o, d
    <3>2. v' = e \/ (e.mode = "armedLcdOff" /\ v' = [e EXCEPT !.mode = "armedLcdOn"])
      BY <2>4, <2>8 DEF lcd_switched
    <3>3. v' \in Engine /\ v'.halt = v.halt /\ Rest(v', h')
      BY <2>3, <3>1, <3>2 DEF Rest, Engine, Modes
    <3> QED BY <1>3, <2>1, <2>6, <3>3, Stored
  <2> QED BY <2>7, <2>8
<1> QED BY <1>1, <1>2, <1>3
-----------------------------------------------------------------------------
(* Sleeps, STOP and speed switches. *)

\* A sleep takes the pending request away and remembers it.
LEMMA Gating ==
  ASSUME NEW e \in Engine, NEW k \in Debt, Rest(e, k), e.req # "gdma", NEW p
  PROVE  /\ halt_gated(e, p) \in Engine /\ halt_gated(e, p).req = "none"
         /\ Owes(gapped(k, p), k) /\ Rest(halt_gated(e, p), gapped(k, p))
<1> DEFINE l == IF e.req # "none" THEN "requested"
                ELSE IF e.mode = "armedLcdOn" /\ hdma_period_halt(p) THEN "high" ELSE "low"
           w == halt_gated(e, p)
<1>1. l \in HaltHdma /\ w = [e EXCEPT !.req = "none", !.halt = l]
  BY DEF halt_gated, HaltHdma
<1> HIDE DEF l
<1>2. w \in Engine /\ w.req = "none" /\ w.mode = e.mode /\ w.done = e.done /\ w.len = e.len
  BY <1>1 DEF Engine, Requests
<1>3. Owes(gapped(k, p), k)
  BY DEF Owes, gapped, Debt
<1> HIDE DEF w
<1>4. Rest(w, gapped(k, p))
  BY <1>2, <1>3 DEF Rest, Owes
<1> QED BY <1>2, <1>3, <1>4 DEF w

\* A wake requests again what the sleep deferred, or the block of an open window.
LEMMA Waking ==
  ASSUME NEW e \in Engine, NEW k \in Debt, Rest(e, k), e.req # "gdma", NEW p, NEW window,
         NEW m0
  PROVE  LET w == vram_dma_unhalt(e, window, m0)
             q == woken(k, e, p, window, m0)
         IN w \in Engine /\ w.req # "gdma" /\ w.halt = "low" /\ Owes(q, k) /\ Rest(w, q)
<1> DEFINE r == IF e.halt = "requested" THEN "unhalt"
                ELSE IF WakeFires(e, window, m0) THEN "hblank" ELSE e.req
           w == vram_dma_unhalt(e, window, m0)
           q == woken(k, e, p, window, m0)
<1>1. r \in Requests /\ r # "gdma" /\ w = [e EXCEPT !.req = r, !.halt = "low"]
  BY DEF vram_dma_unhalt, Engine, Requests
<1> HIDE DEF r
<1>2. /\ w \in Engine /\ w.req = r /\ w.mode = e.mode /\ w.done = e.done /\ w.len = e.len
      /\ w.halt = "low"
  BY <1>1 DEF Engine, HaltHdma
<1>3. Owes(q, k)
  <2> DEFINE fires == WakeFires(e, window, m0)
             a == IF fires THEN k.paid + 1 ELSE k.paid
             b == IF fires /\ ~window /\ ~hdma_trigger_level(p) THEN k.blind + 1 ELSE k.blind
  <2>1. a \in Nat /\ b \in Nat
    BY DEF Debt
  <2>2. q = [k EXCEPT !.paid = a, !.blind = b]
    BY DEF woken
  <2> HIDE DEF a, b, q
  <2> QED BY <2>1, <2>2 DEF Owes, Debt
<1> HIDE DEF w, q
<1>4. Rest(w, q)
  BY <1>2, <1>3 DEF Rest, Owes
<1> QED BY <1>1, <1>2, <1>3, <1>4 DEF w, q

\* HALT and deep STOP keep the invariant, asleep and waking.
LEMMA HaltKeeps == IInv /\ (HaltStays \/ HaltWakes \/ StopSleeps \/ StopWakes) => IInv'
<1> SUFFICES ASSUME IInv, HaltStays \/ HaltWakes \/ StopSleeps \/ StopWakes PROVE IInv'
  OBVIOUS
<1>0. Typed /\ Placed /\ Rest(v, h) /\ svc = NoService /\ svc' = svc /\ st' = st
  BY DEF IInv, HaltStays, HaltWakes, StopSleeps, StopWakes, Idle
<1>1. ASSUME NEW at \in Asleep, Gated(at), v.req = "none", cpu.at \in Asleep PROVE IInv'
  <2>1. cpu' \in Cpu /\ cpu'.at = at /\ cpu'.gate
    BY <1>0, <1>1 DEF Gated, Typed, Cpu, At, Asleep
  <2>2. v' \in Engine /\ h' \in Debt /\ Rest(v', h') /\ v'.req = "none"
    <3>1. CASE cpu.gate
      BY <1>0, <1>1, <3>1 DEF Gated, Typed
    <3>2. CASE ~cpu.gate
      <4>1. v' = halt_gated(v, ppu) /\ h' = gapped(h, ppu)
        BY <1>1, <3>2 DEF Gated
      <4> QED BY <1>0, <1>1, <4>1, Gating DEF Typed, Owes
    <3> QED BY <3>1, <3>2
  <2>3. Typed' /\ Placed'
    BY <1>0, <2>1, <2>2 DEF Typed, Placed, Asleep
  <2> QED BY <1>0, <2>2, <2>3 DEF IInv
<1>2. ASSUME NEW at \in {"woken", "fetch"}, Ungated(at), cpu.at \in Asleep PROVE IInv'
  <2>0. v.req # "gdma"
    BY <1>0, <1>2 DEF Placed, Asleep
  <2>1. cpu' \in Cpu /\ cpu'.at = at /\ ~cpu'.gate
    BY <1>0, <1>2 DEF Ungated, Typed, Cpu, At
  <2>2. v' \in Engine /\ h' \in Debt /\ Rest(v', h') /\ v'.req # "gdma" /\ v'.halt = "low"
    <3>1. CASE ~cpu.gate
      BY <1>0, <1>2, <2>0, <3>1 DEF Ungated, Typed, Placed
    <3>2. CASE cpu.gate
      <4>1. PICK m0 \in FlipSeen(ppu) :
              /\ v' = vram_dma_unhalt(v, hdma_period_halt(ppu), m0)
              /\ h' = woken(h, v, ppu, hdma_period_halt(ppu), m0)
        BY <1>2, <3>2 DEF Ungated
      <4> QED BY <1>0, <2>0, <4>1, Waking DEF Typed, Owes
    <3> QED BY <3>1, <3>2
  <2>3. Typed' /\ Placed'
    BY <1>0, <2>1, <2>2 DEF Typed, Placed, Asleep
  <2> QED BY <1>0, <2>2, <2>3 DEF IInv
<1>3. CASE HaltStays
  BY <1>1, <1>3 DEF HaltStays, Idle, Asleep
<1>4. CASE HaltWakes
  BY <1>2, <1>4 DEF HaltWakes, Idle, Asleep
<1>5. CASE StopWakes
  BY <1>2, <1>5 DEF StopWakes, Idle, Asleep
<1>6. CASE StopSleeps
  <2>1. /\ cpu.at = "stopIdle" /\ cpu' = [cpu EXCEPT !.gate = TRUE]
        /\ \E p2 \in scan(ppu, Dots) :
             LET t == Ticked(p2)
             IN /\ v' = IF cpu.gate THEN t.v ELSE halt_gated(t.v, p2)
                /\ h' = IF cpu.gate THEN t.h ELSE gapped(t.h, p2)
    BY <1>6 DEF StopSleeps, Idle
  <2>2. PICK p2 \in scan(ppu, Dots) :
          /\ v' = IF cpu.gate THEN Ticked(p2).v ELSE halt_gated(Ticked(p2).v, p2)
          /\ h' = IF cpu.gate THEN Ticked(p2).h ELSE gapped(Ticked(p2).h, p2)
    BY <2>1
  <2> DEFINE e == Ticked(p2).v
             k == Ticked(p2).h
  <2>3. /\ e \in Engine /\ k \in Debt /\ Rest(e, k) /\ e.halt = v.halt
        /\ e.req = v.req \/ (e.req = "hblank" /\ ~cpu.gate)
    BY <1>0, Ticking DEF Owes
  <2>4. /\ v' = IF cpu.gate THEN e ELSE halt_gated(e, p2)
        /\ h' = IF cpu.gate THEN k ELSE gapped(k, p2)
    BY <2>2
  <2> HIDE DEF e, k
  <2>5. v.req # "gdma" /\ (cpu.gate => v.req = "none")
    BY <1>0, <2>1 DEF Placed, Asleep
  <2>6. v' \in Engine /\ h' \in Debt /\ Rest(v', h') /\ v'.req = "none"
    BY <2>3, <2>4, <2>5, Gating DEF Owes
  <2>7. cpu' \in Cpu /\ cpu'.at = "stopIdle" /\ cpu'.gate
    BY <1>0, <2>1 DEF Typed, Cpu
  <2>8. Typed' /\ Placed'
    BY <1>0, <2>6, <2>7 DEF Typed, Placed, Asleep
  <2> QED BY <1>0, <2>6, <2>8 DEF IInv
<1> QED BY <1>3, <1>4, <1>5, <1>6

\* The entry of STOP keeps the invariant, whichever way it takes the request.
LEMMA StopKeeps == IInv /\ (\E switching \in BOOLEAN : Stop(switching)) => IInv'
<1> SUFFICES ASSUME IInv, NEW switching \in BOOLEAN, Stop(switching) PROVE IInv'
  OBVIOUS
<1>0. /\ Typed /\ Placed /\ Rest(v, h) /\ svc = NoService /\ svc' = svc
      /\ cpu.at = "exec" /\ cpu.n = 0
  BY DEF IInv, Stop, Idle
<1>1. v.req # "gdma" /\ ~cpu.gate /\ v.halt = "low"
  BY <1>0 DEF Placed, Asleep
<1> DEFINE entering == switching /\ ~cpu.double
           double == cpu.double /\ ~switching
           at == IF switching THEN "stopEnter" ELSE "stopIdle"
<1>2. PICK p2 \in scan(ppu, IF double THEN 2 ELSE 4) :
        LET t == Ticked(p2)
            back == [t.v EXCEPT !.req = IF v.req # "none" THEN v.req ELSE @]
        IN /\ h' = IF switching THEN HistoryAt(h, p2) ELSE t.h
           /\ v' = IF switching THEN paused(t.v, entering) ELSE back
           /\ st' = IF switching THEN [entering |-> entering, req |-> v.req] ELSE st
           /\ cpu' = [cpu EXCEPT !.double = double, !.gate = switching, !.at = at]
  BY DEF Stop
<1> DEFINE e == Ticked(p2).v
           r == IF v.req # "none" THEN v.req ELSE e.req
           l == IF v.req # "none" /\ ~entering THEN "requested"
                ELSE IF v.mode = "armedLcdOn" /\ hdma_period(ppu) THEN "high" ELSE "low"
<1>3. /\ e \in Engine /\ Ticked(p2).h \in Debt /\ Rest(e, Ticked(p2).h) /\ e.halt = v.halt
      /\ Owes(Ticked(p2).h, h)
      /\ e.len = v.len /\ e.done = v.done /\ e.mode = v.mode
      /\ e.req = v.req \/ e.req = "hblank"
  BY <1>0, Ticking DEF Owes
<1>4. Owes(HistoryAt(h, p2), h)
  BY <1>0 DEF Owes, HistoryAt, Typed, Debt
<1>5. /\ h' = (IF switching THEN HistoryAt(h, p2) ELSE Ticked(p2).h)
      /\ v' = IF switching THEN [e EXCEPT !.halt = l] ELSE [e EXCEPT !.req = r]
  <2>1. [e EXCEPT !.req = IF v.req # "none" THEN v.req ELSE @] = [e EXCEPT !.req = r]
    OBVIOUS
  <2> QED BY <1>2, <2>1 DEF paused
<1> HIDE DEF e
<1>6. h' \in Debt /\ Owes(h', h)
  BY <1>3, <1>4, <1>5 DEF Owes
<1>7. l \in HaltHdma /\ r \in Requests /\ r # "gdma"
  BY <1>0, <1>1, <1>3 DEF HaltHdma, Typed, Engine
<1> HIDE DEF l, r
<1>8. /\ v' \in Engine /\ v'.req # "gdma" /\ v'.len = v.len /\ v'.done = v.done
      /\ v'.mode = v.mode /\ (~switching => v'.halt = "low")
  BY <1>1, <1>3, <1>5, <1>7 DEF Engine
<1>9. Rest(v', h')
  BY <1>0, <1>1, <1>6, <1>8 DEF Rest, Owes
<1>10. /\ cpu' \in Cpu /\ cpu'.at = at /\ (cpu'.gate <=> switching)
  <2>1. double \in BOOLEAN /\ at \in At /\ cpu' = [cpu EXCEPT !.double = double, !.gate = switching, !.at = at]
    BY <1>2 DEF At
  <2> HIDE DEF double, at
  <2> QED BY <1>0, <2>1 DEF Typed, Cpu
<1>11. st' \in [entering : BOOLEAN, req : Requests] /\ st'.req # "gdma"
  <2>1. st' = (IF switching THEN [entering |-> entering, req |-> v.req] ELSE st)
        /\ entering \in BOOLEAN /\ v.req \in Requests
    BY <1>0, <1>2 DEF Typed, Engine
  <2> HIDE DEF entering
  <2> QED BY <1>0, <1>1, <2>1 DEF Typed, Placed
<1>12. Typed' /\ Placed'
  BY <1>0, <1>6, <1>8, <1>10, <1>11 DEF Typed, Placed, Asleep
<1> QED BY <1>0, <1>9, <1>12 DEF IInv

\* The pause of a speed switch keeps the invariant.
LEMMA PauseKeeps == IInv /\ (StopEnter \/ PauseEnds) => IInv'
<1> SUFFICES ASSUME IInv, StopEnter \/ PauseEnds PROVE IInv'
  OBVIOUS
<1>0. Typed /\ Placed /\ Rest(v, h) /\ svc = NoService /\ svc' = svc
  BY DEF IInv, StopEnter, PauseEnds, Idle
<1>1. CASE StopEnter
  <2>1. cpu.at = "stopEnter" /\ cpu.gate /\ st' = st
    BY <1>0, <1>1 DEF StopEnter, Idle, Placed
  <2>2. PICK p2 \in scan(ppu, Dots) :
          LET t == Ticked(p2)
              aborts == st.entering /\ t.v.mode = "armedLcdOn" /\ hdma_period(p2)
                        /\ hdma_block_m_cycle(p2)
          IN /\ h' = t.h
             /\ v' = [t.v EXCEPT !.req = IF st.entering THEN st.req ELSE "none",
                                 !.done = @ \/ aborts, !.mode = IF aborts THEN "off" ELSE @]
    BY <1>1 DEF StopEnter
  <2> DEFINE e == Ticked(p2).v
             k == Ticked(p2).h
             aborts == st.entering /\ e.mode = "armedLcdOn" /\ hdma_period(p2)
                        /\ hdma_block_m_cycle(p2)
             r == IF st.entering THEN st.req ELSE "none"
             d == e.done \/ aborts
             md == IF aborts THEN "off" ELSE e.mode
  <2>3. /\ e \in Engine /\ k \in Debt /\ Rest(e, k) /\ Owes(k, h)
        /\ e.done = v.done /\ e.mode = v.mode /\ e.len = v.len
    BY <1>0, Ticking DEF Owes
  <2>4. h' = k /\ v' = [e EXCEPT !.req = r, !.done = d, !.mode = md]
    BY <2>2
  <2> HIDE DEF e, k
  <2>5. aborts \in BOOLEAN
    OBVIOUS
  <2> HIDE DEF aborts
  <2>6. /\ r \in Requests /\ r # "gdma" /\ (r # "none" => st.entering)
        /\ d \in BOOLEAN /\ md \in Modes
    BY <1>0, <2>3, <2>5 DEF Typed, Placed, Engine, Requests, Modes
  <2>7. (md # "off" => md = v.mode /\ (d <=> v.done)) /\ (~d => md = v.mode /\ ~v.done)
    BY <2>3, <2>5
  <2> HIDE DEF r, d, md
  <2>8. v' \in Engine /\ v'.req = r /\ (v'.done <=> d) /\ v'.mode = md /\ v'.len = v.len
    BY <2>3, <2>4, <2>6 DEF Engine
  <2>9. v.req # "gdma"
    BY <1>0, <2>1 DEF Placed
  <2>10. Rest(v', h')
    BY <1>0, <2>3, <2>4, <2>7, <2>8, <2>9 DEF Rest, Owes
  <2>11. cpu' \in Cpu /\ cpu'.at = "pause" /\ cpu'.gate
    <3> DEFINE f == cpu.double \/ st.entering
    <3>1. cpu' = [cpu EXCEPT !.double = f, !.at = "pause"] /\ f \in BOOLEAN /\ "pause" \in At
      BY <1>1 DEF StopEnter, At
    <3> HIDE DEF f
    <3> QED BY <1>0, <2>1, <3>1 DEF Typed, Cpu
  <2>12. Typed' /\ Placed'
    BY <1>0, <2>1, <2>3, <2>4, <2>6, <2>8, <2>11 DEF Typed, Placed, Asleep
  <2> QED BY <1>0, <2>10, <2>12 DEF IInv
<1>2. CASE PauseEnds
  <2>1. PICK n \in (IF st.entering THEN {0} ELSE {2, 6}) :
          \E p2 \in scan(ppu, n \div 2) : \E m0 \in FlipSeen(p2) :
            LET e == folded(v, p2)
                line == HistoryAt(h, p2)
                shifted == [p2 EXCEPT !.shift = @ + (n \div 2)]
                window == hdma_period(shifted)
            IN v' = vram_dma_unhalt(e, window, m0) /\ h' = woken(line, e, shifted, window, m0)
    BY <1>2 DEF PauseEnds
  <2>2. PICK p2 \in scan(ppu, n \div 2) : \E m0 \in FlipSeen(p2) :
          LET e == folded(v, p2)
              line == HistoryAt(h, p2)
              shifted == [p2 EXCEPT !.shift = @ + (n \div 2)]
              window == hdma_period(shifted)
          IN v' = vram_dma_unhalt(e, window, m0) /\ h' = woken(line, e, shifted, window, m0)
    BY <2>1
  <2> DEFINE e == folded(v, p2)
             line == HistoryAt(h, p2)
             shifted == [p2 EXCEPT !.shift = @ + (n \div 2)]
             window == hdma_period(shifted)
  <2>3. cpu.at = "pause" /\ cpu.gate /\ v.req = "none"
    BY <1>0, <1>2 DEF PauseEnds, Idle, Placed
  <2>4. /\ e \in Engine /\ e.req # "gdma" /\ e.len = v.len /\ e.done = v.done
        /\ e.mode = v.mode
    BY <1>0, <2>3, Ticking DEF Ticked
  <2>5. line \in Debt /\ Owes(line, h)
    BY <1>0 DEF Owes, HistoryAt, Typed, Debt
  <2>6. PICK m0 \in FlipSeen(p2) :
          v' = vram_dma_unhalt(e, window, m0) /\ h' = woken(line, e, shifted, window, m0)
    BY <2>2
  <2> HIDE DEF e, line, shifted, window
  <2>7. Rest(e, line)
    BY <1>0, <2>3, <2>4, <2>5 DEF Rest, Owes
  <2>8. v' \in Engine /\ v'.req # "gdma" /\ v'.halt = "low" /\ h' \in Debt /\ Rest(v', h')
    BY <2>4, <2>5, <2>6, <2>7, Waking DEF Owes
  <2>9. cpu' \in Cpu /\ cpu'.at = "fetch" /\ ~cpu'.gate /\ st' = NoStop
    BY <1>0, <1>2 DEF PauseEnds, Typed, Cpu, At
  <2>10. st' \in [entering : BOOLEAN, req : Requests] /\ st'.req # "gdma"
    BY <2>9 DEF NoStop, Requests
  <2>11. Typed' /\ Placed'
    BY <1>0, <2>8, <2>9, <2>10 DEF Typed, Placed, Asleep
  <2> QED BY <1>0, <2>8, <2>11 DEF IInv
<1> QED BY <1>1, <1>2
-----------------------------------------------------------------------------
\* The inductive invariant: FF55, the arming and the debt agree between two services and
\* are about to agree in one, a whole transfer is pending only before the next fetch, and
\* under the gate a request is only met around the pause of a speed switch.
THEOREM Inductive == Spec => []IInv
<1>1. IInv /\ [Next]_vars => IInv'
  <2>1. IInv /\ UNCHANGED vars => IInv'
    BY DEF vars, IInv, Typed, Placed
  <2>2. IInv /\ Next => IInv'
    BY CyclesKeep, EngineKeeps, DecisionsKeep, StoresKeep, HaltKeeps, StopKeeps, PauseKeeps
       DEF Next
  <2> QED BY <2>1, <2>2
<1> QED BY <1>1, InitHolds, PTL DEF Spec

\* For every length and every order of sleeps, switches, cancels and LCD writes, an armed
\* engine reads active, and what reads active unarmed is requested now or lost its arming
\* to the LCD (hdma.rs:51-117, memory.rs:459).
THEOREM ArmedReadsActive == Spec => []ActiveMeansArmed
<1>1. IInv => ActiveMeansArmed
  BY DEF IInv, Rest, ActiveMeansArmed
<1> QED BY <1>1, Inductive, PTL

\* For every length, FF55 holds between two services what the program asked for and has
\* not got (hdma.rs:67, 110).
THEOREM LengthExact == Spec => []LengthIsWhatIsOwed
<1>1. IInv => LengthIsWhatIsOwed
  BY DEF IInv, Rest, LengthIsWhatIsOwed
<1> QED BY <1>1, Inductive, PTL

\* Wherever the scan is, a sleep defers the engine and never runs it
\* (tick.rs:188-195, 233-247, speed.rs:246).
THEOREM SleepSafe == Spec => []SleepDefers
<1>1. IInv => SleepDefers
  BY DEF IInv, Placed, SleepDefers, Seams, Asleep
<1> QED BY <1>1, Inductive, PTL
-----------------------------------------------------------------------------
(* One block per HBlank. *)

\* The HBlank of a visible line, and the two dots of it past the wrap.
PastWrap(p) == p.on /\ p.after /\ p.dot < 2
InHBlank(p) == hdma_trigger_level(p) \/ PastWrap(p)

\* No line is shifted beyond the dots of its trigger: past that, hdma_period_law takes
\* the start of an HBlank for the line before.
ShiftsStaySmall == \A f \in Flips : MaxShift <= f + 2

Even(k) == k.paid <= k.blind
Settled(p, k) == k.paid <= 1 + k.blind /\ (~InHBlank(p) => Even(k))

\* The payments of an HBlank: once per block that is seen, and none while a sleep knows
\* of no block.
Unaware == cpu.gate /\ v.halt = "low" /\ v.mode = "armedLcdOn"
Paid ==
  /\ ppu \in Ppu
  /\ hdma_trigger_level(ppu) => v.prev
  /\ Settled(ppu, h)
  /\ Unaware => Even(h) \/ (cpu.at = "stopEnter" /\ PastWrap(ppu))

\* Some dots later the HBlank goes on or is over.
LEMMA Scanning ==
  ASSUME ppu \in Ppu, NEW d \in 0..4, NEW p2 \in scan(ppu, d)
  PROVE  /\ p2 \in Ppu
         /\ InHBlank(ppu) => InHBlank(p2) \/ HBlankOver(p2)
         /\ PastWrap(ppu) /\ hdma_trigger_level(p2) => HBlankOver(p2)
         /\ PastWrap(ppu) /\ d >= 2 => HBlankOver(p2)
         /\ ShiftsStaySmall /\ d = 4 /\ hdma_trigger_level(ppu) /\ ~hdma_period(ppu)
              => HBlankOver(p2) \/ PastWrap(p2)
<1>1. /\ ppu.on \in BOOLEAN /\ ppu.visible \in BOOLEAN /\ ppu.after \in BOOLEAN
      /\ ppu.dot \in 0..(LineDots - 1) /\ ppu.flip \in Flips /\ ppu.shift \in 0..MaxShift
      /\ LineDots \in Nat /\ MaxShift \in Nat /\ ppu.flip \in 4..(LineDots - 10)
  BY DmaAssumption DEF Ppu
<1>2. CASE ~ppu.on
  BY <1>1, <1>2 DEF scan, hdma_trigger_level, InHBlank, PastWrap
<1>3. CASE ppu.on /\ ppu.dot + d < LineDots
  <2> DEFINE x == ppu.dot + d
  <2>1. p2 = [ppu EXCEPT !.dot = x]
    BY <1>3 DEF scan
  <2>2. x \in 0..(LineDots - 1) /\ x >= ppu.dot /\ (d >= 2 => x >= 2)
    BY <1>1, <1>3
  <2>3. d = 4 => x = ppu.dot + 4
    OBVIOUS
  <2> HIDE DEF x
  <2>4. /\ p2 \in Ppu /\ p2.on = ppu.on /\ p2.visible = ppu.visible /\ p2.after = ppu.after
        /\ p2.dot = x /\ p2.flip = ppu.flip /\ p2.shift = ppu.shift
    BY <2>1, <2>2 DEF Ppu
  <2>5. InHBlank(ppu) => InHBlank(p2) \/ HBlankOver(p2)
    BY <1>1, <2>2, <2>4 DEF InHBlank, hdma_trigger_level, PastWrap, HBlankOver
  <2>6. /\ PastWrap(ppu) /\ hdma_trigger_level(p2) => HBlankOver(p2)
        /\ PastWrap(ppu) /\ d >= 2 => HBlankOver(p2)
    BY <1>1, <2>2, <2>4 DEF hdma_trigger_level, PastWrap, HBlankOver
  <2>7. ~(ShiftsStaySmall /\ d = 4 /\ hdma_trigger_level(ppu) /\ ~hdma_period(ppu))
    <3> SUFFICES ASSUME ShiftsStaySmall, d = 4, hdma_trigger_level(ppu) PROVE hdma_period(ppu)
      OBVIOUS
    <3>1. ppu.dot >= ppu.flip + 2 /\ MaxShift <= ppu.flip + 2
      BY <1>1 DEF hdma_trigger_level, ShiftsStaySmall
    <3>2. ppu.dot + 4 < LineDots
      BY <1>3
    <3>3. ppu.dot >= ppu.shift /\ (ppu.dot - ppu.shift) + 3 < LineDots
      BY <1>1, <3>1, <3>2
    <3> QED BY <3>3 DEF hdma_period
  <2> QED BY <2>4, <2>5, <2>6, <2>7
<1>4. CASE ppu.on /\ ~(ppu.dot + d < LineDots)
  <2> DEFINE x == ppu.dot + d - LineDots
  <2>1. PICK vis \in BOOLEAN, f \in Flips :
          p2 = [on |-> TRUE, visible |-> vis, after |-> ppu.visible, dot |-> x, flip |-> f,
                shift |-> ppu.shift]
    BY <1>4 DEF scan
  <2>2. x \in 0..(LineDots - 1) /\ x < ppu.dot /\ x < 4 /\ ppu.dot >= 10
    BY <1>1, <1>4
  <2> HIDE DEF x
  <2>3. p2 \in Ppu /\ p2.on /\ p2.after = ppu.visible /\ p2.dot = x
    BY <1>1, <2>1, <2>2 DEF Ppu
  <2>4. HBlankOver(p2) \/ x < 2
    BY <1>1, <2>2, <2>3 DEF HBlankOver
  <2>5. ~PastWrap(ppu)
    BY <1>1, <2>2 DEF PastWrap
  <2>6. hdma_trigger_level(ppu) => HBlankOver(p2) \/ PastWrap(p2)
    BY <2>3, <2>4 DEF hdma_trigger_level, PastWrap
  <2> QED BY <2>3, <2>5, <2>6 DEF InHBlank
<1> QED BY <1>2, <1>3, <1>4

\* What an M-cycle does to the payments, with the edge of the trigger and without.
LEMMA Charging ==
  ASSUME Typed, Paid, NEW d \in 0..4, NEW p2 \in scan(ppu, d)
  PROVE  LET t == Ticked(p2)
             line == HistoryAt(h, p2)
         IN /\ p2 \in Ppu /\ t.v.prev = hdma_trigger_level(p2)
            /\ t.v \in Engine /\ t.v.mode = v.mode /\ t.v.halt = v.halt
            /\ t.h \in Debt /\ line \in Debt
            /\ Settled(p2, t.h) /\ Settled(p2, line)
            /\ Even(h) \/ HBlankOver(p2) => Even(line)
            /\ cpu.gate => t.h = line
<1> DEFINE t == Ticked(p2)
           line == HistoryAt(h, p2)
<1>1. p2 \in Ppu
  BY Scanning DEF Paid
<1>2. t.h \in Debt /\ t.v \in Engine /\ t.v.mode = v.mode /\ t.v.halt = v.halt
  BY Ticking DEF Owes
<1>3. t.v.prev = hdma_trigger_level(p2)
  <2>1. hdma_trigger_level(p2) \in BOOLEAN
    BY DEF hdma_trigger_level
  <2> QED BY <2>1 DEF Ticked, folded, Typed, Engine
<1>4. /\ line \in Debt /\ (line = h \/ (line.paid = 0 /\ line.blind = 0))
      /\ HBlankOver(p2) => line.paid = 0 /\ line.blind = 0
  BY DEF HistoryAt, Typed, Debt
<1>5. t.h = IF Edge(v, p2) THEN [line EXCEPT !.paid = @ + 1] ELSE line
  BY DEF Ticked
<1>6. Edge(v, p2) => ~hdma_trigger_level(ppu) /\ hdma_trigger_level(p2) /\ ~cpu.gate
  BY DEF Edge, Paid
<1>7. Settled(ppu, h) /\ h.paid \in Nat /\ h.blind \in Nat
  BY DEF Paid, Typed, Debt
<1>8. ~InHBlank(ppu) \/ HBlankOver(p2) \/ Even(h) => Even(line)
  BY <1>4, <1>7 DEF Settled, Even
<1>9. Settled(p2, line)
  <2>1. line.paid <= 1 + line.blind
    BY <1>4, <1>7 DEF Settled
  <2>2. ~InHBlank(p2) => ~InHBlank(ppu) \/ HBlankOver(p2)
    BY Scanning DEF Paid
  <2> QED BY <1>8, <2>1, <2>2 DEF Settled
<1>10. Edge(v, p2) => Even(line)
  <2>1. Edge(v, p2) => ~InHBlank(ppu) \/ HBlankOver(p2)
    BY <1>6, Scanning DEF Paid, InHBlank
  <2> QED BY <1>8, <2>1
<1> HIDE DEF line, t
<1>11. Settled(p2, t.h)
  <2>1. CASE Edge(v, p2)
    <3>1. t.h.paid = line.paid + 1 /\ t.h.blind = line.blind
      BY <1>4, <1>5, <2>1 DEF Debt
    <3>2. line.paid \in Nat /\ line.blind \in Nat /\ line.paid <= line.blind
      BY <1>4, <1>10, <2>1 DEF Even, Debt
    <3>3. t.h.paid <= 1 + t.h.blind
      BY <3>1, <3>2
    <3> QED BY <1>6, <2>1, <3>3 DEF Settled, InHBlank
  <2>2. CASE ~Edge(v, p2)
    BY <1>5, <1>9, <2>2
  <2> QED BY <2>1, <2>2
<1>12. cpu.gate => t.h = line
  BY <1>5, <1>6
<1> QED BY <1>1, <1>2, <1>3, <1>4, <1>8, <1>9, <1>11, <1>12 DEF t, line

\* Nothing an engine takes or leaves concerns the payments.
LEMMA ServesKeep ==
  ASSUME NEW e \in Engine, NEW k \in Debt, NEW may, Serves(may, e, k)
  PROVE  /\ v'.prev = e.prev /\ v'.mode = e.mode /\ v'.halt = e.halt
         /\ h'.paid = k.paid /\ h'.blind = k.blind
<1>1. CASE may /\ e.req # "none"
  <2> DEFINE d == e.done \/ Truncated(e)
             x == (e.dst + Taken(e)) % DstBlocks
             o == IF k.owed > 0 THEN k.owed - 1 ELSE k.owed
  <2>1. v' = [e EXCEPT !.req = "none", !.done = d, !.dst = x]
    BY <1>1 DEF Serves, begun
  <2>2. h' = IF e.req = "gdma" THEN k ELSE [k EXCEPT !.owed = o]
    BY <1>1 DEF Serves, charged
  <2> HIDE DEF d, x, o
  <2> QED BY <2>1, <2>2 DEF Engine, Debt
<1>2. CASE ~(may /\ e.req # "none")
  BY <1>2 DEF Serves
<1> QED BY <1>1, <1>2

\* A step of the scan, with the edge of the trigger, whatever else it does.
Scans(d) ==
  \E p2 \in scan(ppu, d) :
    /\ ppu' = p2 /\ v'.prev = Ticked(p2).v.prev
    /\ h'.paid = Ticked(p2).h.paid /\ h'.blind = Ticked(p2).h.blind

LEMMA ScansPay ==
  ASSUME IInv, Paid, NEW d \in {2, 4}, Scans(d),
         cpu'.gate => cpu.gate /\ v'.halt = v.halt /\ v'.mode \in {v.mode, "off"}
  PROVE  Paid'
<1>0. Typed
  BY DEF IInv
<1>1. PICK p2 \in scan(ppu, d) :
        /\ ppu' = p2 /\ v'.prev = Ticked(p2).v.prev
        /\ h'.paid = Ticked(p2).h.paid /\ h'.blind = Ticked(p2).h.blind
  BY DEF Scans
<1> DEFINE k == Ticked(p2).h
           line == HistoryAt(h, p2)
<1>2. /\ p2 \in Ppu /\ v'.prev = hdma_trigger_level(p2) /\ Settled(p2, k)
      /\ Even(h) \/ HBlankOver(p2) => Even(line)
      /\ cpu.gate => k = line
  BY <1>0, <1>1, Charging
<1>3. PastWrap(ppu) => HBlankOver(p2)
  BY <1>1, Scanning DEF Paid
<1>4. h'.paid = k.paid /\ h'.blind = k.blind
  BY <1>1
<1> HIDE DEF k, line
<1>5. Settled(p2, h')
  BY <1>2, <1>4 DEF Settled, Even
<1>6. Unaware' => Even(h')
  <2> SUFFICES ASSUME Unaware' PROVE Even(h')
    OBVIOUS
  <2>1. cpu.gate /\ Unaware
    BY DEF Unaware
  <2>2. Even(line)
    BY <1>2, <1>3, <2>1 DEF Paid
  <2> QED BY <1>2, <1>4, <2>1, <2>2 DEF Even
<1>7. /\ ppu' \in Ppu /\ (hdma_trigger_level(ppu') => v'.prev) /\ Settled(ppu', h')
  BY <1>1, <1>2, <1>5
<1> QED BY <1>6, <1>7 DEF Paid, Settled, InHBlank, hdma_trigger_level, PastWrap, Even, Unaware

\* Both kinds of M-cycle of the CPU are such steps.
LEMMA CyclesScan ==
  ASSUME IInv, Paid, PlainCycle \/ ReadCycle
  PROVE  Scans(Dots) /\ Dots \in {2, 4} /\ v'.halt = v.halt /\ v'.mode = v.mode
<1>1. PICK may \in BOOLEAN, p2 \in scan(ppu, Dots) :
        ppu' = p2 /\ Serves(may, Ticked(p2).v, Ticked(p2).h)
  <2>1. \A p2 : (~Edge(v, p2)) \in BOOLEAN
    OBVIOUS
  <2> QED BY <2>1 DEF PlainCycle, ReadCycle
<1>2. Dots \in {2, 4} /\ Dots \in 0..4
  BY DEF Dots
<1>3. /\ Ticked(p2).v \in Engine /\ Ticked(p2).h \in Debt
      /\ Ticked(p2).v.mode = v.mode /\ Ticked(p2).v.halt = v.halt
  BY <1>1, <1>2, Charging DEF IInv
<1>4. /\ v'.prev = Ticked(p2).v.prev /\ v'.mode = v.mode /\ v'.halt = v.halt
      /\ h'.paid = Ticked(p2).h.paid /\ h'.blind = Ticked(p2).h.blind
  BY <1>1, <1>3, ServesKeep
<1> QED BY <1>1, <1>2, <1>4 DEF Scans

LEMMA CyclesPay ==
  IInv /\ Paid /\ (Fetch \/ DispatchCycle \/ FetchVector \/ ReadOperand \/ OtherCycle
                   \/ HaltIdle \/ PauseCycle) => Paid'
<1> SUFFICES ASSUME IInv, Paid, Fetch \/ DispatchCycle \/ FetchVector \/ ReadOperand
                                \/ OtherCycle \/ HaltIdle \/ PauseCycle
             PROVE  Paid'
  OBVIOUS
<1>1. PlainCycle \/ ReadCycle
  BY DEF Fetch, DispatchCycle, FetchVector, ReadOperand, OtherCycle, HaltIdle, PauseCycle
<1>2. cpu'.gate = cpu.gate
  BY DEF Fetch, DispatchCycle, FetchVector, ReadOperand, OtherCycle, Operation, HaltIdle,
         PauseCycle, Goes, IInv, Typed, Cpu
<1> QED BY <1>1, <1>2, CyclesScan, ScansPay

\* A decision between two M-cycles, and a service that begins in one.
LEMMA DecisionsPay ==
  IInv /\ Paid /\ (Serve \/ Interrupt \/ Decode \/ Finish \/ Halt
                   \/ \E switching \in BOOLEAN : StopInterrupted(switching)) => Paid'
<1> SUFFICES ASSUME IInv, Paid, Serve \/ Interrupt \/ Decode \/ Finish \/ Halt
                                \/ \E switching \in BOOLEAN : StopInterrupted(switching)
             PROVE  Paid'
  OBVIOUS
<1>0. Typed
  BY DEF IInv
<1>1. ppu' = ppu
  BY DEF Serve, Interrupt, Decode, Finish, Halt, StopInterrupted
<1>2. /\ v'.prev = v.prev /\ v'.mode = v.mode /\ v'.halt = v.halt
      /\ h'.paid = h.paid /\ h'.blind = h.blind
  <2>1. CASE Serve
    BY <1>0, <2>1, ServesKeep DEF Serve, Typed
  <2>2. CASE ~Serve
    BY <2>2 DEF Interrupt, Decode, Finish, Halt, StopInterrupted
  <2> QED BY <2>1, <2>2
<1>3. cpu'.gate = cpu.gate /\ cpu.at # "stopEnter"
  BY <1>0 DEF Serve, Interrupt, Decode, Finish, Halt, StopInterrupted, Idle, Goes, Typed, Cpu,
              Seams
<1> QED BY <1>1, <1>2, <1>3 DEF Paid, Settled, InHBlank, hdma_trigger_level, PastWrap, Even,
           Unaware

\* A cycle of the engine, copying or tearing down.
LEMMA StealPays == IInv /\ Paid /\ Steal => Paid'
<1> SUFFICES ASSUME IInv, Paid, Steal PROVE Paid'
  OBVIOUS
<1>0. Typed /\ Busy(v, svc, h)
  BY DEF IInv, Steal
<1>1. PICK p2 \in scan(ppu, Dots) :
        LET t == Ticked(p2)
            more == svc.copy > 1 \/ (svc.copy = 1 /\ svc.kind # "unhalt")
        IN /\ ppu' = p2
           /\ IF more THEN v' = t.v /\ svc' = [svc EXCEPT !.copy = @ - 1] /\ h' = t.h
              ELSE Serves(cpu.at = "exec", finished(t.v, svc), t.h)
  BY DEF Steal
<1>2. Dots \in {2, 4} /\ Dots \in 0..4 /\ cpu' = cpu
  BY DEF Dots, Steal
<1> DEFINE e == Ticked(p2).v
           k == Ticked(p2).h
           w == finished(e, svc)
<1>3. e \in Engine /\ k \in Debt /\ e.mode = v.mode /\ e.halt = v.halt
  BY <1>0, <1>1, <1>2, Charging
<1>4. w \in Engine /\ w.prev = e.prev /\ w.mode \in {e.mode, "off"} /\ w.halt = e.halt
  <2> DEFINE n == IF svc.rem = 0 THEN MaxLen ELSE svc.rem - 1
             c == IF cpu.gate THEN [e EXCEPT !.done = TRUE]
                  ELSE [e EXCEPT !.len = n, !.done = @ \/ svc.rem = 0]
  <2>1. n \in 0..MaxLen
    <3>1. svc.rem \in 0..(MaxLen + 1)
      BY <1>0 DEF Busy, Serving
    <3> QED BY <3>1, DmaAssumption
  <2> HIDE DEF n
  <2>2. /\ c \in Engine /\ c.prev = e.prev /\ c.mode = e.mode /\ c.halt = e.halt
    BY <1>3, <2>1 DEF Engine
  <2>3. w = IF c.done THEN [c EXCEPT !.mode = "off"] ELSE c
    BY DEF finished, n
  <2> HIDE DEF c, w
  <2> QED BY <2>2, <2>3 DEF Engine, Modes
<1>5. /\ ppu' = p2 /\ v'.prev = e.prev /\ v'.mode \in {e.mode, "off"} /\ v'.halt = e.halt
      /\ h'.paid = k.paid /\ h'.blind = k.blind
  <2>1. CASE v' = e /\ h' = k
    BY <1>1, <2>1
  <2>2. CASE Serves(cpu.at = "exec", w, k)
    <3> HIDE DEF e, k, w
    <3> QED BY <1>1, <1>3, <1>4, <2>2, ServesKeep
  <2> QED BY <1>1, <2>1, <2>2
<1>6. Scans(Dots)
  BY <1>1, <1>5 DEF Scans
<1> HIDE DEF e, k, w
<1> QED BY <1>2, <1>3, <1>5, <1>6, ScansPay

\* A store to the engine's registers moves the scan like any cycle; the LCD's switch
\* begins a frame that has paid for nothing.
LEMMA StoresPay ==
  IInv /\ Paid /\ (\/ \E bit7 \in BOOLEAN, len \in 0..MaxLen : WriteHDMA5(bit7, len)
                   \/ \E x \in 0..(DstBlocks - 1) : WriteHDMA34(x)
                   \/ WriteLCDC) => Paid'
<1> SUFFICES ASSUME IInv, Paid,
                    \/ \E bit7 \in BOOLEAN, len \in 0..MaxLen : WriteHDMA5(bit7, len)
                    \/ \E x \in 0..(DstBlocks - 1) : WriteHDMA34(x)
                    \/ WriteLCDC
             PROVE  Paid'
  OBVIOUS
<1>0. Typed /\ Placed
  BY DEF IInv
<1>1. Dots \in {2, 4} /\ Dots \in 0..4
  BY DEF Dots
<1>2. ~cpu'.gate
  BY <1>0 DEF WriteHDMA5, WriteHDMA34, WriteLCDC, Store, Operation, Idle, Typed, Cpu, Placed,
              Asleep
<1>3. ASSUME NEW bit7 \in BOOLEAN, NEW len \in 0..MaxLen, WriteHDMA5(bit7, len) PROVE Paid'
  <2>1. PICK p2 \in scan(ppu, Dots) :
          /\ ppu' = p2 /\ v' = hdma5_written(Ticked(p2).v, bit7, len)
          /\ h' = [Ticked(p2).h EXCEPT !.owed = IF bit7 THEN len + 1 ELSE NoDebt,
                                       !.killed = FALSE]
    BY <1>3 DEF WriteHDMA5
  <2> DEFINE e == Ticked(p2).v
             k == Ticked(p2).h
  <2>2. e \in Engine /\ k \in Debt
    BY <1>0, <1>1, <2>1, Charging
  <2> HIDE DEF e, k
  <2>3. hdma5_written(e, bit7, len).prev = e.prev
    BY <2>2 DEF hdma5_written, Engine
  <2>4. h'.paid = k.paid /\ h'.blind = k.blind
    BY <2>1, <2>2 DEF Debt, k
  <2>5. Scans(Dots)
    BY <2>1, <2>3, <2>4 DEF Scans, e, k
  <2> QED BY <1>1, <1>2, <2>5, ScansPay
<1>4. ASSUME NEW x \in 0..(DstBlocks - 1), WriteHDMA34(x) PROVE Paid'
  <2>1. PICK p2 \in scan(ppu, Dots) :
          ppu' = p2 /\ v' = [Ticked(p2).v EXCEPT !.dst = x] /\ h' = Ticked(p2).h
    BY <1>4 DEF WriteHDMA34
  <2> DEFINE e == Ticked(p2).v
  <2>2. e \in Engine
    BY <1>0, <1>1, <2>1, Charging
  <2> HIDE DEF e
  <2>3. [e EXCEPT !.dst = x].prev = e.prev
    BY <2>2 DEF Engine
  <2>4. Scans(Dots)
    BY <2>1, <2>3 DEF Scans, e
  <2> QED BY <1>1, <1>2, <2>4, ScansPay
<1>5. CASE WriteLCDC
  <2>1. PICK p2 \in scan(ppu, Dots) :
          LET t == Ticked(p2)
              kills == ppu.on /\ t.v.mode = "armedLcdOn"
          IN /\ ppu' = [on |-> ~ppu.on, visible |-> TRUE, after |-> FALSE, dot |-> 0,
                        flip |-> p2.flip, shift |-> p2.shift]
             /\ h' = [t.h EXCEPT !.paid = 0, !.blind = 0,
                                 !.killed = @ \/ kills, !.owed = IF kills THEN NoDebt ELSE @]
    BY <1>5 DEF WriteLCDC
  <2>2. p2 \in Ppu /\ Ticked(p2).h \in Debt
    BY <1>0, <1>1, <2>1, Charging
  <2>3. h'.paid = 0 /\ h'.blind = 0
    <3> DEFINE k == Ticked(p2).h
               kd == k.killed \/ (ppu.on /\ Ticked(p2).v.mode = "armedLcdOn")
               o == IF ppu.on /\ Ticked(p2).v.mode = "armedLcdOn" THEN NoDebt ELSE k.owed
    <3>1. h' = [k EXCEPT !.paid = 0, !.blind = 0, !.killed = kd, !.owed = o]
      BY <2>1
    <3> HIDE DEF kd, o, k
    <3>2. k \in Debt
      BY <2>2 DEF k
    <3> QED BY <3>1, <3>2 DEF Debt
  <2>4. /\ ppu' \in Ppu /\ ppu'.dot = 0 /\ ppu'.flip = p2.flip /\ p2.flip \in Flips
    <3>1. (~ppu.on) \in BOOLEAN /\ 0 \in 0..(LineDots - 1) /\ p2.flip \in Flips
          /\ p2.shift \in 0..MaxShift
      BY <2>2, DmaAssumption DEF Ppu
    <3> QED BY <2>1, <3>1 DEF Ppu
  <2>5. ~hdma_trigger_level(ppu')
    <3>1. p2.flip \in 4..(LineDots - 10)
      BY <2>4, DmaAssumption
    <3> QED BY <2>4, <3>1 DEF hdma_trigger_level
  <2>6. Settled(ppu', h') /\ Even(h')
    BY <2>3 DEF Settled, Even
  <2> QED BY <1>2, <2>4, <2>5, <2>6 DEF Paid, Settled, InHBlank, hdma_trigger_level, PastWrap,
             Even, Unaware
<1> QED BY <1>3, <1>4, <1>5

\* The entry of STOP.  One that switches looks at the window before the skipped byte: what
\* it takes for the end of the HBlank is past the wrap, or over, when that byte is read.
LEMMA StopPays ==
  ShiftsStaySmall => (IInv /\ Paid /\ (\E switching \in BOOLEAN : Stop(switching)) => Paid')
<1> SUFFICES ASSUME ShiftsStaySmall, IInv, Paid, NEW switching \in BOOLEAN, Stop(switching)
             PROVE  Paid'
  OBVIOUS
<1>0. Typed /\ Placed /\ cpu.at = "exec" /\ ~cpu.gate
  BY DEF IInv, Stop, Idle, Placed, Asleep
<1> DEFINE entering == switching /\ ~cpu.double
           double == cpu.double /\ ~switching
           d == IF double THEN 2 ELSE 4
           at == IF switching THEN "stopEnter" ELSE "stopIdle"
<1>1. PICK p2 \in scan(ppu, d) :
        LET t == Ticked(p2)
            back == [t.v EXCEPT !.req = IF v.req # "none" THEN v.req ELSE @]
        IN /\ ppu' = p2
           /\ h' = IF switching THEN HistoryAt(h, p2) ELSE t.h
           /\ v' = IF switching THEN paused(t.v, entering) ELSE back
           /\ cpu' = [cpu EXCEPT !.double = double, !.gate = switching, !.at = at]
  BY DEF Stop
<1>2. d \in {2, 4} /\ d \in 0..4 /\ (switching => d = 4)
  OBVIOUS
<1>3. cpu'.gate = switching /\ cpu'.at = at
  <2> HIDE DEF double, at
  <2> QED BY <1>0, <1>1 DEF Typed, Cpu
<1> DEFINE e == Ticked(p2).v
           line == HistoryAt(h, p2)
           r == IF v.req # "none" THEN v.req ELSE e.req
           l == IF v.req # "none" /\ ~entering THEN "requested"
                ELSE IF v.mode = "armedLcdOn" /\ hdma_period(ppu) THEN "high" ELSE "low"
<1>4. /\ p2 \in Ppu /\ e.prev = hdma_trigger_level(p2)
      /\ e \in Engine /\ e.mode = v.mode
      /\ Settled(p2, line) /\ (Even(h) \/ HBlankOver(p2) => Even(line))
  BY <1>0, <1>1, <1>2, Charging
<1>5. CASE ~switching
  <2>1. v' = [e EXCEPT !.req = r] /\ h' = Ticked(p2).h
    <3>1. [e EXCEPT !.req = IF v.req # "none" THEN v.req ELSE @] = [e EXCEPT !.req = r]
      OBVIOUS
    <3> QED BY <1>1, <1>5, <3>1
  <2> HIDE DEF r
  <2>2. v'.prev = e.prev
    <3> HIDE DEF e
    <3> QED BY <1>4, <2>1 DEF Engine
  <2>3. Scans(d)
    BY <1>1, <2>1, <2>2 DEF Scans
  <2> HIDE DEF d, e
  <2> QED BY <1>2, <1>3, <1>5, <2>3, ScansPay
<1>6. CASE switching
  <2>1. v' = [e EXCEPT !.halt = l] /\ h' = line
    BY <1>1, <1>6 DEF paused
  <2>2. l = "low" /\ v.mode = "armedLcdOn" => ~hdma_period(ppu)
    OBVIOUS
  <2> HIDE DEF l, e
  <2>3. v'.prev = e.prev /\ v'.halt = l /\ v'.mode = v.mode
    BY <1>4, <2>1 DEF Engine
  <2>4. ~hdma_period(ppu) => Even(line) \/ PastWrap(p2)
    <3>1. CASE ~InHBlank(ppu)
      BY <1>4, <3>1 DEF Paid, Settled
    <3>2. CASE PastWrap(ppu)
      BY <1>1, <1>2, <1>4, <1>6, <3>2, Scanning DEF Paid
    <3>3. CASE hdma_trigger_level(ppu)
      BY <1>1, <1>2, <1>4, <1>6, <3>3, Scanning DEF Paid
    <3> QED BY <3>1, <3>2, <3>3 DEF InHBlank
  <2>5. ppu' = p2
    BY <1>1
  <2> HIDE DEF line
  <2>6. Unaware' => Even(h') \/ (cpu'.at = "stopEnter" /\ PastWrap(ppu'))
    BY <1>3, <1>6, <2>1, <2>2, <2>3, <2>4, <2>5 DEF Unaware
  <2>7. /\ ppu' \in Ppu /\ (hdma_trigger_level(ppu') => v'.prev) /\ Settled(ppu', h')
    BY <1>4, <2>1, <2>3, <2>5 
  <2> QED BY <2>6, <2>7 DEF Paid, Settled, InHBlank, hdma_trigger_level, PastWrap, Even, Unaware
<1> QED BY <1>5, <1>6

\* The cycle before the pause passes the two dots after the wrap.
LEMMA StopEnterPays == IInv /\ Paid /\ StopEnter => Paid'
<1> SUFFICES ASSUME IInv, Paid, StopEnter PROVE Paid'
  OBVIOUS
<1>0. Typed /\ Placed
  BY DEF IInv
<1>1. cpu.at = "stopEnter" /\ cpu.gate
  BY <1>0 DEF StopEnter, Idle, Placed
<1>2. Dots \in {2, 4} /\ Dots \in 0..4
  BY DEF Dots
<1>3. PICK p2 \in scan(ppu, Dots) :
        LET t == Ticked(p2)
            aborts == st.entering /\ t.v.mode = "armedLcdOn" /\ hdma_period(p2)
                      /\ hdma_block_m_cycle(p2)
        IN /\ ppu' = p2 /\ h' = t.h
           /\ v' = [t.v EXCEPT !.req = IF st.entering THEN st.req ELSE "none",
                               !.done = @ \/ aborts,
                               !.mode = IF aborts THEN "off" ELSE @]
  BY DEF StopEnter
<1> DEFINE e == Ticked(p2).v
           aborts == st.entering /\ e.mode = "armedLcdOn" /\ hdma_period(p2)
                     /\ hdma_block_m_cycle(p2)
           r == IF st.entering THEN st.req ELSE "none"
           dn == e.done \/ aborts
           md == IF aborts THEN "off" ELSE e.mode
<1>4. e \in Engine /\ e.mode = v.mode /\ e.halt = v.halt
  BY <1>0, <1>2, <1>3, Charging
<1>5. v' = [e EXCEPT !.req = r, !.done = dn, !.mode = md] /\ md \in {e.mode, "off"}
  BY <1>3
<1> HIDE DEF e, r, dn, md
<1>6. v'.prev = e.prev /\ v'.mode \in {v.mode, "off"} /\ v'.halt = v.halt
  BY <1>4, <1>5 DEF Engine
<1>7. Scans(Dots)
  BY <1>3, <1>6 DEF Scans, e
<1> QED BY <1>1, <1>2, <1>6, <1>7, ScansPay

\* A sleep that begins knows of the block of an HBlank whose window is open; when only
\* the last dots of the line are left it does not, and the history says so.
LEMMA SleepPays ==
  ASSUME NEW e \in Engine, NEW k \in Debt, NEW p, Settled(p, k)
  PROVE  LET w == halt_gated(e, p)
             q == gapped(k, p)
         IN /\ w.prev = e.prev /\ Settled(p, q)
            /\ w.halt = "low" /\ w.mode = "armedLcdOn" => Even(q)
<1> DEFINE l == IF e.req # "none" THEN "requested"
                ELSE IF e.mode = "armedLcdOn" /\ hdma_period_halt(p) THEN "high" ELSE "low"
           w == halt_gated(e, p)
           q == gapped(k, p)
           b == IF hdma_trigger_level(p) /\ ~hdma_period(p) THEN k.blind + 1 ELSE k.blind
<1>1. w = [e EXCEPT !.req = "none", !.halt = l]
  BY DEF halt_gated
<1>2. l = "low" /\ e.mode = "armedLcdOn" => ~hdma_period_halt(p)
  OBVIOUS
<1>3. q = [k EXCEPT !.blind = b]
  BY DEF gapped
<1>4. /\ k.paid \in Nat /\ k.blind \in Nat /\ b \in {k.blind, k.blind + 1}
      /\ hdma_trigger_level(p) /\ ~hdma_period(p) => b = k.blind + 1
  BY DEF Debt
<1> HIDE DEF l, b
<1>5. w.prev = e.prev /\ w.halt = l /\ w.mode = e.mode
  BY <1>1 DEF Engine
<1>6. q.paid = k.paid /\ q.blind = b
  BY <1>3 DEF Debt
<1> HIDE DEF w, q
<1>7. Settled(p, q)
  BY <1>4, <1>6 DEF Settled, Even
<1>8. ~hdma_period_halt(p) => Even(q)
  <2> SUFFICES ASSUME ~hdma_period_halt(p) PROVE Even(q)
    OBVIOUS
  <2>1. ~hdma_period(p) /\ ~PastWrap(p)
    BY DEF hdma_period_halt, PastWrap
  <2>2. CASE hdma_trigger_level(p)
    BY <1>4, <1>6, <2>1, <2>2 DEF Settled, Even
  <2>3. CASE ~hdma_trigger_level(p)
    BY <1>4, <1>6, <2>1, <2>3 DEF Settled, Even, InHBlank
  <2> QED BY <2>2, <2>3
<1> QED BY <1>2, <1>5, <1>7, <1>8 DEF w, q

\* A wake asks for a block the sleep did not know of: the HBlank has not paid, or the
\* history counts a wake ahead of the trigger.
LEMMA WakePays ==
  ASSUME NEW e \in Engine, NEW k \in Debt, NEW p, NEW window, NEW m0, Settled(p, k),
         e.halt = "low" /\ e.mode = "armedLcdOn" => Even(k),
         window => InHBlank(p)
  PROVE  LET w == vram_dma_unhalt(e, window, m0)
         IN w.prev = e.prev /\ Settled(p, woken(k, e, p, window, m0))
<1> DEFINE r == IF e.halt = "requested" THEN "unhalt"
                ELSE IF WakeFires(e, window, m0) THEN "hblank" ELSE e.req
           q == woken(k, e, p, window, m0)
           fires == WakeFires(e, window, m0)
           a == IF fires THEN k.paid + 1 ELSE k.paid
           b == IF fires /\ ~window /\ ~hdma_trigger_level(p) THEN k.blind + 1 ELSE k.blind
<1>1. vram_dma_unhalt(e, window, m0) = [e EXCEPT !.req = r, !.halt = "low"]
  BY DEF vram_dma_unhalt
<1> HIDE DEF r
<1>2. vram_dma_unhalt(e, window, m0).prev = e.prev
  BY <1>1 DEF Engine
<1>3. q = [k EXCEPT !.paid = a, !.blind = b]
  BY DEF woken
<1>4. fires => Even(k)
  BY DEF WakeFires
<1>5. k.paid \in Nat /\ k.blind \in Nat
  BY DEF Debt
<1> HIDE DEF fires
<1>6. a <= 1 + b /\ (~InHBlank(p) => a <= b)
  <2>1. CASE fires
    <3>1. k.paid <= k.blind
      BY <1>4, <2>1 DEF Even
    <3>2. a <= 1 + b
      BY <1>5, <2>1, <3>1
    <3>3. ~InHBlank(p) => a <= b
      BY <1>5, <2>1, <3>1 DEF InHBlank
    <3> QED BY <3>2, <3>3
  <2>2. CASE ~fires
    BY <1>5, <2>2 DEF Settled, Even
  <2> QED BY <2>1, <2>2
<1> HIDE DEF a, b
<1>7. Settled(p, q)
  BY <1>3, <1>6 DEF Settled, Even, Debt
<1> QED BY <1>2, <1>7

\* HALT and the sleep of STOP pay once, asleep and waking.
LEMMA HaltPays == IInv /\ Paid /\ (HaltStays \/ HaltWakes \/ StopSleeps \/ StopWakes) => Paid'
<1> SUFFICES ASSUME IInv, Paid, HaltStays \/ HaltWakes \/ StopSleeps \/ StopWakes
             PROVE  Paid'
  OBVIOUS
<1>0. Typed /\ cpu.at # "stopEnter"
  BY DEF IInv, HaltStays, HaltWakes, StopSleeps, StopWakes, Idle
<1>1. v \in Engine /\ h \in Debt /\ Settled(ppu, h) /\ ppu \in Ppu
      /\ (hdma_trigger_level(ppu) => v.prev)
  BY <1>0 DEF Typed, Paid
<1>2. ASSUME NEW at, Gated(at), ppu' = ppu PROVE Paid'
  <2>1. CASE cpu.gate
    <3>1. v' = v /\ h' = h
      BY <1>2, <2>1 DEF Gated
    <3> QED BY <1>0, <1>1, <1>2, <2>1, <3>1 DEF Paid, Settled, InHBlank, hdma_trigger_level,
               PastWrap, Even, Unaware
  <2>2. CASE ~cpu.gate
    <3>1. v' = halt_gated(v, ppu) /\ h' = gapped(h, ppu)
      BY <1>2, <2>2 DEF Gated
    <3>2. /\ v'.prev = v.prev /\ Settled(ppu, h')
          /\ v'.halt = "low" /\ v'.mode = "armedLcdOn" => Even(h')
      BY <1>1, <3>1, SleepPays
    <3> QED BY <1>1, <1>2, <3>2 DEF Paid, Settled, InHBlank, hdma_trigger_level,
               PastWrap, Even, Unaware
  <2> QED BY <2>1, <2>2
<1>3. ASSUME NEW at, Ungated(at), ppu' = ppu PROVE Paid'
  <2>1. cpu'.gate = FALSE
    BY <1>0, <1>3 DEF Ungated, Typed, Cpu
  <2>2. v'.prev = v.prev /\ Settled(ppu, h')
    <3>1. CASE ~cpu.gate
      BY <1>1, <1>3, <3>1 DEF Ungated
    <3>2. CASE cpu.gate
      <4>1. PICK m0 \in FlipSeen(ppu) :
              /\ v' = vram_dma_unhalt(v, hdma_period_halt(ppu), m0)
              /\ h' = woken(h, v, ppu, hdma_period_halt(ppu), m0)
        BY <1>3, <3>2 DEF Ungated
      <4>2. hdma_period_halt(ppu) => InHBlank(ppu)
        BY DEF hdma_period_halt, hdma_period, InHBlank, PastWrap
      <4>3. v.halt = "low" /\ v.mode = "armedLcdOn" => Even(h)
        BY <1>0, <3>2 DEF Paid, Unaware
      <4> QED BY <1>1, <4>1, <4>2, <4>3, WakePays
    <3> QED BY <3>1, <3>2
  <2> QED BY <1>1, <1>3, <2>1, <2>2 DEF Paid, Settled, InHBlank, hdma_trigger_level,
             PastWrap, Even, Unaware
<1>4. CASE HaltStays
  BY <1>2, <1>4 DEF HaltStays
<1>5. CASE HaltWakes
  BY <1>3, <1>5 DEF HaltWakes
<1>6. CASE StopWakes
  BY <1>3, <1>6 DEF StopWakes
<1>7. CASE StopSleeps
  <2>1. PICK p2 \in scan(ppu, Dots) :
          /\ ppu' = p2
          /\ v' = IF cpu.gate THEN Ticked(p2).v ELSE halt_gated(Ticked(p2).v, p2)
          /\ h' = IF cpu.gate THEN Ticked(p2).h ELSE gapped(Ticked(p2).h, p2)
    BY <1>7 DEF StopSleeps
  <2>2. Dots \in {2, 4} /\ Dots \in 0..4
    BY DEF Dots
  <2> DEFINE e == Ticked(p2).v
             k == Ticked(p2).h
  <2>3. /\ p2 \in Ppu /\ e.prev = hdma_trigger_level(p2) /\ e \in Engine /\ k \in Debt
        /\ e.mode = v.mode /\ e.halt = v.halt /\ Settled(p2, k)
    BY <1>0, <2>1, <2>2, Charging
  <2>4. CASE cpu.gate
    <3>1. Scans(Dots) /\ v'.mode = v.mode /\ v'.halt = v.halt
      BY <2>1, <2>3, <2>4 DEF Scans
    <3> QED BY <2>2, <2>4, <3>1, ScansPay
  <2>5. CASE ~cpu.gate
    <3>1. v' = halt_gated(e, p2) /\ h' = gapped(k, p2)
      BY <2>1, <2>5
    <3> HIDE DEF e, k
    <3>2. /\ v'.prev = e.prev /\ Settled(p2, h')
          /\ v'.halt = "low" /\ v'.mode = "armedLcdOn" => Even(h')
      BY <2>3, <3>1, SleepPays
    <3>3. ppu' = p2
      BY <2>1
    <3> QED BY <2>3, <3>2, <3>3 DEF Paid, Settled, InHBlank, hdma_trigger_level,
               PastWrap, Even, Unaware
  <2> QED BY <2>4, <2>5
<1> QED BY <1>4, <1>5, <1>6, <1>7

\* The end of the pause: the scan moves by the half-dots gained, under the gate, and the
\* window it wakes in is part of the HBlank.
LEMMA PausePays == IInv /\ Paid /\ PauseEnds => Paid'
<1> SUFFICES ASSUME IInv, Paid, PauseEnds PROVE Paid'
  OBVIOUS
<1>0. Typed /\ Placed
  BY DEF IInv
<1>1. cpu.at = "pause" /\ cpu.gate /\ cpu'.gate = FALSE
  BY <1>0 DEF PauseEnds, Idle, Placed, Typed, Cpu
<1>2. PICK n \in (IF st.entering THEN {0} ELSE {2, 6}) :
        \E p2 \in scan(ppu, n \div 2) : \E m0 \in FlipSeen(p2) :
          LET e == folded(v, p2)
              line == HistoryAt(h, p2)
              shifted == [p2 EXCEPT !.shift = @ + (n \div 2)]
              window == hdma_period(shifted)
          IN /\ shifted.shift <= MaxShift /\ ppu' = shifted
             /\ v' = vram_dma_unhalt(e, window, m0) /\ h' = woken(line, e, shifted, window, m0)
  BY DEF PauseEnds
<1> DEFINE d == n \div 2
<1>3. d \in 0..4
  BY <1>2
<1>4. PICK p2 \in scan(ppu, d), m0 \in BOOLEAN :
        LET e == folded(v, p2)
            line == HistoryAt(h, p2)
            shifted == [p2 EXCEPT !.shift = @ + d]
            window == hdma_period(shifted)
        IN /\ shifted.shift <= MaxShift /\ ppu' = shifted
           /\ v' = vram_dma_unhalt(e, window, m0) /\ h' = woken(line, e, shifted, window, m0)
  BY <1>2 DEF FlipSeen
<1> HIDE DEF d
<1> DEFINE e == folded(v, p2)
           line == HistoryAt(h, p2)
           s == p2.shift + d
           p == [p2 EXCEPT !.shift = s]
           window == hdma_period(p)
<1>5. /\ p.shift <= MaxShift /\ ppu' = p
      /\ v' = vram_dma_unhalt(e, window, m0) /\ h' = woken(line, e, p, window, m0)
  BY <1>4
<1>6. /\ p2 \in Ppu /\ e.prev = hdma_trigger_level(p2) /\ e \in Engine /\ line \in Debt
      /\ e.mode = v.mode /\ e.halt = v.halt
      /\ Settled(p2, line) /\ (Even(h) => Even(line))
  BY <1>0, <1>3, Charging DEF Ticked
<1> HIDE DEF e, line
<1>7. /\ p \in Ppu /\ p.on = p2.on /\ p.visible = p2.visible /\ p.after = p2.after
      /\ p.dot = p2.dot /\ p.flip = p2.flip
  <2>1. p.shift = s
    BY <1>6 DEF Ppu
  <2>2. s \in 0..MaxShift
    <3>1. p2.shift \in Nat
      BY <1>6, DmaAssumption DEF Ppu
    <3>2. s <= MaxShift
      BY <1>5, <2>1
    <3> QED BY <1>3, <3>1, <3>2
  <2> HIDE DEF s
  <2> QED BY <1>6, <2>2 DEF Ppu
<1> HIDE DEF p
<1>8. /\ (hdma_trigger_level(p) <=> hdma_trigger_level(p2)) /\ (InHBlank(p) <=> InHBlank(p2))
  BY <1>7 DEF hdma_trigger_level, InHBlank, PastWrap
<1>9. Settled(p, line)
  BY <1>6, <1>8 DEF Settled
<1>10. window => InHBlank(p)
  BY DEF hdma_period, InHBlank
<1>11. e.halt = "low" /\ e.mode = "armedLcdOn" => Even(line)
  BY <1>1, <1>6 DEF Paid, Unaware
<1> HIDE DEF window
<1>12. v'.prev = e.prev /\ Settled(p, h')
  BY <1>5, <1>6, <1>9, <1>10, <1>11, WakePays
<1> QED BY <1>1, <1>5, <1>6, <1>7, <1>8, <1>12 DEF Paid, Settled, InHBlank, hdma_trigger_level,
           PastWrap, Even, Unaware
-----------------------------------------------------------------------------
\* Power-on: no HBlank, and nothing paid for one.
LEMMA InitPays == Init => Paid
<1> SUFFICES ASSUME Init PROVE Paid
  OBVIOUS
<1>1. ppu \in Ppu /\ ppu.dot = 0 /\ ppu.flip \in Flips
  <2>1. 0 \in 0..(LineDots - 1) /\ 0 \in 0..MaxShift
    <3>1. PICK f \in Flips : f \in 4..(LineDots - 10)
      BY DmaAssumption
    <3> QED BY <3>1, DmaAssumption
  <2> QED BY <2>1 DEF Init, Ppu
<1>2. ~hdma_trigger_level(ppu)
  <2>1. ppu.flip \in 4..(LineDots - 10)
    BY <1>1, DmaAssumption
  <2> QED BY <1>1, <2>1 DEF hdma_trigger_level
<1>3. h.paid = 0 /\ h.blind = 0
  BY DEF Init
<1> QED BY <1>1, <1>2, <1>3 DEF Paid, Settled, Even, Unaware

\* For every length, line and order of sleeps, wakes and speed switches, an HBlank pays
\* for one block and one more for each of its blind spots (hdma.rs:121-155), as long as
\* the speed switches of a frame shift no line beyond its trigger.
THEOREM PaidOnce == ASSUME ShiftsStaySmall PROVE Spec => []OneBlockPerHBlank
<1>1. IInv /\ Paid /\ [Next]_vars => Paid'
  <2>1. Paid /\ UNCHANGED vars => Paid'
    BY DEF vars, Paid, Settled, InHBlank, hdma_trigger_level, PastWrap, Even, Unaware
  <2>2. IInv /\ Paid /\ Next => Paid'
    BY CyclesPay, DecisionsPay, StealPays, StoresPay, HaltPays, StopPays, StopEnterPays,
       PausePays DEF Next
  <2> QED BY <2>1, <2>2
<1>2. Paid => OneBlockPerHBlank
  BY DEF Paid, Settled, OneBlockPerHBlank
<1> QED BY <1>1, <1>2, InitPays, Inductive, PTL DEF Spec
=============================================================================

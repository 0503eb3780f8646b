----------------------------- MODULE Sm83Proofs -----------------------------
(***************************************************************************)
(* Proofs about Sm83 for every set of sources, both families and every     *)
(* bound on consecutive second-half commits.                               *)
(***************************************************************************)
EXTENDS Sm83, TLAPS

\* The least source of a set of sources is one of them.
LEMMA FirstOf ==
  ASSUME NEW set \in SUBSET Sources, set # {}
  PROVE  first_of(set) \in set
<1>1. \E i \in set : \A j \in set : i <= j
  <2>1. set \subseteq 0..4
    BY SourcesAssumption
  <2>2. CASE 0 \in set BY <2>1, <2>2
  <2>3. CASE 0 \notin set /\ 1 \in set BY <2>1, <2>3
  <2>4. CASE 0 \notin set /\ 1 \notin set /\ 2 \in set BY <2>1, <2>4
  <2>5. CASE 0 \notin set /\ 1 \notin set /\ 2 \notin set /\ 3 \in set BY <2>1, <2>5
  <2>6. CASE set \subseteq {4}
    <3>1. 4 \in set /\ \A j \in set : j = 4
      BY <2>6
    <3> QED BY <3>1
  <2> QED BY <2>1, <2>2, <2>3, <2>4, <2>5, <2>6
<1> QED BY <1>1 DEF first_of

\* What the peripherals may do, field by field.
LEMMA Rise ==
  ASSUME NEW on, NEW w \in Rises(on)
  PROVE  /\ w.src \in SUBSET Sources
         /\ w.late \in SUBSET LateSource
         /\ w.hidden \in SUBSET LateSource
         /\ w.hidden \subseteq w.late /\ w.late \subseteq w.src
         /\ w.borrow \in BOOLEAN
         /\ w.late # {} => h.lateRun < MaxLate
         /\ on = "none" => w.borrow = FALSE
         /\ model.double => w.borrow = FALSE
BY DEF Rises, AnyRise, LateSource

\* The sources the windows consume: the acknowledged one while its window is open, and
\* STAT while a store's is.
LEMMA Squashed ==
  ASSUME TypeOK, NEW on, NEW w \in Rises(on)
  PROVE  /\ squashed(bus, w) \subseteq w.src
         /\ \A s \in squashed(bus, w) :
              \/ s = bus.sqMask /\ (bus.sqTicks > 0 \/ bus.sqDots > 0)
              \/ s = STAT /\ bus.sqStore > 0
<1>1. /\ w.dot \in 1..5 /\ bus.sqDots \in 0..6
      /\ w.raced => STAT \in w.src /\ bus.sqStore > 0
  BY DEF Rises, AnyRise, TypeOK, Bus
<1>2. consumed(bus, w) \subseteq {STAT} /\ (consumed(bus, w) # {} => w.raced)
  BY DEF consumed
<1>3. ASSUME NEW s \in squashed(bus, w), s \notin consumed(bus, w)
      PROVE  /\ s \in w.src /\ s = bus.sqMask
             /\ bus.sqTicks > 0 \/ bus.sqDots >= w.dot
  BY <1>3 DEF squashed
<1>4. bus.sqDots >= w.dot => bus.sqDots > 0
  BY <1>1
<1> QED BY <1>1, <1>2, <1>3, <1>4

\* An M-cycle has two dots in double speed and four otherwise, give or take a borrowed one.
LEMMA DotCount ==
  ASSUME TypeOK, NEW on, NEW w \in Rises(on)
  PROVE  /\ Dots(w) \in 2..5
         /\ ~model.double => Dots(w) >= 3
         /\ ~model.double /\ ~bus.borrowed => Dots(w) >= 4
BY Rise DEF TypeOK, Bus, Dots

\* One M-cycle of the machine, field by field.
LEMMA Tick ==
  ASSUME TypeOK, NEW on, NEW w \in Rises(on)
  PROVE  /\ ticked(bus, w) \in Bus
         /\ ticked(bus, w).intf = bus.intf \cup (w.src \ squashed(bus, w))
         /\ ticked(bus, w).ie = bus.ie
         /\ ticked(bus, w).late \subseteq w.late
         /\ ticked(bus, w).hidden = w.hidden
         /\ ticked(bus, w).sqMask = bus.sqMask
         /\ ticked(bus, w).sqTicks = 0
         /\ ticked(bus, w).sqDots = closing(bus.sqDots, Dots(w))
         /\ ticked(bus, w).sqStore = 0
         /\ ticked(bus, w).borrowed = w.borrow
         /\ ticked(bus, w).gate = bus.gate
<1> DEFINE b == ticked(bus, w)
           lost == squashed(bus, w)
           n == closing(bus.sqDots, Dots(w))
           m == closing(bus.sqStore, Dots(w))
           lm == late_mask(bus, w)
<1>1. bus \in Bus
  BY DEF TypeOK
<1>2. n \in 0..6 /\ m = 0
  BY <1>1, DotCount DEF closing, Bus
<1>3. lm \subseteq w.late
  BY DEF late_mask
<1>4. b = [bus EXCEPT !.intf = @ \cup (w.src \ lost), !.late = lm, !.hidden = w.hidden,
                      !.sqTicks = 0, !.sqDots = n, !.sqStore = m, !.borrowed = w.borrow]
  BY DEF ticked
<1>5. /\ w.src \in SUBSET Sources /\ w.late \in SUBSET LateSource
      /\ w.hidden \in SUBSET LateSource /\ w.borrow \in BOOLEAN
  BY Rise
<1> HIDE DEF b, lost, n, m, lm
<1>8. b = [intf |-> bus.intf \cup (w.src \ lost), ie |-> bus.ie, late |-> lm,
           hidden |-> w.hidden, sqMask |-> bus.sqMask, sqTicks |-> 0, sqDots |-> n,
           sqStore |-> m, borrowed |-> w.borrow, gate |-> bus.gate]
  BY <1>1, <1>4 DEF Bus
<1>9. /\ bus.intf \in SUBSET Sources /\ bus.ie \in SUBSET Sources
      /\ bus.sqMask \in Sources \cup {NoSource} /\ bus.gate \in BOOLEAN
  BY <1>1 DEF Bus
<1>6. b \in Bus
  BY <1>2, <1>3, <1>5, <1>8, <1>9 DEF Bus
<1>7. /\ b.intf = bus.intf \cup (w.src \ lost)
      /\ b.ie = bus.ie /\ b.late = lm /\ b.hidden = w.hidden
      /\ b.sqMask = bus.sqMask /\ b.sqTicks = 0 /\ b.sqDots = n /\ b.sqStore = 0
      /\ b.borrowed = w.borrow /\ b.gate = bus.gate
  BY <1>2, <1>8
<1> QED BY <1>3, <1>6, <1>7 DEF b, lost, n, lm

\* ... and the history of one.
LEMMA Age ==
  ASSUME TypeOK, NEW on, NEW w \in Rises(on)
  PROVE  /\ aged(w) \in History
         /\ aged(w).lost = squashed(bus, w)
         /\ aged(w).accepted = IF h.accepted = NoSource \/ h.age = 4 THEN NoSource
                               ELSE h.accepted
         /\ aged(w).age = IF h.accepted = NoSource \/ h.age = 4 THEN 0 ELSE h.age + 1
         /\ aged(w).lateRun = IF w.late = {} THEN 0 ELSE h.lateRun + 1
         /\ aged(w).clears = FALSE /\ aged(w).cleared = h.clears
         /\ aged(w).overslept = h.overslept /\ aged(w).idled = h.idled
         /\ aged(w).masked = h.masked /\ aged(w).hit = h.hit
         /\ aged(w).phantom = h.phantom /\ aged(w).veiled = h.veiled
         /\ aged(w).cancelled = h.cancelled
<1> DEFINE k == aged(w)
           lost == squashed(bus, w)
           old == h.accepted = NoSource \/ h.age = 4
<1>1. h \in History /\ MaxLate \in Nat
  BY MaxLateAssumption DEF TypeOK
<1>8. /\ h.lateRun \in 0..MaxLate /\ h.age \in 0..4
      /\ h.accepted \in Sources \cup {NoSource} /\ h.overslept \in 0..MaxLate + 1
  BY <1>1 DEF History
<1>9. /\ h.masked \in BOOLEAN /\ h.afterEi \in BOOLEAN /\ h.cutEi \in BOOLEAN
      /\ h.clears \in BOOLEAN /\ h.idled \in BOOLEAN /\ h.hit \in BOOLEAN
      /\ h.phantom \in BOOLEAN
      /\ h.veiled \in BOOLEAN /\ h.cancelled \in BOOLEAN
  BY <1>1 DEF History
<1>2. lost \in SUBSET Sources
  BY Rise, Squashed
<1>3. w.late # {} => h.lateRun + 1 \in 0..MaxLate
  <2>1. w.late # {} => h.lateRun < MaxLate
    BY Rise
  <2> QED BY <1>1, <1>8, <2>1
<1>4. ~old => h.age + 1 \in 0..4
  BY <1>8
<1>5. k = [h EXCEPT !.lost = lost,
                    !.accepted = IF old THEN NoSource ELSE @,
                    !.age = IF old THEN 0 ELSE @ + 1,
                    !.clears = FALSE, !.cleared = h.clears,
                    !.lateRun = IF w.late = {} THEN 0 ELSE @ + 1]
  BY DEF aged
<1> HIDE DEF k, lost, old
<1>10. k = [masked |-> h.masked, afterEi |-> h.afterEi, cutEi |-> h.cutEi,
            accepted |-> IF old THEN NoSource ELSE h.accepted,
            age |-> IF old THEN 0 ELSE h.age + 1,
            clears |-> FALSE, cleared |-> h.clears, lost |-> lost,
            overslept |-> h.overslept,
            lateRun |-> IF w.late = {} THEN 0 ELSE h.lateRun + 1,
            idled |-> h.idled, hit |-> h.hit, phantom |-> h.phantom,
            veiled |-> h.veiled, cancelled |-> h.cancelled]
  BY <1>1, <1>5 DEF History
<1>6. k \in History
  BY <1>1, <1>2, <1>3, <1>4, <1>8, <1>9, <1>10 DEF History
<1>7. /\ k.lost = lost
      /\ k.accepted = IF old THEN NoSource ELSE h.accepted
      /\ k.age = IF old THEN 0 ELSE h.age + 1
      /\ k.clears = FALSE /\ k.cleared = h.clears
      /\ k.lateRun = IF w.late = {} THEN 0 ELSE h.lateRun + 1
      /\ k.overslept = h.overslept /\ k.idled = h.idled
      /\ k.masked = h.masked /\ k.hit = h.hit /\ k.phantom = h.phantom
      /\ k.veiled = h.veiled /\ k.cancelled = h.cancelled
  BY <1>10
<1> QED BY <1>6, <1>7 DEF k, lost, old
-----------------------------------------------------------------------------
(* Type correctness. *)

\* A register store keeps the bus a bus.
LEMMA Store ==
  ASSUME NEW b \in Bus, NEW v \in SUBSET Sources, NEW g \in BOOLEAN
  PROVE  /\ [b EXCEPT !.ie = v] \in Bus
         /\ [b EXCEPT !.gate = g] \in Bus
         /\ [b EXCEPT !.intf = @ \cup v] \in Bus
<1>1. b.intf \cup v \in SUBSET Sources
  BY DEF Bus
<1>2. [b EXCEPT !.ie = v] \in Bus
  BY DEF Bus
<1>3. [b EXCEPT !.gate = g] \in Bus
  BY DEF Bus
<1>4. [b EXCEPT !.intf = @ \cup v] \in Bus
  BY <1>1 DEF Bus
<1> QED BY <1>2, <1>3, <1>4

\* ... and one to IF opens the store's window only if it clears STAT's bit.
LEMMA Stored ==
  ASSUME NEW b \in Bus, NEW v \in SUBSET Sources, NEW race \in BOOLEAN
  PROVE  /\ stored(b, v, race) \in Bus
         /\ stored(b, v, race).hidden = b.hidden
         /\ stored(b, v, race).sqMask = b.sqMask
         /\ stored(b, v, race).sqTicks = b.sqTicks
         /\ stored(b, v, race).sqDots = b.sqDots
         /\ STAT \in v => stored(b, v, race).sqStore = b.sqStore
         /\ stored(b, v, race).borrowed = b.borrowed
         /\ stored(b, v, race).gate = b.gate
<1> DEFINE n == IF race /\ STAT \notin v THEN 2 ELSE b.sqStore
<1>1. n \in 0..2 /\ (STAT \in v => n = b.sqStore)
  BY DEF Bus
<1>2. stored(b, v, race) = [b EXCEPT !.intf = v, !.sqStore = n]
  BY DEF stored
<1> HIDE DEF n
<1> QED BY <1>1, <1>2 DEF Bus

\* The end of a step keeps the CPU a CPU; only an EI may still change it.
LEMMA FinishStep ==
  ASSUME TypeOK, NEW c \in Cpu, Finish(c)
  PROVE  /\ cpu' \in Cpu /\ at' = "boundary" /\ eiDelay' = FALSE
         /\ cpu'.halted = c.halted /\ cpu'.stopped = c.stopped
         /\ cpu'.bug = c.bug /\ cpu'.locked = c.locked
         /\ cpu'.pend <=> c.pend /\ ~eiDelay
         /\ cpu'.ime <=> c.ime \/ (c.pend /\ eiDelay)
<1>1. CASE eiDelay /\ c.pend
  <2>1. cpu' = [c EXCEPT !.pend = FALSE, !.ime = TRUE]
    BY <1>1 DEF Finish
  <2>2. cpu' = [ime |-> TRUE, pend |-> FALSE, halted |-> c.halted, stopped |-> c.stopped,
                bug |-> c.bug, locked |-> c.locked]
    BY <2>1 DEF Cpu
  <2>3. cpu' \in Cpu
    BY <2>2 DEF Cpu
  <2> QED BY <1>1, <2>2, <2>3 DEF Finish
<1>2. CASE ~(eiDelay /\ c.pend)
  <2>1. cpu' = c
    BY <1>2 DEF Finish
  <2> QED BY <1>2, <2>1 DEF Finish, Cpu
<1> QED BY <1>1, <1>2

\* The history's updates, field by field.
LEMMA ExecutedHistory ==
  ASSUME NEW k \in History, NEW m \in BOOLEAN, NEW e \in BOOLEAN
  PROVE  /\ Executed(k) \in History
         /\ [Executed(k) EXCEPT !.masked = m] \in History
         /\ [Executed(k) EXCEPT !.masked = m, !.afterEi = e] \in History
         /\ [Executed(k) EXCEPT !.clears = m] \in History
<1>1. Executed(k) \in History
  BY DEF Executed, History
<1> DEFINE x == Executed(k)
<1> HIDE DEF x
<1>2. x \in History => [x EXCEPT !.masked = m] \in History
  BY DEF History
<1>3. x \in History => [x EXCEPT !.masked = m, !.afterEi = e] \in History
  BY DEF History
<1>4. x \in History => [x EXCEPT !.clears = m] \in History
  BY DEF History
<1> QED BY <1>1, <1>2, <1>3, <1>4 DEF x

\* The updates of the history while the CPU sleeps keep its type.
LEMMA SleepHistory ==
  ASSUME NEW k \in History, NEW p \in BOOLEAN
  PROVE  /\ Awake(k) \in History
         /\ [Awake(k) EXCEPT !.phantom = p] \in History
         /\ [k EXCEPT !.idled = TRUE] \in History
         /\ [k EXCEPT !.idled = TRUE, !.overslept = 0] \in History
         /\ [k EXCEPT !.idled = TRUE,
                      !.overslept = IF @ > MaxLate THEN @ ELSE @ + 1] \in History
<1>1. k.overslept \in 0..MaxLate + 1 /\ MaxLate \in Nat
  BY MaxLateAssumption DEF History
<1>2. /\ 0 \in 0..MaxLate + 1
      /\ (IF k.overslept > MaxLate THEN k.overslept ELSE k.overslept + 1)
            \in 0..MaxLate + 1
  BY <1>1
<1>3. Awake(k) \in History
  BY <1>2 DEF Awake, History
<1>4. [Awake(k) EXCEPT !.phantom = p] \in History
  BY <1>3 DEF History
<1>5. [k EXCEPT !.idled = TRUE] \in History
  BY DEF History
<1>6. [k EXCEPT !.idled = TRUE, !.overslept = 0] \in History
  BY <1>2 DEF History
<1>7. [k EXCEPT !.idled = TRUE,
                !.overslept = IF @ > MaxLate THEN @ ELSE @ + 1] \in History
  BY <1>2 DEF History
<1> QED BY <1>3, <1>4, <1>5, <1>6, <1>7

\* The updates of the history in a dispatch keep its type.
LEMMA DispatchHistory ==
  ASSUME NEW k \in History, NEW x \in BOOLEAN, NEW s \in Sources
  PROVE  /\ [k EXCEPT !.masked = TRUE, !.afterEi = FALSE, !.cutEi = x] \in History
         /\ [k EXCEPT !.accepted = s, !.age = 0] \in History
         /\ [k EXCEPT !.hit = FALSE, !.phantom = FALSE, !.veiled = FALSE,
                      !.cancelled = FALSE] \in History
<1>1. [k EXCEPT !.masked = TRUE, !.afterEi = FALSE, !.cutEi = x] \in History
  BY DEF History
<1>2. [k EXCEPT !.accepted = s, !.age = 0] \in History
  <2>1. s \in Sources \cup {NoSource} /\ 0 \in 0..4
    OBVIOUS
  <2> QED BY <2>1 DEF History
<1>3. [k EXCEPT !.hit = FALSE, !.phantom = FALSE, !.veiled = FALSE,
                !.cancelled = FALSE] \in History
  BY DEF History
<1> QED BY <1>1, <1>2, <1>3

\* The acknowledge keeps the bus a bus, and opens a window only for its source.
LEMMA Acked ==
  ASSUME NEW b \in Bus, NEW s \in Sources, NEW dots \in {1, 2, 6}
  PROVE  /\ acked(b, s, dots) \in Bus
         /\ acked(b, s, dots).intf = b.intf \ {s}
         /\ acked(b, s, dots).ie = b.ie
         /\ acked(b, s, dots).gate = b.gate
         /\ acked(b, s, dots).sqStore = b.sqStore
         /\ \/ /\ acked(b, s, dots).sqMask = s
               /\ acked(b, s, dots).sqDots \in {0, dots}
            \/ /\ acked(b, s, dots).sqMask = b.sqMask
               /\ acked(b, s, dots).sqDots = b.sqDots
               /\ acked(b, s, dots).sqTicks = b.sqTicks
<1> DEFINE t == IF s \in ClockSource /\ model.family = "cgb" THEN 1 ELSE 0
           d == IF s \in PpuSource THEN dots ELSE 0
<1>1. t \in 0..1 /\ d \in 0..6 /\ d \in {0, dots}
  OBVIOUS
<1>2. /\ b.intf \ {s} \in SUBSET Sources
      /\ s \in Sources \cup {NoSource}
  BY DEF Bus
<1>3. CASE s \in PpuSource \cup ClockSource
  <2>1. acked(b, s, dots) = [b EXCEPT !.intf = @ \ {s}, !.sqMask = s, !.sqTicks = t,
                                      !.sqDots = d]
    BY <1>3 DEF acked, cleared
  <2> HIDE DEF t, d
  <2>2. acked(b, s, dots) \in Bus
    BY <1>1, <1>2, <2>1 DEF Bus
  <2> QED BY <1>1, <2>1, <2>2 DEF Bus
<1>4. CASE s \notin PpuSource \cup ClockSource
  <2>1. acked(b, s, dots) = [b EXCEPT !.intf = @ \ {s}]
    BY <1>4 DEF acked, cleared
  <2> QED BY <1>2, <2>1 DEF Bus
<1> QED BY <1>3, <1>4

\* Power-on is well typed.
LEMMA TypeInit == Init => TypeOK
<1> SUFFICES ASSUME Init PROVE TypeOK
  OBVIOUS
<1>1. MaxLate \in Nat
  BY MaxLateAssumption
<1>2. cpu \in Cpu /\ bus \in Bus
  BY DEF Init, Cpu, Bus
<1>3. h \in History
  BY <1>1 DEF Init, History
<1>4. model \in [family : Families, double : BOOLEAN]
  BY DEF Init
<1> QED BY <1>2, <1>3, <1>4 DEF Init, TypeOK, At

\* An M-cycle that only lets the machine run keeps the types.
LEMMA QuietCycle ==
  ASSUME TypeOK, \E w \in Quiet : bus' = ticked(bus, w) /\ h' = aged(w)
  PROVE  bus' \in Bus /\ h' \in History
<1>1. PICK w \in Rises("none") : bus' = ticked(bus, w) /\ h' = aged(w)
  BY DEF Quiet
<1>2. ticked(bus, w) \in Bus
  BY Tick
<1>3. aged(w) \in History
  BY Age
<1> QED BY <1>1, <1>2, <1>3

\* The steps of a boundary, of a dispatch and of a store keep the types.
LEMMA TypeAtBoundary ==
  ASSUME TypeOK, LockedCycle \/ HaltIdle \/ HaltWake \/ StopIdle \/ Fetch
  PROVE  TypeOK'
<1> USE DEF Quiet
<1>1. /\ cpu \in Cpu /\ bus \in Bus /\ h \in History
      /\ at \in At /\ eiDelay \in BOOLEAN /\ ieLatch \in SUBSET Sources
      /\ model \in [family : Families, double : BOOLEAN]
  BY DEF TypeOK
<1>2. CASE LockedCycle
  <2>1. bus' \in Bus /\ h' \in History
    BY <1>2, QuietCycle DEF LockedCycle
  <2> QED BY <1>1, <1>2, <2>1 DEF LockedCycle, TypeOK
<1>3. CASE HaltIdle
  <2>1. PICK w \in Quiet : bus' = [ticked(bus, w) EXCEPT !.gate = TRUE]
                           /\ h' = Sleeps(w, ticked(bus, w))
    BY <1>3 DEF HaltIdle
  <2>2. ticked(bus, w) \in Bus /\ aged(w) \in History
    BY Tick, Age
  <2>3. bus' \in Bus
    BY <2>1, <2>2, Store
  <2>4. h' \in History
    BY <2>1, <2>2, SleepHistory DEF Sleeps
  <2> QED BY <1>1, <1>3, <2>3, <2>4 DEF HaltIdle, TypeOK
<1>4. CASE HaltWake
  <2>1. PICK w \in Quiet : bus' = [ticked(bus, w) EXCEPT !.gate = FALSE]
           /\ h' = [Awake(aged(w)) EXCEPT !.phantom =
                         cpu.ime /\ pending(ticked(bus, w)) = {}]
    BY <1>4 DEF HaltWake
  <2>2. ticked(bus, w) \in Bus /\ aged(w) \in History
    BY Tick, Age
  <2>3. bus' \in Bus
    BY <2>1, <2>2, Store
  <2>4. (cpu.ime /\ pending(ticked(bus, w)) = {}) \in BOOLEAN
    OBVIOUS
  <2>5. h' \in History
    BY <2>1, <2>2, <2>4, SleepHistory
  <2>6. cpu' \in Cpu /\ at' \in At
    BY <1>1, <1>4 DEF HaltWake, Cpu, At
  <2> QED BY <1>1, <1>4, <2>3, <2>5, <2>6 DEF HaltWake, TypeOK
<1>5. CASE StopIdle
  <2>1. PICK w \in Quiet : bus' = [ticked(bus, w) EXCEPT !.gate = TRUE]
                           /\ h' = [aged(w) EXCEPT !.idled = TRUE]
    BY <1>5 DEF StopIdle
  <2>2. ticked(bus, w) \in Bus /\ aged(w) \in History
    BY Tick, Age
  <2>3. bus' \in Bus /\ h' \in History
    BY <2>1, <2>2, Store, SleepHistory
  <2> QED BY <1>1, <1>5, <2>3 DEF StopIdle, TypeOK
<1>6. CASE Fetch
  <2>1. PICK w \in Quiet :
           /\ bus' = [ticked(bus, w) EXCEPT !.gate = IF cpu.stopped THEN FALSE ELSE @]
           /\ h' = Awake(aged(w))
    BY <1>6 DEF Fetch
  <2>2. ticked(bus, w) \in Bus /\ aged(w) \in History
    BY Tick, Age
  <2>3. (IF cpu.stopped THEN FALSE ELSE ticked(bus, w).gate) \in BOOLEAN
    BY <2>2 DEF Bus
  <2>4. bus' \in Bus /\ h' \in History
    BY <2>1, <2>2, <2>3, Store, SleepHistory
  <2>5. cpu' \in Cpu /\ at' \in At /\ eiDelay' \in BOOLEAN
    BY <1>1, <1>6 DEF Fetch, Cpu, At
  <2> QED BY <1>1, <1>6, <2>4, <2>5 DEF Fetch, TypeOK
<1> QED BY <1>2, <1>3, <1>4, <1>5, <1>6

\* What a push may leave, field by field.
LEMMA Push ==
  ASSUME NEW b \in Bus, NEW on \in {"ie", "if", "other"}, NEW v \in Pushed(on),
         NEW race \in BOOLEAN
  PROVE  /\ pushed(b, on, v, race) \in Bus
         /\ on = "other" => b.intf \subseteq pushed(b, on, v, race).intf
                            /\ pushed(b, on, v, race).ie = b.ie
         /\ on = "ie" => pushed(b, on, v, race).intf = b.intf
         /\ pushed(b, on, v, race).hidden = b.hidden
         /\ pushed(b, on, v, race).sqMask = b.sqMask
         /\ pushed(b, on, v, race).sqTicks = b.sqTicks
         /\ pushed(b, on, v, race).sqDots = b.sqDots
         /\ ~ClearsSTAT(on, v) => pushed(b, on, v, race).sqStore = b.sqStore
         /\ pushed(b, on, v, race).gate = b.gate
<1>1. v \in SUBSET Sources
  BY DEF Pushed, Raised
<1>2. CASE on = "ie"
  BY <1>1, <1>2 DEF pushed, Bus
<1>3. CASE on = "if"
  BY <1>1, <1>3, Stored DEF pushed, ClearsSTAT
<1>4. CASE on = "other"
  BY <1>1, <1>4 DEF pushed, Bus
<1> QED BY <1>2, <1>3, <1>4

\* A store to IF races or does not.
LEMMA Race ==
  ASSUME NEW on, NEW w \in Rises(on), NEW race \in Races(on, w)
  PROVE  race \in BOOLEAN
BY Rise DEF Races

\* The high push, field by field.
LEMMA HighPush ==
  ASSUME TypeOK, Dispatch3
  PROVE  \E race \in BOOLEAN, on \in {"ie", "if", "other"} :
         \E w \in Rises(on), v \in Pushed(on) :
           /\ bus' = pushed(ticked(bus, w), on, v, race)
           /\ bus' \in Bus /\ ieLatch' = bus'.ie
           /\ h' \in History
           /\ h'.hit = (on # "other") /\ h'.clears = ClearsSTAT(on, v)
           /\ h'.cleared = h.clears /\ h'.lost = squashed(bus, w)
           /\ h'.masked = h.masked /\ h'.idled = h.idled
           /\ h'.overslept = h.overslept /\ h'.phantom = h.phantom
           /\ h'.cancelled = h.cancelled
<1>1. PICK on \in {"ie", "if", "other"} :
      \E w \in Rises(on), v \in Pushed(on) : \E race \in Races(on, w) :
        /\ bus' = pushed(ticked(bus, w), on, v, race)
        /\ ieLatch' = bus'.ie
        /\ h' = [aged(w) EXCEPT !.hit = (on # "other"), !.clears = ClearsSTAT(on, v)]
  BY DEF Dispatch3
<1>2. PICK w \in Rises(on), v \in Pushed(on) : \E race \in Races(on, w) :
        /\ bus' = pushed(ticked(bus, w), on, v, race)
        /\ ieLatch' = bus'.ie
        /\ h' = [aged(w) EXCEPT !.hit = (on # "other"), !.clears = ClearsSTAT(on, v)]
  BY <1>1
<1>3. PICK race \in Races(on, w) :
        /\ bus' = pushed(ticked(bus, w), on, v, race)
        /\ ieLatch' = bus'.ie
        /\ h' = [aged(w) EXCEPT !.hit = (on # "other"), !.clears = ClearsSTAT(on, v)]
  BY <1>2
<1>4. race \in BOOLEAN /\ bus' \in Bus
  BY <1>3, Race, Tick, Push
<1> DEFINE a == aged(w)
           hit == on # "other"
           clears == ClearsSTAT(on, v)
<1>5. hit \in BOOLEAN /\ clears \in BOOLEAN
  BY DEF ClearsSTAT
<1>6. /\ a \in History
      /\ a.cleared = h.clears /\ a.lost = squashed(bus, w) /\ a.masked = h.masked
      /\ a.idled = h.idled /\ a.overslept = h.overslept /\ a.phantom = h.phantom
      /\ a.cancelled = h.cancelled
  BY Age
<1>7. h' = [a EXCEPT !.hit = hit, !.clears = clears]
  BY <1>3
<1> HIDE DEF a, hit, clears
<1>8. /\ h' \in History /\ h'.hit = hit /\ h'.clears = clears
      /\ h'.cleared = a.cleared /\ h'.lost = a.lost /\ h'.masked = a.masked
      /\ h'.idled = a.idled /\ h'.overslept = a.overslept /\ h'.phantom = a.phantom
      /\ h'.cancelled = a.cancelled
  BY <1>5, <1>6, <1>7 DEF History
<1> QED BY <1>3, <1>4, <1>6, <1>8 DEF hit, clears

\* The low push and the choice of the vector, field by field.
LEMMA Choose ==
  ASSUME TypeOK, Dispatch4
  PROVE  \E race \in BOOLEAN, on \in {"ie", "if", "other"} :
         \E w \in Rises(on), v \in Pushed(on) :
           LET b == pushed(ticked(bus, w), on, v, race)
               seen == IF on = "if" THEN bus ELSE b
               chosen == choice(seen)
           IN /\ b \in Bus
              /\ bus' \in Bus /\ h' \in History
              /\ h'.hit = (h.hit \/ on = "if") /\ h'.clears = ClearsSTAT(on, v)
              /\ h'.veiled = (ieLatch \cap seen.hidden # {})
              /\ h'.cancelled = (chosen = {}) /\ h'.phantom = h.phantom
              /\ h'.cleared = h.clears /\ h'.lost = squashed(bus, w)
              /\ h'.masked = h.masked /\ h'.idled = h.idled
              /\ h'.overslept = h.overslept
              /\ chosen = {} => bus' = b
              /\ chosen # {} =>
                   \E dots \in AckDots :
                     /\ first_of(chosen) \in chosen /\ first_of(chosen) \in Sources
                     /\ bus' = acked(b, first_of(chosen), dots)
                     /\ h'.accepted = first_of(chosen) /\ h'.age = 0
<1>1. PICK on \in {"ie", "if", "other"}, dots \in AckDots :
      \E w \in Rises(on), v \in Pushed(on) : \E race \in Races(on, w) :
       LET b == pushed(ticked(bus, w), on, v, race)
           seen == IF on = "if" THEN bus ELSE b
           chosen == choice(seen)
           k == [aged(w) EXCEPT !.hit = @ \/ on = "if",
                                !.clears = ClearsSTAT(on, v),
                                !.veiled = ieLatch \cap seen.hidden # {},
                                !.cancelled = (chosen = {})]
       IN IF chosen = {} THEN bus' = b /\ h' = k
          ELSE /\ bus' = acked(b, first_of(chosen), dots)
               /\ h' = [k EXCEPT !.accepted = first_of(chosen), !.age = 0]
  BY DEF Dispatch4
<1>2. PICK w \in Rises(on), v \in Pushed(on) : \E race \in Races(on, w) :
       LET b == pushed(ticked(bus, w), on, v, race)
           seen == IF on = "if" THEN bus ELSE b
           chosen == choice(seen)
           k == [aged(w) EXCEPT !.hit = @ \/ on = "if",
                                !.clears = ClearsSTAT(on, v),
                                !.veiled = ieLatch \cap seen.hidden # {},
                                !.cancelled = (chosen = {})]
       IN IF chosen = {} THEN bus' = b /\ h' = k
          ELSE /\ bus' = acked(b, first_of(chosen), dots)
               /\ h' = [k EXCEPT !.accepted = first_of(chosen), !.age = 0]
  BY <1>1
<1>3. PICK race \in Races(on, w) :
       LET b == pushed(ticked(bus, w), on, v, race)
           seen == IF on = "if" THEN bus ELSE b
           chosen == choice(seen)
           k == [aged(w) EXCEPT !.hit = @ \/ on = "if",
                                !.clears = ClearsSTAT(on, v),
                                !.veiled = ieLatch \cap seen.hidden # {},
                                !.cancelled = (chosen = {})]
       IN IF chosen = {} THEN bus' = b /\ h' = k
          ELSE /\ bus' = acked(b, first_of(chosen), dots)
               /\ h' = [k EXCEPT !.accepted = first_of(chosen), !.age = 0]
  BY <1>2
<1> DEFINE b == pushed(ticked(bus, w), on, v, race)
           seen == IF on = "if" THEN bus ELSE b
           chosen == choice(seen)
           a == aged(w)
           hit == a.hit \/ on = "if"
           clears == ClearsSTAT(on, v)
           veiled == ieLatch \cap seen.hidden # {}
           cancelled == chosen = {}
           k == [a EXCEPT !.hit = hit, !.clears = clears, !.veiled = veiled,
                          !.cancelled = cancelled]
           s == first_of(chosen)
<1>4. race \in BOOLEAN /\ b \in Bus
  BY Race, Tick, Push
<1>5. /\ a \in History
      /\ a.cleared = h.clears /\ a.lost = squashed(bus, w) /\ a.masked = h.masked
      /\ a.idled = h.idled /\ a.overslept = h.overslept /\ a.hit = h.hit
      /\ a.phantom = h.phantom
  BY Age
<1>6. chosen # {} => s \in chosen /\ s \in Sources
  <2>1. chosen \in SUBSET Sources
    BY DEF TypeOK, choice
  <2> QED BY <2>1, FirstOf
<1>7. dots \in {1, 2, 6}
  BY DEF AckDots
<1>8. IF chosen = {} THEN bus' = b /\ h' = k
      ELSE bus' = acked(b, s, dots) /\ h' = [k EXCEPT !.accepted = s, !.age = 0]
  BY <1>3
<1>9. /\ hit \in BOOLEAN /\ clears \in BOOLEAN /\ veiled \in BOOLEAN
      /\ cancelled \in BOOLEAN
  BY DEF ClearsSTAT
<1> HIDE DEF hit, clears, veiled, cancelled, a
<1>10. /\ k \in History
       /\ k.hit = hit /\ k.clears = clears /\ k.veiled = veiled
       /\ k.cancelled = cancelled
       /\ k.cleared = a.cleared /\ k.lost = a.lost /\ k.masked = a.masked
       /\ k.idled = a.idled /\ k.overslept = a.overslept /\ k.phantom = a.phantom
  <2>1. k \in History
    BY <1>5, <1>9 DEF History
  <2>2. /\ k.hit = hit /\ k.clears = clears /\ k.veiled = veiled
        /\ k.cancelled = cancelled
    BY <1>5 DEF History
  <2>3. /\ k.cleared = a.cleared /\ k.lost = a.lost /\ k.masked = a.masked
        /\ k.idled = a.idled /\ k.overslept = a.overslept /\ k.phantom = a.phantom
    BY <1>5 DEF History
  <2> QED BY <2>1, <2>2, <2>3
<1> HIDE DEF k, s, b, chosen
<1>11. CASE chosen = {}
  <2>1. bus' = b /\ h' = k
    BY <1>8, <1>11
  <2> QED BY <1>4, <1>5, <1>9, <1>10, <1>11, <2>1
          DEF hit, clears, veiled, cancelled, a, b, chosen
<1>12. CASE chosen # {}
  <2>1. bus' = acked(b, s, dots) /\ h' = [k EXCEPT !.accepted = s, !.age = 0]
    BY <1>8, <1>12
  <2>2. bus' \in Bus
    BY <1>4, <1>6, <1>7, <1>12, <2>1, Acked
  <2>3. h' \in History
    BY <1>6, <1>10, <1>12, <2>1, DispatchHistory
  <2>4. /\ h'.hit = hit /\ h'.clears = clears /\ h'.veiled = veiled
        /\ h'.cancelled = cancelled
        /\ h'.cleared = a.cleared /\ h'.lost = a.lost /\ h'.masked = a.masked
        /\ h'.idled = a.idled /\ h'.overslept = a.overslept /\ h'.phantom = a.phantom
        /\ h'.accepted = s /\ h'.age = 0
    BY <1>10, <2>1 DEF History
  <2> QED BY <1>4, <1>5, <1>6, <1>9, <1>12, <2>1, <2>2, <2>3, <2>4
          DEF hit, clears, veiled, cancelled, a, b, chosen, s
<1> QED BY <1>11, <1>12

\* The cycles of a dispatch keep the types.
LEMMA TypeInDispatch ==
  ASSUME TypeOK, Dispatch1 \/ Dispatch2 \/ Dispatch3 \/ Dispatch4 \/ HandlerFetch
  PROVE  TypeOK'
<1> USE DEF Quiet
<1>1. /\ cpu \in Cpu /\ bus \in Bus /\ h \in History
      /\ at \in At /\ eiDelay \in BOOLEAN /\ ieLatch \in SUBSET Sources
      /\ model \in [family : Families, double : BOOLEAN]
  BY DEF TypeOK
<1>2. CASE Dispatch1
  <2>1. PICK w \in Quiet : /\ bus' = ticked(bus, w)
                           /\ h' = [aged(w) EXCEPT !.masked = TRUE, !.afterEi = FALSE,
                                                   !.cutEi = eiDelay]
    BY <1>2 DEF Dispatch1
  <2>2. PICK s \in Sources : TRUE
    BY SourcesAssumption
  <2>3. bus' \in Bus /\ h' \in History
    BY <1>1, <2>1, <2>2, Tick, Age, DispatchHistory
  <2>4. cpu' \in Cpu /\ at' \in At
    BY <1>1, <1>2 DEF Dispatch1, Cpu, At
  <2> QED BY <1>1, <1>2, <2>3, <2>4 DEF Dispatch1, TypeOK
<1>3. CASE Dispatch2
  <2>1. bus' \in Bus /\ h' \in History
    BY <1>3, QuietCycle DEF Dispatch2
  <2> QED BY <1>1, <1>3, <2>1 DEF Dispatch2, TypeOK, At
<1>4. CASE Dispatch3
  <2>1. bus' \in Bus /\ h' \in History /\ ieLatch' = bus'.ie
    BY <1>4, HighPush
  <2>2. ieLatch' \in SUBSET Sources
    BY <2>1 DEF Bus
  <2> QED BY <1>1, <1>4, <2>1, <2>2 DEF Dispatch3, TypeOK, At
<1>5. CASE Dispatch4
  <2>1. bus' \in Bus /\ h' \in History
    BY <1>5, Choose
  <2> QED BY <1>1, <1>5, <2>1 DEF Dispatch4, TypeOK, At
<1>6. CASE HandlerFetch
  <2>1. PICK w \in Quiet :
          /\ bus' = ticked(bus, w)
          /\ h' = [aged(w) EXCEPT !.hit = FALSE, !.phantom = FALSE, !.veiled = FALSE,
                                  !.cancelled = FALSE]
    BY <1>6 DEF HandlerFetch
  <2>2. PICK s \in Sources : TRUE
    BY SourcesAssumption
  <2>3. bus' \in Bus /\ h' \in History
    BY <2>1, <2>2, Tick, Age, DispatchHistory
  <2> QED BY <1>1, <1>6, <2>3 DEF HandlerFetch, TypeOK, At
<1> QED BY <1>2, <1>3, <1>4, <1>5, <1>6

\* Instructions other than STOP keep the types.
LEMMA TypeExecuting ==
  ASSUME TypeOK, Other \/ OtherCycle \/ Ei \/ Di \/ RetiStarts \/ RetiCycle \/ RetiEnds
                 \/ StoreStarts \/ StoreIF \/ StoreIE \/ Lock \/ Halt
  PROVE  TypeOK'
<1> USE DEF Quiet
<1>1. /\ cpu \in Cpu /\ bus \in Bus /\ h \in History
      /\ at \in At /\ eiDelay \in BOOLEAN /\ ieLatch \in SUBSET Sources
      /\ model \in [family : Families, double : BOOLEAN]
  BY DEF TypeOK
<1>2. Executed(h) \in History
  BY <1>1, ExecutedHistory
<1>3. ASSUME NEW c \in Cpu, Finish(c), bus' \in Bus, h' \in History,
             UNCHANGED <<model, ieLatch>>
      PROVE  TypeOK'
  <2>1. cpu' \in Cpu /\ at' = "boundary" /\ eiDelay' = FALSE
    BY <1>3, FinishStep
  <2> QED BY <1>1, <1>3, <2>1 DEF TypeOK, At
<1>4. CASE Other
  <2>1. h' \in History /\ bus' = bus
    BY <1>1, <1>2, <1>4 DEF Other
  <2>2. CASE Finish(cpu)
    BY <1>1, <1>3, <1>4, <2>1, <2>2 DEF Other
  <2>3. CASE at' = "other" /\ UNCHANGED <<cpu, eiDelay>>
    BY <1>1, <1>4, <2>1, <2>3 DEF Other, TypeOK, At
  <2> QED BY <1>4, <2>2, <2>3 DEF Other
<1>5. CASE OtherCycle
  <2>1. PICK w \in Rises("other"), v \in Raised :
          /\ bus' = [ticked(bus, w) EXCEPT !.intf = @ \cup v]
          /\ h' = IF at' = "boundary" THEN Executed(aged(w)) ELSE aged(w)
    BY <1>5 DEF OtherCycle
  <2>2. v \in SUBSET Sources
    BY DEF Raised
  <2>3. bus' \in Bus /\ h' \in History
    BY <2>1, <2>2, Tick, Age, Store, ExecutedHistory
  <2>4. CASE Finish(cpu)
    BY <1>1, <1>3, <1>5, <2>3, <2>4 DEF OtherCycle
  <2>5. CASE at' = "other" /\ UNCHANGED <<cpu, eiDelay>>
    BY <1>1, <1>5, <2>3, <2>5 DEF OtherCycle, TypeOK, At
  <2> QED BY <1>5, <2>4, <2>5 DEF OtherCycle
<1>6. CASE Ei
  <2>1. [cpu EXCEPT !.pend = TRUE] \in Cpu
    BY <1>1 DEF Cpu
  <2>2. bus' \in Bus /\ h' \in History
    BY <1>1, <1>6, ExecutedHistory DEF Ei
  <2> QED BY <1>3, <1>6, <2>1, <2>2 DEF Ei
<1>7. CASE Di
  <2>1. [cpu EXCEPT !.ime = FALSE, !.pend = FALSE] \in Cpu
    BY <1>1 DEF Cpu
  <2>2. bus' \in Bus /\ h' \in History
    BY <1>1, <1>7, ExecutedHistory DEF Di
  <2> QED BY <1>3, <1>7, <2>1, <2>2 DEF Di
<1>8. CASE RetiStarts
  BY <1>1, <1>8 DEF RetiStarts, TypeOK, At
<1>9. CASE RetiCycle
  <2>1. bus' \in Bus /\ h' \in History
    BY <1>9, QuietCycle DEF RetiCycle
  <2> QED BY <1>1, <1>9, <2>1 DEF RetiCycle, TypeOK, At
<1>10. CASE RetiEnds
  <2>1. PICK w \in Quiet : /\ bus' = ticked(bus, w)
                           /\ h' = [Executed(aged(w)) EXCEPT !.masked = FALSE]
    BY <1>10 DEF RetiEnds
  <2>2. bus' \in Bus /\ h' \in History
    BY <2>1, Tick, Age, ExecutedHistory
  <2>3. [cpu EXCEPT !.ime = TRUE] \in Cpu
    BY <1>1 DEF Cpu
  <2> QED BY <1>3, <1>10, <2>2, <2>3 DEF RetiEnds
<1>11. CASE StoreStarts
  BY <1>1, <1>11 DEF StoreStarts, TypeOK, At
<1>12. CASE StoreIF
  <2>1. PICK w \in Rises("if"), v \in SUBSET Sources : \E race \in Races("if", w) :
          /\ bus' = stored(ticked(bus, w), v, race)
          /\ h' = [Executed(aged(w)) EXCEPT !.clears = ClearsSTAT("if", v)]
    BY <1>12 DEF StoreIF
  <2>2. bus' \in Bus
    <3>1. ticked(bus, w) \in Bus
      BY Tick
    <3>2. PICK race \in BOOLEAN : bus' = stored(ticked(bus, w), v, race)
      BY <2>1, Race
    <3> QED BY <3>1, <3>2, Stored
  <2>3. ClearsSTAT("if", v) \in BOOLEAN /\ aged(w) \in History
    BY Age DEF ClearsSTAT
  <2>4. h' \in History
    BY <2>1, <2>3, ExecutedHistory
  <2> QED BY <1>1, <1>3, <1>12, <2>2, <2>4 DEF StoreIF
<1>13. CASE StoreIE
  <2>1. PICK w \in Quiet, v \in SUBSET Sources :
          bus' = [ticked(bus, w) EXCEPT !.ie = v] /\ h' = Executed(aged(w))
    BY <1>13 DEF StoreIE
  <2>2. bus' \in Bus /\ h' \in History
    BY <2>1, Tick, Age, Store, ExecutedHistory
  <2> QED BY <1>1, <1>3, <1>13, <2>2 DEF StoreIE
<1>14. CASE Lock
  <2>1. [cpu EXCEPT !.locked = TRUE] \in Cpu
    BY <1>1 DEF Cpu
  <2> QED BY <1>1, <1>2, <1>3, <1>14, <2>1 DEF Lock
<1>15. CASE Halt
  <2>1. PICK quiet \in BOOLEAN :
          Finish([cpu EXCEPT !.bug = ~cpu.ime /\ ~cpu.pend /\ ~quiet, !.halted = quiet])
    BY <1>15 DEF Halt
  <2>2. [cpu EXCEPT !.bug = ~cpu.ime /\ ~cpu.pend /\ ~quiet, !.halted = quiet] \in Cpu
    BY <1>1 DEF Cpu
  <2> QED BY <1>1, <1>2, <1>3, <1>15, <2>1, <2>2 DEF Halt
<1> QED BY <1>4, <1>5, <1>6, <1>7, <1>8, <1>9, <1>10, <1>11, <1>12, <1>13, <1>14, <1>15

\* The phases of STOP keep the types.
LEMMA TypeStopping ==
  ASSUME TypeOK,
         \/ StopDeep \/ StopSwitchNow \/ SwitchDown \/ StopSwitch \/ StopGated
         \/ PauseCycle \/ PauseEnds
  PROVE  TypeOK'
<1> USE DEF Quiet
<1>1. /\ cpu \in Cpu /\ bus \in Bus /\ h \in History
      /\ at \in At /\ eiDelay \in BOOLEAN /\ ieLatch \in SUBSET Sources
      /\ model \in [family : Families, double : BOOLEAN]
  BY DEF TypeOK
<1>2. Executed(h) \in History
  BY <1>1, ExecutedHistory
<1>3. ASSUME NEW d \in BOOLEAN
      PROVE  [model EXCEPT !.double = d] \in [family : Families, double : BOOLEAN]
  BY <1>1
<1>4. CASE StopDeep
  <2>1. bus' \in Bus /\ h' \in History
    <3>1. CASE pending(bus) # {}
      BY <1>1, <1>2, <1>4, <3>1 DEF StopDeep
    <3>2. CASE pending(bus) = {}
      <4>1. PICK w \in Quiet : bus' = ticked(bus, w) /\ h' = Executed(aged(w))
        BY <1>4, <3>2 DEF StopDeep
      <4> QED BY <4>1, Tick, Age, ExecutedHistory
    <3> QED BY <3>1, <3>2
  <2>2. [cpu EXCEPT !.stopped = TRUE] \in Cpu
    BY <1>1 DEF Cpu
  <2>3. cpu' \in Cpu /\ at' = "boundary" /\ eiDelay' = FALSE
    BY <1>4, <2>2, FinishStep DEF StopDeep
  <2> QED BY <1>1, <1>4, <2>1, <2>3 DEF StopDeep, TypeOK, At
<1>5. CASE StopSwitchNow
  <2>1. (~model.double) \in BOOLEAN
    OBVIOUS
  <2>2. model' \in [family : Families, double : BOOLEAN]
    BY <1>3, <1>5, <2>1 DEF StopSwitchNow
  <2>3. cpu' \in Cpu /\ at' = "boundary" /\ eiDelay' = FALSE
    BY <1>1, <1>5, FinishStep DEF StopSwitchNow
  <2> QED BY <1>1, <1>2, <1>5, <2>2, <2>3 DEF StopSwitchNow, TypeOK, At
<1>6. CASE StopSwitch
  <2>1. bus' \in Bus /\ h' \in History
    <3>1. PICK w \in Quiet : bus' = [ticked(bus, w) EXCEPT !.gate = TRUE] /\ h' = aged(w)
      BY <1>6 DEF StopSwitch
    <3> QED BY <3>1, Tick, Age, Store
  <2> QED BY <1>1, <1>6, <2>1 DEF StopSwitch, TypeOK, At
<1>7. CASE StopGated
  <2>1. (at = "enter") \in BOOLEAN
    OBVIOUS
  <2>2. model' \in [family : Families, double : BOOLEAN]
    BY <1>3, <1>7, <2>1 DEF StopGated
  <2>3. bus' \in Bus /\ h' \in History
    BY <1>7, QuietCycle DEF StopGated
  <2> QED BY <1>1, <1>7, <2>2, <2>3 DEF StopGated, TypeOK, At
<1>8. CASE PauseCycle
  <2>1. bus' \in Bus /\ h' \in History
    BY <1>8, QuietCycle DEF PauseCycle
  <2> QED BY <1>1, <1>8, <2>1 DEF PauseCycle, TypeOK
<1>9. CASE PauseEnds
  <2>1. PICK src \in SUBSET PpuSource :
          bus' = [bus EXCEPT !.intf = @ \cup src, !.gate = FALSE]
    BY <1>9 DEF PauseEnds
  <2>2. src \in SUBSET Sources
    BY DEF PpuSource
  <2>3. bus' \in Bus
    BY <1>1, <2>1, <2>2 DEF Bus
  <2>4. cpu' \in Cpu /\ at' = "boundary" /\ eiDelay' = FALSE
    BY <1>1, <1>9, FinishStep DEF PauseEnds
  <2> QED BY <1>1, <1>2, <1>9, <2>3, <2>4 DEF PauseEnds, TypeOK, At
<1>10. CASE SwitchDown
  <2>1. model' \in [family : Families, double : BOOLEAN]
    BY <1>3, <1>10 DEF SwitchDown
  <2> QED BY <1>1, <1>10, <2>1 DEF SwitchDown, TypeOK, At
<1> QED BY <1>4, <1>5, <1>6, <1>7, <1>8, <1>9, <1>10

\* Every step keeps the types.
LEMMA TypeStep == TypeOK /\ [Next]_vars => TypeOK'
<1> SUFFICES ASSUME TypeOK, [Next]_vars PROVE TypeOK'
  OBVIOUS
<1>1. CASE Step
  BY <1>1, TypeAtBoundary, TypeInDispatch, TypeExecuting, TypeStopping DEF Step
<1>2. CASE Execute
  BY <1>2, TypeExecuting, TypeStopping DEF Execute
<1>3. CASE UNCHANGED vars
  BY <1>3 DEF vars, TypeOK
<1> QED BY <1>1, <1>2, <1>3 DEF Next

\* The CPU, the interrupt registers, the two windows and the history hold values of
\* their types, for any sources and any run of late commits.
THEOREM TypeCorrect == Spec => []TypeOK
BY TypeInit, TypeStep, PTL DEF Spec
-----------------------------------------------------------------------------
(* Sleep, the EI delay and masked interrupts.  What OneWayToSleep lacks to be *)
(* inductive is that an EI pending inside a step was pending at its start, so *)
(* that the end of the step commits it before the CPU sleeps.                 *)

EiInStep == at # "boundary" /\ cpu.pend => eiDelay
SleepInv == OneWayToSleep /\ EiInStep

\* A step that ends with the CPU as it was, or with an instruction's change to it.
LEMMA SleepFinish ==
  ASSUME TypeOK, SleepInv, at # "boundary", NEW c \in Cpu, Finish(c),
         \/ /\ ~c.halted /\ ~c.stopped /\ ~c.bug /\ ~c.locked
         \/ /\ c.pend => eiDelay
            /\ c.halted => ~c.stopped /\ ~c.bug /\ ~c.locked
            /\ c.stopped => ~c.bug /\ ~c.locked
            /\ c.bug => ~c.locked /\ ~c.ime /\ ~c.pend
  PROVE  SleepInv'
<1>1. /\ at' = "boundary"
      /\ cpu'.halted = c.halted /\ cpu'.stopped = c.stopped
      /\ cpu'.bug = c.bug /\ cpu'.locked = c.locked
      /\ cpu'.pend <=> c.pend /\ ~eiDelay
      /\ cpu'.ime <=> c.ime \/ (c.pend /\ eiDelay)
  BY FinishStep
<1> QED BY <1>1 DEF SleepInv, OneWayToSleep, EiInStep

\* Every step keeps the states of sleep apart.
LEMMA SleepStep ==
  ASSUME TypeOK, SleepInv, [Next]_vars
  PROVE  SleepInv'
<1>1. cpu \in Cpu /\ eiDelay \in BOOLEAN
  BY DEF TypeOK
<1>2. at # "boundary" => ~cpu.halted /\ ~cpu.stopped /\ ~cpu.bug /\ ~cpu.locked
  BY DEF SleepInv, OneWayToSleep
<1>3. CASE UNCHANGED <<cpu, eiDelay>> /\ (at' = at \/ (at # "boundary" /\ at' # "boundary"))
  BY <1>3 DEF SleepInv, OneWayToSleep, EiInStep
<1>4. CASE at # "boundary" /\ Finish(cpu)
  BY <1>1, <1>2, <1>4, SleepFinish
<1>5. CASE HaltWake
  <2>1. /\ ~cpu.stopped /\ ~cpu.bug /\ ~cpu.locked /\ ~cpu.pend
    BY <1>5 DEF HaltWake, SleepInv, OneWayToSleep
  <2>2. /\ cpu'.halted = FALSE /\ cpu'.stopped = cpu.stopped /\ cpu'.bug = cpu.bug
        /\ cpu'.locked = cpu.locked /\ cpu'.pend = cpu.pend
    BY <1>1, <1>5 DEF HaltWake, Cpu
  <2> QED BY <2>1, <2>2 DEF SleepInv, OneWayToSleep, EiInStep
<1>6. CASE Fetch
  <2>1. /\ cpu'.halted = cpu.halted /\ cpu'.stopped = FALSE /\ cpu'.bug = FALSE
        /\ cpu'.locked = cpu.locked /\ cpu'.pend = cpu.pend
    BY <1>1, <1>6 DEF Fetch, Cpu
  <2>2. ~cpu.locked /\ ~cpu.halted /\ eiDelay' = cpu.pend
    BY <1>6 DEF Fetch
  <2> QED BY <2>1, <2>2 DEF SleepInv, OneWayToSleep, EiInStep
<1>7. CASE Dispatch1
  <2>1. /\ cpu'.halted = cpu.halted /\ cpu'.stopped = cpu.stopped /\ cpu'.bug = cpu.bug
        /\ cpu'.locked = cpu.locked /\ cpu'.pend = FALSE
    BY <1>1, <1>7 DEF Dispatch1, Cpu
  <2>2. at # "boundary" /\ at' # "boundary"
    BY <1>7 DEF Dispatch1
  <2> QED BY <1>2, <2>1, <2>2 DEF SleepInv, OneWayToSleep, EiInStep
<1>8. CASE Ei
  <2> DEFINE c == [cpu EXCEPT !.pend = TRUE]
  <2>1. /\ c \in Cpu /\ c.halted = cpu.halted /\ c.stopped = cpu.stopped
        /\ c.bug = cpu.bug /\ c.locked = cpu.locked
    BY <1>1 DEF Cpu
  <2>2. Finish(c) /\ at # "boundary"
    BY <1>8 DEF Ei
  <2> QED BY <1>2, <2>1, <2>2, SleepFinish
<1>9. CASE Di
  <2> DEFINE c == [cpu EXCEPT !.ime = FALSE, !.pend = FALSE]
  <2>1. /\ c \in Cpu /\ c.halted = cpu.halted /\ c.stopped = cpu.stopped
        /\ c.bug = cpu.bug /\ c.locked = cpu.locked
    BY <1>1 DEF Cpu
  <2>2. Finish(c) /\ at # "boundary"
    BY <1>9 DEF Di
  <2> QED BY <1>2, <2>1, <2>2, SleepFinish
<1>10. CASE RetiEnds
  <2> DEFINE c == [cpu EXCEPT !.ime = TRUE]
  <2>1. /\ c \in Cpu /\ c.halted = cpu.halted /\ c.stopped = cpu.stopped
        /\ c.bug = cpu.bug /\ c.locked = cpu.locked
    BY <1>1 DEF Cpu
  <2>2. Finish(c) /\ at # "boundary"
    BY <1>10 DEF RetiEnds
  <2> QED BY <1>2, <2>1, <2>2, SleepFinish
<1>11. CASE Lock
  <2> DEFINE c == [cpu EXCEPT !.locked = TRUE]
  <2>1. /\ c \in Cpu /\ c.halted = cpu.halted /\ c.stopped = cpu.stopped
        /\ c.bug = cpu.bug /\ c.pend = cpu.pend
    BY <1>1 DEF Cpu
  <2>2. Finish(c) /\ at # "boundary"
    BY <1>11 DEF Lock
  <2>3. c.pend => eiDelay
    BY <2>1, <2>2 DEF SleepInv, EiInStep
  <2> QED BY <1>2, <2>1, <2>2, <2>3, SleepFinish
<1>12. CASE Halt
  <2>1. PICK quiet \in BOOLEAN :
          Finish([cpu EXCEPT !.bug = ~cpu.ime /\ ~cpu.pend /\ ~quiet, !.halted = quiet])
    BY <1>12 DEF Halt
  <2> DEFINE bug == ~cpu.ime /\ ~cpu.pend /\ ~quiet
             c == [cpu EXCEPT !.bug = bug, !.halted = quiet]
  <2>2. /\ c \in Cpu /\ c.halted = quiet /\ c.stopped = cpu.stopped /\ c.bug = bug
        /\ c.locked = cpu.locked /\ c.pend = cpu.pend /\ c.ime = cpu.ime
    BY <1>1 DEF Cpu
  <2>3. Finish(c) /\ at # "boundary"
    BY <1>12, <2>1 DEF Halt
  <2>4. c.pend => eiDelay
    BY <2>2, <2>3 DEF SleepInv, EiInStep
  <2> HIDE DEF c
  <2> QED BY <1>2, <2>2, <2>3, <2>4, SleepFinish
<1>13. CASE StopDeep
  <2> DEFINE c == [cpu EXCEPT !.stopped = TRUE]
  <2>1. /\ c \in Cpu /\ c.halted = cpu.halted /\ c.stopped = TRUE
        /\ c.bug = cpu.bug /\ c.locked = cpu.locked /\ c.pend = cpu.pend
    BY <1>1 DEF Cpu
  <2>2. Finish(c) /\ at # "boundary"
    BY <1>13 DEF StopDeep
  <2>3. c.pend => eiDelay
    BY <2>1, <2>2 DEF SleepInv, EiInStep
  <2> QED BY <1>2, <2>1, <2>2, <2>3, SleepFinish
<1>14. CASE LockedCycle \/ HaltIdle \/ StopIdle \/ PauseCycle
  BY <1>3, <1>14 DEF LockedCycle, HaltIdle, StopIdle, PauseCycle
<1>15. CASE Dispatch2 \/ Dispatch3 \/ Dispatch4 \/ HandlerFetch
  BY <1>3, <1>15 DEF Dispatch2, Dispatch3, Dispatch4, HandlerFetch
<1>16. CASE RetiStarts \/ RetiCycle \/ StoreStarts \/ SwitchDown \/ StopSwitch \/ StopGated
  BY <1>3, <1>16 DEF RetiStarts, RetiCycle, StoreStarts, SwitchDown, StopSwitch, StopGated
<1>17. CASE Other \/ OtherCycle
  BY <1>3, <1>4, <1>17 DEF Other, OtherCycle
<1>18. CASE StoreIF \/ StoreIE \/ StopSwitchNow \/ PauseEnds
  BY <1>4, <1>18 DEF StoreIF, StoreIE, StopSwitchNow, PauseEnds
<1>19. CASE UNCHANGED vars
  BY <1>3, <1>19 DEF vars
<1> QED BY <1>5, <1>6, <1>7, <1>8, <1>9, <1>10, <1>11, <1>12, <1>13, <1>14, <1>15, <1>16,
           <1>17, <1>18, <1>19 DEF Next, Step, Execute

\* HALT, STOP, the halt bug, the lock-up and a pending EI never meet at the start of
\* a step, and no instruction runs in a CPU that sleeps (execute.rs:38).
THEOREM SleepSafe == Spec => []OneWayToSleep
<1>1. Init => SleepInv
  BY DEF Init, SleepInv, OneWayToSleep, EiInStep
<1>2. TypeOK /\ SleepInv /\ [Next]_vars => SleepInv'
  BY SleepStep
<1>3. SleepInv => OneWayToSleep
  BY DEF SleepInv
<1> QED BY <1>1, <1>2, <1>3, TypeCorrect, PTL DEF Spec
-----------------------------------------------------------------------------
(* What a step does to the two windows and to the history.  A step has the    *)
(* machine run one M-cycle (Ran) or none (Still); few actions touch the rest  *)
(* of the history (Kept).                                                     *)

Kept == /\ h'.masked = h.masked /\ h'.idled = h.idled /\ h'.overslept = h.overslept
        /\ h'.hit = h.hit /\ h'.phantom = h.phantom
        /\ h'.veiled = h.veiled /\ h'.cancelled = h.cancelled
Still == /\ h'.lost = h.lost /\ h'.accepted = h.accepted /\ h'.age = h.age
         /\ h'.clears = h.clears /\ h'.cleared = h.cleared
         /\ h'.lateRun = h.lateRun
         /\ bus'.sqMask = bus.sqMask /\ bus'.sqTicks = bus.sqTicks
         /\ bus'.sqDots = bus.sqDots /\ bus'.sqStore = bus.sqStore
         /\ bus'.borrowed = bus.borrowed
Ran(w) == /\ h'.lost = squashed(bus, w) /\ h'.cleared = h.clears
          /\ h'.accepted = aged(w).accepted /\ h'.age = aged(w).age
          /\ h'.lateRun = aged(w).lateRun
          /\ bus'.sqMask = bus.sqMask /\ bus'.sqTicks = 0
          /\ bus'.sqDots = closing(bus.sqDots, Dots(w)) /\ bus'.borrowed = w.borrow
          /\ bus'.sqStore > 0 => h'.clears

\* The history of an instruction's last cycle.
LEMMA ExecutedKeeps ==
  ASSUME NEW k \in History
  PROVE  /\ Executed(k).masked = k.masked /\ Executed(k).idled = k.idled
         /\ Executed(k).overslept = k.overslept /\ Executed(k).hit = k.hit
         /\ Executed(k).phantom = k.phantom /\ Executed(k).veiled = k.veiled
         /\ Executed(k).cancelled = k.cancelled /\ Executed(k).lost = k.lost
         /\ Executed(k).accepted = k.accepted /\ Executed(k).age = k.age
         /\ Executed(k).clears = k.clears /\ Executed(k).cleared = k.cleared
         /\ Executed(k).lateRun = k.lateRun
BY DEF Executed, History

\* Steps without a cycle of their own.
LEMMA StillSteps ==
  ASSUME TypeOK,
         \/ Other \/ RetiStarts \/ StoreStarts \/ Lock \/ Halt
         \/ StopSwitchNow \/ SwitchDown \/ PauseEnds
         \/ (StopDeep /\ pending(bus) # {})
  PROVE  Kept /\ Still
<1>1. bus \in Bus /\ h \in History
  BY DEF TypeOK
<1>2. CASE bus' = bus /\ h' = h
  BY <1>2 DEF Kept, Still
<1>3. CASE bus' = bus /\ h' = Executed(h)
  BY <1>1, <1>3, ExecutedKeeps DEF Kept, Still
<1>4. CASE PauseEnds
  <2>1. PICK src : bus' = [bus EXCEPT !.intf = @ \cup src, !.gate = FALSE]
    BY <1>4 DEF PauseEnds
  <2>2. h' = Executed(h)
    BY <1>4 DEF PauseEnds
  <2>3. /\ bus'.sqMask = bus.sqMask /\ bus'.sqTicks = bus.sqTicks
        /\ bus'.sqDots = bus.sqDots /\ bus'.sqStore = bus.sqStore
        /\ bus'.borrowed = bus.borrowed
    BY <1>1, <2>1 DEF Bus
  <2> QED BY <1>1, <2>2, <2>3, ExecutedKeeps DEF Kept, Still
<1> QED BY <1>2, <1>3, <1>4 DEF Other, RetiStarts, StoreStarts, Lock, Halt, StopSwitchNow,
           SwitchDown, StopDeep

\* Steps of one cycle that only let the machine run, or store.
LEMMA RunningSteps ==
  ASSUME TypeOK,
         \/ LockedCycle \/ Dispatch2 \/ OtherCycle \/ RetiCycle \/ StoreIF \/ StoreIE
         \/ StopSwitch \/ StopGated \/ PauseCycle \/ (StopDeep /\ pending(bus) = {})
  PROVE  Kept /\ \E on : \E w \in Rises(on) : Ran(w)
<1>1. ASSUME NEW on, NEW w \in Rises(on), NEW v,
             \/ bus' = [ticked(bus, w) EXCEPT !.ie = v]
             \/ bus' = [ticked(bus, w) EXCEPT !.gate = v]
             \/ bus' = [ticked(bus, w) EXCEPT !.intf = @ \cup v]
             \/ bus' = ticked(bus, w),
             h' = aged(w) \/ h' = Executed(aged(w))
      PROVE  Kept /\ Ran(w)
  <2>1. ticked(bus, w) \in Bus /\ aged(w) \in History
    BY Tick, Age
  <2> DEFINE b == ticked(bus, w)
  <2>2. /\ bus'.sqMask = b.sqMask /\ bus'.sqTicks = b.sqTicks
        /\ bus'.sqDots = b.sqDots /\ bus'.sqStore = b.sqStore
        /\ bus'.borrowed = b.borrowed
    <3> HIDE DEF b
    <3>1. b \in Bus
      BY <2>1 DEF b
    <3>2. \/ bus' = [b EXCEPT !.ie = v] \/ bus' = [b EXCEPT !.gate = v]
          \/ bus' = [b EXCEPT !.intf = @ \cup v] \/ bus' = b
      BY <1>1 DEF b
    <3> QED BY <3>1, <3>2 DEF Bus
  <2>3. /\ h'.masked = aged(w).masked /\ h'.idled = aged(w).idled
        /\ h'.overslept = aged(w).overslept /\ h'.hit = aged(w).hit
        /\ h'.phantom = aged(w).phantom /\ h'.veiled = aged(w).veiled
        /\ h'.cancelled = aged(w).cancelled /\ h'.lost = aged(w).lost
        /\ h'.accepted = aged(w).accepted /\ h'.age = aged(w).age
        /\ h'.cleared = aged(w).cleared /\ h'.lateRun = aged(w).lateRun
    BY <1>1, <2>1, ExecutedKeeps
  <2>4. Kept
    BY <2>3, Age DEF Kept
  <2>5. Ran(w)
    <3>1. /\ b.sqMask = bus.sqMask /\ b.sqTicks = 0 /\ b.sqStore = 0
          /\ b.sqDots = closing(bus.sqDots, Dots(w)) /\ b.borrowed = w.borrow
      BY Tick
    <3>2. aged(w).lost = squashed(bus, w) /\ aged(w).cleared = h.clears
      BY Age
    <3> QED BY <2>2, <2>3, <3>1, <3>2 DEF Ran
  <2> QED BY <2>4, <2>5
<1>2. CASE \E w \in Quiet : bus' = ticked(bus, w) /\ (h' = aged(w) \/ h' = Executed(aged(w)))
  BY <1>1, <1>2 DEF Quiet
<1>3. CASE OtherCycle
  BY <1>1, <1>3 DEF OtherCycle
<1>4. CASE StoreIF
  <2>1. PICK w \in Rises("if"), v \in SUBSET Sources : \E race \in Races("if", w) :
          /\ bus' = stored(ticked(bus, w), v, race)
          /\ h' = [Executed(aged(w)) EXCEPT !.clears = ClearsSTAT("if", v)]
    BY <1>4 DEF StoreIF
  <2>2. PICK race \in BOOLEAN : bus' = stored(ticked(bus, w), v, race)
    BY <2>1, Race
  <2> DEFINE a == aged(w)
             b == ticked(bus, w)
             e == Executed(a)
             clears == ClearsSTAT("if", v)
  <2>3. a \in History /\ e \in History /\ b \in Bus
    BY Age, Tick, ExecutedHistory
  <2>4. h' = [e EXCEPT !.clears = clears]
    BY <2>1
  <2> HIDE DEF clears, e
  <2>5. /\ h'.clears = clears /\ h'.cleared = e.cleared
        /\ h'.masked = e.masked /\ h'.idled = e.idled /\ h'.overslept = e.overslept
        /\ h'.hit = e.hit /\ h'.phantom = e.phantom /\ h'.veiled = e.veiled
        /\ h'.cancelled = e.cancelled /\ h'.lost = e.lost
        /\ h'.accepted = e.accepted /\ h'.age = e.age /\ h'.lateRun = e.lateRun
    BY <2>3, <2>4 DEF History
  <2>6. /\ e.masked = a.masked /\ e.idled = a.idled /\ e.overslept = a.overslept
        /\ e.hit = a.hit /\ e.phantom = a.phantom /\ e.veiled = a.veiled
        /\ e.cancelled = a.cancelled /\ e.lost = a.lost /\ e.cleared = a.cleared
        /\ e.accepted = a.accepted /\ e.age = a.age /\ e.lateRun = a.lateRun
    BY <2>3, ExecutedKeeps DEF e
  <2>7. /\ bus'.sqMask = b.sqMask /\ bus'.sqTicks = b.sqTicks
        /\ bus'.sqDots = b.sqDots /\ bus'.borrowed = b.borrowed
        /\ STAT \in v => bus'.sqStore = b.sqStore
    BY <2>2, <2>3, Stored
  <2>8. bus'.sqStore > 0 => clears
    BY <2>7, Tick DEF clears, ClearsSTAT
  <2>9. Kept
    BY <2>5, <2>6, Age DEF Kept
  <2>10. Ran(w)
    BY <2>5, <2>6, <2>7, <2>8, Age, Tick DEF Ran
  <2> QED BY <2>9, <2>10
<1>5. CASE StoreIE
  BY <1>1, <1>5 DEF StoreIE, Quiet
<1>6. CASE StopSwitch
  BY <1>1, <1>6 DEF StopSwitch, Quiet
<1> QED BY <1>2, <1>3, <1>4, <1>5, <1>6 DEF LockedCycle, Dispatch2, RetiCycle, StopGated,
           PauseCycle, StopDeep
-----------------------------------------------------------------------------
(* Interrupts stay off. *)

\* An action that leaves masked alone and ends the step with the flags it found.
LEMMA DiKept ==
  ASSUME TypeOK, DiHolds, at # "disp1", h'.masked = h.masked, NEW c \in Cpu, Finish(c),
         c.ime = cpu.ime, c.pend = cpu.pend
  PROVE  DiHolds'
BY FinishStep DEF DiHolds

\* The flags of the CPU and masked, where a boundary or a dispatch step changes them.
LEMMA MaskedAtBoundary ==
  ASSUME TypeOK, LockedCycle \/ HaltIdle \/ HaltWake \/ StopIdle \/ Fetch
  PROVE  /\ h'.masked = h.masked /\ cpu'.ime = cpu.ime /\ cpu'.pend = cpu.pend
         /\ at = "boundary"
<1>1. cpu \in Cpu /\ bus \in Bus /\ h \in History
  BY DEF TypeOK
<1>2. PICK w \in Quiet : \/ h' = aged(w) \/ h' = Sleeps(w, ticked(bus, w))
                         \/ h' = [Awake(aged(w)) EXCEPT !.phantom =
                                     cpu.ime /\ pending(ticked(bus, w)) = {}]
                         \/ h' = [aged(w) EXCEPT !.idled = TRUE]
                         \/ h' = Awake(aged(w))
  BY DEF LockedCycle, HaltIdle, HaltWake, StopIdle, Fetch
<1>3. aged(w) \in History /\ aged(w).masked = h.masked
  BY Age DEF Quiet
<1> DEFINE a == aged(w)
           p == cpu.ime /\ pending(ticked(bus, w)) = {}
           b == ticked(bus, w)
<1>4. h'.masked = a.masked
  <2> HIDE DEF a, p
  <2>1. CASE h' = [Awake(a) EXCEPT !.phantom = p] \/ h' = Awake(a)
    BY <1>3, <2>1 DEF a, Awake, History
  <2>2. CASE h' = Sleeps(w, b) \/ h' = [a EXCEPT !.idled = TRUE] \/ h' = a
    BY <1>3, <2>2 DEF a, Sleeps, History
  <2> QED BY <1>2, <2>1, <2>2 DEF a, p
<1>5. cpu'.ime = cpu.ime /\ cpu'.pend = cpu.pend /\ at = "boundary"
  BY <1>1 DEF LockedCycle, HaltIdle, HaltWake, StopIdle, Fetch, Cpu
<1> QED BY <1>3, <1>4, <1>5

\* Every step keeps interrupts off after DI.
LEMMA DiStep ==
  ASSUME TypeOK, DiHolds, [Next]_vars
  PROVE  DiHolds'
<1>1. cpu \in Cpu /\ h \in History
  BY DEF TypeOK
<1>2. CASE h'.masked = h.masked /\ cpu' = cpu /\ at # "disp1"
  BY <1>2 DEF DiHolds
<1>3. CASE LockedCycle \/ HaltIdle \/ HaltWake \/ StopIdle \/ Fetch
  BY <1>3, MaskedAtBoundary DEF DiHolds
<1>4. CASE Dispatch1
  BY <1>1, <1>4 DEF Dispatch1, DiHolds, Cpu
<1>5. CASE Dispatch3
  <2>1. h'.masked = h.masked
    BY <1>5, HighPush
  <2> QED BY <1>2, <1>5, <2>1 DEF Dispatch3
<1>6. CASE Dispatch4
  <2>1. h'.masked = h.masked
    BY <1>6, Choose
  <2> QED BY <1>2, <1>6, <2>1 DEF Dispatch4
<1>7. CASE HandlerFetch
  <2>1. PICK w \in Quiet : h' = [aged(w) EXCEPT !.hit = FALSE, !.phantom = FALSE,
                                                !.veiled = FALSE, !.cancelled = FALSE]
    BY <1>7 DEF HandlerFetch
  <2>2. h'.masked = h.masked
    BY <2>1, Age DEF History, Quiet
  <2> QED BY <1>2, <1>7, <2>2 DEF HandlerFetch
<1>8. CASE Ei
  <2>1. h'.masked = FALSE
    BY <1>1, <1>8, ExecutedHistory DEF Ei, History
  <2> QED BY <2>1 DEF DiHolds
<1>9. CASE RetiEnds
  <2>1. PICK w \in Quiet : h' = [Executed(aged(w)) EXCEPT !.masked = FALSE]
    BY <1>9 DEF RetiEnds
  <2>2. h'.masked = FALSE
    BY <2>1, Age, ExecutedHistory DEF History, Quiet
  <2> QED BY <2>2 DEF DiHolds
<1>10. CASE Di
  <2> DEFINE c == [cpu EXCEPT !.ime = FALSE, !.pend = FALSE]
  <2>1. c \in Cpu /\ ~c.ime /\ ~c.pend
    BY <1>1 DEF Cpu
  <2>2. Finish(c)
    BY <1>10 DEF Di
  <2> QED BY <2>1, <2>2, FinishStep DEF DiHolds
<1>11. CASE Dispatch2 \/ RetiStarts \/ RetiCycle \/ StoreStarts \/ SwitchDown \/ StopSwitch
            \/ StopGated \/ PauseCycle
  <2>1. h'.masked = h.masked
    BY <1>11, StillSteps, RunningSteps DEF Kept
  <2> QED BY <1>2, <1>11, <2>1
          DEF Dispatch2, RetiStarts, RetiCycle, StoreStarts, SwitchDown, StopSwitch,
              StopGated, PauseCycle
<1>12. CASE Other \/ OtherCycle \/ StoreIF \/ StoreIE \/ StopSwitchNow \/ PauseEnds
  <2>1. h'.masked = h.masked
    BY <1>12, StillSteps, RunningSteps DEF Kept
  <2>2. at # "disp1" /\ (Finish(cpu) \/ cpu' = cpu)
    BY <1>12 DEF Other, OtherCycle, StoreIF, StoreIE, StopSwitchNow, PauseEnds
  <2> QED BY <1>1, <1>2, <2>1, <2>2, DiKept
<1>13. CASE Lock \/ Halt \/ StopDeep
  <2>1. h'.masked = h.masked
    BY <1>13, StillSteps, RunningSteps DEF Kept
  <2>2. at # "disp1"
    BY <1>13 DEF Lock, Halt, StopDeep
  <2>3. CASE Lock
    <3> DEFINE c == [cpu EXCEPT !.locked = TRUE]
    <3>1. c \in Cpu /\ c.ime = cpu.ime /\ c.pend = cpu.pend
      BY <1>1 DEF Cpu
    <3>2. Finish(c)
      BY <2>3 DEF Lock
    <3> QED BY <2>1, <2>2, <3>1, <3>2, DiKept
  <2>4. CASE Halt
    <3>1. PICK quiet \in BOOLEAN : Finish([cpu EXCEPT
              !.bug = ~cpu.ime /\ ~cpu.pend /\ ~quiet, !.halted = quiet])
      BY <2>4 DEF Halt
    <3> DEFINE bug == ~cpu.ime /\ ~cpu.pend /\ ~quiet
               c == [cpu EXCEPT !.bug = bug, !.halted = quiet]
    <3>2. c \in Cpu /\ c.ime = cpu.ime /\ c.pend = cpu.pend
      BY <1>1 DEF Cpu
    <3> QED BY <2>1, <2>2, <3>1, <3>2, DiKept
  <2>5. CASE StopDeep
    <3> DEFINE c == [cpu EXCEPT !.stopped = TRUE]
    <3>1. c \in Cpu /\ c.ime = cpu.ime /\ c.pend = cpu.pend
      BY <1>1 DEF Cpu
    <3>2. Finish(c)
      BY <2>5 DEF StopDeep
    <3> QED BY <2>1, <2>2, <3>1, <3>2, DiKept
  <2> QED BY <1>13, <2>3, <2>4, <2>5
<1>14. CASE UNCHANGED vars
  BY <1>14 DEF vars, DiHolds
<1> QED BY <1>3, <1>4, <1>5, <1>6, <1>7, <1>8, <1>9, <1>10, <1>11, <1>12, <1>13, <1>14
        DEF Next, Step, Execute

\* After DI, or once an interrupt is being served, none is taken before EI or RETI
\* (the DI of execute, and dispatch_interrupt's clearing of both flags).
THEOREM DiSafe == Spec => []DiHolds
<1>1. Init => DiHolds
  BY DEF Init, DiHolds
<1>2. TypeOK /\ DiHolds /\ [Next]_vars => DiHolds'
  BY DiStep
<1> QED BY <1>1, <1>2, TypeCorrect, PTL DEF Spec
-----------------------------------------------------------------------------
(* HALT ends promptly, and the core clock is gated with it. *)

\* Inside an instruction the history of the sleep does not change.
LEMMA SleepFields ==
  ASSUME TypeOK, Next, ~(HaltIdle \/ HaltWake \/ StopIdle \/ Fetch)
  PROVE  h'.overslept = h.overslept /\ h'.idled = h.idled
<1>1. cpu \in Cpu /\ h \in History
  BY DEF TypeOK
<1>2. ASSUME NEW on, NEW w \in Rises(on), NEW x,
             \/ h' = [aged(w) EXCEPT !.masked = TRUE, !.afterEi = FALSE, !.cutEi = x]
             \/ h' = [aged(w) EXCEPT !.hit = FALSE, !.phantom = FALSE,
                                     !.veiled = FALSE, !.cancelled = FALSE]
      PROVE  h'.overslept = h.overslept /\ h'.idled = h.idled
  <2>1. /\ aged(w) \in History
        /\ aged(w).overslept = h.overslept /\ aged(w).idled = h.idled
    BY Age
  <2> QED BY <1>2, <2>1 DEF History
<1>3. ASSUME NEW k \in History, NEW x, NEW y,
             k.overslept = h.overslept, k.idled = h.idled,
             \/ h' = [Executed(k) EXCEPT !.masked = x]
             \/ h' = [Executed(k) EXCEPT !.masked = x, !.afterEi = y]
      PROVE  h'.overslept = h.overslept /\ h'.idled = h.idled
  <2>1. /\ Executed(k) \in History
        /\ Executed(k).overslept = h.overslept /\ Executed(k).idled = h.idled
    BY <1>3, ExecutedKeeps, ExecutedHistory
  <2> QED BY <1>3, <2>1 DEF History
<1>4. CASE Dispatch1
  BY <1>2, <1>4 DEF Dispatch1, Quiet
<1>5. CASE Dispatch3
  BY <1>5, HighPush
<1>6. CASE Dispatch4
  BY <1>6, Choose
<1>7. CASE HandlerFetch
  BY <1>2, <1>7 DEF HandlerFetch, Quiet
<1>8. CASE Ei \/ Di
  BY <1>1, <1>3, <1>8 DEF Ei, Di
<1>9. CASE RetiEnds
  <2>1. PICK w \in Quiet : h' = [Executed(aged(w)) EXCEPT !.masked = FALSE]
    BY <1>9 DEF RetiEnds
  <2> QED BY <1>3, <2>1, Age DEF Quiet
<1>10. CASE Other \/ RetiStarts \/ StoreStarts \/ Lock \/ Halt \/ StopSwitchNow
            \/ SwitchDown \/ PauseEnds
  BY <1>10, StillSteps DEF Kept
<1>11. CASE LockedCycle \/ Dispatch2 \/ OtherCycle \/ RetiCycle \/ StoreIF \/ StoreIE
            \/ StopSwitch \/ StopGated \/ PauseCycle
  BY <1>11, RunningSteps DEF Kept
<1>12. CASE StopDeep
  BY <1>12, StillSteps, RunningSteps DEF Kept
<1> QED BY <1>4, <1>5, <1>6, <1>7, <1>8, <1>9, <1>10, <1>11, <1>12 DEF Next, Step, Execute

\* A HALT has overslept no longer than late commits have come in a row.
SleptInv == /\ h.overslept <= h.lateRun
            /\ h.overslept > 0 => cpu.halted

\* The idle cycle of a CPU in HALT.
LEMMA Oversleeps ==
  ASSUME TypeOK, SleptInv, HaltIdle
  PROVE  SleptInv'
<1>1. PICK w \in Quiet : /\ \E peek \in WakePeeks : halt_wake(ticked(bus, w), peek) = {}
                         /\ h' = Sleeps(w, ticked(bus, w))
  BY DEF HaltIdle
<1> DEFINE b == ticked(bus, w)
           a == aged(w)
<1>2. /\ a \in History /\ a.overslept = h.overslept
      /\ a.lateRun = IF w.late = {} THEN 0 ELSE h.lateRun + 1
      /\ b.late \subseteq w.late
  BY <1>1, Age, Tick DEF Quiet
<1>3. b.intf \cap b.ie # {} => w.late # {}
  BY <1>1, <1>2 DEF halt_wake
<1>4. /\ h.lateRun \in Nat /\ h.overslept \in Nat /\ MaxLate \in Nat
      /\ cpu' = cpu /\ cpu.halted
  BY MaxLateAssumption DEF TypeOK, History, HaltIdle
<1> HIDE DEF a
<1>5. CASE b.intf \cap b.ie = {}
  <2>1. h' = [a EXCEPT !.idled = TRUE, !.overslept = 0]
    BY <1>1, <1>5 DEF Sleeps, a
  <2>2. h'.overslept = 0 /\ h'.lateRun \in Nat
    BY <1>2, <1>4, <2>1 DEF History
  <2> QED BY <2>2 DEF SleptInv
<1>6. CASE b.intf \cap b.ie # {}
  <2>1. h' = [a EXCEPT !.idled = TRUE,
                       !.overslept = IF @ > MaxLate THEN @ ELSE @ + 1]
    BY <1>1, <1>6 DEF Sleeps, a
  <2>2. /\ h'.overslept = IF h.overslept > MaxLate THEN h.overslept ELSE h.overslept + 1
        /\ h'.lateRun = h.lateRun + 1
    BY <1>2, <1>3, <1>6, <2>1 DEF History
  <2> QED BY <1>4, <2>2 DEF SleptInv
<1> QED BY <1>5, <1>6

\* Every step keeps the count of overslept cycles within that of late commits.
LEMMA SleptStep ==
  ASSUME TypeOK, TypeOK', OneWayToSleep, SleptInv, [Next]_vars
  PROVE  SleptInv'
<1>1. /\ cpu \in Cpu /\ h.overslept \in Nat /\ h'.lateRun \in Nat
  BY MaxLateAssumption DEF TypeOK, History
<1>2. CASE HaltIdle
  BY <1>2, Oversleeps
<1>3. CASE h'.overslept = 0
  BY <1>1, <1>3 DEF SleptInv
<1>4. ASSUME HaltWake \/ Fetch PROVE h'.overslept = 0
  <2>1. PICK w \in Quiet : \/ h' = [Awake(aged(w)) EXCEPT !.phantom =
                                       cpu.ime /\ pending(ticked(bus, w)) = {}]
                           \/ h' = Awake(aged(w))
    BY <1>4 DEF HaltWake, Fetch
  <2>2. aged(w) \in History
    BY Age DEF Quiet
  <2> DEFINE a == aged(w)
             p == cpu.ime /\ pending(ticked(bus, w)) = {}
  <2> HIDE DEF a, p
  <2>3. h' = [Awake(a) EXCEPT !.phantom = p] \/ h' = Awake(a)
    BY <2>1 DEF a, p
  <2> QED BY <2>2, <2>3 DEF a, Awake, History
<1>5. CASE StopIdle
  <2>1. PICK w \in Quiet : h' = [aged(w) EXCEPT !.idled = TRUE]
    BY <1>5 DEF StopIdle
  <2>2. h'.overslept = h.overslept
    BY <2>1, Age DEF Quiet, History
  <2>3. ~cpu.halted
    BY <1>5 DEF StopIdle, OneWayToSleep
  <2> QED BY <1>1, <1>3, <2>2, <2>3 DEF SleptInv
<1>6. CASE Next /\ ~(HaltIdle \/ HaltWake \/ StopIdle \/ Fetch)
  <2>1. h'.overslept = h.overslept
    BY <1>6, SleepFields
  <2>2. ~cpu.halted
    <3>1. CASE at = "boundary"
      <4>1. LockedCycle
        BY <1>6, <3>1 DEF Next, Step, Execute, Dispatch1, Dispatch2, Dispatch3, Dispatch4,
           HandlerFetch, RetiCycle, RetiEnds, StoreIF, StoreIE, OtherCycle, StopGated,
           PauseCycle, PauseEnds, Other, Ei, Di, RetiStarts, StoreStarts, Lock, Halt,
           StopDeep, StopSwitchNow, SwitchDown, StopSwitch
      <4> QED BY <4>1 DEF LockedCycle, OneWayToSleep
    <3> QED BY <3>1 DEF OneWayToSleep
  <2> QED BY <1>1, <1>3, <2>1, <2>2 DEF SleptInv
<1>7. CASE UNCHANGED vars
  BY <1>7 DEF vars, SleptInv
<1> QED BY <1>2, <1>3, <1>4, <1>5, <1>6, <1>7

\* HALT sleeps through a pending request only while second-half commits hide one from
\* its sampler (halt_wake_pending, bus.rs).
THEOREM HaltPrompt == Spec => []HaltEndsPromptly
<1>1. Init => SleptInv
  BY DEF Init, SleptInv
<1>2. TypeOK /\ TypeOK' /\ OneWayToSleep /\ SleptInv /\ [Next]_vars => SleptInv'
  BY SleptStep
<1>3. TypeOK /\ SleptInv => HaltEndsPromptly
  BY MaxLateAssumption DEF TypeOK, History, SleptInv, HaltEndsPromptly
<1> QED BY <1>1, <1>2, <1>3, TypeCorrect, SleepSafe, PTL DEF Spec

\* Only a CPU that sleeps has an idle cycle behind it.
GateInv == /\ GateFollowsSleep
           /\ h.idled => at = "boundary" /\ (cpu.halted \/ cpu.stopped)

\* Inside an instruction, outside STOP, the gate is left alone.
LEMMA GateKept ==
  ASSUME TypeOK, Next,
         ~(HaltIdle \/ HaltWake \/ StopIdle \/ Fetch \/ StopSwitch \/ PauseEnds)
  PROVE  bus'.gate = bus.gate
<1>1. bus \in Bus
  BY DEF TypeOK
<1>2. ASSUME NEW on, NEW w \in Rises(on), NEW v,
             \/ bus' = [ticked(bus, w) EXCEPT !.ie = v]
             \/ bus' = [ticked(bus, w) EXCEPT !.intf = @ \cup v]
             \/ bus' = ticked(bus, w)
      PROVE  bus'.gate = bus.gate
  <2> DEFINE b == ticked(bus, w)
  <2>1. b \in Bus /\ b.gate = bus.gate
    BY Tick
  <2> HIDE DEF b
  <2>2. \/ bus' = [b EXCEPT !.ie = v] \/ bus' = [b EXCEPT !.intf = @ \cup v]
        \/ bus' = b
    BY <1>2 DEF b
  <2> QED BY <2>1, <2>2 DEF Bus
<1>3. CASE LockedCycle \/ Dispatch1 \/ Dispatch2 \/ HandlerFetch \/ RetiCycle \/ RetiEnds
           \/ StopGated \/ PauseCycle
  BY <1>2, <1>3 DEF LockedCycle, Dispatch1, Dispatch2, HandlerFetch, RetiCycle, RetiEnds,
     StopGated, PauseCycle, Quiet
<1>4. CASE StoreIE \/ OtherCycle
  BY <1>2, <1>4 DEF StoreIE, OtherCycle, Quiet
<1>9. CASE StoreIF
  <2>1. PICK w \in Rises("if"), v \in SUBSET Sources : \E race \in Races("if", w) :
          bus' = stored(ticked(bus, w), v, race)
    BY <1>9 DEF StoreIF
  <2>2. PICK race \in BOOLEAN : bus' = stored(ticked(bus, w), v, race)
    BY <2>1, Race
  <2>3. ticked(bus, w) \in Bus /\ ticked(bus, w).gate = bus.gate
    BY Tick
  <2> QED BY <2>2, <2>3, Stored
<1>5. CASE Dispatch3
  <2>1. PICK race \in BOOLEAN, on \in {"ie", "if", "other"} :
        \E w \in Rises(on), v \in Pushed(on) : bus' = pushed(ticked(bus, w), on, v, race)
    BY <1>5, HighPush
  <2> QED BY <2>1, Tick, Push
<1>6. CASE Dispatch4
  <2>1. PICK race \in BOOLEAN, on \in {"ie", "if", "other"} :
        \E w \in Rises(on), v \in Pushed(on) :
          \/ bus' = pushed(ticked(bus, w), on, v, race)
          \/ \E s \in Sources, dots \in AckDots :
               bus' = acked(pushed(ticked(bus, w), on, v, race), s, dots)
    BY <1>6, Choose
  <2>2. PICK w \in Rises(on), v \in Pushed(on) :
          \/ bus' = pushed(ticked(bus, w), on, v, race)
          \/ \E s \in Sources, dots \in AckDots :
               bus' = acked(pushed(ticked(bus, w), on, v, race), s, dots)
    BY <2>1
  <2> DEFINE b == pushed(ticked(bus, w), on, v, race)
  <2>3. b \in Bus /\ b.gate = bus.gate
    BY Tick, Push
  <2> HIDE DEF b
  <2>4. CASE bus' = b
    BY <2>3, <2>4
  <2>5. CASE \E s \in Sources, dots \in AckDots : bus' = acked(b, s, dots)
    <3>1. PICK s \in Sources, dots \in AckDots : bus' = acked(b, s, dots)
      BY <2>5
    <3>2. dots \in {1, 2, 6}
      BY DEF AckDots
    <3> QED BY <2>3, <3>1, <3>2, Acked
  <2> QED BY <2>2, <2>4, <2>5 DEF b
<1>7. CASE StopDeep
  BY <1>2, <1>7 DEF StopDeep, Quiet
<1>8. CASE Other \/ Ei \/ Di \/ RetiStarts \/ StoreStarts \/ Lock \/ Halt \/ StopSwitchNow
           \/ SwitchDown
  BY <1>8 DEF Other, Ei, Di, RetiStarts, StoreStarts, Lock, Halt, StopSwitchNow, SwitchDown
<1> QED BY <1>3, <1>4, <1>5, <1>6, <1>7, <1>8, <1>9 DEF Next, Step, Execute

\* Every step keeps the gate and the sleep together.
LEMMA GateStep ==
  ASSUME TypeOK, OneWayToSleep, GateInv, [Next]_vars
  PROVE  GateInv'
<1>1. cpu \in Cpu /\ bus \in Bus /\ h \in History
  BY DEF TypeOK
<1>2. CASE HaltIdle \/ StopIdle
  <2>1. PICK w \in Quiet : /\ bus' = [ticked(bus, w) EXCEPT !.gate = TRUE]
                           /\ \/ h' = Sleeps(w, ticked(bus, w))
                              \/ h' = [aged(w) EXCEPT !.idled = TRUE]
    BY <1>2 DEF HaltIdle, StopIdle
  <2>2. ticked(bus, w) \in Bus /\ aged(w) \in History
    BY Tick, Age DEF Quiet
  <2>3. bus'.gate = TRUE
    BY <2>1, <2>2 DEF Bus
  <2>4. h'.idled = TRUE
    BY <2>1, <2>2 DEF History, Sleeps
  <2>5. /\ at = "boundary" /\ at' = "boundary"
        /\ cpu.halted \/ cpu.stopped
        /\ cpu' = cpu
    BY <1>2 DEF HaltIdle, StopIdle
  <2> QED BY <2>3, <2>4, <2>5 DEF GateInv, GateFollowsSleep
<1>3. CASE HaltWake \/ Fetch
  <2>1. PICK w \in Quiet :
          /\ \/ bus' = [ticked(bus, w) EXCEPT !.gate = FALSE] /\ HaltWake
             \/ /\ bus' = [ticked(bus, w) EXCEPT !.gate = IF cpu.stopped THEN FALSE ELSE @]
                /\ Fetch
          /\ \/ h' = [Awake(aged(w)) EXCEPT !.phantom =
                         cpu.ime /\ pending(ticked(bus, w)) = {}]
             \/ h' = Awake(aged(w))
    BY <1>3 DEF HaltWake, Fetch
  <2> DEFINE a == aged(w)
             b == ticked(bus, w)
             p == cpu.ime /\ pending(b) = {}
  <2>2. b \in Bus /\ a \in History /\ b.gate = bus.gate
    BY Tick, Age DEF Quiet
  <2>3. /\ \/ bus' = [b EXCEPT !.gate = FALSE]
           \/ Fetch /\ bus' = [b EXCEPT !.gate = IF cpu.stopped THEN FALSE ELSE @]
        /\ \/ h' = [Awake(a) EXCEPT !.phantom = p]
           \/ h' = Awake(a)
    BY <2>1
  <2> HIDE DEF a, b, p
  <2>4. h'.idled = FALSE
    BY <2>2, <2>3 DEF Awake, History
  <2>5. Fetch /\ ~cpu.stopped => ~bus.gate
    BY DEF Fetch, GateInv, GateFollowsSleep
  <2>6. bus'.gate = FALSE
    BY <2>2, <2>3, <2>5 DEF Bus
  <2>7. at' \in {"disp1", "exec"}
    BY <1>3 DEF HaltWake, Fetch
  <2> QED BY <2>4, <2>6, <2>7 DEF GateInv, GateFollowsSleep
<1>4. CASE StopSwitch
  <2>1. PICK w \in Quiet : bus' = [ticked(bus, w) EXCEPT !.gate = TRUE] /\ h' = aged(w)
    BY <1>4 DEF StopSwitch
  <2>2. bus'.gate = TRUE /\ h'.idled = h.idled
    BY <2>1, Tick, Age DEF Bus, Quiet
  <2>3. at \in {"exec", "down"} /\ at' \in {"enter", "leave"}
    BY <1>4 DEF StopSwitch
  <2> QED BY <2>2, <2>3 DEF GateInv, GateFollowsSleep
<1>5. CASE PauseEnds
  <2>1. PICK src : bus' = [bus EXCEPT !.intf = @ \cup src, !.gate = FALSE]
    BY <1>5 DEF PauseEnds
  <2>2. bus'.gate = FALSE
    BY <1>1, <2>1 DEF Bus
  <2>3. h'.idled = h.idled
    BY <1>5, StillSteps DEF Kept
  <2>4. at = "pause" /\ at' = "boundary"
    BY <1>5 DEF PauseEnds, Finish
  <2> QED BY <2>2, <2>3, <2>4 DEF GateInv, GateFollowsSleep
<1>6. CASE LockedCycle
  <2>1. bus'.gate = bus.gate
    BY <1>6, GateKept DEF Next, Step, LockedCycle, HaltIdle, HaltWake, StopIdle, Fetch,
       StopSwitch, PauseEnds, OneWayToSleep
  <2>2. h'.idled = h.idled
    BY <1>6, RunningSteps DEF Kept
  <2> QED BY <1>6, <2>1, <2>2 DEF LockedCycle, GateInv, GateFollowsSleep
<1>7. CASE StopGated \/ PauseCycle
  <2>1. at \in {"enter", "leave", "pause"} /\ at' = "pause"
    BY <1>7 DEF StopGated, PauseCycle
  <2>2. Next
    BY <1>7 DEF Next, Step
  <2>3. ~(HaltIdle \/ HaltWake \/ StopIdle \/ Fetch \/ StopSwitch \/ PauseEnds)
    BY <2>1 DEF HaltIdle, HaltWake, StopIdle, Fetch, StopSwitch, PauseEnds, Finish
  <2>4. bus'.gate = bus.gate
    BY <2>2, <2>3, GateKept
  <2>5. h'.idled = h.idled
    BY <1>7, RunningSteps DEF Kept
  <2> QED BY <2>1, <2>4, <2>5 DEF GateInv, GateFollowsSleep
<1>8. CASE /\ Next
           /\ ~(HaltIdle \/ HaltWake \/ StopIdle \/ Fetch \/ StopSwitch \/ PauseEnds)
           /\ ~(LockedCycle \/ StopGated \/ PauseCycle)
  <2>1. bus'.gate = bus.gate /\ h'.idled = h.idled
    BY <1>8, GateKept, SleepFields
  <2>2. /\ at \notin {"boundary", "enter", "leave", "pause"}
        /\ at' \notin {"enter", "leave", "pause"}
    BY <1>8 DEF Next, Step, Execute, Dispatch1, Dispatch2, Dispatch3, Dispatch4,
       HandlerFetch, RetiCycle, RetiEnds, StoreIF, StoreIE, OtherCycle,
       Other, Ei, Di, RetiStarts, StoreStarts, Lock, Halt, StopDeep, StopSwitchNow,
       SwitchDown, Finish
  <2> QED BY <2>1, <2>2 DEF GateInv, GateFollowsSleep
<1>9. CASE UNCHANGED vars
  BY <1>9 DEF vars, GateInv, GateFollowsSleep
<1> QED BY <1>2, <1>3, <1>4, <1>5, <1>6, <1>7, <1>8, <1>9

\* The core clock is gated exactly while the CPU has slept a whole M-cycle or a speed
\* switch pauses it (set_cpu_halted, speed.rs).
THEOREM GateSafe == Spec => []GateFollowsSleep
<1>1. Init => GateInv
  BY DEF Init, GateInv, GateFollowsSleep
<1>2. TypeOK /\ OneWayToSleep /\ GateInv /\ [Next]_vars => GateInv'
  BY GateStep
<1>3. GateInv => GateFollowsSleep
  BY DEF GateInv
<1> QED BY <1>1, <1>2, <1>3, TypeCorrect, SleepSafe, PTL DEF Spec
-----------------------------------------------------------------------------
(* The acknowledge window and the window of a store to IF. *)

\* The steps that let the machine run and change the rest of the history too.
LEMMA RunningElsewhere ==
  ASSUME TypeOK,
         HaltIdle \/ HaltWake \/ StopIdle \/ Fetch \/ Dispatch1 \/ HandlerFetch \/ RetiEnds
  PROVE  \E w \in Quiet : Ran(w)
<1>1. PICK w \in Quiet :
        /\ \/ bus' = ticked(bus, w) \/ \E g : bus' = [ticked(bus, w) EXCEPT !.gate = g]
        /\ \/ h' = Sleeps(w, ticked(bus, w))
           \/ \E p : h' = [Awake(aged(w)) EXCEPT !.phantom = p]
           \/ h' = Awake(aged(w))
           \/ h' = [aged(w) EXCEPT !.idled = TRUE]
           \/ h' = [aged(w) EXCEPT !.masked = TRUE, !.afterEi = FALSE, !.cutEi = eiDelay]
           \/ h' = [aged(w) EXCEPT !.hit = FALSE, !.phantom = FALSE, !.veiled = FALSE,
                                   !.cancelled = FALSE]
           \/ h' = [Executed(aged(w)) EXCEPT !.masked = FALSE]
  BY DEF HaltIdle, HaltWake, StopIdle, Fetch, Dispatch1, HandlerFetch, RetiEnds
<1> DEFINE a == aged(w)
           b == ticked(bus, w)
           e == Executed(a)
<1>2. /\ a \in History /\ b \in Bus
      /\ e \in History /\ e.lost = a.lost /\ e.accepted = a.accepted
      /\ e.age = a.age /\ e.lateRun = a.lateRun /\ e.cleared = a.cleared
  BY Age, Tick, ExecutedHistory, ExecutedKeeps DEF Quiet
<1>3. /\ b.sqMask = bus.sqMask /\ b.sqTicks = 0 /\ b.borrowed = w.borrow
      /\ b.sqDots = closing(bus.sqDots, Dots(w)) /\ b.sqStore = 0
      /\ a.lost = squashed(bus, w) /\ a.cleared = h.clears
  BY Age, Tick DEF Quiet
<1>4. /\ bus'.sqMask = b.sqMask /\ bus'.sqTicks = b.sqTicks /\ bus'.sqStore = b.sqStore
      /\ bus'.sqDots = b.sqDots /\ bus'.borrowed = b.borrowed
  <2> HIDE DEF b
  <2>1. bus' = b \/ \E g : bus' = [b EXCEPT !.gate = g]
    BY <1>1 DEF b
  <2> QED BY <1>2, <2>1 DEF Bus
<1>5. /\ h'.lost = a.lost /\ h'.accepted = a.accepted /\ h'.age = a.age
      /\ h'.cleared = a.cleared /\ h'.lateRun = a.lateRun
  <2> HIDE DEF a, b, e
  <2>1. CASE h' = Sleeps(w, b)
    BY <1>2, <2>1 DEF a, Sleeps, History
  <2>2. CASE \E p : h' = [Awake(a) EXCEPT !.phantom = p]
    BY <1>2, <2>2 DEF Awake, History
  <2>3. CASE h' = Awake(a) \/ h' = [a EXCEPT !.idled = TRUE]
    BY <1>2, <2>3 DEF Awake, History
  <2>4. CASE h' = [a EXCEPT !.masked = TRUE, !.afterEi = FALSE, !.cutEi = eiDelay]
    BY <1>2, <2>4 DEF History
  <2>5. CASE h' = [a EXCEPT !.hit = FALSE, !.phantom = FALSE, !.veiled = FALSE,
                            !.cancelled = FALSE]
    BY <1>2, <2>5 DEF History
  <2>6. CASE h' = [e EXCEPT !.masked = FALSE]
    BY <1>2, <2>6 DEF History
  <2> QED BY <1>1, <2>1, <2>2, <2>3, <2>4, <2>5, <2>6 DEF a, b, e
<1> QED BY <1>3, <1>4, <1>5 DEF Ran

\* While the acknowledge window is open it is the accepted source's, and young: the
\* handler's fetch closes the clock sources', and what is left of the PPU's dots is over
\* within two M-cycles more, before the next dispatch can acknowledge.  While the
\* store's is open, the last access is the store.
WindowInv ==
  /\ OnlyTheClearedIsSquashed
  /\ bus.sqStore > 0 => h.clears
  /\ bus.sqTicks > 0 => at = "vector" /\ h.age = 0 /\ h.accepted = bus.sqMask
  /\ bus.sqDots > 0 =>
       /\ h.accepted = bus.sqMask
       /\ \/ h.age = 0 /\ at = "vector" /\ (model.double => bus.sqDots <= 2)
          \/ /\ h.age = 1 /\ bus.sqDots <= 3 /\ ~bus.borrowed
             /\ at \notin Dispatching \cup {"vector"}
          \/ /\ h.age = 2 /\ bus.sqDots <= 1
             /\ at \notin {"disp2", "disp3", "disp4", "vector"}
  /\ bus.sqTicks > 0 \/ bus.sqDots > 0 => bus.sqMask # NoSource

\* The windows over an M-cycle of the machine.
LEMMA WindowRan ==
  ASSUME TypeOK, WindowInv, NEW on, NEW w \in Rises(on), Ran(w),
         at' \in {"disp2", "disp3", "disp4"} => at \in Dispatching, at' # "vector",
         at = "vector" => at' \notin Dispatching /\ w.borrow = FALSE
  PROVE  WindowInv'
<1>1. /\ bus.sqDots \in 0..6 /\ bus.sqTicks \in 0..1 /\ h.age \in 0..4
      /\ bus.borrowed \in BOOLEAN
  BY DEF TypeOK, Bus, History
<1>2. /\ h'.accepted = IF h.accepted = NoSource \/ h.age = 4 THEN NoSource ELSE h.accepted
      /\ h'.age = IF h.accepted = NoSource \/ h.age = 4 THEN 0 ELSE h.age + 1
      /\ h'.lost = squashed(bus, w) /\ h'.cleared = h.clears
      /\ bus'.sqMask = bus.sqMask /\ bus'.sqTicks = 0
      /\ bus'.borrowed = w.borrow
      /\ bus'.sqDots = closing(bus.sqDots, Dots(w))
      /\ bus'.sqStore > 0 => h'.clears
  BY Age DEF Ran
<1>3. /\ Dots(w) \in 2..5
      /\ ~model.double => Dots(w) >= 3
      /\ ~model.double /\ ~bus.borrowed => Dots(w) >= 4
  BY DotCount
<1>4. bus'.sqDots = IF bus.sqDots > Dots(w) THEN bus.sqDots - Dots(w) ELSE 0
  BY <1>2 DEF closing
<1>7. ASSUME bus.sqDots > 0 \/ bus.sqTicks > 0
      PROVE  /\ h.accepted = bus.sqMask /\ bus.sqMask # NoSource /\ h.age \in 0..2
             /\ h'.accepted = bus'.sqMask /\ h'.age = h.age + 1
  <2>1. h.accepted = bus.sqMask /\ bus.sqMask # NoSource /\ h.age \in 0..2
    BY <1>7 DEF WindowInv
  <2> QED BY <1>2, <2>1
<1>8. OnlyTheClearedIsSquashed'
  <2>1. ASSUME NEW s \in h'.lost
        PROVE  (s = h'.accepted /\ h'.age <= 3) \/ (s = STAT /\ h'.cleared)
    <3>1. CASE s = bus.sqMask /\ (bus.sqTicks > 0 \/ bus.sqDots > 0)
      BY <1>2, <1>7, <3>1
    <3>2. CASE s = STAT /\ bus.sqStore > 0
      BY <1>2, <3>2 DEF WindowInv
    <3> QED BY <1>2, <2>1, <3>1, <3>2, Squashed
  <2> QED BY <2>1 DEF OnlyTheClearedIsSquashed
<1>5. CASE bus.sqDots = 0 /\ bus.sqTicks = 0
  <2>1. bus'.sqDots = 0
    BY <1>3, <1>4, <1>5
  <2> QED BY <1>2, <1>8, <2>1 DEF WindowInv
<1>6. CASE bus.sqDots > 0 \/ bus.sqTicks > 0
  <2>1. /\ h.accepted = bus.sqMask /\ bus.sqMask # NoSource /\ h.age \in 0..2
        /\ h'.accepted = bus'.sqMask /\ h'.age = h.age + 1
    BY <1>6, <1>7
  <2>5. ASSUME bus'.sqDots > 0
        PROVE  \/ /\ h'.age = 1 /\ bus'.sqDots <= 3 /\ ~bus'.borrowed
                  /\ at' \notin Dispatching \cup {"vector"}
               \/ /\ h'.age = 2 /\ bus'.sqDots <= 1
                  /\ at' \notin {"disp2", "disp3", "disp4", "vector"}
    <3>1. bus.sqDots > 0 /\ bus'.sqDots = bus.sqDots - Dots(w) /\ bus.sqDots > Dots(w)
      BY <1>1, <1>3, <1>4, <2>5
    <3>2. CASE h.age = 0 /\ at = "vector" /\ (model.double => bus.sqDots <= 2)
      BY <1>1, <1>2, <1>3, <2>1, <3>1, <3>2
    <3>3. CASE /\ h.age = 1 /\ bus.sqDots <= 3 /\ ~bus.borrowed
               /\ at \notin Dispatching \cup {"vector"}
      BY <1>1, <1>3, <2>1, <3>1, <3>3
    <3>4. CASE h.age = 2 /\ bus.sqDots <= 1
      BY <1>1, <1>3, <3>1, <3>4
    <3> QED BY <3>1, <3>2, <3>3, <3>4 DEF WindowInv
  <2> QED BY <1>2, <1>8, <2>1, <2>5 DEF WindowInv
<1> QED BY <1>1, <1>5, <1>6

\* In a cycle that pushes only a store's window can be open, and a push opens one only
\* by clearing STAT's bit.
LEMMA WindowPush ==
  ASSUME TypeOK, WindowInv, at \in {"disp3", "disp4"},
         NEW on \in {"ie", "if", "other"}, NEW w \in Rises(on), NEW v \in Pushed(on),
         NEW race \in BOOLEAN,
         h'.lost = squashed(bus, w), h'.cleared = h.clears, h'.clears = ClearsSTAT(on, v)
  PROVE  /\ OnlyTheClearedIsSquashed'
         /\ pushed(ticked(bus, w), on, v, race) \in Bus
         /\ pushed(ticked(bus, w), on, v, race).sqDots = 0
         /\ pushed(ticked(bus, w), on, v, race).sqTicks = 0
         /\ pushed(ticked(bus, w), on, v, race).sqStore > 0 => h'.clears
<1>1. bus.sqDots = 0 /\ bus.sqTicks = 0
  <2>1. bus.sqDots \in 0..6 /\ bus.sqTicks \in 0..1
    BY DEF TypeOK, Bus
  <2>2. ~(bus.sqDots > 0) /\ ~(bus.sqTicks > 0)
    BY DEF WindowInv, Dispatching
  <2> QED BY <2>1, <2>2
<1>2. OnlyTheClearedIsSquashed'
  <2>1. ASSUME NEW s \in h'.lost PROVE s = STAT /\ h'.cleared
    <3>1. s = STAT /\ bus.sqStore > 0
      BY <1>1, <2>1, Squashed
    <3> QED BY <3>1 DEF WindowInv
  <2> QED BY <2>1 DEF OnlyTheClearedIsSquashed
<1> DEFINE b == ticked(bus, w)
<1>3. /\ b \in Bus /\ b.sqTicks = 0 /\ b.sqStore = 0
      /\ b.sqDots = closing(bus.sqDots, Dots(w))
  BY Tick
<1>4. closing(bus.sqDots, Dots(w)) = 0
  BY <1>1, DotCount DEF closing
<1> HIDE DEF b
<1>5. /\ pushed(b, on, v, race) \in Bus
      /\ pushed(b, on, v, race).sqDots = 0 /\ pushed(b, on, v, race).sqTicks = 0
      /\ ~ClearsSTAT(on, v) => pushed(b, on, v, race).sqStore = 0
  BY <1>3, <1>4, Push
<1> QED BY <1>2, <1>5 DEF b

\* The acknowledge: the last window is over when the next one opens.
LEMMA WindowOpens ==
  ASSUME TypeOK, WindowInv, Dispatch4
  PROVE  WindowInv'
<1>1. PICK race \in BOOLEAN, on \in {"ie", "if", "other"} :
      \E w \in Rises(on), v \in Pushed(on) :
        LET b == pushed(ticked(bus, w), on, v, race)
            chosen == choice(IF on = "if" THEN bus ELSE b)
        IN /\ h'.lost = squashed(bus, w) /\ h'.cleared = h.clears
           /\ h'.clears = ClearsSTAT(on, v)
           /\ chosen = {} => bus' = b
           /\ chosen # {} => \E dots \in AckDots :
                               /\ first_of(chosen) \in Sources
                               /\ bus' = acked(b, first_of(chosen), dots)
                               /\ h'.accepted = first_of(chosen) /\ h'.age = 0
  BY Choose
<1>2. PICK w \in Rises(on), v \in Pushed(on) :
        LET b == pushed(ticked(bus, w), on, v, race)
        IN /\ h'.lost = squashed(bus, w) /\ h'.cleared = h.clears
           /\ h'.clears = ClearsSTAT(on, v)
           /\ \/ bus' = b
              \/ \E s \in Sources, dots \in AckDots :
                   bus' = acked(b, s, dots) /\ h'.accepted = s /\ h'.age = 0
  BY <1>1
<1> DEFINE b == pushed(ticked(bus, w), on, v, race)
<1>3. at = "disp4" /\ at' = "vector" /\ model' = model
  BY DEF Dispatch4
<1>4. /\ OnlyTheClearedIsSquashed'
      /\ b \in Bus /\ b.sqDots = 0 /\ b.sqTicks = 0 /\ (b.sqStore > 0 => h'.clears)
  BY <1>2, <1>3, WindowPush
<1> HIDE DEF b
<1>5. CASE bus' = b
  BY <1>4, <1>5 DEF WindowInv
<1>6. CASE \E s \in Sources, dots \in AckDots :
             bus' = acked(b, s, dots) /\ h'.accepted = s /\ h'.age = 0
  <2>1. PICK s \in Sources, dots \in AckDots :
          bus' = acked(b, s, dots) /\ h'.accepted = s /\ h'.age = 0
    BY <1>6
  <2>2. dots \in {1, 2, 6} /\ (model'.double => dots <= 2)
    BY <1>3 DEF AckDots
  <2>3. /\ \/ bus'.sqMask = s /\ bus'.sqDots \in {0, dots}
           \/ bus'.sqDots = 0 /\ bus'.sqTicks = 0
        /\ bus'.sqStore = b.sqStore
    BY <1>4, <2>1, <2>2, Acked
  <2>4. s # NoSource
    BY SourcesAssumption DEF NoSource
  <2> QED BY <1>3, <1>4, <2>1, <2>2, <2>3, <2>4 DEF WindowInv
<1> QED BY <1>2, <1>5, <1>6 DEF b

\* Every step keeps the two windows within their cycles and dots.
LEMMA WindowStep ==
  ASSUME TypeOK, WindowInv, [Next]_vars
  PROVE  WindowInv'
<1>1. h \in History /\ bus \in Bus
  BY DEF TypeOK
<1>2. ASSUME Still, at \notin Dispatching \cup {"vector"},
             at' \notin Dispatching \cup {"vector"}
      PROVE  WindowInv'
  BY <1>2 DEF Still, WindowInv, OnlyTheClearedIsSquashed, Dispatching
<1>3. CASE Other \/ RetiStarts \/ StoreStarts \/ Lock \/ Halt \/ StopSwitchNow
           \/ SwitchDown \/ PauseEnds \/ (StopDeep /\ pending(bus) # {})
  <2>1. at \in {"exec", "pause"} /\ at' \notin Dispatching \cup {"vector"}
    BY <1>3 DEF Other, RetiStarts, StoreStarts, Lock, Halt, StopSwitchNow, SwitchDown,
       PauseEnds, StopDeep, Finish, Dispatching
  <2>2. Still
    BY <1>3, StillSteps
  <2> QED BY <1>2, <2>1, <2>2 DEF Dispatching
<1>4. CASE Ei \/ Di
  <2>1. at = "exec" /\ at' = "boundary" /\ bus' = bus
    BY <1>4 DEF Ei, Di, Finish
  <2>2. h'.lost = h.lost /\ h'.accepted = h.accepted /\ h'.age = h.age
        /\ h'.clears = h.clears /\ h'.cleared = h.cleared /\ h'.lateRun = h.lateRun
    <3>1. /\ Executed(h) \in History
          /\ Executed(h).lost = h.lost /\ Executed(h).accepted = h.accepted
          /\ Executed(h).age = h.age /\ Executed(h).lateRun = h.lateRun
          /\ Executed(h).clears = h.clears /\ Executed(h).cleared = h.cleared
      BY <1>1, ExecutedHistory, ExecutedKeeps
    <3> QED BY <1>4, <3>1 DEF Ei, Di, History
  <2> QED BY <1>2, <2>1, <2>2 DEF Still, Dispatching
<1>5. CASE LockedCycle \/ Dispatch2 \/ OtherCycle \/ RetiCycle \/ StoreIF \/ StoreIE
           \/ StopSwitch \/ StopGated \/ PauseCycle \/ (StopDeep /\ pending(bus) = {})
  <2>1. PICK on : \E w \in Rises(on) : Ran(w)
    BY <1>5, RunningSteps
  <2>2. /\ at' \in {"disp2", "disp3", "disp4"} => at \in Dispatching
        /\ at' # "vector" /\ at # "vector"
    BY <1>5 DEF LockedCycle, Dispatch2, OtherCycle, RetiCycle, StoreIF, StoreIE, StopSwitch,
       StopGated, PauseCycle, StopDeep, Finish, Dispatching
  <2> QED BY <2>1, <2>2, WindowRan
<1>6. CASE HaltIdle \/ HaltWake \/ StopIdle \/ Fetch \/ Dispatch1 \/ HandlerFetch \/ RetiEnds
  <2>1. PICK w \in Quiet : Ran(w)
    BY <1>6, RunningElsewhere
  <2>2. /\ at' \in {"disp2", "disp3", "disp4"} => at \in Dispatching
        /\ at' # "vector" /\ (at = "vector" => at' \notin Dispatching)
    BY <1>6 DEF HaltIdle, HaltWake, StopIdle, Fetch, Dispatch1, HandlerFetch, RetiEnds,
       Finish, Dispatching
  <2>3. w \in Rises("none") /\ w.borrow = FALSE
    BY Rise DEF Quiet
  <2> QED BY <2>1, <2>2, <2>3, WindowRan
<1>7. CASE Dispatch3
  <2>1. PICK race \in BOOLEAN, on \in {"ie", "if", "other"} :
        \E w \in Rises(on), v \in Pushed(on) :
          /\ bus' = pushed(ticked(bus, w), on, v, race)
          /\ h'.clears = ClearsSTAT(on, v)
          /\ h'.cleared = h.clears /\ h'.lost = squashed(bus, w)
    BY <1>7, HighPush
  <2>2. at = "disp3"
    BY <1>7 DEF Dispatch3
  <2>3. /\ OnlyTheClearedIsSquashed'
        /\ bus'.sqDots = 0 /\ bus'.sqTicks = 0 /\ (bus'.sqStore > 0 => h'.clears)
    BY <2>1, <2>2, WindowPush
  <2> QED BY <2>3 DEF WindowInv
<1>8. CASE Dispatch4
  BY <1>8, WindowOpens
<1>9. CASE UNCHANGED vars
  BY <1>9 DEF vars, WindowInv, OnlyTheClearedIsSquashed
<1> QED BY <1>3, <1>4, <1>5, <1>6, <1>7, <1>8, <1>9 DEF Next, Step, Execute

\* No request is ever swallowed but one of the source just acknowledged, in the three
\* M-cycles after (if_squash_dots and if_squash_mcycles, bus.rs and tick.rs), and STAT's
\* in the M-cycle after a store cleared its bit (stat_if_squash, bus.rs and reclock.rs).
THEOREM WindowSafe == Spec => []OnlyTheClearedIsSquashed
<1>1. Init => WindowInv
  BY DEF Init, WindowInv, OnlyTheClearedIsSquashed
<1>2. TypeOK /\ WindowInv /\ [Next]_vars => WindowInv'
  BY WindowStep
<1>3. WindowInv => OnlyTheClearedIsSquashed
  BY DEF WindowInv
<1> QED BY <1>1, <1>2, <1>3, TypeCorrect, PTL DEF Spec
-----------------------------------------------------------------------------
(* What a dispatch finds, and what becomes of a request. *)

\* Only the low push cancels a dispatch.
LEMMA CancelField ==
  ASSUME TypeOK, Next, ~(Dispatch4 \/ HandlerFetch)
  PROVE  h'.cancelled = h.cancelled
<1>1. h \in History
  BY DEF TypeOK
<1>2. CASE HaltIdle \/ HaltWake \/ StopIdle \/ Fetch \/ Dispatch1 \/ RetiEnds
  <2>1. PICK w \in Quiet :
           \/ h' = Sleeps(w, ticked(bus, w))
           \/ \E p : h' = [Awake(aged(w)) EXCEPT !.phantom = p]
           \/ h' = Awake(aged(w))
           \/ h' = [aged(w) EXCEPT !.idled = TRUE]
           \/ h' = [aged(w) EXCEPT !.masked = TRUE, !.afterEi = FALSE, !.cutEi = eiDelay]
           \/ h' = [Executed(aged(w)) EXCEPT !.masked = FALSE]
    BY <1>2 DEF HaltIdle, HaltWake, StopIdle, Fetch, Dispatch1, RetiEnds
  <2> DEFINE a == aged(w)
             b == ticked(bus, w)
             e == Executed(a)
  <2>2. /\ a \in History /\ a.cancelled = h.cancelled
        /\ e \in History /\ e.cancelled = h.cancelled
    <3>1. a \in History /\ a.cancelled = h.cancelled
      BY Age DEF Quiet
    <3> QED BY <3>1, ExecutedHistory, ExecutedKeeps
  <2> HIDE DEF a, b, e
  <2>3. CASE h' = Sleeps(w, b)
    BY <2>2, <2>3 DEF a, Sleeps, History
  <2>4. CASE \E p : h' = [Awake(a) EXCEPT !.phantom = p]
    BY <2>2, <2>4 DEF Awake, History
  <2>5. CASE h' = Awake(a) \/ h' = [a EXCEPT !.idled = TRUE]
    BY <2>2, <2>5 DEF Awake, History
  <2>6. CASE h' = [a EXCEPT !.masked = TRUE, !.afterEi = FALSE, !.cutEi = eiDelay]
    BY <2>2, <2>6 DEF History
  <2>7. CASE h' = [e EXCEPT !.masked = FALSE]
    BY <2>2, <2>7 DEF History
  <2> QED BY <2>1, <2>3, <2>4, <2>5, <2>6, <2>7 DEF a, b, e
<1>3. CASE Dispatch3
  BY <1>3, HighPush
<1>4. CASE Ei \/ Di
  <2>1. Executed(h) \in History /\ Executed(h).cancelled = h.cancelled
    BY <1>1, ExecutedHistory, ExecutedKeeps
  <2> QED BY <1>4, <2>1 DEF Ei, Di, History
<1>5. CASE Other \/ RetiStarts \/ StoreStarts \/ Lock \/ Halt \/ StopSwitchNow
           \/ SwitchDown \/ PauseEnds
  BY <1>5, StillSteps DEF Kept
<1>6. CASE LockedCycle \/ Dispatch2 \/ OtherCycle \/ RetiCycle \/ StoreIF \/ StoreIE
           \/ StopSwitch \/ StopGated \/ PauseCycle
  BY <1>6, RunningSteps DEF Kept
<1>7. CASE StopDeep
  BY <1>7, StillSteps, RunningSteps DEF Kept
<1> QED BY <1>2, <1>3, <1>4, <1>5, <1>6, <1>7 DEF Next, Step, Execute

\* A dispatch that no flag excuses has a request: enabled now until the high push,
\* and enabled by the latched IE after it.
DispatchInv ==
  /\ CancelledOnlyFor
  /\ h.cancelled => at = "vector"
  /\ at \in {"disp1", "disp2", "disp3"} /\ ~h.phantom => bus.intf \cap bus.ie # {}
  /\ at = "disp4" /\ ~h.hit /\ ~h.phantom => bus.intf \cap ieLatch # {}

\* The choice of the vector finds it, unless the push or a veil takes it away.
LEMMA ChoiceFinds ==
  ASSUME TypeOK, DispatchInv, Dispatch4
  PROVE  DispatchInv'
<1>1. PICK race \in BOOLEAN, on \in {"ie", "if", "other"} :
      \E w \in Rises(on), v \in Pushed(on) :
        LET b == pushed(ticked(bus, w), on, v, race)
            seen == IF on = "if" THEN bus ELSE b
        IN /\ h'.hit = (h.hit \/ on = "if") /\ h'.phantom = h.phantom
           /\ h'.veiled = (ieLatch \cap seen.hidden # {})
           /\ h'.cancelled = (choice(seen) = {})
  BY Choose
<1>2. PICK w \in Rises(on), v \in Pushed(on) :
        LET b == pushed(ticked(bus, w), on, v, race)
            seen == IF on = "if" THEN bus ELSE b
        IN /\ h'.hit = (h.hit \/ on = "if") /\ h'.phantom = h.phantom
           /\ h'.veiled = (ieLatch \cap seen.hidden # {})
           /\ h'.cancelled = (choice(seen) = {})
  BY <1>1
<1>3. at = "disp4" /\ at' = "vector"
  BY DEF Dispatch4
<1>4. ASSUME h'.cancelled, ~h'.hit, ~h'.phantom
      PROVE  h'.veiled
  <2> DEFINE b == pushed(ticked(bus, w), on, v, race)
  <2>1. on # "if" /\ ~h.hit /\ ~h.phantom
    BY <1>2, <1>4
  <2>2. PICK s : s \in bus.intf \cap ieLatch
    BY <1>3, <2>1 DEF DispatchInv
  <2>3. s \in b.intf
    <3>1. ticked(bus, w) \in Bus /\ bus.intf \subseteq ticked(bus, w).intf
      BY Tick
    <3>2. ticked(bus, w).intf \subseteq b.intf
      BY <2>1, <3>1, Push
    <3> QED BY <2>2, <3>1, <3>2
  <2>4. choice(b) = {} /\ h'.veiled = (ieLatch \cap b.hidden # {})
    BY <1>2, <1>4, <2>1
  <2>5. s \in b.hidden
    BY <2>2, <2>3, <2>4 DEF choice, iflags
  <2> QED BY <2>2, <2>4, <2>5
<1> QED BY <1>3, <1>4 DEF DispatchInv, CancelledOnlyFor

\* Every step of a dispatch keeps a reason to end with a source.
LEMMA DispatchStep ==
  ASSUME TypeOK, DispatchInv, [Next]_vars
  PROVE  DispatchInv'
<1>1. h \in History /\ bus \in Bus
  BY DEF TypeOK
<1>2. ASSUME ~h'.cancelled, at' \notin Dispatching PROVE DispatchInv'
  BY <1>2 DEF DispatchInv, CancelledOnlyFor, Dispatching
<1>3. at # "vector" => ~h.cancelled
  BY DEF DispatchInv
<1>4. ASSUME NEW w \in Quiet
      PROVE  /\ ticked(bus, w) \in Bus /\ aged(w) \in History
             /\ bus.intf \subseteq ticked(bus, w).intf /\ ticked(bus, w).ie = bus.ie
             /\ aged(w).phantom = h.phantom
  BY Tick, Age DEF Quiet
<1>5. CASE HaltWake
  <2>1. PICK w \in Quiet :
          /\ bus' = [ticked(bus, w) EXCEPT !.gate = FALSE]
          /\ h' = [Awake(aged(w)) EXCEPT !.phantom =
                      cpu.ime /\ pending(ticked(bus, w)) = {}]
    BY <1>5 DEF HaltWake
  <2> DEFINE a == aged(w)
             b == ticked(bus, w)
             p == cpu.ime /\ pending(b) = {}
  <2>2. a \in History /\ b \in Bus
    BY <1>4
  <2>3. at = "boundary" /\ at' = IF cpu.ime THEN "disp1" ELSE "exec"
    BY <1>5 DEF HaltWake
  <2>4. ~h'.cancelled
    BY <1>3, <1>5, <2>3, CancelField DEF Next, Step, HaltWake, Dispatch4, HandlerFetch
  <2>5. h'.phantom = p
    <3> HIDE DEF a, p
    <3>1. h' = [Awake(a) EXCEPT !.phantom = p]
      BY <2>1 DEF a, p
    <3> QED BY <2>2, <3>1 DEF Awake, History
  <2>6. bus'.intf = b.intf /\ bus'.ie = b.ie
    <3> HIDE DEF b
    <3>1. bus' = [b EXCEPT !.gate = FALSE]
      BY <2>1 DEF b
    <3> QED BY <2>2, <3>1 DEF Bus
  <2>7. at' = "disp1" /\ ~h'.phantom => bus'.intf \cap bus'.ie # {}
    BY <2>3, <2>5, <2>6 DEF pending
  <2> QED BY <2>3, <2>4, <2>7 DEF DispatchInv, CancelledOnlyFor
<1>6. CASE Fetch
  <2>1. PICK w \in Quiet :
          LET b == [ticked(bus, w) EXCEPT !.gate = IF cpu.stopped THEN FALSE ELSE @]
          IN /\ bus' = b
             /\ at' = IF cpu.ime /\ pending(b) # {} THEN "disp1" ELSE "exec"
    BY <1>6 DEF Fetch
  <2>2. at = "boundary"
    BY <1>6 DEF Fetch
  <2>3. ~h'.cancelled
    BY <1>3, <1>6, <2>2, CancelField DEF Next, Step, Dispatch4, HandlerFetch
  <2>4. at' = IF cpu.ime /\ pending(bus') # {} THEN "disp1" ELSE "exec"
    BY <2>1
  <2>5. at' = "disp1" => bus'.intf \cap bus'.ie # {}
    BY <2>4 DEF pending
  <2> QED BY <2>3, <2>4, <2>5 DEF DispatchInv, CancelledOnlyFor
<1>7. CASE Dispatch1 \/ Dispatch2
  <2>1. PICK w \in Quiet :
          /\ bus' = ticked(bus, w)
          /\ \/ h' = [aged(w) EXCEPT !.masked = TRUE, !.afterEi = FALSE, !.cutEi = eiDelay]
             \/ h' = aged(w)
    BY <1>7 DEF Dispatch1, Dispatch2
  <2>2. h'.phantom = h.phantom
    <3> DEFINE a == aged(w)
    <3>1. a \in History /\ a.phantom = h.phantom
      BY <1>4
    <3> HIDE DEF a
    <3>2. \/ h' = [a EXCEPT !.masked = TRUE, !.afterEi = FALSE, !.cutEi = eiDelay]
          \/ h' = a
      BY <2>1 DEF a
    <3> QED BY <3>1, <3>2 DEF History
  <2>3. at \in {"disp1", "disp2"} /\ at' \in {"disp2", "disp3"}
    BY <1>7 DEF Dispatch1, Dispatch2
  <2>4. ~h'.cancelled
    BY <1>3, <1>7, <2>3, CancelField DEF Next, Step, Dispatch4, HandlerFetch
  <2>5. bus.intf \subseteq bus'.intf /\ bus'.ie = bus.ie
    BY <1>4, <2>1
  <2>6. ~h'.phantom => bus'.intf \cap bus'.ie # {}
    BY <2>2, <2>3, <2>5 DEF DispatchInv
  <2> QED BY <2>3, <2>4, <2>6 DEF DispatchInv, CancelledOnlyFor
<1>8. CASE Dispatch3
  <2>1. PICK race \in BOOLEAN, on \in {"ie", "if", "other"} :
        \E w \in Rises(on), v \in Pushed(on) :
          /\ bus' = pushed(ticked(bus, w), on, v, race) /\ ieLatch' = bus'.ie
          /\ h'.hit = (on # "other") /\ h'.phantom = h.phantom
          /\ h'.cancelled = h.cancelled
    BY <1>8, HighPush
  <2>2. at = "disp3" /\ at' = "disp4"
    BY <1>8 DEF Dispatch3
  <2>3. on = "other" => bus.intf \subseteq bus'.intf /\ ieLatch' = bus.ie
    BY <2>1, Tick, Push
  <2>4. ~h'.cancelled
    BY <1>3, <2>1, <2>2
  <2>5. ~h'.hit /\ ~h'.phantom => bus'.intf \cap ieLatch' # {}
    BY <2>1, <2>2, <2>3 DEF DispatchInv
  <2> QED BY <2>2, <2>4, <2>5 DEF DispatchInv, CancelledOnlyFor
<1>9. CASE Dispatch4
  BY <1>9, ChoiceFinds
<1>10. CASE HandlerFetch
  <2>1. PICK w \in Quiet : h' = [aged(w) EXCEPT !.hit = FALSE, !.phantom = FALSE,
                                                !.veiled = FALSE, !.cancelled = FALSE]
    BY <1>10 DEF HandlerFetch
  <2>2. ~h'.cancelled
    BY <1>4, <2>1 DEF History
  <2> QED BY <1>2, <1>10, <2>2 DEF HandlerFetch, Dispatching
<1>11. CASE /\ Next
            /\ ~(HaltWake \/ Fetch \/ Dispatch1 \/ Dispatch2 \/ Dispatch3 \/ Dispatch4
                   \/ HandlerFetch)
  <2>1. at # "vector" /\ at' \notin Dispatching
    BY <1>11 DEF Next, Step, Execute, LockedCycle, HaltIdle, StopIdle, RetiCycle, RetiEnds,
       StoreIF, StoreIE, OtherCycle, StopGated, PauseCycle, PauseEnds, Other, Ei, Di,
       RetiStarts, StoreStarts, Lock, Halt, StopDeep, StopSwitchNow, SwitchDown,
       StopSwitch, Finish, Dispatching
  <2>2. ~h'.cancelled
    BY <1>3, <1>11, <2>1, CancelField
  <2> QED BY <1>2, <2>1, <2>2
<1>12. CASE UNCHANGED vars
  BY <1>12 DEF vars, DispatchInv, CancelledOnlyFor
<1> QED BY <1>5, <1>6, <1>7, <1>8, <1>9, <1>10, <1>11, <1>12

\* A dispatch ends at address 0 without a source for three reasons and no other: a push
\* on IE or IF, a projected mode-0 flip that woke HALT, a veiled STAT commit
\* (dispatch_interrupt, execute.rs).
THEOREM CancelSafe == Spec => []CancelledOnlyFor
<1>1. Init => DispatchInv
  BY DEF Init, DispatchInv, CancelledOnlyFor
<1>2. TypeOK /\ DispatchInv /\ [Next]_vars => DispatchInv'
  BY DispatchStep
<1>3. DispatchInv => CancelledOnlyFor
  BY DEF DispatchInv
<1> QED BY <1>1, <1>2, <1>3, TypeCorrect, PTL DEF Spec

\* A request that a step removes was accepted in it or overwritten by it.
Accounted == \A s \in bus.intf \ bus'.intf :
               \/ at = "disp4" /\ h'.accepted = s /\ h'.age = 0
               \/ at = "writeIF"
               \/ at \in {"disp3", "disp4"} /\ h'.hit

\* No other step takes a request away.
LEMMA RequestsGrow ==
  ASSUME TypeOK, Next, ~(StoreIF \/ Dispatch3 \/ Dispatch4)
  PROVE  bus.intf \subseteq bus'.intf
<1>1. bus \in Bus
  BY DEF TypeOK
<1>2. ASSUME NEW on, NEW w \in Rises(on), NEW v,
             \/ bus' = [ticked(bus, w) EXCEPT !.intf = @ \cup v]
             \/ bus' = [ticked(bus, w) EXCEPT !.ie = v]
             \/ bus' = [ticked(bus, w) EXCEPT !.gate = v]
             \/ bus' = ticked(bus, w)
      PROVE  bus.intf \subseteq bus'.intf
  <2> DEFINE b == ticked(bus, w)
  <2>1. b \in Bus /\ bus.intf \subseteq b.intf
    BY Tick
  <2> HIDE DEF b
  <2>2. \/ bus' = [b EXCEPT !.intf = @ \cup v] \/ bus' = [b EXCEPT !.ie = v]
        \/ bus' = [b EXCEPT !.gate = v] \/ bus' = b
    BY <1>2 DEF b
  <2> QED BY <2>1, <2>2 DEF Bus
<1>3. CASE LockedCycle \/ Dispatch1 \/ Dispatch2 \/ HandlerFetch \/ RetiCycle \/ RetiEnds
           \/ StopGated \/ PauseCycle
  BY <1>2, <1>3 DEF LockedCycle, Dispatch1, Dispatch2, HandlerFetch, RetiCycle, RetiEnds,
     StopGated, PauseCycle, Quiet
<1>4. CASE HaltIdle \/ HaltWake \/ StopIdle \/ StopSwitch
  BY <1>2, <1>4 DEF HaltIdle, HaltWake, StopIdle, StopSwitch, Quiet
<1>5. CASE Fetch
  <2>1. PICK w \in Quiet :
          bus' = [ticked(bus, w) EXCEPT !.gate = IF cpu.stopped THEN FALSE ELSE @]
    BY <1>5 DEF Fetch
  <2> DEFINE b == ticked(bus, w)
             g == IF cpu.stopped THEN FALSE ELSE b.gate
  <2>2. b \in Bus /\ bus.intf \subseteq b.intf
    BY Tick DEF Quiet
  <2> HIDE DEF b
  <2>3. bus' = [b EXCEPT !.gate = g]
    BY <2>1 DEF b
  <2> QED BY <2>2, <2>3 DEF Bus
<1>6. CASE OtherCycle
  BY <1>2, <1>6 DEF OtherCycle
<1>7. CASE StoreIE
  BY <1>2, <1>7 DEF StoreIE, Quiet
<1>8. CASE StopDeep
  BY <1>2, <1>8 DEF StopDeep, Quiet
<1>9. CASE PauseEnds
  <2>1. PICK src : bus' = [bus EXCEPT !.intf = @ \cup src, !.gate = FALSE]
    BY <1>9 DEF PauseEnds
  <2> QED BY <1>1, <2>1 DEF Bus
<1>10. CASE Other \/ Ei \/ Di \/ RetiStarts \/ StoreStarts \/ Lock \/ Halt \/ StopSwitchNow
            \/ SwitchDown
  BY <1>10 DEF Other, Ei, Di, RetiStarts, StoreStarts, Lock, Halt, StopSwitchNow, SwitchDown
<1> QED BY <1>3, <1>4, <1>5, <1>6, <1>7, <1>8, <1>9, <1>10 DEF Next, Step, Execute

\* Every step accounts for the requests it takes out of IF.
LEMMA RequestStep ==
  ASSUME TypeOK, [Next]_vars
  PROVE  [Accounted]_vars
<1>1. CASE StoreIF
  BY <1>1 DEF StoreIF, Accounted
<1>2. CASE Dispatch3
  <2>1. PICK race \in BOOLEAN, on \in {"ie", "if", "other"} :
        \E w \in Rises(on), v \in Pushed(on) :
          bus' = pushed(ticked(bus, w), on, v, race) /\ h'.hit = (on # "other")
    BY <1>2, HighPush
  <2>2. on = "other" => bus.intf \subseteq bus'.intf
    BY <2>1, Tick, Push
  <2>3. at = "disp3"
    BY <1>2 DEF Dispatch3
  <2> QED BY <2>1, <2>2, <2>3 DEF Accounted
<1>3. CASE Dispatch4
  <2>1. PICK race \in BOOLEAN, on \in {"ie", "if", "other"} :
        \E w \in Rises(on), v \in Pushed(on) :
          LET b == pushed(ticked(bus, w), on, v, race)
          IN /\ b \in Bus /\ h'.hit = (h.hit \/ on = "if")
             /\ \/ bus' = b
                \/ \E s \in Sources, dots \in AckDots :
                     bus' = acked(b, s, dots) /\ h'.accepted = s /\ h'.age = 0
    BY <1>3, Choose
  <2>2. PICK w \in Rises(on), v \in Pushed(on) :
          LET b == pushed(ticked(bus, w), on, v, race)
          IN /\ b \in Bus /\ h'.hit = (h.hit \/ on = "if")
             /\ \/ bus' = b
                \/ \E s \in Sources, dots \in AckDots :
                     bus' = acked(b, s, dots) /\ h'.accepted = s /\ h'.age = 0
    BY <2>1
  <2> DEFINE b == pushed(ticked(bus, w), on, v, race)
  <2>3. at = "disp4" /\ b \in Bus /\ (on = "if" => h'.hit)
    BY <1>3, <2>2 DEF Dispatch4
  <2>4. on # "if" => bus.intf \subseteq b.intf
    <3>1. ticked(bus, w) \in Bus /\ bus.intf \subseteq ticked(bus, w).intf
      BY Tick
    <3> QED BY <3>1, Push
  <2> HIDE DEF b
  <2>5. CASE bus' = b
    BY <2>3, <2>4, <2>5 DEF Accounted
  <2>6. CASE \E s \in Sources, dots \in AckDots :
               bus' = acked(b, s, dots) /\ h'.accepted = s /\ h'.age = 0
    <3>1. PICK s \in Sources, dots \in AckDots :
            bus' = acked(b, s, dots) /\ h'.accepted = s /\ h'.age = 0
      BY <2>6
    <3>2. dots \in {1, 2, 6}
      BY DEF AckDots
    <3>3. bus'.intf = b.intf \ {s}
      BY <2>3, <3>1, <3>2, Acked
    <3> QED BY <2>3, <2>4, <3>1, <3>3 DEF Accounted
  <2> QED BY <2>2, <2>5, <2>6 DEF b
<1>4. CASE Next /\ ~(StoreIF \/ Dispatch3 \/ Dispatch4)
  BY <1>4, RequestsGrow DEF Accounted
<1>5. CASE UNCHANGED vars
  BY <1>5
<1> QED BY <1>1, <1>2, <1>3, <1>4, <1>5

\* A request leaves IF only by being accepted or by a program's write: the tick, the
\* window, HALT, STOP and the speed switch never lose one already set (tick.rs, bus.rs).
THEOREM RequestsKept == Spec => RequestsSurvive
<1>1. TypeOK /\ [Next]_vars => [Accounted]_vars
  BY RequestStep
<1> QED BY <1>1, TypeCorrect, PTL DEF Spec, RequestsSurvive, Accounted
=============================================================================

---------------------------- MODULE TimerProofs ----------------------------
(***************************************************************************)
(* Proofs about Timer for every value of its constants: the inductive      *)
(* invariant IInv, the type invariant and the safety properties that       *)
(* follow from it.  The argument: the divider is a multiple of 4 at every  *)
(* M-cycle boundary and every tap's period is a multiple of 8, so TIMA can *)
(* only be clocked in the last T-cycle of an M-cycle or by the access that *)
(* follows it, and the four T-cycles of an overflow window are those of    *)
(* one M-cycle.                                                            *)
(***************************************************************************)
EXTENDS Timer, TLAPS

\* A tap moves only where the divider passes a multiple of 8, falls only where it
\* passes a multiple of 16, and is low at 0.
LEMMA SelectedBit ==
  ASSUME NEW f \in 0..3, NEW d \in Nat
  PROVE  /\ d % 8 # 7 => (selected_bit(f, d + 1) <=> selected_bit(f, d))
         /\ selected_bit(f, d) /\ ~selected_bit(f, d + 1) => d % 16 = 15
         /\ ~selected_bit(f, 0)
<1> DEFINE h == HalfPeriod[f]
<1>1. h \in {8, 16, 32, 64, 128, 256, 512}
  BY HalfPeriodAssumption
<1>2. CASE h = 8 BY <1>2 DEF selected_bit
<1>3. CASE h = 16 BY <1>3 DEF selected_bit
<1>4. CASE h = 32 BY <1>4 DEF selected_bit
<1>5. CASE h = 64 BY <1>5 DEF selected_bit
<1>6. CASE h = 128 BY <1>6 DEF selected_bit
<1>7. CASE h = 256 BY <1>7 DEF selected_bit
<1>8. CASE h = 512 BY <1>8 DEF selected_bit
<1> QED BY <1>1, <1>2, <1>3, <1>4, <1>5, <1>6, <1>7, <1>8

\* A timer state is the record of its six fields.
LEMMA Fields ==
  ASSUME NEW s \in TimerState
  PROVE  s = [div |-> s.div, tima |-> s.tima, tma |-> s.tma, tac |-> s.tac,
              reload_in |-> s.reload_in, reloaded |-> s.reloaded]
BY DEF TimerState

\* Advancing the divider clocks TIMA only when a falling edge is possible, and
\* otherwise moves nothing but the divider.
LEMMA IncDiv ==
  ASSUME NEW s \in TimerState
  PROVE  /\ inc_div(s) \in TimerState
         /\ inc_div(s).div = wrapping_inc(s.div, DivMod)
         /\ inc_div(s).tac = s.tac
         /\ inc_div(s).tma = s.tma
         /\ inc_div(s).reloaded = s.reloaded
         /\ s.div % 16 # 15 \/ ~mux_out(s) =>
              /\ inc_div(s).tima = s.tima
              /\ inc_div(s).reload_in = s.reload_in
         /\ \/ inc_div(s).tima = s.tima /\ inc_div(s).reload_in = s.reload_in
            \/ /\ inc_div(s).tima = wrapping_inc(s.tima, TimaMod)
               /\ inc_div(s).reload_in =
                    IF inc_div(s).tima = 0 THEN 4 ELSE s.reload_in
               /\ inc_div(s).div % 16 = 0
               /\ mux_out(s)
               /\ ~mux_out(inc_div(s))
<1> DEFINE u == [s EXCEPT !.div = wrapping_inc(@, DivMod)]
<1>1. /\ u \in TimerState
      /\ u = [div |-> wrapping_inc(s.div, DivMod), tima |-> s.tima, tma |-> s.tma,
              tac |-> s.tac, reload_in |-> s.reload_in, reloaded |-> s.reloaded]
  BY DivModAssumption DEF TimerState, wrapping_inc, DivValue
<1>2. mux_out(s) /\ ~mux_out(u) => s.div % 16 = 15 /\ u.div % 16 = 0
  <2> SUFFICES ASSUME mux_out(s), ~mux_out(u)
               PROVE  s.div % 16 = 15 /\ u.div % 16 = 0
    OBVIOUS
  <2>1. s.tac % 4 \in 0..3 /\ s.div \in Nat /\ s.div \in DivValue
    BY DEF TimerState, DivValue
  <2>2. selected_bit(s.tac % 4, s.div) /\ ~selected_bit(s.tac % 4, u.div)
    BY <1>1 DEF mux_out
  <2>3. CASE s.div = DivMod - 1
    BY <2>3, <1>1, DivModAssumption DEF wrapping_inc
  <2>4. CASE s.div # DivMod - 1
    <3>1. u.div = s.div + 1
      BY <1>1, <2>4 DEF wrapping_inc
    <3>2. s.div % 16 = 15
      BY <2>1, <2>2, <3>1, SelectedBit
    <3> QED BY <3>1, <3>2, <2>1
  <2> QED BY <2>3, <2>4
<1>3. CASE mux_out(s) /\ ~mux_out(u)
  <2>1. inc_div(s) = clock_tima(u)
    BY <1>3 DEF inc_div, edge_detect
  <2>2. clock_tima(u) =
          [div |-> u.div, tima |-> wrapping_inc(s.tima, TimaMod), tma |-> s.tma,
           tac |-> s.tac,
           reload_in |-> IF wrapping_inc(s.tima, TimaMod) = 0 THEN 4 ELSE s.reload_in,
           reloaded |-> s.reloaded]
    <3> DEFINE v == wrapping_inc(s.tima, TimaMod)
    <3>1. u.tima = s.tima
      BY <1>1
    <3>2. clock_tima(u) =
            [u EXCEPT !.tima = v, !.reload_in = IF v = 0 THEN 4 ELSE u.reload_in]
      BY <3>1 DEF clock_tima
    <3> HIDE DEF u, v
    <3>3. clock_tima(u) =
            [div |-> u.div, tima |-> v, tma |-> u.tma, tac |-> u.tac,
             reload_in |-> IF v = 0 THEN 4 ELSE u.reload_in,
             reloaded |-> u.reloaded]
      BY <3>2, <1>1 DEF TimerState
    <3> QED BY <3>3, <1>1 DEF u, v
  <2>3. wrapping_inc(s.tima, TimaMod) \in Byte
    BY TimaModAssumption DEF wrapping_inc, TimerState, Byte
  <2>4. ~mux_out(clock_tima(u))
    BY <1>1, <1>3, <2>2 DEF mux_out
  <2> QED BY <1>1, <1>2, <1>3, <2>1, <2>2, <2>3, <2>4 DEF TimerState
<1>4. CASE ~(mux_out(s) /\ ~mux_out(u))
  <2>1. inc_div(s) = u
    BY <1>4 DEF inc_div, edge_detect
  <2> QED BY <1>1, <2>1
<1> QED BY <1>3, <1>4

\* The inductive invariant.  The divider stays aligned to the M-cycle, so the
\* only T-cycle that can clock TIMA is the last one; a window is therefore four
\* whole T-cycles of one M-cycle, and the detector cannot fall at its end.
Aligned == t.div % 4 = substep % 4

Window ==
  t.reload_in > 0 =>
    /\ t.tima = 0
    /\ t.reload_in = IF substep = 4 THEN 4 ELSE 4 - substep
    /\ substep = 4 => t.div % 16 = 0 /\ ~mux_out(t)
    /\ substep < 4 => t.div % 16 < 12 \/ ~mux_out(t)

Latches ==
  /\ substep \in 1..3 => ~t.reloaded /\ ~iff
  /\ substep = 4 /\ t.reloaded => t.reload_in = 0
  /\ ReloadCycleShowsTMA
  /\ TimerInterruptIsLate

IInv == TypeOK /\ Aligned /\ Window /\ Latches

\* What an access must leave behind for the M-cycle that follows.
AccessInv(s) ==
  /\ s \in TimerState
  /\ s.div % 4 = 0
  /\ s.reload_in > 0 =>
       s.tima = 0 /\ s.reload_in = 4 /\ (s.div % 16 < 12 \/ ~mux_out(s))

\* No pending overflow, or a fresh one with the divider k T-cycles past its edge.
Settled(s, k) ==
  s.reload_in > 0 =>
    s.tima = 0 /\ s.reload_in = 4 /\ s.div % 16 <= k /\ ~mux_out(s)

\* The wrapping increment of the divider modulo 4 and 16 (DivMod is a multiple
\* of 16).
LEMMA DivArithmetic ==
  ASSUME NEW d \in DivValue
  PROVE  LET n == wrapping_inc(d, DivMod)
         IN /\ n \in DivValue
            /\ n % 4 = ((d % 4) + 1) % 4
            /\ d % 16 # 15 => n = d + 1 /\ n % 16 = (d % 16) + 1
            /\ n % 16 = ((d % 16) + 1) % 16
<1>1. d \in Nat /\ DivMod \in Nat /\ DivMod % 16 = 0 /\ d < DivMod
  BY DivModAssumption DEF DivValue
<1>2. CASE d = DivMod - 1
  BY <1>1, <1>2 DEF wrapping_inc, DivValue
<1>3. CASE d # DivMod - 1
  BY <1>1, <1>3 DEF wrapping_inc, DivValue
<1> QED BY <1>2, <1>3

\* Away from the end of a tap's half-period the detector's input stands still.
LEMMA MuxStands ==
  ASSUME NEW s \in TimerState, s.div % 8 # 7
  PROVE  mux_out(inc_div(s)) <=> mux_out(s)
<1>1. s.div \in DivValue /\ s.div \in Nat /\ s.tac % 4 \in 0..3
  BY DEF TimerState, DivValue
<1>2. s.div % 16 # 15
  BY <1>1
<1>3. inc_div(s).div = s.div + 1 /\ inc_div(s).tac = s.tac
  BY <1>1, <1>2, IncDiv, DivArithmetic
<1>4. selected_bit(s.tac % 4, s.div + 1) <=> selected_bit(s.tac % 4, s.div)
  BY <1>1, SelectedBit
<1> QED BY <1>3, <1>4 DEF mux_out

\* A settled state stays settled through one of the presample's four increments.
LEMMA SettledIncDiv ==
  ASSUME NEW s \in TimerState, NEW k \in 0..3, Settled(s, k)
  PROVE  Settled(inc_div(s), k + 1)
<1>1. s.div \in DivValue /\ s.div \in Nat
  BY DEF TimerState, DivValue
<1>2. CASE s.reload_in > 0
  <2>1. s.div % 16 # 15 /\ s.div % 8 # 7
    BY <1>1, <1>2 DEF Settled
  <2>2. inc_div(s).tima = s.tima /\ inc_div(s).reload_in = s.reload_in
    BY <2>1, IncDiv
  <2>3. inc_div(s).div % 16 = (s.div % 16) + 1
    BY <1>1, <2>1, IncDiv, DivArithmetic
  <2>4. ~mux_out(inc_div(s))
    BY <1>2, <2>1, MuxStands DEF Settled
  <2> QED BY <1>1, <1>2, <2>2, <2>3, <2>4 DEF Settled
<1>3. CASE s.reload_in = 0
  BY <1>3, IncDiv DEF Settled
<1> QED BY <1>2, <1>3 DEF TimerState

\* The presample of STOP cannot disturb an overflow that has just happened.
LEMMA SettledPresample ==
  ASSUME NEW s \in TimerState, Settled(s, 0)
  PROVE  LET p == stop_div_presample(s)
         IN /\ p \in TimerState
            /\ p.reload_in > 0 => p.tima = 0 /\ p.reload_in = 4 /\ ~mux_out(p)
<1>1. CASE s.tac % 4 = 0
  BY <1>1 DEF stop_div_presample, Settled
<1>2. CASE s.tac % 4 # 0
  <2> DEFINE a == inc_div(s)
             b == inc_div(a)
             c == inc_div(b)
             d == inc_div(c)
  <2>1. a \in TimerState /\ Settled(a, 1)
    BY IncDiv, SettledIncDiv
  <2> HIDE DEF a
  <2>2. b \in TimerState /\ Settled(b, 2)
    BY <2>1, IncDiv, SettledIncDiv
  <2> HIDE DEF b
  <2>3. c \in TimerState /\ Settled(c, 3)
    BY <2>2, IncDiv, SettledIncDiv
  <2> HIDE DEF c
  <2>4. d \in TimerState /\ Settled(d, 4)
    BY <2>3, IncDiv, SettledIncDiv
  <2>5. stop_div_presample(s) = d
    BY <1>2 DEF stop_div_presample, a, b, c
  <2> HIDE DEF d
  <2> QED BY <2>4, <2>5 DEF Settled
<1> QED BY <1>1, <1>2

\* A DIV write leaves the divider at 0 and at most starts a window.
LEMMA DivWrite ==
  ASSUME NEW s \in TimerState,
         s.reload_in > 0 => s.tima = 0 /\ s.reload_in = 4 /\ ~mux_out(s)
  PROVE  /\ AccessInv(div_write(s))
         /\ div_write(s).tac = s.tac
<1> DEFINE u == [s EXCEPT !.div = 0]
<1>1. u = [div |-> 0, tima |-> s.tima, tma |-> s.tma, tac |-> s.tac,
           reload_in |-> s.reload_in, reloaded |-> s.reloaded]
  BY DEF TimerState
<1>2. u \in TimerState
  BY <1>1, DivModAssumption DEF TimerState, DivValue
<1>3. CASE mux_out(s) /\ ~mux_out(u)
  <2> DEFINE v == wrapping_inc(s.tima, TimaMod)
  <2>1. v \in Byte
    BY TimaModAssumption DEF wrapping_inc, TimerState, Byte
  <2>2. div_write(s) = clock_tima(u) /\ u.tima = s.tima /\ s.reload_in = 0
    BY <1>1, <1>3 DEF div_write, edge_detect, TimerState
  <2>3. div_write(s) = [u EXCEPT !.tima = v, !.reload_in = IF v = 0 THEN 4 ELSE u.reload_in]
    BY <2>2 DEF clock_tima
  <2> HIDE DEF u, v
  <2>4. div_write(s) = [div |-> 0, tima |-> v, tma |-> s.tma, tac |-> s.tac,
                        reload_in |-> IF v = 0 THEN 4 ELSE 0, reloaded |-> s.reloaded]
    BY <1>1, <2>2, <2>3
  <2> QED BY <1>2, <2>1, <2>4, DivModAssumption DEF AccessInv, TimerState, DivValue
<1>4. CASE ~(mux_out(s) /\ ~mux_out(u))
  BY <1>1, <1>2, <1>4 DEF div_write, edge_detect, AccessInv
<1> QED BY <1>3, <1>4

\* A TAC write may move the detector's input either way and at most starts a
\* window.
LEMMA TacWrite ==
  ASSUME NEW s \in TimerState, NEW w \in 0..7, s.div % 4 = 0,
         s.reload_in > 0 =>
           s.tima = 0 /\ s.reload_in = 4 /\ s.div % 16 = 0 /\ ~mux_out(s)
  PROVE  AccessInv(edge_detect(mux_out(s), [s EXCEPT !.tac = w]))
<1> DEFINE u == [s EXCEPT !.tac = w]
           r == edge_detect(mux_out(s), u)
<1>1. u = [div |-> s.div, tima |-> s.tima, tma |-> s.tma, tac |-> w,
           reload_in |-> s.reload_in, reloaded |-> s.reloaded]
  BY DEF TimerState
<1>2. u \in TimerState
  BY <1>1 DEF TimerState
<1>3. CASE mux_out(s) /\ ~mux_out(u)
  <2> DEFINE v == wrapping_inc(s.tima, TimaMod)
  <2>1. v \in Byte
    BY TimaModAssumption DEF wrapping_inc, TimerState, Byte
  <2>2. r = clock_tima(u) /\ u.tima = s.tima /\ s.reload_in = 0
    BY <1>1, <1>3 DEF edge_detect, TimerState
  <2>3. r = [u EXCEPT !.tima = v, !.reload_in = IF v = 0 THEN 4 ELSE u.reload_in]
    BY <2>2 DEF clock_tima
  <2> HIDE DEF u, v, r
  <2>4. r = [div |-> s.div, tima |-> v, tma |-> s.tma, tac |-> w,
             reload_in |-> IF v = 0 THEN 4 ELSE 0, reloaded |-> s.reloaded]
    BY <1>1, <2>2, <2>3
  <2>5. ~mux_out(r)
    BY <1>1, <1>3, <2>4 DEF mux_out
  <2>6. AccessInv(r)
    BY <2>1, <2>4, <2>5 DEF AccessInv, TimerState
  <2> QED BY <2>6 DEF r, u
<1>4. CASE ~(mux_out(s) /\ ~mux_out(u))
  BY <1>1, <1>2, <1>4 DEF edge_detect, AccessInv
<1> QED BY <1>3, <1>4

\* STOP, the presample and the DIV write together, does no more than a DIV write.
LEMMA StopWrite ==
  ASSUME NEW s \in TimerState, Settled(s, 0)
  PROVE  AccessInv(div_write(stop_div_presample(s)))
BY SettledPresample, DivWrite

\* An access re-establishes the invariant at the head of the next M-cycle.
LEMMA AccessStep ==
  ASSUME IInv, NEW s, AccessInv(s), Access(s)
  PROVE  IInv'
<1>1. substep' = 0 /\ t' = s /\ iff' = iff /\ late' = late
  BY DEF Access
<1>2. s.div \in Nat
  BY DEF AccessInv, TimerState, DivValue
<1> QED BY <1>1, <1>2 DEF IInv, AccessInv, TypeOK, Aligned, Window, Latches,
             ReloadCycleShowsTMA, TimerInterruptIsLate, mux_out

\* At the access of an M-cycle a pending overflow is one that has just happened.
LEMMA AccessState ==
  ASSUME IInv, substep = 4
  PROVE  /\ t \in TimerState
         /\ t.div % 4 = 0
         /\ AccessInv(t)
         /\ Settled(t, 0)
         /\ t.reload_in > 0 =>
              /\ t.tima = 0 /\ t.reload_in = 4 /\ t.div % 16 = 0 /\ ~mux_out(t)
              /\ ~t.reloaded
<1>1. t.div \in Nat
  BY DEF IInv, TypeOK, TimerState, DivValue
<1> QED BY <1>1 DEF IInv, TypeOK, Aligned, Window, Latches, AccessInv, Settled

\* What the reload pipeline hands to the divider increment of the same T-cycle.
LEMMA ReloadPipeline ==
  ASSUME NEW s \in TimerState
  PROVE  LET p == reload_pipeline(s)
         IN /\ p \in TimerState
            /\ p.div = s.div /\ p.tac = s.tac /\ p.tma = s.tma
            /\ s.reload_in = 1 =>
                 p.tima = s.tma /\ p.reload_in = 0 /\ p.reloaded = TRUE
            /\ s.reload_in # 1 =>
                 /\ p.tima = s.tima /\ p.reloaded = s.reloaded
                 /\ p.reload_in = IF s.reload_in > 0 THEN s.reload_in - 1 ELSE 0
<1> DEFINE p == reload_pipeline(s)
<1>1. CASE s.reload_in = 1
  <2> DEFINE a == [s EXCEPT !.tima = s.tma]
             b == [a EXCEPT !.reload_in = 0]
             c == [b EXCEPT !.reloaded = TRUE]
  <2>1. p = c
    BY <1>1 DEF reload_pipeline, reload_fires
  <2>2. a = [div |-> s.div, tima |-> s.tma, tma |-> s.tma, tac |-> s.tac,
             reload_in |-> s.reload_in, reloaded |-> s.reloaded]
    BY Fields
  <2> HIDE DEF a
  <2>3. b = [div |-> s.div, tima |-> s.tma, tma |-> s.tma, tac |-> s.tac,
             reload_in |-> 0, reloaded |-> s.reloaded]
    BY <2>2
  <2> HIDE DEF b
  <2>4. b \in TimerState
    BY <2>3 DEF TimerState
  <2>5. /\ c \in TimerState
        /\ c.div = b.div /\ c.tima = b.tima /\ c.tma = b.tma /\ c.tac = b.tac
        /\ c.reload_in = b.reload_in /\ c.reloaded = TRUE
    BY <2>4 DEF TimerState
  <2> HIDE DEF c
  <2> QED BY <1>1, <2>1, <2>3, <2>5
<1>2. CASE s.reload_in # 1
  <2> DEFINE n == IF s.reload_in > 0 THEN s.reload_in - 1 ELSE 0
  <2>1. n \in 0..4
    BY <1>2 DEF TimerState
  <2>2. p = [s EXCEPT !.reload_in = n]
    BY <1>2 DEF reload_pipeline, reload_fires
  <2> HIDE DEF n
  <2>3. p = [div |-> s.div, tima |-> s.tima, tma |-> s.tma, tac |-> s.tac,
             reload_in |-> n, reloaded |-> s.reloaded]
    BY <2>2, Fields
  <2>4. p \in TimerState
    BY <2>1, <2>3 DEF TimerState
  <2> HIDE DEF p
  <2> QED BY <1>2, <2>3, <2>4 DEF n, p
<1> QED BY <1>1, <1>2

\* One T-cycle preserves the invariant: a window counts down, closes at the last
\* T-cycle of the M-cycle, or opens there.
LEMMA TickStep ==
  ASSUME IInv, TickSubstep
  PROVE  IInv'
<1> DEFINE s == IF substep = 0 THEN [t EXCEPT !.reloaded = FALSE] ELSE t
           p == reload_pipeline(s)
<1>1. t \in TimerState /\ substep \in 0..3 /\ t.div \in DivValue /\ t.div \in Nat
  BY DEF IInv, TypeOK, TickSubstep, TimerState, DivValue
<1>2. /\ s \in TimerState
      /\ s.div = t.div /\ s.tima = t.tima /\ s.tma = t.tma /\ s.tac = t.tac
      /\ s.reload_in = t.reload_in
      /\ substep = 0 => s.reloaded = FALSE
      /\ substep # 0 => s.reloaded = t.reloaded
  BY <1>1 DEF TimerState
<1>3. t' = inc_div(p) /\ substep' = substep + 1
  BY DEF TickSubstep
<1>4. /\ iff' <=> (s.reload_in = 1 \/ (substep # 0 /\ iff))
      /\ late' <=> ((s.reload_in = 1 /\ substep >= 2) \/ (substep # 0 /\ late))
      /\ iff' \in BOOLEAN /\ late' \in BOOLEAN
  BY Zenon DEF TickSubstep, reload_fires
<1> HIDE DEF s
<1>5. /\ p \in TimerState
      /\ p.div = t.div /\ p.tac = t.tac /\ p.tma = t.tma
      /\ t.reload_in = 1 => p.tima = t.tma /\ p.reload_in = 0
      /\ t.reload_in # 1 =>
           /\ p.tima = t.tima /\ p.reloaded = s.reloaded
           /\ p.reload_in = IF t.reload_in > 0 THEN t.reload_in - 1 ELSE 0
  BY <1>2, ReloadPipeline
<1> HIDE DEF p
<1>6. TypeOK'
  BY <1>1, <1>3, <1>4, <1>5, IncDiv DEF TypeOK
<1>7. Aligned'
  <2>1. t'.div = wrapping_inc(t.div, DivMod)
    BY <1>3, <1>5, IncDiv
  <2> QED BY <1>1, <1>3, <2>1, DivArithmetic DEF IInv, Aligned
<1>8. t.reload_in # 1 /\ substep < 3 => ~t'.reloaded /\ ~iff'
  BY <1>1, <1>2, <1>3, <1>4, <1>5, IncDiv DEF IInv, Latches
<1>9. CASE t.reload_in = 0
  <2>1. p.reload_in = 0 /\ p.tima = t.tima /\ p.div = t.div
    BY <1>5, <1>9
  <2>2. t'.reload_in > 0 =>
          t'.tima = 0 /\ t'.reload_in = 4 /\ t'.div % 16 = 0 /\ ~mux_out(t)'
    BY <1>3, <1>5, <2>1, IncDiv DEF mux_out
  <2>3. t'.reload_in > 0 => substep' = 4
    BY <1>1, <1>3, <1>6, <1>7, <2>2 DEF Aligned, TypeOK, TimerState, DivValue
  <2>4. Window'
    BY <2>2, <2>3 DEF Window
  <2>5. ~t'.reloaded /\ ~iff'
    BY <1>1, <1>2, <1>3, <1>4, <1>5, <1>9, IncDiv DEF IInv, Latches
  <2>6. Latches'
    BY <2>5 DEF Latches, ReloadCycleShowsTMA, TimerInterruptIsLate
  <2> QED BY <1>6, <1>7, <2>4, <2>6 DEF IInv
<1>10. CASE t.reload_in > 0 /\ substep < 3
  <2>1. t.div % 4 = substep /\ t.div % 16 # 15 /\ t.div % 8 # 7 /\ t.reload_in = 4 - substep
    BY <1>1, <1>10 DEF IInv, Aligned, Window
  <2>2. t.tima = 0 /\ t.reload_in # 1
    BY <1>1, <1>10, <2>1 DEF IInv, Window
  <2>3. p.div = t.div /\ p.tima = 0 /\ p.reload_in = 3 - substep /\ p.reload_in > 0
    BY <1>1, <1>5, <1>10, <2>1, <2>2
  <2>4. t'.tima = 0 /\ t'.reload_in = 4 - substep'
    <3>1. inc_div(p).tima = p.tima /\ inc_div(p).reload_in = p.reload_in
      BY <1>5, <2>1, <2>3, IncDiv
    <3> QED BY <1>1, <1>3, <2>3, <3>1
  <2>5. t'.div % 16 = (t.div % 16) + 1
    <3>1. t'.div = wrapping_inc(t.div, DivMod)
      BY <1>3, <1>5, IncDiv
    <3> QED BY <1>1, <2>1, <3>1, DivArithmetic
  <2>6. mux_out(t)' <=> mux_out(t)
    <3>1. mux_out(inc_div(p)) <=> mux_out(p)
      BY <1>5, <2>1, <2>3, MuxStands
    <3>2. mux_out(p) <=> mux_out(t)
      BY <1>5 DEF mux_out
    <3>3. mux_out(t)' <=> mux_out(inc_div(p))
      BY <1>3 DEF mux_out
    <3> QED BY <3>1, <3>2, <3>3
  <2>7. t.div % 16 < 12 => t'.div % 16 < 12
    BY <1>1, <1>10, <2>1, <2>5
  <2>8. substep' < 4 /\ substep' # 4
    BY <1>1, <1>3, <1>10
  <2>9. t.div % 16 < 12 \/ ~mux_out(t)
    BY <1>1, <1>10 DEF IInv, Window
  <2>10. Window'
    <3>1. t'.div % 16 < 12 \/ ~mux_out(t)'
      BY <2>6, <2>7, <2>9
    <3> QED BY <2>4, <2>8, <3>1 DEF Window
  <2>11. Latches'
    BY <1>8, <1>10, <2>2 DEF Latches, ReloadCycleShowsTMA, TimerInterruptIsLate
  <2> QED BY <1>6, <1>7, <2>10, <2>11 DEF IInv
<1>11. CASE t.reload_in > 0 /\ substep = 3
  <2>1. t.reload_in = 1 /\ (t.div % 16 # 15 \/ ~mux_out(t))
    BY <1>1, <1>11 DEF IInv, Window
  <2>2. mux_out(p) <=> mux_out(t)
    BY <1>5 DEF mux_out
  <2>3. t'.tima = p.tima /\ t'.reload_in = p.reload_in /\ t'.tma = p.tma
    BY <1>3, <1>5, <2>1, <2>2, IncDiv
  <2>4. t'.tima = t'.tma /\ t'.reload_in = 0
    BY <1>5, <2>1, <2>3
  <2>5. Window'
    BY <2>4 DEF Window
  <2>6. late' = TRUE /\ substep' = 4
    BY <1>2, <1>3, <1>4, <1>11, <2>1
  <2>7. Latches'
    BY <2>4, <2>6 DEF Latches, ReloadCycleShowsTMA, TimerInterruptIsLate
  <2> QED BY <1>6, <1>7, <2>5, <2>7 DEF IInv
<1>12. t.reload_in \in 0..4
  BY <1>1 DEF TimerState
<1> QED BY <1>1, <1>9, <1>10, <1>11, <1>12

\* The machine starts with no window and an aligned divider.
LEMMA InitIInv == Init => IInv
<1> SUFFICES ASSUME Init PROVE IInv
  OBVIOUS
<1>1. PICK d \in InitialDiv :
        t = [div |-> d, tima |-> 0, tma |-> 0, tac |-> 0, reload_in |-> 0,
             reloaded |-> FALSE]
  BY DEF Init
<1>2. d \in DivValue /\ d % 4 = 0
  BY InitialDivAssumption DEF DivValue
<1>3. t \in TimerState /\ t.reload_in = 0 /\ t.reloaded = FALSE /\ t.div % 4 = 0
  BY <1>1, <1>2, TimaModAssumption DEF TimerState, Byte
<1>4. substep = 0 /\ iff = FALSE /\ late = FALSE
  BY DEF Init
<1>5. TypeOK /\ Aligned
  <2>1. iff \in BOOLEAN /\ late \in BOOLEAN
    BY <1>4
  <2>2. substep \in 0..4
    BY <1>4
  <2>3. Aligned
    BY <1>3, <1>4 DEF Aligned
  <2> QED BY <1>3, <2>1, <2>2, <2>3 DEF TypeOK
<1>6. Window /\ Latches
  BY <1>3, <1>4 DEF Window, Latches, ReloadCycleShowsTMA, TimerInterruptIsLate
<1> QED BY <1>5, <1>6 DEF IInv

\* Every step preserves the invariant, one case per action.
LEMMA NextIInv == IInv /\ [Next]_vars => IInv'
<1> SUFFICES ASSUME IInv, [Next]_vars PROVE IInv'
  OBVIOUS
<1>1. CASE TickSubstep
  BY <1>1, TickStep
<1>2. CASE WriteDIV
  <2>1. AccessInv(div_write(t))
    BY <1>2, AccessState, DivWrite DEF WriteDIV, Access
  <2> QED BY <1>2, <2>1, AccessStep DEF WriteDIV
<1>3. CASE WriteTIMA
  <2>1. PICK v \in Byte :
          Access(IF t.reloaded THEN t ELSE [t EXCEPT !.tima = v, !.reload_in = 0])
    BY <1>3 DEF WriteTIMA
  <2>2. substep = 4
    BY <2>1 DEF Access
  <2> DEFINE u == [t EXCEPT !.tima = v, !.reload_in = 0]
  <2>3. t \in TimerState /\ AccessInv(t)
    BY <2>2, AccessState
  <2>4. u = [div |-> t.div, tima |-> v, tma |-> t.tma, tac |-> t.tac,
             reload_in |-> 0, reloaded |-> t.reloaded]
    <3> DEFINE a == [t EXCEPT !.tima = v]
    <3>1. a = [div |-> t.div, tima |-> v, tma |-> t.tma, tac |-> t.tac,
               reload_in |-> t.reload_in, reloaded |-> t.reloaded]
      BY <2>3, Fields
    <3> HIDE DEF a
    <3>2. [a EXCEPT !.reload_in = 0]
            = [div |-> t.div, tima |-> v, tma |-> t.tma, tac |-> t.tac,
               reload_in |-> 0, reloaded |-> t.reloaded]
      BY <3>1
    <3> QED BY <3>2 DEF a
  <2> HIDE DEF u
  <2>5. AccessInv(u)
    BY <2>3, <2>4 DEF AccessInv, TimerState
  <2>6. Access(t) \/ Access(u)
    BY <2>1 DEF u
  <2> QED BY <2>3, <2>5, <2>6, AccessStep
<1>4. CASE WriteTMA
  <2>1. PICK v \in Byte :
          Access([t EXCEPT !.tma = v, !.tima = IF t.reloaded THEN v ELSE @])
    BY <1>4 DEF WriteTMA
  <2> DEFINE w == IF t.reloaded THEN v ELSE t.tima
             u == [t EXCEPT !.tma = v, !.tima = w]
  <2>2. substep = 4
    BY <2>1 DEF Access
  <2>3. t \in TimerState /\ AccessInv(t) /\ (t.reload_in > 0 => w = t.tima)
    BY <2>2, AccessState
  <2>4. w \in Byte
    BY <2>3 DEF TimerState
  <2>5. Access(u)
    BY <2>1
  <2> HIDE DEF w
  <2>6. u = [div |-> t.div, tima |-> w, tma |-> v,
             tac |-> t.tac, reload_in |-> t.reload_in, reloaded |-> t.reloaded]
    <3> DEFINE a == [t EXCEPT !.tma = v]
    <3>1. a = [div |-> t.div, tima |-> t.tima, tma |-> v, tac |-> t.tac,
               reload_in |-> t.reload_in, reloaded |-> t.reloaded]
      BY <2>3, Fields
    <3> HIDE DEF a
    <3>2. [a EXCEPT !.tima = w]
            = [div |-> t.div, tima |-> w, tma |-> v, tac |-> t.tac,
               reload_in |-> t.reload_in, reloaded |-> t.reloaded]
      BY <3>1
    <3> QED BY <3>2 DEF a
  <2> HIDE DEF u
  <2>7. u \in TimerState
    BY <2>3, <2>4, <2>6 DEF TimerState
  <2>8. mux_out(u) <=> mux_out(t)
    BY <2>6 DEF mux_out
  <2>9. AccessInv(u)
    BY <2>3, <2>6, <2>7, <2>8 DEF AccessInv
  <2> QED BY <2>5, <2>9, AccessStep
<1>5. CASE WriteTAC
  <2>1. PICK v \in 0..7 : Access(edge_detect(mux_out(t), [t EXCEPT !.tac = v]))
    BY <1>5 DEF WriteTAC
  <2>2. substep = 4
    BY <2>1 DEF Access
  <2>3. AccessInv(edge_detect(mux_out(t), [t EXCEPT !.tac = v]))
    BY <2>2, AccessState, TacWrite
  <2> QED BY <2>1, <2>3, AccessStep
<1>6. CASE Stop
  <2>1. AccessInv(div_write(stop_div_presample(t)))
    BY <1>6, AccessState, StopWrite DEF Stop, Access
  <2> QED BY <1>6, <2>1, AccessStep DEF Stop
<1>7. CASE OtherAccess
  <2>1. AccessInv(t)
    BY <1>7, AccessState DEF OtherAccess, Access
  <2> QED BY <1>7, <2>1, AccessStep DEF OtherAccess
<1>8. CASE UNCHANGED vars
  BY <1>8 DEF vars, IInv, TypeOK, Aligned, Window, Latches, ReloadCycleShowsTMA,
              TimerInterruptIsLate, mux_out
<1> QED BY <1>1, <1>2, <1>3, <1>4, <1>5, <1>6, <1>7, <1>8 DEF Next

\* Every reachable state satisfies the inductive invariant: the divider stays
\* aligned to the M-cycle, and an overflow window spans whole M-cycles.
THEOREM Invariance == Spec => []IInv
<1>1. Init => IInv
  BY InitIInv
<1>2. IInv /\ [Next]_vars => IInv'
  BY NextIInv
<1> QED BY <1>1, <1>2, PTL DEF Spec

\* Every field stays in its Rust type: no arithmetic of timer.rs leaves it.
THEOREM TypeCorrect == Spec => []TypeOK
<1>1. IInv => TypeOK
  BY DEF IInv
<1> QED BY <1>1, Invariance, PTL

\* TIMA reads 0 from an overflow to its reload (timer.rs, reload_in).
THEOREM OverflowWindow == Spec => []OverflowWindowReadsZero
<1>1. IInv => OverflowWindowReadsZero
  BY DEF IInv, Window, OverflowWindowReadsZero
<1> QED BY <1>1, Invariance, PTL

\* The access of the reload's M-cycle finds TIMA = TMA (timer.rs, reloaded).
THEOREM ReloadCycle == Spec => []ReloadCycleShowsTMA
<1>1. IInv => ReloadCycleShowsTMA
  BY DEF IInv, Latches
<1> QED BY <1>1, Invariance, PTL

\* Every timer interrupt is committed late (TimerTick.late), for every width of
\* the counters and every legal set of taps.
THEOREM InterruptIsLate == Spec => []TimerInterruptIsLate
<1>1. IInv => TimerInterruptIsLate
  BY DEF IInv, Latches
<1> QED BY <1>1, Invariance, PTL

\* From an aligned divider the presample clocks TIMA at most once, in its last
\* T-cycle, and then leaves the detector's input low.
LEMMA PresampleOnce ==
  ASSUME NEW s \in TimerState, s.div % 4 = 0
  PROVE  LET p == stop_div_presample(s)
         IN /\ p \in TimerState
            /\ \/ p.tima = s.tima
               \/ p.tima = wrapping_inc(s.tima, TimaMod) /\ ~mux_out(p)
<1>1. CASE s.tac % 4 = 0
  BY <1>1 DEF stop_div_presample
<1>2. CASE s.tac % 4 # 0
  <2> DEFINE Before(u, k) == u \in TimerState /\ u.tima = s.tima /\ u.div % 4 = k
             a == inc_div(s)
             b == inc_div(a)
             c == inc_div(b)
             d == inc_div(c)
  <2>1. ASSUME NEW u, NEW k \in 0..2, Before(u, k)
        PROVE  Before(inc_div(u), k + 1)
    <3>1. u.div \in DivValue /\ u.div \in Nat /\ u.div % 16 # 15
      BY <2>1 DEF TimerState, DivValue
    <3>2. /\ inc_div(u) \in TimerState /\ inc_div(u).tima = u.tima
          /\ inc_div(u).div = wrapping_inc(u.div, DivMod)
      BY <2>1, <3>1, IncDiv
    <3>3. wrapping_inc(u.div, DivMod) % 4 = ((u.div % 4) + 1) % 4
      BY <3>1, DivArithmetic
    <3>4. ((k + 1) % 4) = k + 1
      OBVIOUS
    <3> QED BY <2>1, <3>2, <3>3, <3>4
  <2>2. Before(a, 1)
    BY <2>1
  <2> HIDE DEF a
  <2>3. Before(b, 2)
    BY <2>1, <2>2
  <2> HIDE DEF b
  <2>4. Before(c, 3)
    BY <2>1, <2>3
  <2> HIDE DEF c
  <2>5. /\ d \in TimerState
        /\ \/ d.tima = s.tima
           \/ d.tima = wrapping_inc(s.tima, TimaMod) /\ ~mux_out(d)
    BY <2>4, IncDiv
  <2>6. stop_div_presample(s) = d
    BY <1>2 DEF stop_div_presample, a, b, c
  <2> HIDE DEF d
  <2> QED BY <2>5, <2>6
<1> QED BY <1>1, <1>2

\* A DIV write clocks TIMA at most once, and not at all from a low detector.
LEMMA DivWriteTima ==
  ASSUME NEW p \in TimerState
  PROVE  \/ div_write(p).tima = p.tima
         \/ mux_out(p) /\ div_write(p).tima = wrapping_inc(p.tima, TimaMod)
BY DEF div_write, edge_detect, clock_tima, TimerState

\* STOP never clocks TIMA twice (timer.rs, stop_div_presample), for every tap
\* table and width of the divider.
THEOREM StopOnce == Spec => []StopClocksOnce
<1>1. IInv => StopClocksOnce
  <2> SUFFICES ASSUME IInv, substep = 4
               PROVE  div_write(stop_div_presample(t)).tima
                        \in {t.tima, wrapping_inc(t.tima, TimaMod)}
    BY DEF StopClocksOnce
  <2> DEFINE p == stop_div_presample(t)
  <2>1. t \in TimerState /\ t.div % 4 = 0
    BY AccessState
  <2>2. /\ p \in TimerState
        /\ \/ p.tima = t.tima
           \/ p.tima = wrapping_inc(t.tima, TimaMod) /\ ~mux_out(p)
    BY <2>1, PresampleOnce
  <2> HIDE DEF p
  <2>3. \/ div_write(p).tima = p.tima
        \/ mux_out(p) /\ div_write(p).tima = wrapping_inc(p.tima, TimaMod)
    BY <2>2, DivWriteTima
  <2>4. div_write(p).tima \in {t.tima, wrapping_inc(t.tima, TimaMod)}
    BY <2>2, <2>3
  <2> QED BY <2>4 DEF p
<1> QED BY <1>1, Invariance, PTL

\* Every tap is low while the divider is below 8.
LEMMA LowStart ==
  ASSUME NEW s \in TimerState, s.div \in 0..4
  PROVE  ~mux_out(s)
<1>1. s.tac % 4 \in 0..3
  BY DEF TimerState
<1>2. ASSUME NEW f \in 0..3
      PROVE  /\ ~selected_bit(f, 0) /\ ~selected_bit(f, 1) /\ ~selected_bit(f, 2)
             /\ ~selected_bit(f, 3) /\ ~selected_bit(f, 4)
  <2>1. ~selected_bit(f, 0)
    BY SelectedBit
  <2>2. \A d \in 0..3 : selected_bit(f, d + 1) <=> selected_bit(f, d)
    BY SelectedBit
  <2> QED BY <2>1, <2>2
<1> QED BY <1>1, <1>2 DEF mux_out

\* A DIV write or a STOP that finds the divider at 0 clocks nothing.
LEMMA QuietDivWrite ==
  ASSUME NEW s \in TimerState, s.div \in 0..4
  PROVE  div_write(s).tima = s.tima /\ div_write(s).tma = s.tma
BY LowStart DEF div_write, edge_detect, TimerState

\* The same for STOP, whose presample stays below 8.
LEMMA QuietStop ==
  ASSUME NEW s \in TimerState, s.div = 0
  PROVE  LET r == div_write(stop_div_presample(s))
         IN r.tima = s.tima /\ r.tma = s.tma
<1> DEFINE Quiet(u, k) == /\ u \in TimerState /\ u.div = k
                          /\ u.tima = s.tima /\ u.tma = s.tma
           a == inc_div(s)
           b == inc_div(a)
           c == inc_div(b)
           d == inc_div(c)
<1>1. ASSUME NEW u, NEW k \in 0..3, Quiet(u, k)
      PROVE  Quiet(inc_div(u), k + 1)
  <2>1. u.div \in DivValue /\ u.div % 16 # 15
    BY <1>1 DEF TimerState
  <2> QED BY <1>1, <2>1, IncDiv, DivArithmetic
<1>2. CASE s.tac % 4 = 0
  BY <1>2, QuietDivWrite DEF stop_div_presample
<1>3. CASE s.tac % 4 # 0
  <2>1. Quiet(a, 1)
    BY <1>1
  <2> HIDE DEF a
  <2>2. Quiet(b, 2)
    BY <1>1, <2>1
  <2> HIDE DEF b
  <2>3. Quiet(c, 3)
    BY <1>1, <2>2
  <2> HIDE DEF c
  <2>4. Quiet(d, 4)
    BY <1>1, <2>3
  <2>5. stop_div_presample(s) = d
    BY <1>3 DEF stop_div_presample, a, b, c
  <2> HIDE DEF d
  <2> QED BY <2>4, <2>5, QuietDivWrite
<1> QED BY <1>2, <1>3

\* In the reload's M-cycle a TIMA write is ignored and a TMA write reaches TIMA.
THEOREM ReloadCycleWrites == Spec => ReloadCycleWritesKeepTMA
<1> DEFINE A == substep = 4 /\ t.reloaded /\ t'.div = t.div /\ t'.tac = t.tac
                  => t'.tima = t'.tma
<1>1. IInv /\ [Next]_vars => [A]_vars
  <2> SUFFICES ASSUME IInv, Next, substep = 4, t.reloaded,
                      t'.div = t.div, t'.tac = t.tac
               PROVE  t'.tima = t'.tma
    OBVIOUS
  <2>1. t \in TimerState /\ t.tima = t.tma /\ t.reload_in = 0
    BY AccessState DEF IInv, Latches, ReloadCycleShowsTMA, TypeOK, TimerState
  <2>2. CASE TickSubstep
    BY <2>2 DEF TickSubstep
  <2>3. CASE WriteTIMA
    BY <2>1, <2>3 DEF WriteTIMA, Access
  <2>4. CASE WriteTMA
    BY <2>1, <2>4 DEF WriteTMA, Access, TimerState
  <2>5. CASE OtherAccess
    BY <2>1, <2>5 DEF OtherAccess, Access
  <2>6. CASE WriteDIV
    <3>1. t' = div_write(t)
      BY <2>6 DEF WriteDIV, Access
    <3>2. t'.div = 0
      BY <2>1, <3>1 DEF div_write, edge_detect, clock_tima, TimerState
    <3> QED BY <2>1, <3>1, <3>2, QuietDivWrite
  <2>7. CASE Stop
    <3>1. t' = div_write(stop_div_presample(t)) /\ stop_div_presample(t) \in TimerState
      BY <2>1, <2>7, SettledPresample DEF Stop, Access, Settled
    <3>2. t'.div = 0
      BY <3>1 DEF div_write, edge_detect, clock_tima, TimerState
    <3> QED BY <2>1, <3>1, <3>2, QuietStop
  <2>8. CASE WriteTAC
    <3>1. PICK v \in 0..7 : t' = edge_detect(mux_out(t), [t EXCEPT !.tac = v])
      BY <2>8 DEF WriteTAC, Access
    <3> DEFINE u == [t EXCEPT !.tac = v]
    <3>2. u.tac = v /\ clock_tima(u).tac = v
      BY <2>1 DEF clock_tima, TimerState
    <3>3. v = t.tac
      BY <3>1, <3>2 DEF edge_detect
    <3>4. u = t
      BY <2>1, <3>3 DEF TimerState
    <3>5. t' = t
      BY <3>1, <3>4 DEF edge_detect
    <3> QED BY <2>1, <3>5
  <2> QED BY <2>2, <2>3, <2>4, <2>5, <2>6, <2>7, <2>8 DEF Next
<1> QED BY <1>1, Invariance, PTL DEF Spec, ReloadCycleWritesKeepTMA

\* What the rest of the refinement needs: `reloaded` is the visible `iff` wherever the
\* program can look, and an overflow that is pending at an access is not one of them.
Seen == substep \in {0, 4} => (iff <=> t.reloaded)

\* The access or tick leaves TIMA alone or clocks it once, from no pending overflow.
Moved(s, u) ==
  /\ u.tma = s.tma
  /\ u.reloaded = s.reloaded
  /\ \/ u.tima = s.tima /\ u.reload_in = s.reload_in
     \/ /\ s.reload_in = 0
        /\ u.tima = wrapping_inc(s.tima, TimaMod)
        /\ u.reload_in = IF u.tima = 0 THEN 4 ELSE 0

\* The presample of STOP at an access, in these terms; it leaves the detector low if it
\* clocked TIMA or found an overflow pending.
LEMMA PresampleMoved ==
  ASSUME NEW s \in TimerState, s.div % 4 = 0, Settled(s, 0)
  PROVE  LET p == stop_div_presample(s)
         IN /\ p \in TimerState
            /\ Moved(s, p)
            /\ (p.tima = s.tima /\ p.reload_in = 0) \/ ~mux_out(p)
<1> DEFINE Before(u, k) == /\ u \in TimerState /\ u.div % 4 = k
                           /\ u.tima = s.tima /\ u.tma = s.tma
                           /\ u.reload_in = s.reload_in /\ u.reloaded = s.reloaded
                           /\ Settled(u, k)
           a == inc_div(s)
           b == inc_div(a)
           c == inc_div(b)
           d == inc_div(c)
<1>1. CASE s.tac % 4 = 0
  BY <1>1 DEF stop_div_presample, Settled, Moved, TimerState
<1>2. CASE s.tac % 4 # 0
  <2>1. ASSUME NEW u, NEW k \in 0..2, Before(u, k)
        PROVE  Before(inc_div(u), k + 1)
    <3>1. u.div \in DivValue /\ u.div \in Nat /\ u.div % 16 # 15
      BY <2>1 DEF TimerState, DivValue
    <3>2. /\ inc_div(u) \in TimerState /\ inc_div(u).tima = u.tima
          /\ inc_div(u).tma = u.tma /\ inc_div(u).reload_in = u.reload_in
          /\ inc_div(u).reloaded = u.reloaded
          /\ inc_div(u).div = wrapping_inc(u.div, DivMod)
      BY <2>1, <3>1, IncDiv
    <3>3. wrapping_inc(u.div, DivMod) % 4 = ((u.div % 4) + 1) % 4
      BY <3>1, DivArithmetic
    <3>4. ((k + 1) % 4) = k + 1 /\ k \in 0..3
      OBVIOUS
    <3>5. Settled(inc_div(u), k + 1)
      BY <2>1, <3>4, SettledIncDiv
    <3> QED BY <2>1, <3>2, <3>3, <3>4, <3>5
  <2>2. Before(a, 1)
    BY <2>1
  <2> HIDE DEF a
  <2>3. Before(b, 2)
    BY <2>1, <2>2
  <2> HIDE DEF b
  <2>4. Before(c, 3)
    BY <2>1, <2>3
  <2> HIDE DEF c
  <2>5. d \in TimerState /\ d.tma = s.tma /\ d.reloaded = s.reloaded
    BY <2>4, IncDiv
  <2>6. Settled(d, 4)
    BY <2>4, SettledIncDiv
  <2>11. stop_div_presample(s) = d
    BY <1>2 DEF stop_div_presample, a, b, c
  <2>12. \/ d.tima = c.tima /\ d.reload_in = c.reload_in
        \/ /\ d.tima = wrapping_inc(c.tima, TimaMod)
           /\ d.reload_in = IF d.tima = 0 THEN 4 ELSE c.reload_in
           /\ mux_out(c) /\ ~mux_out(d)
    BY <2>4, IncDiv
  <2> HIDE DEF d
  <2>7. c.reload_in > 0 => ~mux_out(c)
    BY <2>4 DEF Settled
  <2>8. c.reload_in \in 0..4 /\ c.reload_in = s.reload_in /\ c.tima = s.tima
    BY <2>4 DEF TimerState
  <2>9. CASE d.tima = c.tima /\ d.reload_in = c.reload_in
    <3>1. Moved(s, d)
      BY <2>5, <2>8, <2>9 DEF Moved
    <3>2. (d.tima = s.tima /\ d.reload_in = 0) \/ ~mux_out(d)
      BY <2>6, <2>8, <2>9 DEF Settled
    <3> QED BY <2>5, <2>11, <3>1, <3>2
  <2>10. CASE ~(d.tima = c.tima /\ d.reload_in = c.reload_in)
    <3>1. s.reload_in = 0
      BY <2>7, <2>8, <2>10, <2>12
    <3>2. Moved(s, d) /\ ~mux_out(d)
      BY <2>5, <2>8, <2>10, <2>12, <3>1 DEF Moved
    <3> QED BY <2>5, <2>11, <3>2
  <2> QED BY <2>9, <2>10
<1> QED BY <1>1, <1>2

\* One T-cycle keeps the latch and the interrupt of its M-cycle together, and an access
\* moves neither.
LEMMA NextSeen == IInv /\ Seen /\ [Next]_vars => Seen'
<1> SUFFICES ASSUME IInv, Seen, [Next]_vars PROVE Seen'
  OBVIOUS
<1> USE DEF Seen
<1>1. CASE TickSubstep
  <2> DEFINE s == IF substep = 0 THEN [t EXCEPT !.reloaded = FALSE] ELSE t
             p == reload_pipeline(s)
  <2>0. t \in TimerState /\ substep \in 0..3
    BY <1>1 DEF IInv, TypeOK, TickSubstep
  <2>1. s \in TimerState
    BY <2>0 DEF TimerState
  <2>2. s.reload_in = t.reload_in /\ (substep # 0 => s.reloaded = t.reloaded)
    BY <2>0 DEF TimerState
  <2>3. t' = inc_div(p) /\ substep' = substep + 1
    BY <1>1 DEF TickSubstep
  <2>4. iff' <=> (s.reload_in = 1 \/ (substep # 0 /\ iff))
    BY <1>1, Zenon DEF TickSubstep, reload_fires
  <2> HIDE DEF s
  <2>5. p \in TimerState /\ p.reloaded \in BOOLEAN
        /\ (s.reload_in = 1 => p.reloaded = TRUE)
        /\ (s.reload_in # 1 => p.reloaded = s.reloaded)
    BY <2>1, ReloadPipeline DEF TimerState
  <2> HIDE DEF p
  <2>6. t'.reloaded = p.reloaded
    BY <2>3, <2>5, IncDiv
  <2>7. CASE substep = 3
    <3>1. ~iff /\ ~t.reloaded
      BY <2>7 DEF IInv, Latches
    <3>2. iff' <=> s.reload_in = 1
      BY <2>4, <2>7, <3>1
    <3>3. p.reloaded <=> s.reload_in = 1
      BY <2>2, <2>5, <2>7, <3>1
    <3> QED BY <2>6, <3>2, <3>3
  <2>8. CASE substep # 3
    BY <2>0, <2>3, <2>8
  <2> QED BY <2>7, <2>8
<1>2. CASE UNCHANGED vars
  BY <1>2 DEF vars
<1>3. ASSUME NEW u, Access(u), u.reloaded = t.reloaded PROVE Seen'
  BY <1>3 DEF Access
<1>4. t \in TimerState
  BY DEF IInv, TypeOK
<1>5. ASSUME NEW u \in TimerState PROVE div_write(u).reloaded = u.reloaded
  BY DEF div_write, edge_detect, clock_tima, TimerState
<1>6. CASE WriteDIV
  BY <1>3, <1>4, <1>5, <1>6 DEF WriteDIV
<1>7. CASE WriteTIMA
  <2>1. PICK v \in Byte :
          Access(IF t.reloaded THEN t ELSE [t EXCEPT !.tima = v, !.reload_in = 0])
    BY <1>7 DEF WriteTIMA
  <2> QED BY <1>3, <1>4, <2>1 DEF TimerState
<1>8. CASE WriteTMA
  <2>1. PICK v \in Byte :
          Access([t EXCEPT !.tma = v, !.tima = IF t.reloaded THEN v ELSE @])
    BY <1>8 DEF WriteTMA
  <2> QED BY <1>3, <1>4, <2>1 DEF TimerState
<1>9. CASE WriteTAC
  <2>1. PICK v \in 0..7 : Access(edge_detect(mux_out(t), [t EXCEPT !.tac = v]))
    BY <1>9 DEF WriteTAC
  <2>2. edge_detect(mux_out(t), [t EXCEPT !.tac = v]).reloaded = t.reloaded
    BY <1>4 DEF edge_detect, clock_tima, TimerState
  <2> QED BY <1>3, <2>1, <2>2
<1>10. CASE Stop
  <2>1. substep = 4
    BY <1>10 DEF Stop, Access
  <2>2. Moved(t, stop_div_presample(t)) /\ stop_div_presample(t) \in TimerState
    BY <2>1, AccessState, PresampleMoved
  <2> QED BY <1>3, <1>5, <1>10, <2>2 DEF Stop, Moved
<1>11. CASE OtherAccess
  BY <1>3, <1>11 DEF OtherAccess
<1> QED BY <1>1, <1>2, <1>6, <1>7, <1>8, <1>9, <1>10, <1>11 DEF Next

\* A DIV write in the same terms.
LEMMA DivWriteMoved ==
  ASSUME NEW s \in TimerState, s.reload_in = 0 \/ ~mux_out(s)
  PROVE  Moved(s, div_write(s))
<1> DEFINE u == [s EXCEPT !.div = 0]
           v == wrapping_inc(s.tima, TimaMod)
<1>1. u.tima = s.tima /\ u.tma = s.tma /\ u.reload_in = s.reload_in
      /\ u.reloaded = s.reloaded
  BY DEF TimerState
<1>2. CASE div_write(s) = u
  BY <1>1, <1>2 DEF Moved
<1>3. CASE div_write(s) # u
  <2>1. div_write(s) = clock_tima(u) /\ s.reload_in = 0
    BY <1>3 DEF div_write, edge_detect
  <2>2. clock_tima(u).tima = v /\ clock_tima(u).tma = s.tma
        /\ clock_tima(u).reload_in = (IF v = 0 THEN 4 ELSE 0)
        /\ clock_tima(u).reloaded = s.reloaded
    BY <1>1, <2>1 DEF clock_tima, TimerState
  <2> QED BY <2>1, <2>2 DEF Moved
<1> QED BY <1>2, <1>3

\* The same for a TAC write.
LEMMA TacWriteMoved ==
  ASSUME NEW s \in TimerState, NEW w \in 0..7, s.reload_in = 0 \/ ~mux_out(s)
  PROVE  Moved(s, edge_detect(mux_out(s), [s EXCEPT !.tac = w]))
<1> DEFINE u == [s EXCEPT !.tac = w]
           r == edge_detect(mux_out(s), u)
           v == wrapping_inc(s.tima, TimaMod)
<1>1. u.tima = s.tima /\ u.tma = s.tma /\ u.reload_in = s.reload_in
      /\ u.reloaded = s.reloaded
  BY DEF TimerState
<1>2. CASE r = u
  BY <1>1, <1>2 DEF Moved
<1>3. CASE r # u
  <2>1. r = clock_tima(u) /\ s.reload_in = 0
    BY <1>3 DEF edge_detect
  <2>2. clock_tima(u).tima = v /\ clock_tima(u).tma = s.tma
        /\ clock_tima(u).reload_in = (IF v = 0 THEN 4 ELSE 0)
        /\ clock_tima(u).reloaded = s.reloaded
    BY <1>1, <2>1 DEF clock_tima, TimerState
  <2> QED BY <2>1, <2>2 DEF Moved
<1> QED BY <1>2, <1>3

\* The abstract mode of a state with these latches.
Mode(r, i) == IF r > 0 THEN "overflowed" ELSE IF i THEN "reloaded" ELSE "counting"

\* TIMA clocked or left alone, with the interrupt latch as it was, is a step of TimaSpec.
LEMMA MovedImplements ==
  ASSUME t \in TimerState, t' \in TimerState, Moved(t, t'), iff' <=> iff
  PROVE  [Tima!Next]_(Tima!vars)
<1>1. CASE t'.tima = t.tima /\ t'.reload_in = t.reload_in
  <2>1. t'.tma = t.tma
    BY DEF Moved
  <2> QED BY <1>1, <2>1 DEF Tima!vars
<1>2. CASE ~(t'.tima = t.tima /\ t'.reload_in = t.reload_in)
  <2>1. /\ t.reload_in = 0 /\ t'.tma = t.tma
        /\ t'.tima = wrapping_inc(t.tima, TimaMod)
        /\ t'.reload_in = IF t'.tima = 0 THEN 4 ELSE 0
    BY <1>2 DEF Moved
  <2>2. t.tima \in Byte
    BY DEF TimerState
  <2>3. wrapping_inc(t.tima, TimaMod) = (t.tima + 1) % TimaMod
    BY <2>2, TimaModAssumption DEF wrapping_inc, Byte
  <2>4. Tima!Clock
    BY <2>1, <2>3 DEF Tima!Clock
  <2> QED BY <2>4 DEF Tima!Next
<1> QED BY <1>1, <1>2

\* A T-cycle counts the window down, closes it with the reload, ends the M-cycle of one,
\* or clocks TIMA.
LEMMA TickImplements ==
  ASSUME IInv, IInv', TickSubstep
  PROVE  [Tima!Next]_(Tima!vars)
<1> DEFINE s == IF substep = 0 THEN [t EXCEPT !.reloaded = FALSE] ELSE t
           p == reload_pipeline(s)
<1>1. t \in TimerState /\ substep \in 0..3 /\ t' \in TimerState /\ t.div \in Nat
  BY DEF IInv, TypeOK, TickSubstep, TimerState, DivValue
<1>2. /\ s \in TimerState
      /\ s.div = t.div /\ s.tima = t.tima /\ s.tma = t.tma /\ s.tac = t.tac
      /\ s.reload_in = t.reload_in
  BY <1>1 DEF TimerState
<1>3. t' = inc_div(p)
  BY DEF TickSubstep
<1>4. iff' <=> (s.reload_in = 1 \/ (substep # 0 /\ iff))
  BY Zenon DEF TickSubstep, reload_fires
<1> HIDE DEF s
<1>5. /\ p \in TimerState
      /\ p.div = t.div /\ p.tac = t.tac /\ p.tma = t.tma
      /\ t.reload_in = 1 => p.tima = t.tma /\ p.reload_in = 0
      /\ t.reload_in # 1 =>
           /\ p.tima = t.tima
           /\ p.reload_in = IF t.reload_in > 0 THEN t.reload_in - 1 ELSE 0
  BY <1>2, ReloadPipeline, ZenonT(40)
<1> HIDE DEF p
<1>6. t'.tma = t.tma
  BY <1>3, <1>5, IncDiv
<1>7. iff' <=> s.reload_in = 1
  BY <1>1, <1>4 DEF IInv, Latches
<1>8. t.reload_in \in 0..4
  BY <1>1 DEF TimerState
<1>9. mux_out(p) <=> mux_out(t)
  BY <1>5 DEF mux_out
<1>10. CASE t.reload_in > 0
  <2>1. /\ t.tima = 0 /\ t.reload_in = 4 - substep
        /\ t.div % 16 < 12 \/ ~mux_out(t)
    BY <1>1, <1>10 DEF IInv, Window
  <2>2. t.div % 16 # 15 \/ ~mux_out(p)
    BY <1>1, <1>9, <2>1
  <2>3. t'.tima = p.tima /\ t'.reload_in = p.reload_in
    BY <1>3, <1>5, <2>2, IncDiv
  <2>4. CASE t.reload_in = 1
    <3>1. t'.tima = t.tma /\ t'.reload_in = 0 /\ iff'
      BY <1>2, <1>5, <1>7, <2>3, <2>4
    <3>2. Tima!Reload
      BY <1>6, <1>10, <3>1 DEF Tima!Reload
    <3> QED BY <3>2 DEF Tima!Next
  <2>5. CASE t.reload_in # 1
    <3>1. t'.tima = t.tima /\ t'.reload_in > 0
      BY <1>5, <1>8, <1>10, <2>3, <2>5
    <3> QED BY <1>6, <1>10, <3>1 DEF Tima!vars
  <2> QED BY <2>4, <2>5
<1>11. CASE t.reload_in = 0 /\ substep = 0
  <2>1. t.div % 16 # 15
    BY <1>1, <1>11 DEF IInv, Aligned
  <2>2. t'.tima = t.tima /\ t'.reload_in = 0
    BY <1>3, <1>5, <1>11, <2>1, IncDiv
  <2>3. ~iff'
    BY <1>2, <1>7, <1>11
  <2>4. CASE iff
    <3>1. Tima!Settle
      BY <1>6, <1>11, <2>2, <2>3, <2>4 DEF Tima!Settle
    <3> QED BY <3>1 DEF Tima!Next
  <2>5. CASE ~iff
    BY <1>6, <1>11, <2>2, <2>3, <2>5 DEF Tima!vars
  <2> QED BY <2>4, <2>5
<1>12. CASE t.reload_in = 0 /\ substep # 0
  <2>1. ~iff /\ ~iff'
    BY <1>1, <1>2, <1>7, <1>12 DEF IInv, Latches
  <2>2. p.tima = t.tima /\ p.reload_in = 0
    BY <1>5, <1>12
  <2>3. CASE t'.tima = t.tima /\ t'.reload_in = 0
    BY <1>6, <1>12, <2>1, <2>3 DEF Tima!vars
  <2>4. CASE ~(t'.tima = t.tima /\ t'.reload_in = 0)
    <3>1. /\ t'.tima = wrapping_inc(t.tima, TimaMod)
          /\ t'.reload_in = IF t'.tima = 0 THEN 4 ELSE 0
      BY <1>3, <1>5, <2>2, <2>4, IncDiv
    <3>2. wrapping_inc(t.tima, TimaMod) = (t.tima + 1) % TimaMod
      BY <1>1, TimaModAssumption DEF TimerState, wrapping_inc, Byte
    <3>3. Tima!Clock
      BY <1>6, <1>12, <2>1, <3>1, <3>2 DEF Tima!Clock
    <3> QED BY <3>3 DEF Tima!Next
  <2> QED BY <2>3, <2>4
<1> QED BY <1>8, <1>10, <1>11, <1>12

\* Every step of the timer is a step of TimaSpec or hidden from it.
LEMMA NextImplements ==
  IInv /\ IInv' /\ Seen /\ [Next]_vars => [Tima!Next]_(Tima!vars)
<1> SUFFICES ASSUME IInv, IInv', Seen, [Next]_vars PROVE [Tima!Next]_(Tima!vars)
  OBVIOUS
<1>1. CASE TickSubstep
  BY <1>1, TickImplements
<1>2. CASE UNCHANGED vars
  BY <1>2 DEF vars, Tima!vars
<1>3. t \in TimerState /\ t' \in TimerState
  BY DEF IInv, TypeOK
<1>4. ASSUME NEW u, Access(u), Moved(t, u) PROVE [Tima!Next]_(Tima!vars)
  <2>1. t' = u /\ iff' = iff
    BY <1>4 DEF Access
  <2> QED BY <1>3, <1>4, <2>1, MovedImplements
<1>5. ASSUME substep = 4
      PROVE  /\ t.div % 4 = 0 /\ Settled(t, 0)
             /\ t.reload_in = 0 \/ ~mux_out(t)
             /\ t.reload_in > 0 => ~t.reloaded
             /\ iff <=> t.reloaded
  BY <1>3, <1>5, AccessState DEF Seen, TimerState
<1>6. CASE WriteDIV
  BY <1>3, <1>4, <1>5, <1>6, DivWriteMoved DEF WriteDIV, Access
<1>7. CASE WriteTAC
  <2>1. PICK v \in 0..7 : Access(edge_detect(mux_out(t), [t EXCEPT !.tac = v]))
    BY <1>7 DEF WriteTAC
  <2>2. substep = 4
    BY <2>1 DEF Access
  <2>3. Moved(t, edge_detect(mux_out(t), [t EXCEPT !.tac = v]))
    BY <1>3, <1>5, <2>2, TacWriteMoved
  <2> QED BY <1>4, <2>1, <2>3
<1>8. CASE Stop
  <2> DEFINE p == stop_div_presample(t)
  <2>1. substep = 4 /\ Access(div_write(p))
    BY <1>8 DEF Stop, Access
  <2>2. p \in TimerState /\ Moved(t, p)
        /\ ((p.tima = t.tima /\ p.reload_in = 0) \/ ~mux_out(p))
    BY <1>3, <1>5, <2>1, PresampleMoved
  <2> HIDE DEF p
  <2>3. Moved(p, div_write(p))
    BY <2>2, DivWriteMoved
  <2>4. p.reload_in = 0 /\ p.tima = t.tima => t.reload_in = 0
    BY <1>3, <2>2, TimaModAssumption DEF Moved, TimerState, wrapping_inc, Byte
  <2>5. ~mux_out(p) => div_write(p).tima = p.tima /\ div_write(p).reload_in = p.reload_in
    BY <2>2 DEF div_write, edge_detect, TimerState
  <2>6. Moved(t, div_write(p))
    BY <2>2, <2>3, <2>4, <2>5 DEF Moved
  <2> QED BY <1>4, <2>1, <2>6
<1>9. CASE OtherAccess
  BY <1>4, <1>9 DEF OtherAccess, Moved
<1>10. CASE WriteTIMA
  <2>1. PICK v \in Byte :
          Access(IF t.reloaded THEN t ELSE [t EXCEPT !.tima = v, !.reload_in = 0])
    BY <1>10 DEF WriteTIMA
  <2>2. substep = 4 /\ iff' = iff
    BY <2>1 DEF Access
  <2>3. CASE t.reloaded
    BY <1>4, <2>1, <2>3 DEF Moved
  <2>4. CASE ~t.reloaded
    <3>1. t' = [t EXCEPT !.tima = v, !.reload_in = 0]
      BY <2>1, <2>4 DEF Access
    <3>2. t'.tima = v /\ t'.reload_in = 0 /\ t'.tma = t.tma
      BY <1>3, <3>1 DEF TimerState
    <3>3. ~iff /\ ~iff'
      BY <1>5, <2>2, <2>4
    <3>4. Tima!WriteTIMA
      BY <3>2, <3>3 DEF Tima!WriteTIMA, Tima!Byte, Byte
    <3> QED BY <3>4 DEF Tima!Next
  <2> QED BY <2>3, <2>4
<1>11. CASE WriteTMA
  <2>1. PICK v \in Byte :
          Access([t EXCEPT !.tma = v, !.tima = IF t.reloaded THEN v ELSE @])
    BY <1>11 DEF WriteTMA
  <2>2. substep = 4 /\ iff' = iff
        /\ t' = [t EXCEPT !.tma = v, !.tima = IF t.reloaded THEN v ELSE @]
    BY <2>1 DEF Access
  <2>3. /\ t'.tma = v /\ t'.reload_in = t.reload_in
        /\ t'.tima = IF t.reloaded THEN v ELSE t.tima
    BY <1>3, <2>2 DEF TimerState
  <2>4. Mode(t.reload_in, iff) = "reloaded" <=> t.reloaded
    BY <1>3, <1>5, <2>2 DEF Mode, TimerState
  <2>5. Tima!WriteTMA
    BY <2>2, <2>3, <2>4 DEF Tima!WriteTMA, Tima!Byte, Byte, Mode
  <2> QED BY <2>5 DEF Tima!Next
<1> QED BY <1>1, <1>2, <1>6, <1>7, <1>8, <1>9, <1>10, <1>11 DEF Next

\* The timer implements TimaSpec for every width, tap table and boot divider: a program
\* sees TIMA count, wait at 0 and reload, whatever moves the divider (timer.rs).
THEOREM Refinement == Spec => TimaRefinement
<1>1. Init => Tima!Init
  <2> SUFFICES ASSUME Init PROVE Tima!Init
    OBVIOUS
  <2>1. t.tima = 0 /\ t.tma = 0 /\ t.reload_in = 0 /\ iff = FALSE
    BY DEF Init
  <2> QED BY <2>1 DEF Tima!Init
<1>2. Init => Seen
  BY DEF Init, Seen
<1>3. IInv /\ Seen /\ [Next]_vars => Seen'
  BY NextSeen
<1>4. IInv /\ IInv' /\ Seen /\ [Next]_vars => [Tima!Next]_(Tima!vars)
  BY NextImplements
<1> QED BY <1>1, <1>2, <1>3, <1>4, Invariance, PTL DEF Spec, TimaRefinement, Tima!Spec
=============================================================================

------------------------------- MODULE ApuProofs -------------------------------
(***************************************************************************)
(* Proofs about Apu, for every tap, number of steps, length and volume.    *)
(*                                                                         *)
(* The operators of Apu map all the variables as one record u: Good(u) is  *)
(* the inductive invariant of such a record, each operator is shown to     *)
(* keep it, and each action is a composition of operators.                 *)
(*                                                                         *)
(* The second half follows the channel: from u to w a run of the clock     *)
(* plays no step of the sequencer (Still) or one (Once), however many      *)
(* M-cycles and resets it is made of, and the envelope keeps its pace.     *)
(***************************************************************************)
EXTENDS Apu, TLAPS

History == [falls : 0..(FrameSteps + 2), high : BOOLEAN, counts : 0..(CountMod - 1),
            clean : BOOLEAN]
Whole == [div : 0..(4 * Tap - 1), f : Sequencer, c : Channel, h : History]

\* Where n edges since power-on have led the sequencer; up: the tap was high then.
Place(n, up) ==
  IF up THEN IF n < 2 THEN 1 ELSE (n - 1) % FrameSteps ELSE n % FrameSteps
Phase(n, up) ==
  IF up /\ n = 0 THEN "Skip" ELSE IF up /\ n = 1 THEN "Skipped" ELSE "Inactive"
At(g, n, up) == g.divider = Place(n, up) /\ g.skip = Phase(n, up)

\* The edges that have been played: all, but for one that waits.
PlayedEdges(u) == IF u.f.pending = "Falling" THEN u.h.falls - 1 ELSE u.h.falls

Plays(u) == u.c.enabled => u.c.counter > 0 /\ u.c.dac /\ u.f.power
Good(u) ==
  /\ u \in Whole
  /\ u.f.prev_div = u.div
  /\ u.f.pending = "Falling" => u.div = 0 /\ u.h.falls > 0 /\ u.f.power
  /\ u.f.power => At(u.f, PlayedEdges(u), u.h.high)
  /\ Plays(u)

\* What every operator but the accesses leaves alone.
Kept(g, k) == /\ k.cgb = g.cgb /\ k.double_speed = g.double_speed /\ k.power = g.power
              /\ k.lag = g.lag /\ k.open = g.open
-----------------------------------------------------------------------------
(* Arithmetic. *)

\* A remainder of a number less than twice the modulus, by cases.
LEMMA SmallMod ==
  ASSUME NEW m \in Nat, m > 0, NEW x \in 0..(2 * m - 1)
  PROVE  x % m = IF x < m THEN x ELSE x - m
<1>1. x \div m \in Int /\ x % m \in 0..(m - 1) /\ x = m * (x \div m) + (x % m)
  OBVIOUS
<1>2. x \div m = IF x < m THEN 0 ELSE 1
  <2>1. x \div m >= 0
    <3>1. SUFFICES ASSUME x \div m <= -1 PROVE FALSE
      BY <1>1
    <3>2. m * (x \div m) <= m * (-1)
      BY <1>1, <3>1
    <3> QED BY <1>1, <3>2
  <2>2. x \div m < 2
    <3>1. SUFFICES ASSUME x \div m >= 2 PROVE FALSE
      BY <1>1
    <3>2. m * (x \div m) >= m * 2
      BY <1>1, <3>1
    <3> QED BY <1>1, <3>2
  <2>3. x \div m = 0 \/ x \div m = 1
    BY <1>1, <2>1, <2>2
  <2> QED BY <1>1, <2>3
<1> QED BY <1>1, <1>2

\* A remainder lies below the modulus.
LEMMA ModRange == ASSUME NEW m \in Nat, m > 0, NEW x \in Int PROVE x % m \in 0..(m - 1)
  OBVIOUS

\* A falling edge leads from where n edges lead to where one more does.
LEMMA NextPlace ==
  ASSUME NEW g \in Sequencer, NEW n \in 0..(FrameSteps + 2), NEW up \in BOOLEAN,
         At(g, n, up)
  PROVE  /\ advanced(g) \in Sequencer /\ At(advanced(g), counted(n), up)
         /\ counted(n) \in 1..(FrameSteps + 2)
         /\ Kept(g, advanced(g)) /\ advanced(g).prev_div = g.prev_div
         /\ advanced(g).pending = g.pending
<1>0. FrameSteps \in Nat /\ FrameSteps > 3
  BY ApuAssumption
<1>1. \A x \in 0..(FrameSteps + 3) : x % FrameSteps = IF x < FrameSteps THEN x ELSE x - FrameSteps
  BY <1>0, SmallMod
<1>2. counted(n) = IF n = FrameSteps + 2 THEN 3 ELSE n + 1
  BY DEF counted
<1>3. counted(n) \in 1..(FrameSteps + 2)
  BY <1>0, <1>2
<1>4. g.divider \in 0..(FrameSteps - 1) /\ (g.divider + 1) % FrameSteps \in 0..(FrameSteps - 1)
  BY <1>0, ModRange DEF Sequencer
<1>5. CASE g.skip = "Skip"
  <2>1. advanced(g) = [g EXCEPT !.skip = "Skipped"]
    BY <1>5 DEF advanced
  <2>2. up /\ n = 0 /\ g.divider = 1
    BY <1>0, <1>5 DEF At, Place, Phase
  <2> QED BY <1>0, <1>2, <1>3, <2>1, <2>2 DEF Sequencer, At, Place, Phase, Kept
<1>6. CASE g.skip = "Skipped"
  <2>1. advanced(g) = [g EXCEPT !.skip = "Inactive"]
    BY <1>6 DEF advanced
  <2>2. up /\ n = 1 /\ g.divider = 1
    BY <1>0, <1>6 DEF At, Place, Phase
  <2>3. counted(n) = 2 /\ Place(2, TRUE) = 1 /\ Phase(2, TRUE) = "Inactive"
    BY <1>0, <1>1, <1>2, <2>2 DEF Place, Phase
  <2> QED BY <1>3, <2>1, <2>2, <2>3 DEF Sequencer, At, Kept
<1>7. CASE g.skip = "Inactive"
  <2>1. advanced(g) = [g EXCEPT !.divider = (g.divider + 1) % FrameSteps]
    BY <1>7 DEF advanced
  <2>2. up => n >= 2
    BY <1>7 DEF At, Phase
  <2>3. (g.divider + 1) % FrameSteps = Place(counted(n), up)
    <3>1. CASE up
      BY <1>0, <1>1, <1>2, <2>2, <3>1 DEF At, Place
    <3>2. CASE ~up
      BY <1>0, <1>1, <1>2, <3>2 DEF At, Place
    <3> QED BY <3>1, <3>2
  <2>4. Phase(counted(n), up) = "Inactive"
    BY <1>0, <1>2, <2>2 DEF Phase
  <2> QED BY <1>3, <1>4, <1>7, <2>1, <2>3, <2>4 DEF Sequencer, At, Kept
<1> QED BY <1>5, <1>6, <1>7 DEF Sequencer
-----------------------------------------------------------------------------
(* The channel. *)

\* The volume after a zombie-mode write has four bits again.
LEMMA WrappedRange == \A x \in Int : wrapped(x) \in 0..VolMax
<1> DEFINE m == VolMax + 1
<1>1. m \in Nat /\ m > 0 /\ m - 1 = VolMax
  BY ApuAssumption
<1>2. \A x \in Int : wrapped(x) = x % m
  BY DEF wrapped
<1> HIDE DEF m
<1> QED BY <1>1, <1>2, ModRange

\* The operations of the envelope keep its widths.
LEMMA EnvelopeKept ==
  ASSUME NEW e \in Envelope
  PROVE  /\ \A b \in BOOLEAN : set_clock(e, b) \in Envelope
         /\ \A b \in BOOLEAN : stepped(e, b) \in Envelope
         /\ countdown_event(e) \in Envelope
         /\ \A b \in BOOLEAN : arm(e, b) \in Envelope
         /\ tick_event(e) \in Envelope
         /\ triggered(e) \in Envelope
         /\ \A v \in Level : written(e, v) \in Envelope
<1>0. /\ VolMax + 1 \in Nat /\ VolMax + 1 > 0 /\ CountMod \in Nat /\ CountMod > 0
  BY ApuAssumption
<1>1. \A x \in Int : wrapped(x) \in 0..VolMax
  BY WrappedRange
<1>2. \A d \in Envelope, b \in BOOLEAN : set_clock(d, b) \in Envelope
  BY DEF set_clock, at_rail, Envelope
<1>3. ASSUME NEW d \in Envelope, NEW b \in BOOLEAN PROVE stepped(d, b) \in Envelope
  <2> DEFINE w == IF b THEN wrapped(d.volume + 1) ELSE wrapped(d.volume + VolMax)
  <2>1. d.volume + 1 \in Int /\ d.volume + VolMax \in Int
    BY ApuAssumption DEF Envelope
  <2>2. w \in 0..VolMax
    BY <1>1, <2>1
  <2>3. stepped(d, b) = [d EXCEPT !.volume = w]
    BY DEF stepped
  <2> HIDE DEF w
  <2> QED BY <2>2, <2>3 DEF Envelope
<1>4. countdown_event(e) \in Envelope
  <2>1. (e.countdown + CountMod - 1) % CountMod \in 0..(CountMod - 1)
    BY <1>0, ModRange DEF Envelope
  <2> QED BY <2>1 DEF countdown_event, Envelope
<1>5. ASSUME NEW b \in BOOLEAN PROVE arm(e, b) \in Envelope
  <2>1. [e EXCEPT !.countdown = e.period] \in Envelope
    BY DEF Envelope
  <2> QED BY <1>2, <2>1 DEF arm
<1>6. tick_event(e) \in Envelope
  BY <1>2, <1>3 DEF tick_event, Envelope
<1>7. triggered(e) \in Envelope
  BY DEF triggered, Envelope
<1>8. \A v \in Level : written(e, v) \in Envelope
  BY DEF written, Envelope, Level
<1> QED BY <1>2, <1>3, <1>4, <1>5, <1>6, <1>7, <1>8

\* An NRx2 write under a playing channel keeps the widths of the envelope.
LEMMA WriteActiveKept ==
  ASSUME NEW e \in Envelope, NEW v \in Level PROVE write_active(e, v) \in Envelope
<1> DEFINE loaded == IF e.clock THEN [e EXCEPT !.countdown = v.period] ELSE e
           turned == IF v.add # e.add THEN [loaded EXCEPT !.volume = inverted(e, v)] ELSE loaded
           last == CASE ticks(e, v) -> stepped(turned, v.add)
                     [] ~ticks(e, v) /\ v.period = 0 -> set_clock(turned, FALSE)
                     [] OTHER -> turned
<1>1. loaded \in Envelope
  BY DEF Envelope, Level
<1>2. inverted(e, v) \in 0..VolMax
  <2>1. VolMax + 1 \in Nat /\ VolMax + 1 > 0 /\ VolMax \in Nat
    BY ApuAssumption
  <2>2. \A x \in Int : wrapped(x) \in 0..VolMax
    BY WrappedRange
  <2> QED BY <2>1, <2>2 DEF inverted, Envelope, Level
<1>3. turned \in Envelope
  BY <1>1, <1>2 DEF Envelope
<1> HIDE DEF turned
<1>4. v.add \in BOOLEAN
  BY DEF Level
<1>5. last \in Envelope
  BY <1>3, <1>4, EnvelopeKept
<1>6. write_active(e, v) = written(last, v)
  BY DEF write_active, last, turned
<1> QED BY <1>5, <1>6, EnvelopeKept

\* A length clock silences a channel or leaves its counter above zero.
LEMMA ClockedKept ==
  ASSUME NEW d \in Channel, NEW k \in 0..(FrameSteps - 1)
  PROVE  /\ clocked(d, k) \in Channel /\ clocked(d, k).dac = d.dac
         /\ clocked(d, k).enabled =>
              d.enabled /\ (d.counter > 0 => clocked(d, k).counter > 0)
<1>1. enveloped(d.env, k) \in Envelope
  BY EnvelopeKept DEF enveloped, Channel
<1> DEFINE e == [d EXCEPT !.env = enveloped(d.env, k)]
<1>2. /\ e \in Channel /\ e.dac = d.dac /\ e.enabled = d.enabled /\ e.counter = d.counter
  BY <1>1 DEF Channel
<1>3. clocked(d, k) = IF k % 2 = 1 THEN length_clocked(e) ELSE e
  BY DEF clocked
<1> HIDE DEF e
<1>4. CASE e.len /\ e.counter > 0
  <2>1. length_clocked(e) = [e EXCEPT !.counter = e.counter - 1,
                                      !.enabled = e.enabled /\ e.counter # 1]
    BY <1>4 DEF length_clocked
  <2>2. e.counter - 1 \in 0..LengthMax /\ (e.enabled /\ e.counter # 1) \in BOOLEAN
    BY <1>2, <1>4, ApuAssumption DEF Channel
  <2>3. length_clocked(e) \in Channel /\ length_clocked(e).dac = e.dac
        /\ length_clocked(e).counter = e.counter - 1
        /\ (length_clocked(e).enabled <=> e.enabled /\ e.counter # 1)
    BY <1>2, <2>1, <2>2 DEF Channel
  <2>4. e.counter \in Nat /\ (e.enabled \in BOOLEAN)
    BY <1>2 DEF Channel
  <2>5. length_clocked(e).enabled => e.enabled /\ length_clocked(e).counter > 0
    BY <1>4, <2>3, <2>4
  <2> QED BY <1>2, <1>3, <2>3, <2>5
<1>5. CASE ~(e.len /\ e.counter > 0)
  <2>1. length_clocked(e) = e
    BY <1>5 DEF length_clocked
  <2> QED BY <1>2, <1>3, <2>1
<1> QED BY <1>4, <1>5

\* NRx4 leaves a playing channel with something to count.
LEMMA LengthWritten ==
  ASSUME NEW enable \in BOOLEAN, NEW trigger \in BOOLEAN, c \in Channel
  PROVE  LET d == length_written(c, enable, trigger)
         IN  /\ d \in Channel /\ d.dac = c.dac /\ d.env = c.env
             /\ trigger => d.counter > 0
             /\ d.enabled => c.enabled /\ (c.counter > 0 => d.counter > 0)
<1> DEFINE extra == ~next_step_clocks_length /\ enable
           left == IF extra /\ ~c.len /\ c.counter > 0 THEN c.counter - 1 ELSE c.counter
           now == IF trigger /\ left = 0
                  THEN IF extra THEN LengthMax - 1 ELSE LengthMax ELSE left
           on == c.enabled /\ (left > 0 \/ left = c.counter \/ trigger)
<1>1. length_written(c, enable, trigger) = [c EXCEPT !.len = enable, !.counter = now,
                                                     !.enabled = on]
  BY DEF length_written
<1>2. left \in 0..LengthMax /\ (left = 0 => c.counter \in 0..LengthMax)
  BY ApuAssumption DEF Channel
<1>3. now \in 0..LengthMax /\ (trigger => now > 0) /\ (on /\ c.counter > 0 => now > 0)
  <2> HIDE DEF extra
  <2> QED BY <1>2, ApuAssumption DEF Channel
<1>4. on \in BOOLEAN /\ (on => c.enabled)
  BY DEF Channel
<1> HIDE DEF now, on
<1> QED BY <1>1, <1>3, <1>4 DEF Channel
-----------------------------------------------------------------------------
(* The sequencer. *)

\* A step: the units of the channel move, and the sequencer one edge on.
LEMMA EventKept ==
  ASSUME NEW u \in Whole, u.f.power, NEW n \in 0..(FrameSteps + 2), At(u.f, n, u.h.high),
         Plays(u)
  PROVE  LET w == div_event(u)
         IN  /\ w \in Whole /\ w.div = u.div /\ Kept(u.f, w.f) /\ Plays(w)
             /\ w.f.prev_div = u.f.prev_div /\ w.f.pending = u.f.pending
             /\ w.h.falls = u.h.falls /\ w.h.high = u.h.high
             /\ At(w.f, counted(n), w.h.high)
<1> DEFINE g == advanced(u.f)
           d == clocked(u.c, g.divider)
           k == recounted(u, d, g.divider)
<1>0. u.f \in Sequencer /\ u.c \in Channel /\ u.h \in History /\ u.h.high \in BOOLEAN
  BY DEF Whole, History
<1>1. /\ g \in Sequencer /\ At(g, counted(n), u.h.high) /\ Kept(u.f, g)
      /\ g.prev_div = u.f.prev_div /\ g.pending = u.f.pending
  BY <1>0, NextPlace
<1>2. g.divider \in 0..(FrameSteps - 1)
  BY <1>1 DEF Sequencer
<1>3. /\ d \in Channel /\ d.dac = u.c.dac
      /\ d.enabled => u.c.enabled /\ (u.c.counter > 0 => d.counter > 0)
  BY <1>0, <1>2, ClockedKept
<1>4. k \in 0..(CountMod - 1)
  <2>1. d.env.period \in 0..(CountMod - 1) /\ u.h.counts \in 0..(CountMod - 1)
    BY <1>0, <1>3 DEF Channel, Envelope, History
  <2>2. recounted(u, d, g.divider) \in {0, u.h.counts}
        \/ (u.h.counts < d.env.period /\ recounted(u, d, g.divider) = u.h.counts + 1)
    BY DEF recounted
  <2> HIDE DEF d, g
  <2> QED BY <2>1, <2>2, ApuAssumption
<1>5. div_event(u) = IF u.f.skip = "Skip" THEN [u EXCEPT !.f = g]
                     ELSE [u EXCEPT !.f = g, !.c = d, !.h.counts = k]
  BY DEF div_event
<1>6. g.power = u.f.power
  BY <1>1 DEF Kept
<1> HIDE DEF g, d, k
<1>7. CASE u.f.skip = "Skip"
  <2>1. /\ div_event(u) \in Whole /\ div_event(u).div = u.div /\ div_event(u).f = g
        /\ div_event(u).c = u.c /\ div_event(u).h = u.h
    BY <1>0, <1>1, <1>5, <1>7 DEF Whole
  <2> QED BY <1>1, <1>6, <2>1 DEF Plays
<1>8. CASE u.f.skip # "Skip"
  <2>1. [u.h EXCEPT !.counts = k] \in History
    BY <1>0, <1>4 DEF History
  <2>2. div_event(u) = [u EXCEPT !.f = g, !.c = d, !.h = [u.h EXCEPT !.counts = k]]
    BY <1>5, <1>8
  <2>3. /\ div_event(u) \in Whole /\ div_event(u).div = u.div /\ div_event(u).f = g
        /\ div_event(u).c = d /\ div_event(u).h = [u.h EXCEPT !.counts = k]
    BY <1>1, <1>3, <2>1, <2>2 DEF Whole
  <2>4. div_event(u).h.falls = u.h.falls /\ div_event(u).h.high = u.h.high
    BY <1>0, <2>3 DEF History
  <2>5. Plays(div_event(u))
    BY <1>3, <1>6, <2>3 DEF Plays
  <2> QED BY <1>1, <2>3, <2>4, <2>5
<1> QED BY <1>7, <1>8

\* A divider reset by a DIV write, a STOP or power-on is below the tap.
LEMMA LowAtReset == \A ds \in BOOLEAN : ~high(0, ds) /\ ~high(1, ds)
<1>1. Tap \in Nat /\ Tap > 1 /\ 2 * Tap \in Nat /\ 2 * Tap > 1
  BY ApuAssumption
<1>2. 0 % (2 * Tap) = 0 /\ 1 % (2 * Tap) = 1
  BY <1>1, SmallMod
<1> QED BY <1>1, <1>2 DEF high

\* A DIV write or the reset of STOP plays the falling edge that the reset makes.
LEMMA ResetKept ==
  ASSUME NEW u, Good(u)
  PROVE  /\ Good(div_write_switching(u)) /\ Good(div_write(u))
         /\ Kept(u.f, div_write_switching(u).f) /\ Kept(u.f, div_write(u).f)
         /\ div_write_switching(u).div = 0 /\ div_write(u).div = 0
<1> DEFINE v == div_write_switching(u)
           falls == IF fell(u, 0) THEN counted(u.h.falls) ELSE u.h.falls
           w == [v EXCEPT !.h.falls = falls]
<1>0. /\ u \in Whole /\ u.f \in Sequencer /\ u.h \in History /\ u.f.prev_div = u.div
      /\ u.f.double_speed \in BOOLEAN /\ 0 \in 0..(4 * Tap - 1)
      /\ u.h.falls \in 0..(FrameSteps + 2) /\ u.h.high \in BOOLEAN
  BY ApuAssumption DEF Good, Whole, Sequencer, History
<1>1. v = [u EXCEPT !.div = 0, !.f = [u.f EXCEPT !.prev_div = 0]]
  BY DEF div_write_switching
<1>2. /\ v \in Whole /\ v.div = 0 /\ v.c = u.c /\ v.h = u.h
      /\ v.f = [u.f EXCEPT !.prev_div = 0]
  <2>1. [u.f EXCEPT !.prev_div = 0] \in Sequencer
    BY <1>0 DEF Sequencer
  <2> HIDE DEF v
  <2> QED BY <1>0, <1>1, <2>1 DEF Whole
<1>3. /\ v.f.prev_div = 0 /\ v.f.pending = u.f.pending /\ Kept(u.f, v.f)
      /\ v.f.divider = u.f.divider /\ v.f.skip = u.f.skip /\ v.f.power = u.f.power
  BY <1>0, <1>2 DEF Sequencer, Kept
<1>4. Good(v)
  BY <1>2, <1>3 DEF Good, PlayedEdges, At, Plays
<1>5. fell(u, 0) <=> u.f.power /\ high(u.f.prev_div, u.f.double_speed)
  BY <1>0, LowAtReset DEF fell
<1>6. div_write(u) = IF fell(u, 0) THEN div_event(w) ELSE w
  <2>1. div_write(u) = IF u.f.power /\ high(u.f.prev_div, u.f.double_speed)
                       THEN div_event(w) ELSE w
    BY <1>2 DEF div_write
  <2> HIDE DEF w
  <2> QED BY <1>5, <2>1
<1> HIDE DEF v
<1>7. CASE ~fell(u, 0)
  <2>1. w = v
    BY <1>2, <1>7 DEF Whole, History
  <2> QED BY <1>2, <1>3, <1>4, <1>6, <1>7, <2>1 DEF v
<1>8. CASE fell(u, 0)
  <2>1. u.f.pending # "Falling"
    BY <1>0, <1>5, <1>8, LowAtReset DEF Good
  <2>2. u.f.power /\ At(u.f, u.h.falls, u.h.high)
    BY <1>5, <1>8, <2>1 DEF Good, PlayedEdges
  <2>3. At(v.f, u.h.falls, u.h.high) /\ v.f \in Sequencer
    BY <1>2, <1>3, <2>2 DEF At, Whole
  <2>4. counted(u.h.falls) \in 1..(FrameSteps + 2)
    BY <1>0, <2>3, NextPlace
  <2>5. w = [v EXCEPT !.h = [u.h EXCEPT !.falls = falls]]
    BY <1>2
  <2>6. falls = counted(u.h.falls) /\ falls \in 0..(FrameSteps + 2) /\ falls > 0
    BY <1>8, <2>4, ApuAssumption
  <2> HIDE DEF falls, w
  <2>7. [u.h EXCEPT !.falls = falls] \in History
    BY <1>0, <2>6 DEF History
  <2>8. /\ w \in Whole /\ w.div = 0 /\ w.c = u.c /\ w.f = v.f
        /\ w.h = [u.h EXCEPT !.falls = falls]
    BY <1>2, <2>5, <2>7 DEF Whole
  <2>9. w.h.falls = falls /\ w.h.high = u.h.high
    BY <1>0, <2>8 DEF History
  <2>10. Plays(w) /\ w.f.power /\ At(w.f, u.h.falls, w.h.high)
    BY <1>3, <2>2, <2>3, <2>8, <2>9 DEF Good, Plays
  <2> DEFINE x == div_event(w)
  <2>11. /\ x \in Whole /\ x.div = 0 /\ Kept(w.f, x.f) /\ Plays(x)
         /\ x.f.prev_div = 0 /\ x.f.pending = u.f.pending
         /\ x.h.falls = falls /\ At(x.f, falls, x.h.high)
    BY <1>0, <1>3, <2>6, <2>8, <2>9, <2>10, EventKept, ZenonT(40)
  <2>12. Good(x)
    BY <2>1, <2>11 DEF Good, PlayedEdges
  <2>13. Kept(u.f, x.f)
    BY <1>3, <2>8, <2>11 DEF Kept
  <2> QED BY <1>2, <1>3, <1>4, <1>6, <1>8, <2>11, <2>12, <2>13 DEF v
<1> QED BY <1>7, <1>8

\* Playing an edge, one more than n of them if it falls.
LEMMA PlayedKept ==
  ASSUME NEW v \in Whole, NEW e \in {"none", "Falling", "Rising"}, v.f.prev_div = v.div,
         NEW n \in 0..(FrameSteps + 2), Plays(v),
         e = "Falling" => v.f.power /\ At(v.f, n, v.h.high) /\ counted(n) = v.h.falls,
         e # "Falling" /\ v.f.power => At(v.f, v.h.falls, v.h.high)
  PROVE  Good(played(v, e)) /\ Kept(v.f, played(v, e).f)
<1> DEFINE w == [v EXCEPT !.f.pending = "none"]
<1>0. v.f \in Sequencer /\ v.c \in Channel /\ v.c.enabled \in BOOLEAN /\ v.c.env \in Envelope
  BY DEF Whole, Channel
<1>1. w = [v EXCEPT !.f = [v.f EXCEPT !.pending = "none"]]
  OBVIOUS
<1>2. /\ w \in Whole /\ w.div = v.div /\ w.c = v.c /\ w.h = v.h
      /\ w.f = [v.f EXCEPT !.pending = "none"]
  BY <1>0, <1>1 DEF Whole, Sequencer
<1>3. /\ w.f.pending = "none" /\ w.f.prev_div = w.div /\ w.f.power = v.f.power
      /\ w.f.divider = v.f.divider /\ w.f.skip = v.f.skip /\ Kept(v.f, w.f) /\ Plays(w)
  BY <1>0, <1>2 DEF Sequencer, Kept, Plays
<1>4. /\ e = "Falling" => played(v, e) = div_event(w)
      /\ e = "Rising" => played(v, e) = [w EXCEPT !.c.env = arm(w.c.env, w.c.enabled)]
      /\ e = "none" => played(v, e) = w
  BY <1>2 DEF played
<1> HIDE DEF w
<1>5. CASE e = "Falling"
  <2>1. w.f.power /\ At(w.f, n, w.h.high)
    BY <1>2, <1>3, <1>5 DEF At
  <2> DEFINE x == div_event(w)
  <2>a. counted(n) = w.h.falls /\ w \in Whole /\ Plays(w)
    BY <1>2, <1>3, <1>5
  <2>b. /\ x \in Whole /\ x.div = w.div /\ Kept(w.f, x.f) /\ Plays(x)
        /\ x.f.prev_div = w.f.prev_div /\ x.f.pending = w.f.pending
        /\ x.h.falls = w.h.falls /\ x.h.high = w.h.high /\ At(x.f, counted(n), x.h.high)
    BY <2>1, <2>a, EventKept
  <2>2. /\ x \in Whole /\ x.div = w.div /\ Kept(w.f, x.f) /\ Plays(x)
        /\ x.f.prev_div = w.f.prev_div /\ x.f.pending = "none"
        /\ x.h.falls = w.h.falls /\ At(x.f, w.h.falls, x.h.high)
    BY <1>3, <2>a, <2>b
  <2> QED BY <1>3, <1>4, <1>5, <2>2 DEF Good, PlayedEdges, Kept
<1>6. CASE e # "Falling"
  <2>1. Good(w)
    BY <1>2, <1>3, <1>6 DEF Good, PlayedEdges, At
  <2>2. CASE e = "Rising"
    <3> DEFINE a == arm(w.c.env, w.c.enabled)
               x == [w EXCEPT !.c = [w.c EXCEPT !.env = a]]
    <3>1. a \in Envelope
      BY <1>0, <1>2, EnvelopeKept
    <3>2. played(v, e) = x
      BY <1>4, <2>2
    <3> HIDE DEF a
    <3>3. [w.c EXCEPT !.env = a] \in Channel
      BY <1>0, <1>2, <3>1 DEF Channel
    <3>4. x \in Whole /\ x.f = w.f /\ x.h = w.h /\ x.div = w.div /\ x.c = [w.c EXCEPT !.env = a]
      BY <1>2, <3>3 DEF Whole
    <3>5. x.c.enabled = w.c.enabled /\ x.c.counter = w.c.counter /\ x.c.dac = w.c.dac
      BY <1>0, <1>2, <3>4 DEF Channel
    <3> HIDE DEF x
    <3> QED BY <1>3, <2>1, <3>2, <3>4, <3>5 DEF Good, PlayedEdges, Plays
  <2> QED BY <1>3, <1>4, <1>6, <2>1, <2>2
<1> QED BY <1>5, <1>6

\* Where the count of edges wraps, the place and the phase it stands for do not change.
LEMMA CountedBack ==
  ASSUME NEW n \in 0..(FrameSteps + 2), NEW up \in BOOLEAN
  PROVE  /\ Place(counted(n) - 1, up) = Place(n, up)
         /\ Phase(counted(n) - 1, up) = Phase(n, up)
         /\ counted(n) \in 1..(FrameSteps + 2)
         /\ n > 0 => counted(n - 1) = n
<1>0. FrameSteps \in Nat /\ FrameSteps > 3
  BY ApuAssumption
<1>1. \A x \in 0..(FrameSteps + 3) : x % FrameSteps = IF x < FrameSteps THEN x ELSE x - FrameSteps
  BY <1>0, SmallMod
<1>2. CASE n = FrameSteps + 2
  <2>1. counted(n) = 3 /\ 3 - 1 = 2
    BY <1>2 DEF counted
  <2>2. /\ 2 % FrameSteps = 2 /\ (FrameSteps + 2) % FrameSteps = 2
        /\ 1 % FrameSteps = 1 /\ (FrameSteps + 1) % FrameSteps = 1
    BY <1>0, <1>1
  <2> QED BY <1>0, <1>2, <2>1, <2>2 DEF Place, Phase, counted
<1>3. CASE n # FrameSteps + 2
  BY <1>0, <1>3 DEF counted
<1> QED BY <1>2, <1>3

\* In double speed the tap falls in one M-cycle only, the one in which the divider wraps.
LEMMA NextCycle ==
  ASSUME NEW a \in 0..(4 * Tap - 1)
  PROVE  LET d == (a + 1) % (4 * Tap)
         IN  /\ d \in 0..(4 * Tap - 1) /\ (a = 0 => d = 1)
             /\ high(a, TRUE) /\ ~high(d, TRUE) => d = 0
<1> DEFINE m == 4 * Tap
           x == a + 1
           d == x % m
<1>1. /\ m \in Nat /\ m > 1 /\ Tap \in Nat /\ m = 4 * Tap /\ x = a + 1 /\ x \in 0..(2 * m - 1)
  BY ApuAssumption
<1>2. (a + 1) % (4 * Tap) = d
  OBVIOUS
<1> HIDE DEF m, x
<1>3. d = IF x < m THEN x ELSE x - m
  BY <1>1, SmallMod
<1> HIDE DEF d
<1>4. d = IF a + 1 < m THEN a + 1 ELSE 0
  BY <1>1, <1>3
<1>5. (high(a, TRUE) <=> a >= 2 * Tap) /\ (high(d, TRUE) <=> d >= 2 * Tap)
  BY DEF high
<1>6. d \in 0..(4 * Tap - 1) /\ (a = 0 => d = 1)
  BY <1>1, <1>4
<1>7. a >= 2 * Tap /\ ~(d >= 2 * Tap) => d = 0
  BY <1>1, <1>4
<1> QED BY <1>2, <1>5, <1>6, <1>7

\* An M-cycle plays its edge, or the one that waited, or lets its edge wait.
LEMMA TickKept ==
  ASSUME NEW u, Good(u), NEW paced \in BOOLEAN
  PROVE  Good(tick(u, paced)) /\ Kept(u.f, tick(u, paced).f)
<1> DEFINE d == (u.div + 1) % (4 * Tap)
           edge == raised(u.f, d)
           waits == edge # "none" /\ u.f.double_speed /\ ~paced /\ u.f.lag = 1
           falls == IF fell(u, d) THEN counted(u.h.falls) ELSE u.h.falls
           v == [u EXCEPT !.div = d, !.f.prev_div = d, !.h.falls = falls]
           now == IF edge # "none" THEN edge ELSE u.f.pending
<1>0. /\ u \in Whole /\ u.f \in Sequencer /\ u.h \in History /\ u.f.prev_div = u.div
      /\ u.f.double_speed \in BOOLEAN /\ u.div \in 0..(4 * Tap - 1) /\ u.f.power \in BOOLEAN
      /\ u.h.falls \in 0..(FrameSteps + 2) /\ u.h.high \in BOOLEAN /\ u.c \in Channel
      /\ u.f.pending \in {"none", "Falling", "Rising"}
  BY DEF Good, Whole, Sequencer, History
<1>1. /\ d \in 0..(4 * Tap - 1) /\ (u.div = 0 => d = 1)
      /\ high(u.div, TRUE) /\ ~high(d, TRUE) => d = 0
  BY <1>0, NextCycle
<1>2. tick(u, paced) = IF waits THEN [v EXCEPT !.f.pending = edge] ELSE played(v, now)
  BY DEF tick
<1>3. /\ edge \in {"none", "Falling", "Rising"}
      /\ edge = "Falling" <=> fell(u, d)
      /\ fell(u, d) => u.f.power /\ high(u.div, u.f.double_speed) /\ ~high(d, u.f.double_speed)
  BY <1>0 DEF raised, fell
<1>4. u.f.pending = "Falling" => edge = "none" /\ u.f.power /\ u.h.falls > 0
  BY <1>0, <1>1, LowAtReset DEF raised, Good
<1>5. falls \in 0..(FrameSteps + 2) /\ (fell(u, d) => falls > 0 /\ falls = counted(u.h.falls))
      /\ (~fell(u, d) => falls = u.h.falls)
  BY <1>0, CountedBack, ApuAssumption
<1>6. v = [u EXCEPT !.div = d, !.f = [u.f EXCEPT !.prev_div = d],
                    !.h = [u.h EXCEPT !.falls = falls]]
  OBVIOUS
<1> HIDE DEF d, edge, falls, v
<1>7. [u.f EXCEPT !.prev_div = d] \in Sequencer /\ [u.h EXCEPT !.falls = falls] \in History
  BY <1>0, <1>1, <1>5 DEF Sequencer, History
<1>8. /\ v \in Whole /\ v.div = d /\ v.c = u.c /\ v.f = [u.f EXCEPT !.prev_div = d]
      /\ v.h = [u.h EXCEPT !.falls = falls]
  BY <1>0, <1>1, <1>6, <1>7 DEF Whole
<1>9. /\ v.f.prev_div = d /\ Kept(u.f, v.f) /\ v.f.pending = u.f.pending
      /\ v.f.divider = u.f.divider /\ v.f.skip = u.f.skip /\ v.f.power = u.f.power
      /\ v.h.falls = falls /\ v.h.high = u.h.high
  BY <1>0, <1>8 DEF Sequencer, History, Kept
<1>10. Plays(v)
  BY <1>8, <1>9 DEF Good, Plays
<1>11. u.f.pending # "Falling" /\ u.f.power => At(v.f, u.h.falls, v.h.high)
  BY <1>9 DEF Good, PlayedEdges, At
<1>12. u.f.pending = "Falling" => At(v.f, u.h.falls - 1, v.h.high)
  BY <1>4, <1>9 DEF Good, PlayedEdges, At
<1>13. CASE waits
  <2> DEFINE x == [v EXCEPT !.f = [v.f EXCEPT !.pending = edge]]
  <2>1. tick(u, paced) = x /\ v.f \in Sequencer
    BY <1>2, <1>8, <1>13 DEF Whole
  <2>2. /\ x \in Whole /\ x.div = d /\ x.c = u.c /\ x.h = v.h
        /\ x.f = [v.f EXCEPT !.pending = edge]
    BY <1>3, <1>8, <2>1 DEF Whole, Sequencer
  <2>3. /\ x.f.pending = edge /\ x.f.prev_div = d /\ Kept(u.f, x.f) /\ x.f.power = u.f.power
        /\ x.f.divider = v.f.divider /\ x.f.skip = v.f.skip
    BY <1>9, <2>1, <2>2 DEF Sequencer, Kept
  <2>4. u.f.pending # "Falling"
    BY <1>4, <1>13
  <2>5. edge = "Falling" => d = 0 /\ falls > 0 /\ u.f.power
    BY <1>0, <1>1, <1>3, <1>5, <1>13
  <2>6. Plays(x)
    BY <1>8, <1>9, <1>10, <2>2, <2>3 DEF Plays
  <2>7. u.f.power => At(x.f, IF edge = "Falling" THEN falls - 1 ELSE falls, x.h.high)
    <3>1. CASE edge = "Falling"
      BY <1>0, <1>3, <1>5, <1>9, <1>11, <2>2, <2>3, <2>4, <3>1, CountedBack DEF At
    <3>2. CASE edge # "Falling"
      BY <1>3, <1>5, <1>11, <2>2, <2>3, <2>4, <3>2 DEF At
    <3> QED BY <3>1, <3>2
  <2>8. x.h.falls = falls /\ x.h.high = v.h.high
    BY <1>9, <2>2
  <2> HIDE DEF x
  <2>9. Good(x)
    BY <2>2, <2>3, <2>5, <2>6, <2>7, <2>8 DEF Good, PlayedEdges
  <2> QED BY <2>1, <2>3, <2>9
<1>14. CASE ~waits
  <2> DEFINE n == IF edge = "Falling" THEN u.h.falls
                  ELSE IF u.f.pending = "Falling" THEN u.h.falls - 1 ELSE 0
  <2>1. n \in 0..(FrameSteps + 2)
    BY <1>0, <1>4, ApuAssumption
  <2>2. now = "Falling" => v.f.power /\ At(v.f, n, v.h.high) /\ counted(n) = v.h.falls
    <3>1. CASE edge = "Falling"
      BY <1>3, <1>4, <1>5, <1>9, <1>11, <3>1
    <3>2. CASE edge # "Falling" /\ u.f.pending = "Falling"
      BY <1>0, <1>3, <1>4, <1>5, <1>9, <1>12, <3>2, CountedBack
    <3> QED BY <3>1, <3>2
  <2>3. now # "Falling" /\ v.f.power => At(v.f, v.h.falls, v.h.high)
    BY <1>3, <1>4, <1>5, <1>9, <1>11
  <2>4. now \in {"none", "Falling", "Rising"}
    BY <1>0, <1>3
  <2> HIDE DEF now, n
  <2>5. Good(played(v, now)) /\ Kept(v.f, played(v, now).f)
    BY <1>8, <1>9, <1>10, <2>1, <2>2, <2>3, <2>4, PlayedKept
  <2> QED BY <1>2, <1>9, <1>14, <2>5 DEF Kept
<1> QED BY <1>13, <1>14
-----------------------------------------------------------------------------
(* The steps. *)

\* A good record stays good as the state of the next step.
LEMMA BecomeGood == ASSUME NEW u, Good(u), Become(u) PROVE Good(State)'
<1>1. u \in Whole
  BY DEF Good
<1>2. State' = u
  BY <1>1 DEF Become, State, Whole
<1> QED BY <1>2

\* The access flag, the speed and the lag are nothing the invariant speaks of.
LEMMA FlagsKept ==
  ASSUME NEW u, Good(u), NEW b \in BOOLEAN, NEW ds \in BOOLEAN, NEW lag \in {0, 1}
  PROVE  /\ Good([u EXCEPT !.f.open = b])
         /\ Good([u EXCEPT !.f.double_speed = ds, !.f.lag = lag])
         /\ Good([u EXCEPT !.f.double_speed = ds])
<1>0. u \in Whole /\ u.f \in Sequencer
  BY DEF Good, Whole
<1>1. ASSUME NEW g \in Sequencer, g.prev_div = u.f.prev_div, g.pending = u.f.pending,
             g.power = u.f.power, g.divider = u.f.divider, g.skip = u.f.skip
      PROVE  Good([u EXCEPT !.f = g])
  <2> DEFINE w == [u EXCEPT !.f = g]
  <2>1. w \in Whole /\ w.f = g /\ w.div = u.div /\ w.c = u.c /\ w.h = u.h
    BY <1>0 DEF Whole
  <2> HIDE DEF w
  <2>2. Good(w)
    BY <1>1, <2>1 DEF Good, PlayedEdges, Plays, At
  <2> QED BY <2>2 DEF w
<1>2. Good([u EXCEPT !.f.open = b])
  <2> DEFINE g == [u.f EXCEPT !.open = b]
  <2>1. /\ g \in Sequencer /\ g.prev_div = u.f.prev_div /\ g.pending = u.f.pending
        /\ g.power = u.f.power /\ g.divider = u.f.divider /\ g.skip = u.f.skip
    BY <1>0 DEF Sequencer
  <2>2. [u EXCEPT !.f.open = b] = [u EXCEPT !.f = g]
    OBVIOUS
  <2> HIDE DEF g
  <2> QED BY <1>1, <2>1, <2>2
<1>3. Good([u EXCEPT !.f.double_speed = ds, !.f.lag = lag])
  <2> DEFINE g == [u.f EXCEPT !.double_speed = ds, !.lag = lag]
  <2>1. /\ g \in Sequencer /\ g.prev_div = u.f.prev_div /\ g.pending = u.f.pending
        /\ g.power = u.f.power /\ g.divider = u.f.divider /\ g.skip = u.f.skip
    BY <1>0 DEF Sequencer
  <2>2. [u EXCEPT !.f.double_speed = ds, !.f.lag = lag] = [u EXCEPT !.f = g]
    BY <1>0 DEF Whole
  <2> HIDE DEF g
  <2> QED BY <1>1, <2>1, <2>2
<1>4. Good([u EXCEPT !.f.double_speed = ds])
  <2> DEFINE g == [u.f EXCEPT !.double_speed = ds]
  <2>1. /\ g \in Sequencer /\ g.prev_div = u.f.prev_div /\ g.pending = u.f.pending
        /\ g.power = u.f.power /\ g.divider = u.f.divider /\ g.skip = u.f.skip
    BY <1>0 DEF Sequencer
  <2>2. [u EXCEPT !.f.double_speed = ds] = [u EXCEPT !.f = g]
    OBVIOUS
  <2> HIDE DEF g
  <2> QED BY <1>1, <2>1, <2>2
<1> QED BY <1>2, <1>3, <1>4

\* ... and through the bookkeeping every access of the CPU shares.
LEMMA AccessGood == ASSUME NEW u, Good(u), Access(u) PROVE Good(State)'
  BY FlagsKept, BecomeGood DEF Access

\* The late edge that an access plays leaves a good record.
LEMMA ReadGood ==
  ASSUME NEW u, Good(u), NEW b \in BOOLEAN PROVE Good(read_byte(u, b))
  BY TickKept DEF read_byte

\* Ticks, DIV writes, STOP and speed switches keep the invariant.
LEMMA ClockingKeeps == Good(State) /\ Clocking => Good(State)'
<1> SUFFICES ASSUME Good(State), Clocking PROVE Good(State)'
  OBVIOUS
<1>0. State.f = f /\ f \in Sequencer
  BY DEF Good, Whole, State
<1>1. CASE Tick
  BY <1>1, TickKept, FlagsKept, BecomeGood DEF Tick
<1>2. CASE WriteDIV
  BY <1>2, ResetKept, AccessGood DEF WriteDIV
<1>3. ASSUME NEW b \in BOOLEAN, Stop(b) PROVE Good(State)'
  BY <1>3, ReadGood, ResetKept, AccessGood DEF Stop
<1>4. ASSUME NEW b \in BOOLEAN, StopLeave(b) PROVE Good(State)'
  <2> DEFINE u == [State EXCEPT !.f.double_speed = FALSE, !.f.lag = 1 - State.f.lag]
             w == read_byte(div_write_switching(read_byte(u, b)), b)
  <2>1. 1 - State.f.lag \in {0, 1}
    BY <1>0 DEF Sequencer
  <2>2. Good(u)
    BY <2>1, FlagsKept
  <2>3. Access(w)
    BY <1>4 DEF StopLeave
  <2> HIDE DEF u
  <2>4. Good(w)
    BY <2>2, ReadGood, ResetKept
  <2> HIDE DEF w
  <2> QED BY <2>3, <2>4, AccessGood
<1>5. ASSUME NEW b \in BOOLEAN, NEW p \in BOOLEAN, StopEnter(b, p) PROVE Good(State)'
  <2> DEFINE u == read_byte(div_write(read_byte(State, b)), b)
             v == [u EXCEPT !.f.double_speed = TRUE]
             w == IF p THEN tick(v, TRUE) ELSE v
  <2>1. Access(w)
    BY <1>5 DEF StopEnter
  <2>2. Good(u)
    BY ReadGood, ResetKept
  <2> HIDE DEF u
  <2>3. Good(v)
    BY <2>2, FlagsKept
  <2> HIDE DEF v
  <2>4. Good(w)
    BY <2>3, TickKept
  <2> HIDE DEF w
  <2> QED BY <2>1, <2>4, AccessGood
<1> QED BY <1>1, <1>2, <1>3, <1>4, <1>5 DEF Clocking

\* A write moves the channel, and the history of its envelope, under a resting sequencer.
LEMMA ChannelGood ==
  ASSUME Good(State), NEW d \in Channel, NEW k \in History, k.falls = h.falls,
         k.high = h.high, d.enabled => d.counter > 0 /\ d.dac /\ f.power
  PROVE  Good([State EXCEPT !.c = d, !.h = k])
<1>0. State = [div |-> div, f |-> f, c |-> c, h |-> h]
  BY DEF State
<1> DEFINE w == [State EXCEPT !.c = d, !.h = k]
<1>1. w \in Whole /\ w.div = div /\ w.f = f /\ w.c = d /\ w.h = k
  BY <1>0 DEF Good, Whole
<1> HIDE DEF w
<1>2. Good(w)
  BY <1>0, <1>1 DEF Good, PlayedEdges, Plays
<1> QED BY <1>2 DEF w

\* Replacing the channel and putting the history back is replacing the channel.
LEMMA ReplaceBoth ==
  ASSUME NEW d
  PROVE  [State EXCEPT !.c = d, !.h = h] = [div |-> div, f |-> f, c |-> d, h |-> h]
<1>1. [State EXCEPT !.c = d, !.h = h] = [[State EXCEPT !.c = d] EXCEPT !.h = h]
  OBVIOUS
<1>2. [State EXCEPT !.c = d] = [div |-> div, f |-> f, c |-> d, h |-> h]
  BY DEF State
<1> QED BY <1>1, <1>2

\* Register writes and the power switch keep the invariant.
LEMMA WriteKeeps == Good(State) /\ Write => Good(State)'
<1> SUFFICES ASSUME Good(State), Write PROVE Good(State)'
  OBVIOUS
<1>0. /\ State = [div |-> div, f |-> f, c |-> c, h |-> h] /\ State \in Whole
      /\ f \in Sequencer /\ c \in Channel /\ h \in History /\ c.env \in Envelope
      /\ c.enabled => c.counter > 0 /\ c.dac /\ f.power
  BY DEF Good, Whole, State, Plays, Channel
<1>1. ASSUME NEW n \in 1..LengthMax, WriteNRx1(n) PROVE Good(State)'
  <2> DEFINE d == [c EXCEPT !.counter = n]
  <2>1. d \in Channel /\ d.enabled = c.enabled /\ d.dac = c.dac /\ d.counter > 0
    BY <1>0, ApuAssumption DEF Channel
  <2>2. [State EXCEPT !.c.counter = n] = [State EXCEPT !.c = d, !.h = h]
    <3>1. [State EXCEPT !.c.counter = n] = [div |-> div, f |-> f, c |-> d, h |-> h]
      BY <1>0
    <3>2. [State EXCEPT !.c = d, !.h = h] = [div |-> div, f |-> f, c |-> d, h |-> h]
      BY Zenon, ReplaceBoth
    <3> QED BY <3>1, <3>2
  <2> HIDE DEF d
  <2>3. Good([State EXCEPT !.c = d, !.h = h])
    BY <1>0, <2>1, ChannelGood
  <2> QED BY <1>1, <2>2, <2>3, AccessGood DEF WriteNRx1
<1>2. ASSUME NEW v \in Levels, WriteNRx2(v) PROVE Good(State)'
  <2> DEFINE on == c.enabled /\ dac_enabled(v)
             e == IF dac_enabled(v) /\ c.enabled THEN write_active(c.env, v)
                  ELSE written(c.env, v)
             d == [c EXCEPT !.dac = dac_enabled(v), !.enabled = on, !.env = e]
             k == [h EXCEPT !.clean = FALSE, !.counts = 0]
  <2>1. v \in Level /\ dac_enabled(v) \in BOOLEAN /\ c.enabled \in BOOLEAN
    BY <1>0, ApuAssumption DEF Level, dac_enabled, Channel
  <2>2. e \in Envelope /\ on \in BOOLEAN
    BY <1>0, <2>1, EnvelopeKept, WriteActiveKept
  <2>3. Access([State EXCEPT !.c.dac = dac_enabled(v), !.c.enabled = on, !.h.clean = FALSE,
                             !.h.counts = 0, !.c.env = e])
    BY <1>0, <1>2 DEF WriteNRx2
  <2> HIDE DEF e
  <2>4. Access([State EXCEPT !.c = d, !.h = k])
    BY <1>0, <2>3
  <2>5. d \in Channel /\ d.enabled = on /\ d.dac = dac_enabled(v) /\ d.counter = c.counter
    BY <1>0, <2>1, <2>2 DEF Channel
  <2>6. k \in History /\ k.falls = h.falls /\ k.high = h.high
    <3>1. 0 \in 0..(CountMod - 1)
      BY ApuAssumption
    <3> QED BY <1>0, <3>1 DEF History
  <2> HIDE DEF d, k
  <2>7. Good([State EXCEPT !.c = d, !.h = k])
    BY <1>0, <2>5, <2>6, ChannelGood
  <2> QED BY <2>4, <2>7, AccessGood
<1>3. ASSUME NEW enable \in BOOLEAN, NEW trigger \in BOOLEAN, WriteNRx4(enable, trigger)
      PROVE  Good(State)'
  <2> DEFINE d == length_written(c, enable, trigger)
             x == [d EXCEPT !.enabled = d.dac, !.env = triggered(d.env)]
             k == [h EXCEPT !.counts = 0, !.clean = TRUE]
  <2>1. /\ d \in Channel /\ d.dac = c.dac /\ d.env = c.env /\ (trigger => d.counter > 0)
        /\ d.enabled => c.enabled /\ (c.counter > 0 => d.counter > 0)
    BY <1>0, LengthWritten
  <2>2. f.power
    BY <1>3 DEF WriteNRx4
  <2>3. Access(IF trigger
               THEN [State EXCEPT !.c = [d EXCEPT !.enabled = d.dac, !.env = triggered(d.env)],
                                  !.h.counts = 0, !.h.clean = TRUE]
               ELSE [State EXCEPT !.c = d])
    BY <1>3 DEF WriteNRx4
  <2> HIDE DEF d
  <2>4. CASE trigger
    <3>1. triggered(d.env) \in Envelope
      BY <1>0, <2>1, EnvelopeKept
    <3>2. x \in Channel /\ x.enabled = d.dac /\ x.dac = d.dac /\ x.counter = d.counter
      BY <2>1, <3>1 DEF Channel
    <3>3. k \in History /\ k.falls = h.falls /\ k.high = h.high
      <4>1. 0 \in 0..(CountMod - 1)
        BY ApuAssumption
      <4> QED BY <1>0, <4>1 DEF History
    <3>4. Access([State EXCEPT !.c = x, !.h = k])
      BY <1>0, <2>3, <2>4
    <3> HIDE DEF x, k
    <3>5. Good([State EXCEPT !.c = x, !.h = k])
      BY <2>1, <2>2, <2>4, <3>2, <3>3, ChannelGood
    <3> QED BY <3>4, <3>5, AccessGood
  <2>5. CASE ~trigger
    <3>1. Good([State EXCEPT !.c = d, !.h = h])
      BY <1>0, <2>1, <2>2, ChannelGood
    <3>2. [State EXCEPT !.c = d] = [State EXCEPT !.c = d, !.h = h]
      <4>1. [State EXCEPT !.c = d] = [div |-> div, f |-> f, c |-> d, h |-> h]
        BY <1>0
      <4>2. [State EXCEPT !.c = d, !.h = h] = [div |-> div, f |-> f, c |-> d, h |-> h]
        BY Zenon, ReplaceBoth
      <4> QED BY <4>1, <4>2
    <3> QED BY <2>3, <2>5, <3>1, <3>2, AccessGood
  <2> QED BY <2>4, <2>5
<1>4. CASE PowerOff
  <2> DEFINE n == IF f.cgb THEN 0 ELSE c.counter
             g == [f EXCEPT !.power = FALSE, !.pending = "none"]
             k == [falls |-> 0, high |-> FALSE, counts |-> 0, clean |-> FALSE]
             d == [enabled |-> FALSE, dac |-> FALSE, len |-> FALSE, env |-> Silent,
                   counter |-> n]
             w == [State EXCEPT !.f = g, !.h = k, !.c = d]
  <2>1. Access([State EXCEPT !.f.power = FALSE, !.f.pending = "none", !.h = k, !.c = d])
    BY <1>0, <1>4 DEF PowerOff
  <2>2. Access(w)
    BY <1>0, <2>1
  <2>3. /\ g \in Sequencer /\ ~g.power /\ g.pending = "none" /\ g.prev_div = f.prev_div
    BY <1>0 DEF Sequencer
  <2>4. n \in 0..LengthMax
    BY <1>0, ApuAssumption DEF Channel
  <2>5. Silent \in Envelope /\ k \in History
    BY ApuAssumption DEF Silent, Envelope, History
  <2> HIDE DEF n
  <2>6. d \in Channel /\ ~d.enabled
    BY <2>4, <2>5 DEF Channel
  <2> HIDE DEF g, k, d
  <2>7. w \in Whole /\ w.div = div /\ w.f = g /\ w.c = d /\ w.h = k
    BY <1>0, <2>3, <2>5, <2>6 DEF Whole
  <2> HIDE DEF w
  <2>8. div = f.prev_div
    BY <1>0 DEF Good
  <2>9. Good(w)
    BY <2>3, <2>6, <2>7, <2>8 DEF Good, Plays
  <2> QED BY <2>2, <2>9, AccessGood
<1>5. CASE PowerOn
  <2> DEFINE up == high(f.prev_div, f.double_speed)
             lag == IF f.double_speed THEN 0 ELSE 1
             skip == IF up THEN "Skip" ELSE "Inactive"
             at == IF up THEN 1 ELSE 0
             g == [f EXCEPT !.power = TRUE, !.lag = lag, !.skip = skip, !.divider = at]
             k == [h EXCEPT !.falls = 0, !.high = up]
             w == [State EXCEPT !.f = g, !.h = k]
  <2>1. ~f.power
    BY <1>5 DEF PowerOn
  <2>2. Access([State EXCEPT !.f.power = TRUE, !.f.lag = lag, !.f.skip = skip,
                             !.f.divider = at, !.h.falls = 0, !.h.high = up])
    BY <1>0, <1>5 DEF PowerOn
  <2>3. up \in BOOLEAN /\ lag \in {0, 1} /\ at \in 0..(FrameSteps - 1)
    <3>1. up \in BOOLEAN
      <4>1. CASE f.double_speed
        BY <4>1 DEF high
      <4>2. CASE ~f.double_speed
        BY <4>2 DEF high
      <4> QED BY <4>1, <4>2
    <3> QED BY <3>1, ApuAssumption
  <2>4. skip = Phase(0, up) /\ at = Place(0, up) /\ skip \in {"Skip", "Inactive"}
    <3>1. 0 % FrameSteps = 0
      BY ApuAssumption, SmallMod
    <3> QED BY <2>3, <3>1 DEF Phase, Place
  <2> HIDE DEF up, lag, skip, at
  <2>5. Access(w)
    BY <1>0, <2>2
  <2>6. /\ g \in Sequencer /\ g.power /\ g.pending = f.pending /\ g.prev_div = f.prev_div
        /\ g.skip = skip /\ g.divider = at
    BY <1>0, <2>3, <2>4 DEF Sequencer
  <2>7. k \in History /\ k.falls = 0 /\ k.high = up
    <3>1. 0 \in 0..(FrameSteps + 2)
      BY ApuAssumption
    <3> QED BY <1>0, <2>3, <3>1 DEF History
  <2> HIDE DEF g, k
  <2>8. w \in Whole /\ w.div = div /\ w.f = g /\ w.c = c /\ w.h = k
    BY <1>0, <2>6, <2>7 DEF Whole
  <2> HIDE DEF w
  <2>9. div = f.prev_div /\ f.pending # "Falling" /\ ~c.enabled
    BY <1>0, <2>1 DEF Good
  <2>10. Good(w)
    BY <2>4, <2>6, <2>7, <2>8, <2>9 DEF Good, PlayedEdges, At, Plays
  <2> QED BY <2>5, <2>10, AccessGood
<1> QED BY <1>1, <1>2, <1>3, <1>4, <1>5 DEF Write
-----------------------------------------------------------------------------
\* The unit powers on in a good state.
LEMMA InitGood == Init => Good(State)
<1> SUFFICES ASSUME Init PROVE Good(State)
  OBVIOUS
<1>1. Silent \in Envelope
  BY ApuAssumption DEF Silent, Envelope
<1>2. c \in Channel /\ ~c.enabled
  BY <1>1, ApuAssumption DEF Init, Channel
<1>3. /\ f \in Sequencer /\ f.pending = "none" /\ f.skip = "Inactive" /\ f.prev_div = div
      /\ div \in 0..(4 * Tap - 1) /\ f.divider \in 0..(FrameSteps - 1)
  BY DEF Init, Sequencer
<1>4. h \in History /\ h.falls = f.divider /\ ~h.high
  BY <1>3, ApuAssumption DEF Init, History
<1>5. Place(h.falls, h.high) = f.divider /\ Phase(h.falls, h.high) = "Inactive"
  <2>1. f.divider % FrameSteps = f.divider
    BY <1>3, ApuAssumption, SmallMod
  <2> QED BY <1>4, <2>1 DEF Place, Phase
<1> QED BY <1>2, <1>3, <1>4, <1>5 DEF Good, State, Whole, PlayedEdges, At, Plays

\* The inductive invariant: the divider the unit saw last is the divider, an edge waits only
\* at a divider of zero, and divider and skip phase are functions of the edges played.
THEOREM Inductive == Spec => []Good(State)
<1>1. Good(State) /\ [Next]_vars => Good(State)'
  <2>1. Good(State) /\ UNCHANGED vars => Good(State)'
    <3>1. UNCHANGED vars => State' = State
      BY DEF vars, State
    <3> QED BY <3>1
  <2> QED BY <2>1, ClockingKeeps, WriteKeeps DEF Next
<1> QED BY <1>1, InitGood, PTL DEF Spec

\* Every field of the sequencer and the channel keeps its width: the wrapping volume and
\* countdown of the envelope (envelope.rs:133-180) and the length counter among them.
THEOREM TypeCorrect == Spec => []TypeOK
<1>1. Good(State) => TypeOK
  BY DEF Good, State, Whole, TypeOK, History
<1> QED BY <1>1, Inductive, PTL

\* For every tap and number of steps no edge of DIV-APU is lost or played twice over DIV
\* writes, speed switches and power cycles (mod.rs:283-323, 442-474, 686-705).
THEOREM SequencerExact == Spec => []SequencerFollowsTap
<1>1. Good(State) => SequencerFollowsTap
  BY DEF Good, State, SequencerFollowsTap, PlayedEdges, At, Place
<1> QED BY <1>1, Inductive, PTL

\* For every length and whatever is written, no channel plays on an empty length counter,
\* with its DAC off or in an unpowered unit (length.rs:43-88).
THEOREM PlayingCounts == Spec => []PlayingHasLength
<1>1. Good(State) => PlayingHasLength
  BY DEF Good, State, Plays, PlayingHasLength
<1> QED BY <1>1, Inductive, PTL
-----------------------------------------------------------------------------
(* The pace of the envelope and the clocks of the length counter. *)

\* Counts n of an envelope nobody has rewritten: an armed one has counted its period and
\* knows whether the volume is at its end; before that the counts and the countdown add
\* up to the period, or the period is counted already.
PaceOf(e, n) ==
  IF e.clock
  THEN e.countdown = e.period /\ n = e.period /\ e.period # 0 /\ (e.should_lock <=> at_rail(e))
  ELSE n = e.period \/ n + e.countdown = e.period
Paced(u) == u.h.clean => PaceOf(u.c.env, u.h.counts)

\* The volume moves one step in the direction of the envelope, the period counted.
Moves(e, n, k) ==
  /\ k.volume = e.volume + (IF e.add THEN 1 ELSE -1)
  /\ n = e.period

\* The volume one step up or down inside its range does not wrap.
LEMMA SteppedInside ==
  ASSUME NEW e \in Envelope, ~at_rail(e)
  PROVE  stepped(e, e.add) = [e EXCEPT !.volume = e.volume + (IF e.add THEN 1 ELSE -1)]
<1> DEFINE m == VolMax + 1
           x == e.volume
<1>1. m \in Nat /\ m > 1 /\ m = VolMax + 1 /\ VolMax \in Nat /\ x \in 0..VolMax
  BY ApuAssumption DEF Envelope
<1>2. x # IF e.add THEN VolMax ELSE 0
  BY DEF at_rail
<1>3. wrapped(x + 1) = (x + 1) % m /\ wrapped(x + VolMax) = (x + VolMax) % m
  BY DEF wrapped
<1>4. stepped(e, e.add) = [e EXCEPT !.volume = IF e.add THEN wrapped(x + 1)
                                                        ELSE wrapped(x + VolMax)]
  BY DEF stepped
<1>5. e.add \in BOOLEAN
  BY DEF Envelope
<1> HIDE DEF m, x
<1>6. e.add => (x + 1) % m = x + 1
  BY <1>1, <1>2, SmallMod
<1>7. ~e.add => (x + VolMax) % m = x - 1
  <2> SUFFICES ASSUME ~e.add PROVE (x + VolMax) % m = x - 1
    OBVIOUS
  <2>1. x > 0
    BY <1>1, <1>2
  <2> DEFINE y == x + VolMax
  <2>2. y \in 0..(2 * m - 1) /\ ~(y < m) /\ y - m = x - 1
    BY <1>1, <2>1
  <2> HIDE DEF y
  <2>3. y % m = x - 1
    BY <1>1, <2>2, SmallMod
  <2> QED BY <2>3 DEF y
<1>8. (IF e.add THEN wrapped(x + 1) ELSE wrapped(x + VolMax))
        = x + (IF e.add THEN 1 ELSE -1)
  BY <1>1, <1>3, <1>5, <1>6, <1>7
<1> QED BY <1>4, <1>8 DEF x

\* Disarming locks an envelope that was armed at the end of its range.
LEMMA Disarmed ==
  ASSUME NEW e \in Envelope, e.clock
  PROVE  LET s == set_clock(e, FALSE)
         IN /\ s \in Envelope /\ ~s.clock /\ s.countdown = e.countdown /\ s.period = e.period
            /\ s.volume = e.volume /\ s.add = e.add /\ (s.locked <=> e.locked \/ e.should_lock)
<1>1. set_clock(e, FALSE) = [e EXCEPT !.clock = FALSE, !.locked = e.locked \/ e.should_lock]
  BY DEF set_clock
<1>2. (e.locked \/ e.should_lock) \in BOOLEAN
  BY DEF Envelope
<1> QED BY <1>1, <1>2 DEF Envelope

\* The countdown steps down by one, and wraps below zero.
LEMMA CountedDown ==
  ASSUME NEW e \in Envelope, ~e.clock
  PROVE  LET k == countdown_event(e)
         IN /\ k \in Envelope /\ ~k.clock /\ k.period = e.period /\ k.volume = e.volume
            /\ k.add = e.add /\ (e.countdown > 0 => k.countdown = e.countdown - 1)
<1> DEFINE x == e.countdown
           y == x + CountMod - 1
<1>1. CountMod \in Nat /\ CountMod > 1 /\ x \in 0..(CountMod - 1)
  BY ApuAssumption DEF Envelope
<1>2. countdown_event(e) = [e EXCEPT !.countdown = (x + CountMod - 1) % CountMod]
  BY DEF countdown_event
<1>3. countdown_event(e) \in Envelope
  BY EnvelopeKept
<1> HIDE DEF x
<1>4. x > 0 => y \in 0..(2 * CountMod - 1) /\ ~(y < CountMod) /\ y - CountMod = x - 1
  BY <1>1
<1>5. y = x + CountMod - 1
  OBVIOUS
<1> HIDE DEF y
<1>6. x > 0 => y % CountMod = x - 1
  BY <1>1, <1>4, SmallMod
<1> QED BY <1>2, <1>3, <1>5, <1>6 DEF x, Envelope

\* The envelope on a step of the sequencer.  An armed one is ticked: it moves the volume
\* unless it is locked; otherwise a countdown step may count.
LEMMA EnvelopedPace ==
  ASSUME NEW e \in Envelope, NEW k \in 0..(FrameSteps - 1), NEW n \in 0..(CountMod - 1)
  PROVE  LET d == enveloped(e, k)
             m == IF d.volume # e.volume THEN 0
                  ELSE IF k = FrameSteps - 1 /\ n < d.period THEN n + 1 ELSE n
         IN /\ d.add = e.add /\ d.period = e.period
            /\ PaceOf(e, n) => PaceOf(d, m) /\ (d.volume = e.volume \/ Moves(e, n, d))
<1> DEFINE d == enveloped(e, k)
           m == IF d.volume # e.volume THEN 0
                ELSE IF k = FrameSteps - 1 /\ n < d.period THEN n + 1 ELSE n
           s == set_clock(e, FALSE)
<1> SUFFICES /\ d.add = e.add /\ d.period = e.period
             /\ PaceOf(e, n) => PaceOf(d, m) /\ (d.volume = e.volume \/ Moves(e, n, d))
  OBVIOUS
<1>0. e.period \in 0..(CountMod - 1) /\ e.countdown \in 0..(CountMod - 1) /\ e.clock \in BOOLEAN
  BY DEF Envelope
<1>1. CASE e.clock
  <2>1. d = IF s.locked \/ e.period = 0 THEN s ELSE stepped(s, e.add)
    BY <1>1 DEF enveloped, countdown_event, tick_event
  <2>2. /\ s \in Envelope /\ ~s.clock /\ s.countdown = e.countdown /\ s.period = e.period
        /\ s.volume = e.volume /\ s.add = e.add /\ (s.locked <=> e.locked \/ e.should_lock)
    BY <1>1, Disarmed
  <2>3. CASE s.locked \/ e.period = 0
    <3>1. d = s
      BY <2>1, <2>3
    <3> HIDE DEF d, s
    <3> QED BY <1>0, <1>1, <2>2, <3>1 DEF PaceOf
  <2>4. CASE ~(s.locked \/ e.period = 0)
    <3>1. d = stepped(s, s.add)
      BY <2>1, <2>2, <2>4
    <3>2. d.add = e.add /\ d.period = e.period /\ d.clock = s.clock /\ d.countdown = s.countdown
      BY <2>2, <3>1 DEF stepped, Envelope
    <3>3. ASSUME PaceOf(e, n)
          PROVE  PaceOf(d, m) /\ Moves(e, n, d)
      <4>1. ~at_rail(s)
        BY <1>1, <2>2, <2>4, <3>3 DEF PaceOf, at_rail
      <4>2. d = [s EXCEPT !.volume = s.volume + (IF s.add THEN 1 ELSE -1)]
        BY <2>2, <3>1, <4>1, SteppedInside
      <4>3. d.volume = e.volume + (IF e.add THEN 1 ELSE -1)
        BY <2>2, <4>2 DEF Envelope
      <4>4. e.volume \in Int /\ e.add \in BOOLEAN
        BY DEF Envelope
      <4> HIDE DEF d, s
      <4>5. d.volume # e.volume
        BY <4>3, <4>4
      <4>6. m = 0
        BY <4>5
      <4> HIDE DEF m
      <4> QED BY <1>0, <1>1, <2>2, <3>2, <3>3, <4>3, <4>6 DEF PaceOf, Moves
    <3> QED BY <3>2, <3>3
  <2> QED BY <2>3, <2>4
<1>2. CASE ~e.clock
  <2> DEFINE x == countdown_event(e)
  <2>1. d = IF k = FrameSteps - 1 THEN x ELSE e
    BY <1>2, CountedDown DEF enveloped, tick_event
  <2>2. /\ ~x.clock /\ x.period = e.period /\ x.volume = e.volume /\ x.add = e.add
        /\ e.countdown > 0 => x.countdown = e.countdown - 1
    BY <1>2, CountedDown
  <2> HIDE DEF d, x
  <2>3. CASE k = FrameSteps - 1
    BY <1>0, <1>2, <2>1, <2>2, <2>3 DEF PaceOf
  <2>4. CASE k # FrameSteps - 1
    BY <1>0, <1>2, <2>1, <2>4 DEF PaceOf
  <2> QED BY <2>3, <2>4
<1> QED BY <1>0, <1>1, <1>2

\* Arming: the countdown has run out, so the period is counted.
LEMMA ArmPace ==
  ASSUME NEW e \in Envelope, NEW n \in 0..(CountMod - 1), NEW b \in BOOLEAN
  PROVE  LET d == arm(e, b)
         IN /\ d.add = e.add /\ d.period = e.period /\ d.volume = e.volume
            /\ PaceOf(e, n) => PaceOf(d, n)
<1> DEFINE x == [e EXCEPT !.countdown = e.period]
           v == e.period # 0
<1>0. e.period \in 0..(CountMod - 1) /\ e.countdown \in 0..(CountMod - 1) /\ e.clock \in BOOLEAN
  BY DEF Envelope
<1>1. CASE ~(b /\ e.countdown = 0)
  BY <1>1 DEF arm
<1>2. CASE b /\ e.countdown = 0
  <2>1. arm(e, b) = set_clock(x, v)
    BY <1>2 DEF arm
  <2>2. /\ x \in Envelope /\ x.period = e.period /\ x.volume = e.volume /\ x.add = e.add
        /\ x.clock = e.clock /\ x.countdown = e.period /\ x.should_lock = e.should_lock
    BY DEF Envelope
  <2>3. PaceOf(e, n) => ~e.clock /\ n = e.period
    BY <1>0, <1>2 DEF PaceOf
  <2> HIDE DEF x
  <2>4. CASE v = x.clock
    BY <1>0, <2>1, <2>2, <2>3, <2>4 DEF set_clock, PaceOf
  <2>5. CASE v /\ ~x.clock
    <3> DEFINE y == [x EXCEPT !.clock = TRUE, !.should_lock = at_rail(x)]
    <3>1. arm(e, b) = y
      BY <2>1, <2>5 DEF set_clock
    <3>2. at_rail(x) \in BOOLEAN
      BY DEF at_rail
    <3>3. /\ y.period = e.period /\ y.volume = e.volume /\ y.add = e.add /\ y.clock
          /\ y.countdown = e.period /\ (y.should_lock <=> at_rail(x))
      BY <2>2, <3>2 DEF Envelope
    <3>4. at_rail(y) <=> at_rail(x)
      BY <2>2, <3>3 DEF at_rail
    <3> HIDE DEF y
    <3> QED BY <2>3, <2>5, <3>1, <3>3, <3>4 DEF PaceOf
  <2>6. CASE ~v /\ x.clock
    <3>1. arm(e, b) = set_clock(x, FALSE)
      BY <2>1, <2>6
    <3> QED BY <2>2, <2>3, <2>6, <3>1, Disarmed
  <2> QED BY <2>2, <2>4, <2>5, <2>6, <1>0
<1> QED BY <1>1, <1>2
-----------------------------------------------------------------------------
(* What a run of the clock does to the channel: nothing, or one step. *)

\* From u to w no step of the sequencer was played.
Still(u, w) ==
  /\ w.f.divider = u.f.divider /\ w.f.skip = u.f.skip
  /\ w.c.len = u.c.len /\ w.c.counter = u.c.counter
  /\ w.c.env.volume = u.c.env.volume /\ w.c.env.add = u.c.env.add
  /\ w.c.env.period = u.c.env.period
  /\ w.h.counts = u.h.counts /\ w.h.clean = u.h.clean
  /\ Paced(u) => Paced(w)
\* From u to w one was.
Once(u, w) ==
  /\ u.f.skip = "Skipped" => w.f.skip = "Inactive"
  /\ w.c.len = u.c.len
  /\ u.f.skip # "Skipped" =>
       w.c.counter = IF Gate(w.f, w.c) /\ ~Gate(u.f, u.c) /\ u.c.counter > 0
                     THEN u.c.counter - 1 ELSE u.c.counter
  /\ w.c.env.add = u.c.env.add /\ w.c.env.period = u.c.env.period
  /\ w.h.clean = u.h.clean
  /\ Paced(u) => /\ Paced(w)
                 /\ u.h.clean => w.c.env.volume = u.c.env.volume
                                 \/ Moves(u.c.env, u.h.counts, w.c.env)
\* No edge waits and none can fall.
Calm(u) == u.f.pending # "Falling" /\ (u.f.power => ~high(u.div, u.f.double_speed))

\* Nothing before or after a step is still that step.
LEMMA Chained ==
  ASSUME NEW u, NEW v, NEW w
  PROVE  /\ Still(u, v) /\ Still(v, w) => Still(u, w)
         /\ Still(u, v) /\ Once(v, w) => Once(u, w)
         /\ Once(u, v) /\ Still(v, w) => Once(u, w)
<1>1. Still(u, v) /\ Still(v, w) => Still(u, w)
  BY DEF Still
<1>2. Still(u, v) /\ Once(v, w) => Once(u, w)
  BY DEF Still, Once, Gate, Moves
<1>3. Once(u, v) /\ Still(v, w) => Once(u, w)
  BY DEF Still, Once, Gate, Moves
<1> QED BY <1>1, <1>2, <1>3

\* An even number of steps: the next one has the other parity.
LEMMA OtherParity ==
  ASSUME NEW x \in 0..(FrameSteps - 1)
  PROVE  ((x + 1) % FrameSteps) % 2 = 1 <=> x % 2 # 1
<1>1. FrameSteps \in Nat /\ FrameSteps > 2 /\ FrameSteps % 2 = 0
  BY ApuAssumption
<1>2. CASE x + 1 < FrameSteps
  <2>1. (x + 1) % FrameSteps = x + 1
    BY <1>1, <1>2, SmallMod
  <2>2. (x + 1) % 2 = 1 <=> x % 2 # 1
    OBVIOUS
  <2> QED BY <2>1, <2>2
<1>3. CASE x + 1 = FrameSteps
  <2>1. (x + 1) % FrameSteps = 0
    BY <1>1, <1>3, SmallMod
  <2>2. x % 2 = 1
    BY <1>1, <1>3
  <2> QED BY <2>1, <2>2
<1> QED BY <1>1, <1>2, <1>3

\* The length counter on a step, and the envelope with it.
LEMMA ClockedParts ==
  ASSUME NEW d \in Channel, NEW k \in 0..(FrameSteps - 1)
  PROVE  LET x == clocked(d, k)
         IN /\ x.len = d.len /\ x.env = enveloped(d.env, k)
            /\ x.counter = IF k % 2 = 1 /\ d.len /\ d.counter > 0 THEN d.counter - 1
                           ELSE d.counter
<1>1. enveloped(d.env, k) \in Envelope
  BY EnvelopeKept DEF enveloped, Channel
<1> DEFINE v == enveloped(d.env, k)
           e == [d EXCEPT !.env = v]
<1> HIDE DEF v
<1>2. e \in Channel /\ e.len = d.len /\ e.counter = d.counter /\ e.env = v
  BY <1>1 DEF Channel, v
<1>3. clocked(d, k) = IF k % 2 = 1 THEN length_clocked(e) ELSE e
  BY DEF clocked, v
<1> HIDE DEF e
<1>4. CASE k % 2 = 1 /\ e.len /\ e.counter > 0
  <2> DEFINE on == e.enabled /\ e.counter # 1
             x == [e EXCEPT !.counter = e.counter - 1, !.enabled = on]
  <2>1. clocked(d, k) = x
    BY <1>3, <1>4 DEF length_clocked
  <2> HIDE DEF on
  <2>2. x.len = e.len /\ x.env = e.env /\ x.counter = e.counter - 1
    BY <1>2 DEF Channel
  <2> HIDE DEF x
  <2> QED BY <1>2, <1>4, <2>1, <2>2 DEF v
<1>5. CASE ~(k % 2 = 1 /\ e.len /\ e.counter > 0)
  BY <1>2, <1>3, <1>5 DEF length_clocked, v
<1> QED BY <1>4, <1>5

\* What the sequencer becomes on a step.
LEMMA AdvancedParts ==
  ASSUME NEW g \in Sequencer
  PROVE  /\ g.skip \in {"Inactive", "Skip", "Skipped"} /\ g.divider \in 0..(FrameSteps - 1)
         /\ advanced(g).divider \in 0..(FrameSteps - 1)
         /\ g.skip = "Skip" => advanced(g).divider = g.divider
         /\ g.skip = "Skipped" => advanced(g).skip = "Inactive"
         /\ g.skip = "Inactive" => (advanced(g).divider % 2 = 1 <=> g.divider % 2 # 1)
<1>0. /\ g.skip \in {"Inactive", "Skip", "Skipped"} /\ g.divider \in 0..(FrameSteps - 1)
      /\ FrameSteps \in Nat /\ FrameSteps > 0
  BY ApuAssumption DEF Sequencer
<1>1. CASE g.skip = "Skip"
  BY <1>0, <1>1 DEF advanced, Sequencer
<1>2. CASE g.skip = "Skipped"
  BY <1>0, <1>2 DEF advanced, Sequencer
<1>3. CASE g.skip = "Inactive"
  <2> DEFINE n == (g.divider + 1) % FrameSteps
  <2>1. n \in 0..(FrameSteps - 1) /\ (n % 2 = 1 <=> g.divider % 2 # 1)
    BY <1>0, ModRange, OtherParity
  <2>2. advanced(g) = [g EXCEPT !.divider = n]
    BY <1>3 DEF advanced
  <2> HIDE DEF n
  <2>3. advanced(g).divider = n
    BY <2>2 DEF Sequencer
  <2> QED BY <1>0, <1>3, <2>1, <2>3
<1> QED BY <1>0, <1>1, <1>2, <1>3

\* One step of the sequencer.
LEMMA EventEffect ==
  ASSUME NEW u \in Whole
  PROVE  Once(u, div_event(u))
<1> DEFINE g == advanced(u.f)
           k == g.divider
           d == clocked(u.c, k)
           n == recounted(u, d, k)
           w == div_event(u)
<1>0. /\ u.f \in Sequencer /\ u.c \in Channel /\ u.h \in History /\ u.c.env \in Envelope
      /\ u.h.counts \in 0..(CountMod - 1) /\ u.h.clean \in BOOLEAN
  BY DEF Whole, History, Channel
<1>1. /\ u.f.skip \in {"Inactive", "Skip", "Skipped"} /\ k \in 0..(FrameSteps - 1)
      /\ u.f.skip = "Skip" => k = u.f.divider
      /\ u.f.skip = "Skipped" => g.skip = "Inactive"
      /\ u.f.skip = "Inactive" => (k % 2 = 1 <=> u.f.divider % 2 # 1)
  BY <1>0, AdvancedParts
<1>2. w = IF u.f.skip = "Skip" THEN [u EXCEPT !.f = g]
          ELSE [u EXCEPT !.f = g, !.c = d, !.h = [u.h EXCEPT !.counts = n]]
  BY <1>0 DEF div_event, Whole
<1>3. /\ d.len = u.c.len /\ d.env = enveloped(u.c.env, k)
      /\ d.counter = IF k % 2 = 1 /\ u.c.len /\ u.c.counter > 0 THEN u.c.counter - 1
                     ELSE u.c.counter
  BY <1>0, <1>1, ClockedParts
<1>4. /\ d.env.add = u.c.env.add /\ d.env.period = u.c.env.period
      /\ u.h.clean /\ PaceOf(u.c.env, u.h.counts) =>
           PaceOf(d.env, n) /\ (d.env.volume = u.c.env.volume
                                \/ Moves(u.c.env, u.h.counts, d.env))
  <2> DEFINE e == u.c.env
             m == u.h.counts
             x == enveloped(e, k)
  <2>1. LET y == IF x.volume # e.volume THEN 0
                 ELSE IF k = FrameSteps - 1 /\ m < x.period THEN m + 1 ELSE m
        IN  /\ x.add = e.add /\ x.period = e.period
            /\ PaceOf(e, m) => PaceOf(x, y) /\ (x.volume = e.volume \/ Moves(e, m, x))
    BY <1>0, <1>1, EnvelopedPace
  <2>2. u.h.clean => n = IF x.volume # e.volume THEN 0
                         ELSE IF k = FrameSteps - 1 /\ m < x.period THEN m + 1 ELSE m
    BY <1>3 DEF recounted
  <2> HIDE DEF n, d, k, g
  <2> QED BY <1>3, <2>1, <2>2
<1> HIDE DEF n, d
<1>5. CASE u.f.skip = "Skip"
  <2>1. w.f = g /\ w.c = u.c /\ w.h = u.h
    BY <1>2, <1>5 DEF Whole
  <2> HIDE DEF w, g
  <2>2. Once(u, w)
    BY <1>1, <1>5, <2>1 DEF Once, Paced, Gate
  <2> QED BY <2>2 DEF w
<1>6. CASE u.f.skip # "Skip"
  <2>1. w.f = g /\ w.c = d /\ w.h = [u.h EXCEPT !.counts = n]
    BY <1>2, <1>6 DEF Whole
  <2>2. w.h.counts = n /\ w.h.clean = u.h.clean
    BY <1>0, <2>1 DEF History
  <2> HIDE DEF w
  <2>3. u.f.skip # "Skipped" =>
          w.c.counter = IF Gate(w.f, w.c) /\ ~Gate(u.f, u.c) /\ u.c.counter > 0
                        THEN u.c.counter - 1 ELSE u.c.counter
    <3> HIDE DEF g
    <3> QED BY <1>1, <1>3, <1>6, <2>1 DEF Gate
  <2>4. Paced(u) => /\ Paced(w)
                    /\ u.h.clean => w.c.env.volume = u.c.env.volume
                                    \/ Moves(u.c.env, u.h.counts, w.c.env)
    BY <1>4, <2>1, <2>2 DEF Paced
  <2> HIDE DEF g
  <2>5. Once(u, w)
    BY <1>1, <1>3, <1>4, <1>6, <2>1, <2>2, <2>3, <2>4 DEF Once
  <2> QED BY <2>5 DEF w
<1> QED BY <1>5, <1>6

\* Fields the steps read nothing of.
LEMMA ParallelStill ==
  ASSUME NEW u, NEW w, w.f.divider = u.f.divider, w.f.skip = u.f.skip, w.c = u.c,
         w.h.counts = u.h.counts, w.h.clean = u.h.clean
  PROVE  Still(u, w)
BY DEF Still, Paced

\* Playing an edge: a falling one is one step, and nothing waits afterwards.
LEMMA PlayedEffect ==
  ASSUME NEW v \in Whole, NEW e \in {"none", "Falling", "Rising"}
  PROVE  LET w == played(v, e)
         IN /\ w.f.pending = "none" /\ w.f.power = v.f.power /\ w.div = v.div
            /\ w.f.double_speed = v.f.double_speed
            /\ e = "Falling" => Once(v, w)
            /\ e # "Falling" => Still(v, w)
<1> DEFINE x == [v EXCEPT !.f = [v.f EXCEPT !.pending = "none"]]
<1>0. /\ v.f \in Sequencer /\ v.c \in Channel /\ v.c.env \in Envelope /\ v.h \in History
      /\ v.c.enabled \in BOOLEAN
  BY DEF Whole, Channel
<1>1. /\ x \in Whole /\ x.c = v.c /\ x.h = v.h /\ x.div = v.div
      /\ x.f = [v.f EXCEPT !.pending = "none"]
  BY <1>0 DEF Whole, Sequencer
<1>2. /\ x.f.pending = "none" /\ x.f.power = v.f.power /\ x.f.divider = v.f.divider
      /\ x.f.skip = v.f.skip /\ x.f.double_speed = v.f.double_speed
  BY <1>0, <1>1 DEF Sequencer
<1>3. /\ e = "Falling" => played(v, e) = div_event(x)
      /\ e = "Rising" => played(v, e) = [x EXCEPT !.c = [x.c EXCEPT !.env = arm(v.c.env, v.c.enabled)]]
      /\ e = "none" => played(v, e) = x
  BY <1>0, <1>1 DEF played
<1> HIDE DEF x
<1>4. Still(v, x)
  BY <1>1, <1>2, ParallelStill
<1>5. CASE e = "Falling"
  <2> DEFINE w == div_event(x)
  <2>1. w.div = x.div /\ w.f = advanced(x.f)
    BY <1>1 DEF div_event, Whole
  <2>2. /\ w.f.pending = x.f.pending /\ w.f.power = x.f.power
        /\ w.f.double_speed = x.f.double_speed
    BY <1>1, <2>1 DEF advanced, Whole, Sequencer
  <2>3. Once(x, w)
    BY <1>1, EventEffect
  <2> HIDE DEF w
  <2>4. Once(v, w)
    BY <1>4, <2>3, Chained
  <2> QED BY <1>1, <1>2, <1>3, <1>5, <2>1, <2>2, <2>4 DEF w
<1>6. CASE e = "Rising"
  <2> DEFINE a == arm(v.c.env, v.c.enabled)
             w == [x EXCEPT !.c = [x.c EXCEPT !.env = a]]
  <2>1. played(v, e) = w
    BY <1>3, <1>6
  <2>2. w.f = x.f /\ w.h = x.h /\ w.div = x.div /\ w.c = [x.c EXCEPT !.env = a]
    BY <1>1 DEF Whole
  <2>3. w.c.env = a /\ w.c.len = v.c.len /\ w.c.counter = v.c.counter
    BY <1>0, <1>1, <2>2 DEF Channel
  <2>4. v.h.counts \in 0..(CountMod - 1)
    BY <1>0 DEF History
  <2>5. /\ a.add = v.c.env.add /\ a.period = v.c.env.period /\ a.volume = v.c.env.volume
        /\ PaceOf(v.c.env, v.h.counts) => PaceOf(a, v.h.counts)
    BY <1>0, <2>4, ArmPace
  <2> HIDE DEF w, a
  <2>6. Still(v, w)
    BY <1>1, <1>2, <2>2, <2>3, <2>5 DEF Still, Paced
  <2> QED BY <1>1, <1>2, <1>6, <2>1, <2>2, <2>6
<1>7. CASE e = "none"
  BY <1>1, <1>2, <1>3, <1>4, <1>7
<1> QED BY <1>5, <1>6, <1>7

\* An M-cycle is a step or none; after a step, and from a calm state, none can follow.
LEMMA TickEffect ==
  ASSUME NEW u, Good(u), NEW paced \in BOOLEAN
  PROVE  LET w == tick(u, paced)
         IN /\ Still(u, w) \/ (Once(u, w) /\ Calm(w))
            /\ Calm(u) => Still(u, w)
            /\ w.f.power = u.f.power /\ w.f.double_speed = u.f.double_speed
            /\ w.div = (u.div + 1) % (4 * Tap)
            /\ ~u.f.double_speed => w.f.pending = "none"
<1> DEFINE d == (u.div + 1) % (4 * Tap)
           edge == raised(u.f, d)
           waits == edge # "none" /\ u.f.double_speed /\ ~paced /\ u.f.lag = 1
           falls == IF fell(u, d) THEN counted(u.h.falls) ELSE u.h.falls
           v == [u EXCEPT !.div = d, !.f = [u.f EXCEPT !.prev_div = d],
                          !.h = [u.h EXCEPT !.falls = falls]]
           now == IF edge # "none" THEN edge ELSE u.f.pending
           w == tick(u, paced)
<1>0. /\ u \in Whole /\ u.f \in Sequencer /\ u.h \in History /\ u.f.prev_div = u.div
      /\ u.f.double_speed \in BOOLEAN /\ u.div \in 0..(4 * Tap - 1) /\ u.f.power \in BOOLEAN
      /\ u.h.falls \in 0..(FrameSteps + 2) /\ u.h.high \in BOOLEAN /\ u.c \in Channel
      /\ u.f.pending \in {"none", "Falling", "Rising"}
  BY DEF Good, Whole, Sequencer, History
<1>1. d \in 0..(4 * Tap - 1) /\ (u.div = 0 => d = 1)
  BY <1>0, NextCycle
<1>2. w = IF waits THEN [v EXCEPT !.f.pending = edge] ELSE played(v, now)
  BY DEF tick
<1>3. /\ edge \in {"none", "Falling", "Rising"}
      /\ edge = "Falling" =>
           u.f.power /\ high(u.div, u.f.double_speed) /\ ~high(d, u.f.double_speed)
      /\ edge # "none" => u.f.power
  BY <1>0 DEF raised
<1>4. u.f.pending = "Falling" => edge = "none" /\ ~high(d, u.f.double_speed)
  BY <1>0, <1>1, LowAtReset DEF raised, Good
<1>5. falls \in 0..(FrameSteps + 2)
  BY <1>0, CountedBack
<1> HIDE DEF d, edge, falls
<1>6. [u.f EXCEPT !.prev_div = d] \in Sequencer /\ [u.h EXCEPT !.falls = falls] \in History
  BY <1>0, <1>1, <1>5 DEF Sequencer, History
<1>7. /\ v \in Whole /\ v.div = d /\ v.c = u.c /\ v.f = [u.f EXCEPT !.prev_div = d]
      /\ v.h = [u.h EXCEPT !.falls = falls]
  BY <1>0, <1>1, <1>6 DEF Whole
<1>8. /\ v.f.pending = u.f.pending /\ v.f.double_speed = u.f.double_speed
      /\ v.f.divider = u.f.divider /\ v.f.skip = u.f.skip /\ v.f.power = u.f.power
      /\ v.h.counts = u.h.counts /\ v.h.clean = u.h.clean
  BY <1>0, <1>7 DEF Sequencer, History
<1>9. Still(u, v)
  BY <1>7, <1>8, ParallelStill
<1> HIDE DEF v
<1>10. CASE waits
  <2> DEFINE x == [v EXCEPT !.f = [v.f EXCEPT !.pending = edge]]
  <2>1. w = x /\ v.f \in Sequencer
    BY <1>2, <1>7, <1>10 DEF Whole
  <2>2. x.div = d /\ x.c = v.c /\ x.h = v.h /\ x.f = [v.f EXCEPT !.pending = edge]
    BY <1>7 DEF Whole
  <2>3. /\ x.f.divider = v.f.divider /\ x.f.skip = v.f.skip /\ x.f.power = v.f.power
        /\ x.f.double_speed = v.f.double_speed
    BY <2>1, <2>2 DEF Sequencer
  <2> HIDE DEF x, w
  <2>4. Still(v, x)
    BY <2>2, <2>3, ParallelStill
  <2>5. Still(u, w)
    BY <1>9, <2>1, <2>4, Chained
  <2> QED BY <1>8, <1>10, <2>1, <2>2, <2>3, <2>5 DEF w, d
<1>11. CASE ~waits
  <2>1. now \in {"none", "Falling", "Rising"} /\ w = played(v, now)
    BY <1>0, <1>2, <1>3, <1>11
  <2>2. now = "Falling" => ~high(d, u.f.double_speed)
    BY <1>3, <1>4
  <2>3. Calm(u) => now # "Falling"
    BY <1>3 DEF Calm
  <2> HIDE DEF now, w
  <2>4. /\ w.f.pending = "none" /\ w.f.power = v.f.power /\ w.div = v.div
        /\ w.f.double_speed = v.f.double_speed
        /\ now = "Falling" => Once(v, w)
        /\ now # "Falling" => Still(v, w)
    BY <1>7, <2>1, PlayedEffect
  <2>5. (now = "Falling" => Once(u, w)) /\ (now # "Falling" => Still(u, w))
    BY <1>9, <2>4, Chained
  <2>6. now = "Falling" => Calm(w)
    BY <1>7, <1>8, <2>2, <2>4 DEF Calm
  <2> QED BY <1>7, <1>8, <2>3, <2>4, <2>5, <2>6 DEF w, d
<1> QED BY <1>10, <1>11

\* A reset of the divider is the step of the edge it makes, or none.
LEMMA ResetEffect ==
  ASSUME NEW u, Good(u)
  PROVE  LET w == div_write(u)
             x == div_write_switching(u)
         IN /\ Still(u, w) \/ Once(u, w)
            /\ Calm(u) => Still(u, w)
            /\ Still(u, x)
            /\ w.f.pending = u.f.pending /\ x.f.pending = u.f.pending
<1> DEFINE v == [u EXCEPT !.div = 0, !.f = [u.f EXCEPT !.prev_div = 0]]
           falls == IF fell(u, 0) THEN counted(u.h.falls) ELSE u.h.falls
           y == [v EXCEPT !.h = [v.h EXCEPT !.falls = falls]]
<1>0. /\ u \in Whole /\ u.f \in Sequencer /\ u.h \in History /\ u.f.prev_div = u.div
      /\ 0 \in 0..(4 * Tap - 1) /\ u.h.falls \in 0..(FrameSteps + 2) /\ u.h.high \in BOOLEAN
  BY ApuAssumption DEF Good, Whole, Sequencer, History
<1>1. div_write_switching(u) = v
  BY DEF div_write_switching
<1>2. /\ v \in Whole /\ v.c = u.c /\ v.h = u.h /\ v.f = [u.f EXCEPT !.prev_div = 0]
  <2>1. [u.f EXCEPT !.prev_div = 0] \in Sequencer
    BY <1>0 DEF Sequencer
  <2> QED BY <1>0, <2>1 DEF Whole
<1>3. /\ v.f.pending = u.f.pending /\ v.f.divider = u.f.divider /\ v.f.skip = u.f.skip
  BY <1>0, <1>2 DEF Sequencer
<1>4. Still(u, v)
  <2> HIDE DEF v
  <2> QED BY <1>2, <1>3, ParallelStill
<1>5. div_write(u) = IF u.f.power /\ high(u.f.prev_div, u.f.double_speed)
                     THEN div_event(y) ELSE y
  BY <1>1, <1>2 DEF div_write
<1>6. falls \in 0..(FrameSteps + 2)
  BY <1>0, CountedBack
<1> HIDE DEF v, falls
<1>7. [v.h EXCEPT !.falls = falls] \in History
  BY <1>0, <1>2, <1>6 DEF History
<1>8. /\ y \in Whole /\ y.c = v.c /\ y.f = v.f /\ y.h = [v.h EXCEPT !.falls = falls]
  BY <1>2, <1>7 DEF Whole
<1>9. y.h.counts = v.h.counts /\ y.h.clean = v.h.clean
  BY <1>0, <1>2, <1>8 DEF History
<1> HIDE DEF y
<1>10. Still(u, y)
  BY <1>4, <1>8, <1>9, ParallelStill, Chained
<1>11. Once(u, div_event(y)) /\ div_event(y).f.pending = u.f.pending
  <2>1. Once(y, div_event(y))
    BY <1>8, EventEffect
  <2>2. div_event(y).f = advanced(y.f) /\ y.f \in Sequencer
    BY <1>8 DEF div_event, Whole
  <2>3. advanced(y.f).pending = y.f.pending
    BY <2>2 DEF advanced, Sequencer
  <2> QED BY <1>3, <1>8, <1>10, <2>1, <2>2, <2>3, Chained
<1>12. Calm(u) => div_write(u) = y
  BY <1>0, <1>5 DEF Calm
<1> QED BY <1>1, <1>3, <1>4, <1>5, <1>8, <1>10, <1>11, <1>12
-----------------------------------------------------------------------------
(* The steps again: their effect on the counters. *)

Effect(u, w) == Still(u, w) \/ Once(u, w)

\* The speed and the access flag are read by no step; low is low at either speed.
LEMMA FlagsEffect ==
  ASSUME NEW u \in Whole, NEW b \in BOOLEAN, NEW ds \in BOOLEAN, NEW lag \in {0, 1}
  PROVE  /\ Still(u, [u EXCEPT !.f.open = b])
         /\ LET w == [u EXCEPT !.f.double_speed = ds, !.f.lag = lag]
            IN Still(u, w) /\ w.f.double_speed = ds
         /\ LET w == [u EXCEPT !.f.double_speed = ds]
            IN /\ Still(u, w) /\ w.f.double_speed = ds
               /\ u.div \in {0, 1} /\ u.f.pending = "none" => Calm(w)
<1>0. u.f \in Sequencer
  BY DEF Whole
<1>1. Still(u, [u EXCEPT !.f.open = b])
  <2> DEFINE g == [u.f EXCEPT !.open = b]
             w == [u EXCEPT !.f = g]
  <2>1. w = [u EXCEPT !.f.open = b]
    OBVIOUS
  <2>2. g.divider = u.f.divider /\ g.skip = u.f.skip
    BY <1>0 DEF Sequencer
  <2> HIDE DEF g
  <2>3. w.f = g /\ w.c = u.c /\ w.h = u.h
    BY DEF Whole
  <2> HIDE DEF w
  <2>4. Still(u, w)
    BY <2>2, <2>3, ParallelStill
  <2> QED BY <2>1, <2>4
<1>2. LET w == [u EXCEPT !.f.double_speed = ds, !.f.lag = lag]
      IN Still(u, w) /\ w.f.double_speed = ds
  <2> DEFINE g == [u.f EXCEPT !.double_speed = ds, !.lag = lag]
             w == [u EXCEPT !.f = g]
  <2>1. w = [u EXCEPT !.f.double_speed = ds, !.f.lag = lag]
    BY DEF Whole
  <2>2. g.divider = u.f.divider /\ g.skip = u.f.skip /\ g.double_speed = ds
    BY <1>0 DEF Sequencer
  <2> HIDE DEF g
  <2>3. w.f = g /\ w.c = u.c /\ w.h = u.h
    BY DEF Whole
  <2> HIDE DEF w
  <2>4. Still(u, w) /\ w.f.double_speed = ds
    BY <2>2, <2>3, ParallelStill
  <2> QED BY <2>1, <2>4
<1>3. LET w == [u EXCEPT !.f.double_speed = ds]
      IN /\ Still(u, w) /\ w.f.double_speed = ds
         /\ u.div \in {0, 1} /\ u.f.pending = "none" => Calm(w)
  <2> DEFINE g == [u.f EXCEPT !.double_speed = ds]
             w == [u EXCEPT !.f = g]
  <2>1. w = [u EXCEPT !.f.double_speed = ds]
    OBVIOUS
  <2>2. /\ g.divider = u.f.divider /\ g.skip = u.f.skip /\ g.double_speed = ds
        /\ g.pending = u.f.pending
    BY <1>0 DEF Sequencer
  <2> HIDE DEF g
  <2>3. w.f = g /\ w.c = u.c /\ w.h = u.h /\ w.div = u.div
    BY DEF Whole
  <2> HIDE DEF w
  <2>4. Still(u, w)
    BY <2>2, <2>3, ParallelStill
  <2>5. u.div \in {0, 1} /\ u.f.pending = "none" => Calm(w)
    BY <2>2, <2>3, LowAtReset DEF Calm
  <2> QED BY <2>1, <2>2, <2>3, <2>4, <2>5
<1> QED BY <1>1, <1>2, <1>3

\* A divider reset with no edge waiting is calm.
LEMMA CalmAtReset ==
  ASSUME NEW u, Good(u), u.div \in {0, 1}, u.f.pending = "none" PROVE Calm(u)
BY LowAtReset DEF Calm, Good, Whole, Sequencer

\* The late edge of the byte STOP skips is a step or none.
LEMMA ReadEffect ==
  ASSUME NEW u, Good(u), NEW b \in BOOLEAN
  PROVE  LET w == read_byte(u, b)
         IN /\ Still(u, w) \/ (Once(u, w) /\ Calm(w))
            /\ Calm(u) => Still(u, w)
            /\ w.f.double_speed = u.f.double_speed
            /\ ~u.f.double_speed /\ ~b => w.f.pending = "none"
            /\ u.div = 0 => w.div \in {0, 1}
<1>1. Still(u, u)
  BY ParallelStill
<1>2. CASE b
  BY <1>1, <1>2 DEF read_byte
<1>3. CASE ~b
  <2> DEFINE w == tick(u, FALSE)
  <2>1. read_byte(u, b) = w
    BY <1>3 DEF read_byte
  <2>2. /\ Still(u, w) \/ (Once(u, w) /\ Calm(w))
        /\ Calm(u) => Still(u, w)
        /\ w.f.double_speed = u.f.double_speed
        /\ ~u.f.double_speed => w.f.pending = "none"
        /\ w.div = (u.div + 1) % (4 * Tap)
    BY TickEffect
  <2>3. u.div \in 0..(4 * Tap - 1)
    BY DEF Good, Whole
  <2>4. u.div = 0 => w.div = 1
    BY <2>2, <2>3, NextCycle
  <2> HIDE DEF w
  <2> QED BY <1>3, <2>1, <2>2, <2>4
<1> QED BY <1>2, <1>3

\* An access is its effect.
LEMMA AccessEffect ==
  ASSUME NEW u, Good(u), Effect(State, u), Access(u)
  PROVE  Effect(State, State')
<1> DEFINE w == [u EXCEPT !.f.open = FALSE]
<1>1. u \in Whole
  BY DEF Good
<1>2. w \in Whole
  BY FlagsKept DEF Good
<1>3. Still(u, w)
  BY <1>1, FlagsEffect
<1>4. Become(w)
  BY DEF Access
<1> HIDE DEF w
<1>5. State' = w
  BY <1>2, <1>4 DEF Become, State, Whole
<1> QED BY <1>3, <1>5, Chained DEF Effect

\* Whatever moves the divider plays one step or none: an M-cycle, a DIV write, and STOP
\* with its skipped byte, its reset and the cycles around a change of speed.
LEMMA ClockingEffect == Good(State) /\ Clocking => Effect(State, State')
<1> SUFFICES ASSUME Good(State), Clocking PROVE Effect(State, State')
  OBVIOUS
<1>0. /\ State.f = f /\ f \in Sequencer /\ State \in Whole
  BY DEF Good, Whole, State
<1>1. CASE Tick
  <2> DEFINE u == tick(State, FALSE)
             w == [u EXCEPT !.f.open = TRUE]
  <2>1. Effect(State, u) /\ Good(u)
    BY TickEffect, TickKept DEF Effect
  <2> HIDE DEF u
  <2>2. Still(u, w) /\ w \in Whole
    BY <2>1, FlagsEffect, FlagsKept DEF Good
  <2>3. Become(w)
    BY <1>1 DEF Tick, u
  <2> HIDE DEF w
  <2>4. State' = w
    BY <2>2, <2>3 DEF Become, State, Whole
  <2> QED BY <2>1, <2>2, <2>4, Chained DEF Effect
<1>2. CASE WriteDIV
  <2>1. Effect(State, div_write(State)) /\ Good(div_write(State))
    BY ResetEffect, ResetKept DEF Effect
  <2> QED BY <1>2, <2>1, AccessEffect DEF WriteDIV
<1>3. ASSUME NEW b \in BOOLEAN, Stop(b) PROVE Effect(State, State')
  <2> DEFINE a == read_byte(State, b)
  <2>1. /\ Still(State, a) \/ (Once(State, a) /\ Calm(a))
        /\ Good(a)
    BY ReadEffect, ReadGood
  <2>2. Access(div_write(a))
    BY <1>3 DEF Stop
  <2> HIDE DEF a
  <2>3. /\ Still(a, div_write(a)) \/ Once(a, div_write(a))
        /\ Calm(a) => Still(a, div_write(a))
        /\ Good(div_write(a))
    BY <2>1, ResetEffect, ResetKept
  <2>4. Effect(State, div_write(a))
    BY <2>1, <2>3, Chained DEF Effect
  <2> QED BY <2>2, <2>3, <2>4, AccessEffect
<1>4. ASSUME NEW b \in BOOLEAN, StopLeave(b) PROVE Effect(State, State')
  <2> DEFINE u == [State EXCEPT !.f.double_speed = FALSE, !.f.lag = 1 - State.f.lag]
             a == read_byte(u, b)
             x == div_write_switching(a)
             w == read_byte(x, b)
  <2>1. 1 - State.f.lag \in {0, 1}
    BY <1>0 DEF Sequencer
  <2>2. Good(u) /\ Still(State, u) /\ ~u.f.double_speed
    BY <1>0, <2>1, FlagsKept, FlagsEffect
  <2>3. Access(w)
    BY <1>4 DEF StopLeave
  <2> HIDE DEF u
  <2>4. /\ Still(u, a) \/ Once(u, a)
        /\ Good(a) /\ (~b => a.f.pending = "none")
    BY <2>2, ReadEffect, ReadGood
  <2> HIDE DEF a
  <2>5. Good(x) /\ Still(a, x) /\ x.div = 0 /\ x.f.pending = a.f.pending
    BY <2>4, ResetEffect, ResetKept
  <2> HIDE DEF x
  <2>6. Still(x, w) /\ Good(w)
    <3>1. CASE b
      BY <2>5, <3>1, ParallelStill DEF read_byte
    <3>2. CASE ~b
      BY <2>4, <2>5, <3>2, CalmAtReset, ReadEffect, ReadGood
    <3> QED BY <3>1, <3>2
  <2> HIDE DEF w
  <2>7. Effect(State, w)
    BY <2>2, <2>4, <2>5, <2>6, Chained DEF Effect
  <2> QED BY <2>3, <2>6, <2>7, AccessEffect
<1>5. ASSUME NEW b \in BOOLEAN, NEW p \in BOOLEAN, StopEnter(b, p) PROVE Effect(State, State')
  <2> DEFINE a == read_byte(State, b)
             x == div_write(a)
             u == read_byte(x, b)
             v == [u EXCEPT !.f.double_speed = TRUE]
             w == IF p THEN tick(v, TRUE) ELSE v
  <2>1. Access(w) /\ ~State.f.double_speed /\ (p => ~b)
    BY <1>0, <1>5 DEF StopEnter
  <2>2. /\ Still(State, a) \/ (Once(State, a) /\ Calm(a))
        /\ Good(a) /\ (~b => a.f.pending = "none")
        /\ a.f.double_speed = State.f.double_speed
    BY <2>1, ReadEffect, ReadGood
  <2> HIDE DEF a
  <2>3. /\ Still(a, x) \/ Once(a, x)
        /\ Calm(a) => Still(a, x)
        /\ Good(x) /\ x.div = 0 /\ x.f.pending = a.f.pending
        /\ x.f.double_speed = a.f.double_speed
    BY <2>2, ResetEffect, ResetKept DEF Kept
  <2> HIDE DEF x
  <2>4. /\ Still(x, u) /\ Good(u) /\ u.div \in {0, 1}
        /\ ~b => u.f.pending = "none"
    <3>1. CASE b
      BY <2>3, <3>1, ParallelStill DEF read_byte
    <3>2. CASE ~b
      BY <2>1, <2>2, <2>3, <3>2, CalmAtReset, ReadEffect, ReadGood
    <3> QED BY <3>1, <3>2
  <2> HIDE DEF u
  <2>5. Still(u, v) /\ Good(v) /\ (~b => Calm(v))
    BY <2>4, FlagsEffect, FlagsKept DEF Good
  <2> HIDE DEF v
  <2>6. Still(v, w) /\ Good(w)
    <3>1. CASE p
      BY <2>1, <2>5, <3>1, TickEffect, TickKept
    <3>2. CASE ~p
      BY <2>5, <3>2, ParallelStill
    <3> QED BY <3>1, <3>2
  <2> HIDE DEF w
  <2>7. Effect(State, w)
    BY <2>2, <2>3, <2>4, <2>5, <2>6, Chained DEF Effect
  <2> QED BY <2>1, <2>6, <2>7, AccessEffect
<1> QED BY <1>1, <1>2, <1>3, <1>4, <1>5 DEF Clocking

\* An access in its variables.
LEMMA AccessVars ==
  ASSUME NEW u \in Whole, Access(u)
  PROVE  /\ div' = u.div /\ c' = u.c /\ h' = u.h
         /\ f'.divider = u.f.divider /\ f'.power = u.f.power
<1> DEFINE g == [u.f EXCEPT !.open = FALSE]
<1>1. [u EXCEPT !.f.open = FALSE] = [u EXCEPT !.f = g]
  OBVIOUS
<1>2. u.f \in Sequencer
  BY DEF Whole
<1>3. g.divider = u.f.divider /\ g.power = u.f.power
  BY <1>2 DEF Sequencer
<1>4. Become([u EXCEPT !.f = g])
  BY <1>1 DEF Access
<1> HIDE DEF g
<1> QED BY <1>3, <1>4 DEF Become, Whole

\* A write of NRx4 that turns the enable bit clocks the counter on the rise of the gate, and
\* its trigger fills an empty one.
LEMMA NRx4Clock ==
  ASSUME Good(State), NEW enable \in BOOLEAN, NEW trigger \in BOOLEAN,
         NEW n, n = length_written(c, enable, trigger).counter, enable # c.len
  PROVE  LET up == enable /\ f.divider % 2 = 1
             left == IF up /\ c.counter > 0 THEN c.counter - 1 ELSE c.counter
         IN n = left \/ (left = 0 /\ n = LengthMax - IF up THEN 1 ELSE 0)
<1> DEFINE extra == ~next_step_clocks_length /\ enable
           up == enable /\ f.divider % 2 = 1
           l == IF extra /\ ~c.len /\ c.counter > 0 THEN c.counter - 1 ELSE c.counter
           left == IF up /\ c.counter > 0 THEN c.counter - 1 ELSE c.counter
           now == IF trigger /\ l = 0
                  THEN IF extra THEN LengthMax - 1 ELSE LengthMax ELSE l
           on == c.enabled /\ (l > 0 \/ l = c.counter \/ trigger)
<1> SUFFICES n = left \/ (left = 0 /\ n = LengthMax - IF up THEN 1 ELSE 0)
  OBVIOUS
<1>0. /\ f.divider \in 0..(FrameSteps - 1) /\ c \in Channel /\ c.len \in BOOLEAN
      /\ c.counter \in 0..LengthMax /\ LengthMax \in Nat
  BY ApuAssumption DEF Good, Whole, State, Sequencer, Channel
<1>1. length_written(c, enable, trigger) = [c EXCEPT !.len = enable, !.counter = now,
                                                     !.enabled = on]
  BY DEF length_written
<1>2. n = now
  <2> HIDE DEF now, on
  <2> QED BY <1>0, <1>1 DEF Channel
<1>3. f.divider % 2 = 1 <=> f.divider % 2 # 0
  BY <1>0, ApuAssumption
<1>4. extra <=> up
  BY <1>3 DEF next_step_clocks_length
<1>5. up => ~c.len
  OBVIOUS
<1> HIDE DEF extra, up
<1>6. l = left
  BY <1>4, <1>5
<1> HIDE DEF l, left
<1>7. CASE trigger /\ l = 0
  <2>1. n = LengthMax - IF up THEN 1 ELSE 0
    <3>1. LengthMax \in Nat
      BY <1>0
    <3> QED BY <1>2, <1>4, <1>7, <3>1
  <2> QED BY <1>6, <1>7, <2>1
<1>8. CASE ~(trigger /\ l = 0)
  BY <1>2, <1>6, <1>8
<1> QED BY <1>7, <1>8

\* A write moves no divider.  It leaves the envelope paced, and clocks the length counter
\* as the gate says.
LEMMA WriteEffect ==
  Good(State) /\ Paced(State) /\ Write =>
    /\ Paced(State)' /\ div' = div
    /\ LET left == c.counter - IF Gate(f', c') /\ ~Gate(f, c) /\ c.counter > 0 THEN 1 ELSE 0
           full == LengthMax - IF Gate(f', c') THEN 1 ELSE 0
       IN (c'.len # c.len /\ f'.power) =>
            c'.counter \in {left} \union (IF left = 0 THEN {full} ELSE {})
<1> DEFINE Clocks ==
      LET left == c.counter - IF Gate(f', c') /\ ~Gate(f, c) /\ c.counter > 0 THEN 1 ELSE 0
          full == LengthMax - IF Gate(f', c') THEN 1 ELSE 0
      IN (c'.len # c.len /\ f'.power) =>
           c'.counter \in {left} \union (IF left = 0 THEN {full} ELSE {})
<1> SUFFICES ASSUME Good(State), Paced(State), Write
             PROVE  Paced(State)' /\ div' = div /\ Clocks
  OBVIOUS
<1>0. /\ State = [div |-> div, f |-> f, c |-> c, h |-> h] /\ State \in Whole
      /\ f \in Sequencer /\ c \in Channel /\ h \in History /\ c.env \in Envelope
      /\ c.counter \in Nat /\ c.len \in BOOLEAN /\ f.power \in BOOLEAN
  BY DEF Good, Whole, State, Plays, Channel, Sequencer
<1>1. ASSUME c'.env = c.env, h'.counts = h.counts, h'.clean = h.clean
      PROVE  Paced(State)'
  BY <1>1 DEF Paced, State
<1>2. ASSUME ~h'.clean PROVE Paced(State)'
  BY <1>2 DEF Paced, State
<1>3. ASSUME c'.len = c.len \/ ~f'.power PROVE Clocks
  BY <1>3
<1>9. ASSUME NEW d \in Channel, NEW k \in History, Access([State EXCEPT !.c = d, !.h = k])
      PROVE  div' = div /\ c' = d /\ h' = k /\ f'.divider = f.divider /\ f'.power = f.power
  <2> DEFINE w == [State EXCEPT !.c = d, !.h = k]
  <2>1. w \in Whole /\ w.div = div /\ w.f = f /\ w.c = d /\ w.h = k
    BY <1>0 DEF Whole
  <2> HIDE DEF w
  <2> QED BY <1>9, <2>1, AccessVars DEF w
<1>10. \A d : [State EXCEPT !.c = d] = [State EXCEPT !.c = d, !.h = h]
  <2> SUFFICES ASSUME NEW d PROVE [State EXCEPT !.c = d] = [State EXCEPT !.c = d, !.h = h]
    OBVIOUS
  <2>1. [State EXCEPT !.c = d] = [div |-> div, f |-> f, c |-> d, h |-> h]
    BY <1>0
  <2>2. [State EXCEPT !.c = d, !.h = h] = [div |-> div, f |-> f, c |-> d, h |-> h]
    BY Zenon, ReplaceBoth
  <2> QED BY <2>1, <2>2
<1>4. ASSUME NEW n \in 1..LengthMax, WriteNRx1(n) PROVE Paced(State)' /\ div' = div /\ Clocks
  <2> DEFINE d == [c EXCEPT !.counter = n]
  <2>1. d \in Channel /\ d.env = c.env /\ d.len = c.len
    BY <1>0, ApuAssumption DEF Channel
  <2>2. [State EXCEPT !.c.counter = n] = [State EXCEPT !.c = d]
    BY <1>0
  <2> HIDE DEF d
  <2>3. Access([State EXCEPT !.c = d, !.h = h])
    BY <1>4, <1>10, <2>2 DEF WriteNRx1
  <2>4. div' = div /\ c' = d /\ h' = h
    BY <1>0, <1>9, <2>1, <2>3
  <2> QED BY <1>1, <1>3, <2>1, <2>4
<1>5. ASSUME NEW v \in Levels, WriteNRx2(v) PROVE Paced(State)' /\ div' = div /\ Clocks
  <2> DEFINE on == c.enabled /\ dac_enabled(v)
             e == IF dac_enabled(v) /\ c.enabled THEN write_active(c.env, v)
                  ELSE written(c.env, v)
             d == [c EXCEPT !.dac = dac_enabled(v), !.enabled = on, !.env = e]
             k == [h EXCEPT !.clean = FALSE, !.counts = 0]
  <2>1. v \in Level /\ dac_enabled(v) \in BOOLEAN /\ c.enabled \in BOOLEAN
    BY <1>0, ApuAssumption DEF Level, dac_enabled, Channel
  <2>2. e \in Envelope /\ on \in BOOLEAN
    BY <1>0, <2>1, EnvelopeKept, WriteActiveKept
  <2>3. Access([State EXCEPT !.c.dac = dac_enabled(v), !.c.enabled = on, !.h.clean = FALSE,
                             !.h.counts = 0, !.c.env = e])
    BY <1>0, <1>5 DEF WriteNRx2
  <2> HIDE DEF e
  <2>4. Access([State EXCEPT !.c = d, !.h = k])
    BY <1>0, <2>3
  <2>5. d \in Channel /\ d.len = c.len
    BY <1>0, <2>1, <2>2 DEF Channel
  <2>6. k \in History /\ ~k.clean
    <3>1. 0 \in 0..(CountMod - 1)
      BY ApuAssumption
    <3> QED BY <1>0, <3>1 DEF History
  <2> HIDE DEF d, k
  <2>7. div' = div /\ c' = d /\ h' = k
    BY <1>9, <2>4, <2>5, <2>6
  <2> QED BY <1>2, <1>3, <2>5, <2>6, <2>7
<1>6. ASSUME NEW enable \in BOOLEAN, NEW trigger \in BOOLEAN, WriteNRx4(enable, trigger)
      PROVE  Paced(State)' /\ div' = div /\ Clocks
  <2> DEFINE d == length_written(c, enable, trigger)
             n == d.counter
             x == [d EXCEPT !.enabled = d.dac, !.env = triggered(d.env)]
             k == [h EXCEPT !.counts = 0, !.clean = TRUE]
  <2>1. d \in Channel /\ d.env = c.env
    BY <1>0, LengthWritten
  <2>2. d.len = enable
    BY <1>0 DEF length_written, Channel
  <2>3. enable # c.len =>
          LET up == enable /\ f.divider % 2 = 1
              left == IF up /\ c.counter > 0 THEN c.counter - 1 ELSE c.counter
          IN n = left \/ (left = 0 /\ n = LengthMax - IF up THEN 1 ELSE 0)
    BY NRx4Clock
  <2>4. Access(IF trigger
               THEN [State EXCEPT !.c = [d EXCEPT !.enabled = d.dac, !.env = triggered(d.env)],
                                  !.h.counts = 0, !.h.clean = TRUE]
               ELSE [State EXCEPT !.c = d])
    BY <1>6 DEF WriteNRx4
  <2> HIDE DEF d
  <2>5. div' = div /\ c'.len = enable /\ c'.counter = n /\ f'.divider = f.divider
        /\ Paced(State)'
    <3>1. CASE trigger
      <4>1. triggered(d.env) \in Envelope
        BY <1>0, <2>1, EnvelopeKept
      <4>2. x \in Channel /\ x.len = d.len /\ x.counter = n /\ x.env = triggered(d.env)
        BY <2>1, <4>1 DEF Channel
      <4>3. k \in History /\ k.counts = 0
        <5>1. 0 \in 0..(CountMod - 1)
          BY ApuAssumption
        <5> QED BY <1>0, <5>1 DEF History
      <4>4. Access([State EXCEPT !.c = x, !.h = k])
        BY <1>0, <2>4, <3>1
      <4>5. /\ ~triggered(d.env).clock /\ triggered(d.env).countdown = d.env.period
            /\ triggered(d.env).period = d.env.period /\ d.env.period \in Nat
        BY <2>1 DEF triggered, Channel, Envelope
      <4> HIDE DEF x, k
      <4>6. div' = div /\ c' = x /\ h' = k /\ f'.divider = f.divider
        BY <1>9, <4>2, <4>3, <4>4
      <4>7. PaceOf(x.env, k.counts)
        BY <4>2, <4>3, <4>5 DEF PaceOf
      <4> QED BY <2>2, <4>2, <4>6, <4>7 DEF Paced, State
    <3>2. CASE ~trigger
      <4>1. Access([State EXCEPT !.c = d, !.h = h])
        BY <1>10, <2>4, <3>2
      <4>2. div' = div /\ c' = d /\ h' = h /\ f'.divider = f.divider
        BY <1>0, <1>9, <2>1, <4>1
      <4> QED BY <1>1, <2>1, <2>2, <4>2
    <3> QED BY <3>1, <3>2
  <2> HIDE DEF n
  <2>6. CASE enable # c.len
    <3> DEFINE up == enable /\ f.divider % 2 = 1
               left == IF up /\ c.counter > 0 THEN c.counter - 1 ELSE c.counter
    <3>1. (Gate(f', c') <=> up) /\ (up => ~Gate(f, c))
      BY <2>5, <2>6 DEF Gate
    <3>2. n = left \/ (left = 0 /\ n = LengthMax - IF up THEN 1 ELSE 0)
      BY <2>3, <2>6
    <3> HIDE DEF up
    <3>3. left = c.counter - IF Gate(f', c') /\ ~Gate(f, c) /\ c.counter > 0 THEN 1 ELSE 0
      BY <1>0, <3>1
    <3> HIDE DEF left
    <3> QED BY <2>5, <3>1, <3>2, <3>3
  <2>7. CASE enable = c.len
    BY <1>3, <2>5, <2>7
  <2> QED BY <2>5, <2>6, <2>7
<1>7. CASE PowerOff
  <2> DEFINE n == IF f.cgb THEN 0 ELSE c.counter
             g == [f EXCEPT !.power = FALSE, !.pending = "none"]
             k == [falls |-> 0, high |-> FALSE, counts |-> 0, clean |-> FALSE]
             d == [enabled |-> FALSE, dac |-> FALSE, len |-> FALSE, env |-> Silent,
                   counter |-> n]
             w == [State EXCEPT !.f = g, !.h = k, !.c = d]
  <2>1. Access([State EXCEPT !.f.power = FALSE, !.f.pending = "none", !.h = k, !.c = d])
    BY <1>0, <1>7 DEF PowerOff
  <2>2. Access(w)
    BY <1>0, <2>1
  <2>3. g \in Sequencer /\ ~g.power
    BY <1>0 DEF Sequencer
  <2>4. n \in 0..LengthMax
    BY <1>0, ApuAssumption DEF Channel
  <2>5. Silent \in Envelope /\ k \in History /\ ~k.clean
    BY ApuAssumption DEF Silent, Envelope, History
  <2> HIDE DEF n
  <2>6. d \in Channel
    BY <2>4, <2>5 DEF Channel
  <2> HIDE DEF g, k, d
  <2>7. w \in Whole /\ w.div = div /\ w.f = g /\ w.c = d /\ w.h = k
    BY <1>0, <2>3, <2>5, <2>6 DEF Whole
  <2> HIDE DEF w
  <2>8. div' = div /\ h' = k /\ ~f'.power
    BY <2>2, <2>3, <2>7, AccessVars
  <2> QED BY <1>2, <1>3, <2>5, <2>8
<1>8. CASE PowerOn
  <2> DEFINE up == high(f.prev_div, f.double_speed)
             lag == IF f.double_speed THEN 0 ELSE 1
             skip == IF up THEN "Skip" ELSE "Inactive"
             at == IF up THEN 1 ELSE 0
             g == [f EXCEPT !.power = TRUE, !.lag = lag, !.skip = skip, !.divider = at]
             k == [h EXCEPT !.falls = 0, !.high = up]
             w == [State EXCEPT !.f = g, !.h = k]
  <2>1. Access([State EXCEPT !.f.power = TRUE, !.f.lag = lag, !.f.skip = skip,
                             !.f.divider = at, !.h.falls = 0, !.h.high = up])
    BY <1>0, <1>8 DEF PowerOn
  <2>2. up \in BOOLEAN /\ lag \in {0, 1} /\ at \in 0..(FrameSteps - 1)
        /\ skip \in {"Skip", "Inactive"}
    <3>1. up \in BOOLEAN
      <4>1. CASE f.double_speed
        BY <4>1 DEF high
      <4>2. CASE ~f.double_speed
        BY <4>2 DEF high
      <4> QED BY <4>1, <4>2
    <3> QED BY <3>1, ApuAssumption
  <2> HIDE DEF up, lag, skip, at
  <2>3. Access(w)
    BY <1>0, <2>1
  <2>4. g \in Sequencer
    BY <1>0, <2>2 DEF Sequencer
  <2>5. k \in History /\ k.counts = h.counts /\ k.clean = h.clean
    <3>1. 0 \in 0..(FrameSteps + 2)
      BY ApuAssumption
    <3> QED BY <1>0, <2>2, <3>1 DEF History
  <2> HIDE DEF g, k
  <2>6. w \in Whole /\ w.div = div /\ w.f = g /\ w.c = c /\ w.h = k
    BY <1>0, <2>4, <2>5 DEF Whole
  <2> HIDE DEF w
  <2>7. div' = div /\ c' = c /\ h' = k
    BY <2>3, <2>6, AccessVars
  <2> QED BY <1>1, <1>3, <2>5, <2>7
<1> QED BY <1>4, <1>5, <1>6, <1>7, <1>8 DEF Write

\* The envelope is paced from the trigger on: in every reachable state of a channel whose
\* NRx2 nobody has written since, an armed envelope has counted its period and knows
\* whether its volume is at the end.
THEOREM PacedAlways == Spec => [](Good(State) /\ Paced(State))
<1>1. Init => Paced(State)
  BY DEF Init, Paced, State
<1>2. Good(State) /\ Paced(State) /\ [Next]_vars => Paced(State)'
  <2>1. UNCHANGED vars /\ Paced(State) => Paced(State)'
    <3>1. UNCHANGED vars => State' = State
      BY DEF vars, State
    <3> QED BY <3>1
  <2>2. Good(State) /\ Paced(State) /\ Clocking => Paced(State)'
    BY ClockingEffect DEF Effect, Still, Once
  <2> QED BY <2>1, <2>2, WriteEffect DEF Next
<1> QED BY <1>1, <1>2, Inductive, PTL DEF Spec

\* For every length a length clock is the rise of one gate, the enable bit and an odd step:
\* over M-cycles, DIV writes, STOP and speed switches, and writes of NRx4 with their extra
\* clock, one is taken off the counter when and only when the gate rises
\* (length.rs:55-88, mod.rs:442-487).
THEOREM LengthByTheGate == Spec => LengthClockIsAGateEdge
<1> DEFINE Clocks ==
      LET left == c.counter - IF Gate(f', c') /\ ~Gate(f, c) /\ c.counter > 0 THEN 1 ELSE 0
          full == LengthMax - IF Gate(f', c') THEN 1 ELSE 0
      IN /\ (div' # div /\ ~(f.skip = "Skipped" /\ f'.skip = "Inactive")) => c'.counter = left
         /\ (c'.len # c.len /\ f'.power) =>
              c'.counter \in {left} \union (IF left = 0 THEN {full} ELSE {})
<1>1. Good(State) /\ Paced(State) /\ Next => Clocks
  <2> SUFFICES ASSUME Good(State), Paced(State), Next PROVE Clocks
    OBVIOUS
  <2>1. CASE Write
    BY <2>1, WriteEffect
  <2>2. CASE Clocking
    <3>1. /\ State.f = f /\ State.c = c /\ State'.f = f' /\ State'.c = c'
          /\ c.counter \in Nat
      BY DEF State, Good, Whole, Channel
    <3>2. CASE Still(State, State')
      <4>1. c'.counter = c.counter /\ c'.len = c.len /\ (Gate(f', c') <=> Gate(f, c))
        BY <3>1, <3>2 DEF Still, Gate
      <4> QED BY <3>1, <4>1
    <3>3. CASE Once(State, State')
      <4>1. /\ c'.len = c.len
            /\ f.skip = "Skipped" => f'.skip = "Inactive"
            /\ f.skip # "Skipped" =>
                 c'.counter = IF Gate(f', c') /\ ~Gate(f, c) /\ c.counter > 0
                              THEN c.counter - 1 ELSE c.counter
        BY <3>1, <3>3 DEF Once
      <4> QED BY <3>1, <4>1
    <3> QED BY <2>2, <3>2, <3>3, ClockingEffect DEF Effect
  <2> QED BY <2>1, <2>2 DEF Next
<1>2. Good(State) /\ Paced(State) /\ [Next]_vars => [Clocks]_vars
  BY <1>1
<1>3. Spec => [][Clocks]_vars
  BY <1>2, PacedAlways, PTL DEF Spec
<1> QED BY <1>3 DEF LengthClockIsAGateEdge

\* For every range and period the volume of an envelope nobody rewrites moves one step at a
\* time in its direction, never past its end, and only with the period counted
\* (envelope.rs:6-16, 148-181).
THEOREM PaceKept == Spec => EnvelopeKeepsPace
<1> DEFINE Moved == div' # div /\ h.clean /\ c'.env.volume # c.env.volume
                    => /\ c'.env.volume = c.env.volume + IF c.env.add THEN 1 ELSE -1
                       /\ h.counts = c.env.period
<1>1. Good(State) /\ Paced(State) /\ Next => Moved
  <2> SUFFICES ASSUME Good(State), Paced(State), Next PROVE Moved
    OBVIOUS
  <2>1. CASE Write
    BY <2>1, WriteEffect
  <2>2. CASE Clocking
    <3>1. /\ State.f = f /\ State.c = c /\ State.h = h /\ State'.c = c'
      BY DEF State
    <3> QED BY <2>2, <3>1, ClockingEffect DEF Effect, Still, Once, Moves
  <2> QED BY <2>1, <2>2 DEF Next
<1>2. Good(State) /\ Paced(State) /\ [Next]_vars => [Moved]_vars
  BY <1>1
<1>3. Spec => [][Moved]_vars
  BY <1>2, PacedAlways, PTL DEF Spec
<1> QED BY <1>3 DEF EnvelopeKeepsPace
===============================================================================

---------------------------------- MODULE Apu ----------------------------------
(***************************************************************************)
(* The frame sequencer of the sound unit and what it clocks in a pulse     *)
(* channel: crates/slopgb-core/src/apu/mod.rs, length.rs and envelope.rs.  *)
(*                                                                         *)
(* DIV-APU is a bit of the divider; its falling edges are the steps of the *)
(* sequencer and its rising edges arm the envelope.  Single speed taps bit *)
(* 12 and double speed bit 13, DIV writes and STOP reset the divider, and  *)
(* in double speed an edge may reach the unit an M-cycle late.  An M-cycle *)
(* is a Tick and at most one access after it.  Sweep and sample output are *)
(* left out.                                                               *)
(***************************************************************************)
EXTENDS Integers

CONSTANTS Tap,        \* M-cycles bit 12 of the divider stays high (1024)
          FrameSteps, \* steps of the sequencer (8)
          LengthMax,  \* 64, 256 in the wave channel
          VolMax,     \* 15
          CountMod,   \* values of the envelope's countdown (8)
          Levels      \* the values written to NRx2

Level == [initial : 0..VolMax, add : BOOLEAN, period : 0..(CountMod - 1)]

ASSUME ApuAssumption ==
  /\ Tap \in Nat /\ Tap > 1
  /\ FrameSteps \in Nat /\ FrameSteps > 2 /\ FrameSteps % 2 = 0
  /\ LengthMax \in Nat /\ LengthMax > 1
  /\ VolMax \in Nat /\ VolMax > 1
  /\ CountMod \in Nat /\ CountMod > 1
  /\ Levels \subseteq Level

VARIABLES div, \* the divider of the timer, in M-cycles
          f,   \* the sequencer
          c,   \* the channel
          h    \* history

vars == <<div, f, c, h>>

\* cgb, double_speed: of the machine.  prev_div: the divider the unit saw last.
\* open: the CPU has made no access since the last tick.
Sequencer == [cgb : BOOLEAN, double_speed : BOOLEAN, power : BOOLEAN,
              divider : 0..(FrameSteps - 1), skip : {"Inactive", "Skip", "Skipped"},
              prev_div : 0..(4 * Tap - 1), lag : {0, 1},
              pending : {"none", "Falling", "Rising"}, open : BOOLEAN]
Envelope == [initial : 0..VolMax, add : BOOLEAN, period : 0..(CountMod - 1),
             volume : 0..VolMax, countdown : 0..(CountMod - 1),
             clock : BOOLEAN, should_lock : BOOLEAN, locked : BOOLEAN]
Channel == [enabled : BOOLEAN, dac : BOOLEAN, counter : 0..LengthMax, len : BOOLEAN,
            env : Envelope]
Silent == [initial |-> 0, add |-> FALSE, period |-> 0, volume |-> 0, countdown |-> 0,
           clock |-> FALSE, should_lock |-> FALSE, locked |-> FALSE]

\* falls: the falling edges of the tap since the unit was switched on; it turns from
\* FrameSteps + 2 to 3.  high: the tap was high then.  counts: the countdown steps since
\* the trigger or the last move of the volume, at most the period.  clean: NRx2 was not
\* written since the last trigger.
Init ==
  /\ div \in 0..(4 * Tap - 1)
  /\ f \in [cgb : BOOLEAN, double_speed : {FALSE}, power : {TRUE},
            divider : 0..(FrameSteps - 1), skip : {"Inactive"}, prev_div : {div},
            lag : {0}, pending : {"none"}, open : {FALSE}]
  /\ c = [enabled |-> FALSE, dac |-> FALSE, counter |-> 0, len |-> FALSE, env |-> Silent]
  /\ h = [falls |-> f.divider, high |-> FALSE, counts |-> 0, clean |-> FALSE]
-----------------------------------------------------------------------------
(* Length: what clocks the counter. *)

\* Mutant: reaching zero leaves the channel on.
MutLengthClockedKeepsOn(d) ==
  IF d.len /\ d.counter > 0 THEN [d EXCEPT !.counter = @ - 1] ELSE d
length_clocked(d) ==
  IF d.len /\ d.counter > 0
  THEN [d EXCEPT !.counter = @ - 1, !.enabled = @ /\ d.counter # 1] ELSE d

next_step_clocks_length == f.divider % 2 = 0

\* Mutant: enabling the counter clocks it whatever the next step is.
MutExtraClockAlways(d, enable, trigger) ==
  LET left == IF enable /\ ~d.len /\ d.counter > 0 THEN d.counter - 1 ELSE d.counter
  IN [d EXCEPT !.len = enable,
               !.counter = IF trigger /\ left = 0 THEN LengthMax ELSE left,
               !.enabled = @ /\ (left > 0 \/ left = d.counter \/ trigger)]

\* NRx4 before the trigger itself: enabling the counter between two length steps clocks
\* it, and the trigger reloads an empty one.
length_written(d, enable, trigger) ==
  LET extra == ~next_step_clocks_length /\ enable
      left == IF extra /\ ~d.len /\ d.counter > 0 THEN d.counter - 1 ELSE d.counter
  IN [d EXCEPT !.len = enable,
               !.counter = IF trigger /\ left = 0
                           THEN IF extra THEN LengthMax - 1 ELSE LengthMax ELSE left,
               !.enabled = @ /\ (left > 0 \/ left = d.counter \/ trigger)]
-----------------------------------------------------------------------------
(* Envelope. *)

wrapped(v) == v % (VolMax + 1)
dac_enabled(v) == v.initial # 0 \/ v.add
at_rail(e) == e.volume = IF e.add THEN VolMax ELSE 0

\* Arming records whether the volume is at the end of its range; disarming locks it there.
set_clock(e, value) ==
  CASE value = e.clock -> e
    [] value /\ ~e.clock -> [e EXCEPT !.clock = TRUE, !.should_lock = at_rail(e)]
    [] OTHER -> [e EXCEPT !.clock = FALSE, !.locked = @ \/ e.should_lock]

stepped(e, up) == [e EXCEPT !.volume = IF up THEN wrapped(@ + 1) ELSE wrapped(@ + VolMax)]

countdown_event(e) ==
  IF e.clock THEN e ELSE [e EXCEPT !.countdown = (@ + CountMod - 1) % CountMod]

arm(e, active) ==
  IF active /\ e.countdown = 0
  THEN set_clock([e EXCEPT !.countdown = e.period], e.period # 0) ELSE e

\* Mutant: the lock is looked at before the tick that sets it.
MutTickLocksLate(e) ==
  LET s == set_clock(e, FALSE)
  IN IF ~e.clock THEN e ELSE IF e.locked \/ e.period = 0 THEN s ELSE stepped(s, e.add)
tick_event(e) ==
  LET s == set_clock(e, FALSE)
  IN IF ~e.clock THEN e ELSE IF s.locked \/ e.period = 0 THEN s ELSE stepped(s, e.add)

triggered(e) ==
  [e EXCEPT !.volume = e.initial, !.countdown = e.period,
            !.clock = FALSE, !.should_lock = FALSE, !.locked = FALSE]

written(e, v) == [e EXCEPT !.initial = v.initial, !.add = v.add, !.period = v.period]

\* NRx2 on a playing channel ("zombie mode"): a change of direction inverts the volume and
\* some writes step it.
inverted(e, v) ==
  CASE ~v.add -> wrapped(VolMax + 1 - e.volume)
    [] v.add /\ e.period = 0 /\ ~e.locked -> VolMax - e.volume
    [] OTHER -> wrapped(2 * VolMax - e.volume)
ticks(e, v) ==
  /\ ~e.locked
  /\ \/ v.period # 0 /\ e.period = 0
     \/ v.add /\ e.add /\ v.period = 0 /\ e.period = 0
  /\ ~(v.add /\ ~e.add)
write_active(e, v) ==
  LET loaded == IF e.clock THEN [e EXCEPT !.countdown = v.period] ELSE e
      turned == IF v.add # e.add THEN [loaded EXCEPT !.volume = inverted(e, v)] ELSE loaded
  IN written(CASE ticks(e, v) -> stepped(turned, v.add)
               [] ~ticks(e, v) /\ v.period = 0 -> set_clock(turned, FALSE)
               [] OTHER -> turned, v)
-----------------------------------------------------------------------------
(* The sequencer.  The operators below map u, all the variables as a record. *)

high(d, ds) == IF ds THEN d >= 2 * Tap ELSE d % (2 * Tap) >= Tap
\* A falling edge of the tap, and the count of the history.
fell(u, d) ==
  u.f.power /\ high(u.div, u.f.double_speed) /\ ~high(d, u.f.double_speed)
counted(n) == IF n = FrameSteps + 2 THEN 3 ELSE n + 1

advanced(g) ==
  CASE g.skip = "Skip" -> [g EXCEPT !.skip = "Skipped"]
    [] g.skip = "Skipped" -> [g EXCEPT !.skip = "Inactive"]
    [] OTHER -> [g EXCEPT !.divider = (@ + 1) % FrameSteps]

\* The units on a step with this divider.
enveloped(e, divider) ==
  tick_event(IF divider = FrameSteps - 1 THEN countdown_event(e) ELSE e)
clocked(d, divider) ==
  LET e == [d EXCEPT !.env = enveloped(@, divider)]
  IN IF divider % 2 = 1 THEN length_clocked(e) ELSE e

\* The counts of the history: a countdown step counts, a moved volume starts over.
recounted(u, d, divider) ==
  IF d.env.volume # u.c.env.volume THEN 0
  ELSE IF divider = FrameSteps - 1 /\ u.h.clean /\ u.h.counts < d.env.period
  THEN u.h.counts + 1 ELSE u.h.counts

div_event(u) ==
  LET g == advanced(u.f)
      d == clocked(u.c, g.divider)
  IN IF u.f.skip = "Skip" THEN [u EXCEPT !.f = g]
     ELSE [u EXCEPT !.f = g, !.c = d, !.h.counts = recounted(u, d, g.divider)]

played(u, edge) ==
  LET v == [u EXCEPT !.f.pending = "none"]
  IN CASE edge = "Falling" -> div_event(v)
       [] edge = "Rising" -> [v EXCEPT !.c.env = arm(@, u.c.enabled)]
       [] OTHER -> v

\* The edge an M-cycle raises.  It replaces one that still waits.
raised(g, d) ==
  CASE ~g.power -> "none"
    [] g.power /\ high(g.prev_div, g.double_speed) /\ ~high(d, g.double_speed) -> "Falling"
    [] g.power /\ ~high(g.prev_div, g.double_speed) /\ high(d, g.double_speed) -> "Rising"
    [] OTHER -> "none"

\* An M-cycle runs a granule of the unit in double speed and two otherwise, also, paced, in
\* the first one of the pause that enters it.  An edge raised by a clock ahead of the unit
\* waits for the next granule.
tick(u, paced) ==
  LET d == (u.div + 1) % (4 * Tap)
      edge == raised(u.f, d)
      waits == edge # "none" /\ u.f.double_speed /\ ~paced /\ u.f.lag = 1
      v == [u EXCEPT !.div = d, !.f.prev_div = d,
                     !.h.falls = IF fell(u, d) THEN counted(@) ELSE @]
  IN IF waits THEN [v EXCEPT !.f.pending = edge]
     ELSE played(v, IF edge # "none" THEN edge ELSE u.f.pending)

\* Mutant: the unit's sample of the divider stays.
MutSwitchingKeepsSample(u) == [u EXCEPT !.div = 0]
div_write_switching(u) == [u EXCEPT !.div = 0, !.f.prev_div = 0]
div_write(u) ==
  LET v == div_write_switching(u)
      w == [v EXCEPT !.h.falls = IF fell(u, 0) THEN counted(@) ELSE @]
  IN IF u.f.power /\ high(u.f.prev_div, u.f.double_speed) THEN div_event(w) ELSE w
-----------------------------------------------------------------------------
(* The steps. *)

State == [div |-> div, f |-> f, c |-> c, h |-> h]
Become(u) == div' = u.div /\ f' = u.f /\ c' = u.c /\ h' = u.h
Access(u) == f.open /\ Become([u EXCEPT !.f.open = FALSE])

\* paced is only TRUE for the first M-cycle of a pause, which follows in StopEnter.
Tick == Become([tick(State, FALSE) EXCEPT !.f.open = TRUE])

WriteDIV == Access(div_write(State))

\* On DMG the length counter can be loaded while the unit is off.
WriteNRx1(n) ==
  /\ f.power \/ ~f.cgb
  /\ Access([State EXCEPT !.c.counter = n])

WriteNRx2(v) ==
  /\ f.power
  /\ Access([State EXCEPT
       !.c.dac = dac_enabled(v), !.c.enabled = @ /\ dac_enabled(v), !.h.clean = FALSE, !.h.counts = 0,
       !.c.env = IF dac_enabled(v) /\ c.enabled THEN write_active(@, v) ELSE written(@, v)])

WriteNRx4(enable, trigger) ==
  LET d == length_written(c, enable, trigger)
  IN /\ f.power
     /\ Access(IF trigger
               THEN [State EXCEPT !.c = [d EXCEPT !.enabled = d.dac, !.env = triggered(@)],
                                  !.h.counts = 0, !.h.clean = TRUE]
               ELSE [State EXCEPT !.c = d])

PowerOff ==
  /\ f.power
  /\ Access([State EXCEPT
       !.f.power = FALSE, !.f.pending = "none",
       !.h = [falls |-> 0, high |-> FALSE, counts |-> 0, clean |-> FALSE],
       !.c = [enabled |-> FALSE, dac |-> FALSE, len |-> FALSE, env |-> Silent,
              counter |-> IF f.cgb THEN 0 ELSE c.counter]])

\* With the tap high the next step is skipped and the one after it does not count.
PowerOn ==
  LET up == high(f.prev_div, f.double_speed)
  IN /\ ~f.power
     /\ Access([State EXCEPT
          !.f.power = TRUE, !.f.lag = IF f.double_speed THEN 0 ELSE 1,
          !.f.skip = IF up THEN "Skip" ELSE "Inactive", !.f.divider = IF up THEN 1 ELSE 0,
          !.h.falls = 0, !.h.high = up])

(* STOP: the read of the skipped byte unless an interrupt is pending, the DIV reset, and
   for a speed switch the cycle before the pause; the pause is a run of Ticks. *)
read_byte(u, pending) == IF pending THEN u ELSE tick(u, FALSE)
Stop(pending) == Access(div_write(read_byte(State, pending)))

StopLeave(pending) ==
  LET u == [State EXCEPT !.f.double_speed = FALSE, !.f.lag = 1 - @]
  IN /\ f.double_speed
     /\ Access(read_byte(div_write_switching(read_byte(u, pending)), pending))

\* pause: it runs for at least an M-cycle.
StopEnter(pending, pause) ==
  LET u == read_byte(div_write(read_byte(State, pending)), pending)
      v == [u EXCEPT !.f.double_speed = TRUE]
  IN /\ f.cgb /\ ~f.double_speed
     /\ pause => ~pending
     /\ Access(IF pause THEN tick(v, TRUE) ELSE v)

Write ==
  \/ \E n \in 1..LengthMax : WriteNRx1(n)
  \/ \E v \in Levels : WriteNRx2(v)
  \/ \E enable, trigger \in BOOLEAN : WriteNRx4(enable, trigger)
  \/ PowerOff \/ PowerOn
Clocking ==
  \/ Tick \/ WriteDIV
  \/ \E pending \in BOOLEAN : Stop(pending) \/ StopLeave(pending)
  \/ \E pending, pause \in BOOLEAN : StopEnter(pending, pause)
Next == Clocking \/ Write

Spec == Init /\ [][Next]_vars
-----------------------------------------------------------------------------
TypeOK ==
  /\ div \in 0..(4 * Tap - 1) /\ f \in Sequencer /\ c \in Channel
  /\ h \in [falls : 0..(FrameSteps + 2), high : BOOLEAN, counts : 0..(CountMod - 1),
            clean : BOOLEAN]

\* The sequencer is where the falling edges of the tap have led it since the unit was
\* switched on, the first one skipped and the second one not counted when the tap was high
\* then: no edge is lost or played twice over DIV writes, speed switches, power cycles
\* and the clock by which the unit trails in double speed (mod.rs:283-323, 442-474,
\* 686-705).
SequencerFollowsTap ==
  LET n == IF f.pending = "Falling" THEN h.falls - 1 ELSE h.falls
      at == IF h.high THEN IF n < 2 THEN 1 ELSE (n - 1) % FrameSteps ELSE n % FrameSteps
  IN f.power => f.divider = at

\* A channel never plays on an empty length counter, whichever of a step, the extra clock
\* of NRx4, a trigger or a load moved it: nothing would ever end it (length.rs:43-88).
PlayingHasLength == c.enabled => c.counter > 0 /\ c.dac /\ f.power

Gate(g, d) == d.len /\ g.divider % 2 = 1

\* A length clock is the rise of one gate, the enable bit and an odd step of the sequencer.
\* What moves the divider, and a write that turns the enable bit, take one off the counter
\* when and only when the gate rises, but for the step after the skipped one, which runs
\* with the gate already up; a trigger may then fill an empty counter, less the clock of a
\* gate that is up (length.rs:55-88, mod.rs:442-487).
LengthClockIsAGateEdge ==
  [][LET left == c.counter - IF Gate(f', c') /\ ~Gate(f, c) /\ c.counter > 0 THEN 1 ELSE 0
         full == LengthMax - IF Gate(f', c') THEN 1 ELSE 0
     IN /\ (div' # div /\ ~(f.skip = "Skipped" /\ f'.skip = "Inactive")) => c'.counter = left
        /\ (c'.len # c.len /\ f'.power) =>
             c'.counter \in {left} \union (IF left = 0 THEN {full} ELSE {})]_vars

\* Unless NRx2 is written after the trigger, the volume moves one step at a time in the
\* direction of the envelope, never past its end, and not before the countdown has counted
\* the period since the trigger or the last move (envelope.rs:6-16, 148-181).
EnvelopeKeepsPace ==
  [][div' # div /\ h.clean /\ c'.env.volume # c.env.volume
     => /\ c'.env.volume = c.env.volume + IF c.env.add THEN 1 ELSE -1
        /\ h.counts = c.env.period]_vars
=============================================================================

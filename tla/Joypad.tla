-------------------------------- MODULE Joypad --------------------------------
(***************************************************************************)
(* P1 (FF00), crates/slopgb-core/src/joypad.rs: the key matrix with its    *)
(* interrupt and, on a Super Game Boy, the ICD2 that snoops every write:   *)
(* the receiver of command packets, sent bit by bit as pulses on P14 and   *)
(* P15, and the multiplexer of up to four pads.                            *)
(*                                                                         *)
(* A step is one call of a method of Joypad.  A packet has PacketBits bits *)
(* (128); what its first one says of a command is Length and Players.      *)
(***************************************************************************)
EXTENDS Integers, Sequences

CONSTANTS PacketBits, \* bits of a packet
          MaxPackets, \* packets of the longest command (7)
          PacketQueueCap, \* SGB_PACKET_QUEUE_CAP
          Length,     \* the packets of a command, by its first packet
          Players,    \* the players its MLT_REQ asks for, 0 for other commands
          Lines,      \* P10 to P13
          Feeds       \* the pads the SNES side may feed

Packet == [1..PacketBits -> {0, 1}]
NoPacket == <<>>

ASSUME PacketAssumption ==
  /\ PacketBits \in Nat \ {0} /\ MaxPackets \in Nat \ {0} /\ PacketQueueCap \in Nat \ {0}
  /\ Length \in [Packet -> 1..MaxPackets]
  /\ Players \in [Packet -> {0, 1, 2, 3, 4}]
Pad == [dpad : SUBSET Lines, buttons : SUBSET Lines]
NoFeed == <<>>
ASSUME FeedAssumption == Feeds \subseteq [0..3 -> Pad] /\ NoFeed \notin Feeds

VARIABLES keys, \* the select lines that are high, and the keys held in each column
          irq,  \* an interrupt is latched
          sgb,  \* the fields of struct Sgb
          out,  \* what the last step gave to the SNES side, and to the debugger
          h     \* history

joypadVars == <<keys, irq, sgb, out, h>>

Keys == [high : SUBSET {"P14", "P15"}, dpad : SUBSET Lines, buttons : SUBSET Lines]
\* present: the machine has the port.  command: the bits received; its length is
\* write_index.
Sgb == [present : BOOLEAN, command : Seq({0, 1}), pulse : BOOLEAN, write : BOOLEAN,
        stop : BOOLEAN, count : 1..4, player : 0..3, packets : Seq(Packet),
        feed : Feeds \union {NoFeed}]
Silence == [packet |-> NoPacket, cmd |-> NoPacket, start |-> FALSE]

\* wire: the pulses since the last reset pulse, two more than a packet at most.
\* run: the packets accepted since the debugger saw a transfer start, or since a command
\* ended.
JoypadInit ==
  /\ keys = [high |-> {}, dpad |-> {}, buttons |-> {}]
  /\ irq = FALSE
  /\ sgb \in [present : BOOLEAN, command : {<<>>}, pulse : {FALSE}, write : {FALSE},
              stop : {FALSE}, count : {1}, player : {0}, packets : {<<>>}, feed : {NoFeed}]
  /\ out = Silence
  /\ h = [wire |-> <<>>, run |-> <<>>]
-----------------------------------------------------------------------------
(* The key matrix. *)

\* The pads of the selected player replace the keys once the SNES side feeds them.
held(k, g) ==
  IF g.feed # NoFeed THEN g.feed[g.player] ELSE [dpad |-> k.dpad, buttons |-> k.buttons]
\* The input lines that are low.
input_lines(k, g) ==
  (IF "P14" \notin k.high THEN held(k, g).dpad ELSE {})
  \union (IF "P15" \notin k.high THEN held(k, g).buttons ELSE {})
falls(k1, g1, k2, g2) == input_lines(k2, g2) \ input_lines(k1, g1) # {}
-----------------------------------------------------------------------------
(* The receiver: each pulse maps the port to the port and what it gives out. *)

result(g, o) == [port |-> g, out |-> o]
at_boundary(c) == Len(c) % PacketBits = 0
first(c) == SubSeq(c, 1, PacketBits)
last(c) == SubSeq(c, Len(c) - PacketBits + 1, Len(c))
command_size(c) == PacketBits * Length[first(c)]
discarded(g) == [g EXCEPT !.command = <<>>]

tee_packet(q, p) == IF Len(q) < PacketQueueCap THEN Append(q, p) ELSE Append(Tail(q), p)

\* MLT_REQ; a switch to the unsupported mode leaves three players and maps the selected
\* one to 0 or 2.
switched(g, n) ==
  [g EXCEPT !.count = n,
            !.player = CASE n = 1 -> 0
                         [] n = 3 -> IF (@ + 1) % 4 >= 2 THEN 2 ELSE 0
                         [] OTHER -> @ % n]
command_ready(g) ==
  LET n == Players[first(g.command)] IN IF n = 0 THEN g ELSE switched(g, n)

listens(g) == g.pulse /\ g.write
has_room(g) == Len(g.command) < MaxPackets * PacketBits

data_bit(g, bit) ==
  IF ~has_room(g) THEN g
  ELSE LET c == Append(g.command, bit)
       IN [g EXCEPT !.command = c, !.pulse = FALSE, !.stop = @ \/ at_boundary(c)]

\* Mutant: a command that is complete stays in the buffer.
MutAcceptKeepsCommand(g) ==
  LET done == Len(g.command) = command_size(g.command)
      kept == [g EXCEPT !.packets = tee_packet(@, last(g.command)),
                        !.pulse = FALSE, !.write = FALSE, !.stop = FALSE]
  IN result(IF done THEN command_ready(kept) ELSE kept,
            [packet |-> last(g.command), start |-> FALSE,
             cmd |-> IF done THEN g.command ELSE NoPacket])

\* The stop bit.
packet_accepted(g) ==
  LET done == Len(g.command) = command_size(g.command)
      kept == [g EXCEPT !.packets = tee_packet(@, last(g.command)),
                        !.pulse = FALSE, !.write = FALSE, !.stop = FALSE]
  IN result(IF done THEN discarded(command_ready(kept)) ELSE kept,
            [packet |-> last(g.command), start |-> FALSE,
             cmd |-> IF done THEN g.command ELSE NoPacket])

zero_pulse(g) ==
  IF ~listens(g) THEN result(g, Silence)
  ELSE IF g.stop THEN packet_accepted(g) ELSE result(data_bit(g, 0), Silence)

\* A "1" in the place of the stop bit drops the command.
one_pulse(g) ==
  IF ~listens(g) THEN result(g, Silence)
  ELSE IF g.stop THEN result(discarded([g EXCEPT !.pulse = FALSE, !.write = FALSE]), Silence)
  ELSE result(data_bit(g, 1), Silence)

\* Mutant: a reset before the stop bit passes for one between two packets.
MutResetAtBoundary(g) ==
  LET starts == ~at_boundary(g.command) \/ g.command = <<>>
      opened == [g EXCEPT !.write = TRUE, !.pulse = FALSE]
  IN IF ~g.pulse THEN result(g, Silence)
     ELSE result(IF starts THEN [discarded(opened) EXCEPT !.stop = FALSE] ELSE opened,
                 [Silence EXCEPT !.start = starts])

\* Between two packets of a command a reset pulse goes on with it; elsewhere it starts a
\* new one.
reset_pulse(g) ==
  LET starts == ~at_boundary(g.command) \/ g.command = <<>> \/ g.stop
      opened == [g EXCEPT !.write = TRUE, !.pulse = FALSE]
  IN IF ~g.pulse THEN result(g, Silence)
     ELSE result(IF starts THEN [discarded(opened) EXCEPT !.stop = FALSE] ELSE opened,
                 [Silence EXCEPT !.start = starts])

\* A rising P15 selects the next pad of two or four.
rotated(g, old, new) ==
  IF "P15" \in new \ old /\ g.count % 2 = 0
  THEN [g EXCEPT !.player = (@ + 1) % g.count] ELSE g

joyp_write(g, old, new) ==
  LET r == rotated(g, old, new)
  IN CASE new = {"P14", "P15"} -> result([r EXCEPT !.pulse = TRUE], Silence)
       [] new = {"P15"} -> zero_pulse(r)
       [] new = {"P14"} -> one_pulse(r)
       [] new = {} -> reset_pulse(r)
-----------------------------------------------------------------------------
(* The history of a write. *)

wired(w, g, new) ==
  IF ~g.pulse \/ new = {"P14", "P15"} THEN w
  ELSE IF new = {} THEN <<>>
  ELSE IF Len(w) < PacketBits + 2 THEN Append(w, IF new = {"P15"} THEN 0 ELSE 1) ELSE w

told(k, g, new, o) ==
  [wire |-> wired(k.wire, g, new),
   run |-> IF o.start \/ out.cmd # NoPacket THEN <<>>
           ELSE IF o.packet # NoPacket THEN Append(k.run, o.packet) ELSE k.run]
quiet == out' = Silence /\ h' = [h EXCEPT !.run = IF out.cmd # NoPacket THEN <<>> ELSE @]
-----------------------------------------------------------------------------
(* The methods of Joypad. *)

\* Mutant: the lines are sampled after the port has seen the write.
MutWriteSamplesLate(new) ==
  LET r == IF sgb.present THEN joyp_write(sgb, keys.high, new) ELSE result(sgb, Silence)
  IN /\ keys' = [keys EXCEPT !.high = new]
     /\ sgb' = r.port /\ out' = r.out /\ h' = told(h, sgb, new, r.out)
     /\ irq' = (irq \/ falls(keys, r.port, keys', r.port))

Write(new) ==
  LET r == IF sgb.present THEN joyp_write(sgb, keys.high, new) ELSE result(sgb, Silence)
  IN /\ keys' = [keys EXCEPT !.high = new]
     /\ sgb' = r.port /\ out' = r.out /\ h' = told(h, sgb, new, r.out)
     /\ irq' = (irq \/ falls(keys, sgb, keys', r.port))

Press(column, line) ==
  /\ keys' = [keys EXCEPT ![column] = @ \union {line}]
  /\ irq' = (irq \/ falls(keys, sgb, keys', sgb))
  /\ sgb' = sgb /\ quiet

Release(column, line) ==
  /\ keys' = [keys EXCEPT ![column] = @ \ {line}]
  /\ UNCHANGED <<irq, sgb>> /\ quiet

SetSgbFeed(pads) ==
  /\ sgb.present
  /\ sgb' = [sgb EXCEPT !.feed = pads]
  /\ irq' = (irq \/ falls(keys, sgb, keys, sgb'))
  /\ keys' = keys /\ quiet

TakeIrq == irq /\ irq' = FALSE /\ UNCHANGED <<keys, sgb>> /\ quiet

TakeSgbPacket ==
  /\ sgb.packets # <<>>
  /\ sgb' = [sgb EXCEPT !.packets = Tail(@)]
  /\ UNCHANGED <<keys, irq>> /\ quiet

JoypadNext ==
  \/ \E new \in SUBSET {"P14", "P15"} : Write(new)
  \/ \E column \in {"dpad", "buttons"}, line \in Lines :
       Press(column, line) \/ Release(column, line)
  \/ \E pads \in Feeds : SetSgbFeed(pads)
  \/ TakeIrq \/ TakeSgbPacket

JoypadSpec == JoypadInit /\ [][JoypadNext]_joypadVars
-----------------------------------------------------------------------------
\* The receiver never outgrows the command it receives, the queue keeps its cap, and the
\* selected player exists in every mode, also in the glitched one: every state the port
\* reaches is one that read_state accepts (joypad.rs:530-538).
JoypadTypeOK ==
  /\ keys \in Keys /\ irq \in BOOLEAN /\ sgb \in Sgb
  /\ sgb.player < sgb.count
  /\ Len(sgb.packets) <= PacketQueueCap
  /\ Len(sgb.command) >= PacketBits => Len(sgb.command) <= command_size(sgb.command)

\* A packet is accepted only when its bits and its stop bit, and nothing else, came
\* since a reset pulse, whatever was written before, between and after
\* (joypad.rs:200-263).
PacketIsFramed ==
  out.packet # NoPacket => h.wire = Append(out.packet, 0)

\* The packets that the bits of a command are.
cut(c) == [i \in 1..Len(c) \div PacketBits |->
             SubSeq(c, PacketBits * (i - 1) + 1, PacketBits * i)]

\* A command is delivered as soon as the packets accepted since the transfer start that the
\* debugger was told of are as many as the first one announces, and it consists of all of
\* them in order: none is lost, and none serves two commands (joypad.rs:180-192,
\* 204-214, 251-261).
CommandIsItsPackets ==
  h.run # <<>> =>
    /\ Len(h.run) <= Length[h.run[1]]
    /\ Len(h.run) = Length[h.run[1]] <=> out.cmd # NoPacket
    /\ out.cmd # NoPacket => Len(out.cmd) = PacketBits * Len(h.run) /\ cut(out.cmd) = h.run

\* The interrupt is latched by a step exactly when it lowers an input line, be it by a key,
\* by the select lines, by a pad of the SNES side or by the change of player that the same
\* write makes (joypad.rs:392-396, 464-474).
InterruptIsAFall ==
  [][(irq' /\ ~irq) <=> ~irq /\ falls(keys, sgb, keys', sgb')]_joypadVars
=============================================================================

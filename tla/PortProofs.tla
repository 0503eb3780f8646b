------------------------------ MODULE PortProofs ------------------------------
(***************************************************************************)
(* Proofs about the two ports whose bits the program clocks: Serial and    *)
(* Joypad.                                                                 *)
(*                                                                         *)
(* Serial, for every width of a byte, both clocks and every queue          *)
(* capacity.  The argument: the divider the port saw last is the divider   *)
(* whenever a master transfer is being clocked and STOP has not run, so    *)
(* the edges it sees are those of the clock bit; each one toggles the      *)
(* flip-flop and every second one shifts; and a held master has shifted    *)
(* all its bits and found no byte of its peer.  As long as nothing else    *)
(* touches SB, its last bits are the ones of the open cable, as many as    *)
(* have been shifted; and a byte of the peer meets a held master, whose    *)
(* queue is empty, or goes to the end of the queue an ending transfer      *)
(* takes the head of.                                                      *)
(*                                                                         *)
(* Joypad, for every length of a packet and of a command, every queue      *)
(* capacity and any keys and pads.  The argument: the buffer is the        *)
(* packets accepted since the start of the command followed by the pulses  *)
(* since the last reset, and the stop bit is due exactly when those are a  *)
(* packet; with no packet open the buffer holds the accepted ones or       *)
(* nothing; and as long as a command is not delivered its packets are      *)
(* fewer than the first one announces.  A write does one of six things to  *)
(* that account, and every other step none.                                *)
(***************************************************************************)
EXTENDS Serial, Joypad, TLAPS, SequenceTheorems

\* A queue of bytes and what the port does with it.
Queue == {q \in Seq(Byte) : Len(q) <= QueueCap}
Wired == s \in SerialState /\ s.link_in \in Queue /\ s.link_out \in Queue
running == is_master(s) /\ ~s.link_master_waiting

\* The types of the port: those of TypeOK but what came in the last step.
PortOK ==
  /\ s \in SerialState
  /\ Len(s.link_in) <= QueueCap /\ Len(s.link_out) <= QueueCap
  /\ div \in DivValue
  /\ due \in BOOLEAN /\ iff \in BOOLEAN
  /\ run \in History

Held ==
  s.link_master_waiting =>
    is_master(s) /\ s.link_connected /\ s.shifted = 0 /\ s.link_in = <<>>
Synced ==
  /\ due => s.prev_div = div
  /\ running /\ ~run.stop => s.prev_div = div
Counted ==
  IF running
  THEN ~run.stop =>
         run.edges = 2 * (s.shifted - run.forced) + (IF s.master_clock THEN 1 ELSE 0)
  ELSE run = NoRun

IInv == PortOK /\ Held /\ Synced /\ Counted
-----------------------------------------------------------------------------
\* The powers of two the register is built from, and its two extreme values.
LEMMA Bytes ==
  /\ 2^Width \in Nat \ {0} /\ 2^(Width - 1) \in Nat \ {0}
  /\ ones \in Byte /\ 0 \in Byte
<1>1. Width \in 0..Width /\ Width - 1 \in 0..Width
  BY WidthAssumption
<1>2. 2^Width \in Nat \ {0} /\ 2^(Width - 1) \in Nat \ {0}
  BY <1>1, PowerAssumption
<1> DEFINE n == 2^Width
<1>3. n \in Nat \ {0}
  BY <1>2
<1> HIDE DEF n
<1>4. n - 1 \in 0..(n - 1) /\ 0 \in 0..(n - 1)
  BY <1>3
<1> QED BY <1>2, <1>4 DEF n, ones, Byte

\* A transfer begins with no bit shifted.
LEMMA ZeroShifted == 0 \in 0..(Width - 1)
BY WidthAssumption

\* A shifted byte is a byte, whatever bit comes in.
LEMMA Shifting ==
  ASSUME NEW v \in Byte, NEW bit \in Int
  PROVE  shifted_in(v, bit) \in Byte
<1> DEFINE n == 2^Width
<1>1. n \in Nat \ {0}
  BY Bytes
<1>2. v \in 0..(n - 1)
  BY DEF Byte
<1> HIDE DEF n
<1>3. 2 * v + bit \in Int
  BY <1>1, <1>2
<1>4. (2 * v + bit) % n \in 0..(n - 1)
  BY <1>1, <1>3
<1> QED BY <1>4 DEF n, shifted_in, Byte

\* The bit that leaves SB.
LEMMA MsbBit == ASSUME NEW v \in Byte PROVE msb(v) \in Int
<1> DEFINE n == 2^Width
           k == 2^(Width - 1)
<1>1. n \in Nat \ {0} /\ k \in Nat \ {0}
  BY Bytes
<1>2. v \in 0..(n - 1)
  BY DEF Byte
<1> HIDE DEF n, k
<1>3. v \div k \in Int
  BY <1>1, <1>2
<1> QED BY <1>3 DEF k, msb
\* The bit that enters is a number, whatever holds the other end.
LEMMA IncomingBit ==
  ASSUME NEW p \in SerialState
  PROVE  incoming(p) \in Int
<1>1. CASE p.link_in = <<>>
  BY <1>1 DEF incoming
<1>2. CASE p.link_in # <<>>
  <2> DEFINE v == Head(p.link_in)
             k == 2^(Width - 1 - p.shifted)
  <2>1. v \in Nat
    <3>1. p.link_in \in Seq(Byte)
      BY DEF SerialState
    <3>2. v \in Byte
      BY <3>1, <1>2
    <3> QED BY <3>2, Bytes DEF Byte
  <2>2. Width - 1 - p.shifted \in 0..Width
    BY WidthAssumption DEF SerialState
  <2>3. k \in Nat \ {0}
    BY <2>2, PowerAssumption
  <2> HIDE DEF v, k
  <2>4. (v \div k) % 2 \in Int
    BY <2>1, <2>3
  <2> QED BY <2>4, <1>2 DEF v, k, incoming
<1> QED BY <1>1, <1>2

\* A queue drops what exceeds its cap, and losing its head keeps it one.
LEMMA Enqueued ==
  ASSUME NEW q \in Queue, NEW v \in Byte
  PROVE  enqueued(q, v) \in Queue
BY BoundsAssumption DEF Queue, enqueued

\* What the head of a queue is, and what remains.
LEMMA Dequeued ==
  ASSUME NEW q \in Queue, q # <<>>
  PROVE  Tail(q) \in Queue /\ Head(q) \in Byte
<1>1. q \in Seq(Byte) /\ Len(q) <= QueueCap
  BY DEF Queue
<1>2. Tail(q) \in Seq(Byte) /\ Len(Tail(q)) = Len(q) - 1 /\ Len(q) \in Nat
  BY <1>1
<1>3. Head(q) \in Byte
  BY <1>1
<1>4. Len(q) - 1 <= QueueCap
  BY <1>1, <1>2, BoundsAssumption
<1> QED BY <1>2, <1>3, <1>4 DEF Queue

\* The empty queue is within the cap.
LEMMA EmptyQueue == <<>> \in Queue
BY BoundsAssumption DEF Queue

\* The fields of a state one at a time.
LEMMA Fields ==
  ASSUME NEW p \in SerialState
  PROVE  /\ p.sb \in Byte /\ p.sc \in Control /\ p.shifted \in 0..(Width - 1)
         /\ p.out_shift \in Byte /\ p.prev_div \in DivValue
         /\ p.cgb \in BOOLEAN /\ p.master_clock \in BOOLEAN
         /\ p.link_connected \in BOOLEAN /\ p.link_master_waiting \in BOOLEAN
         /\ p.sc.active \in BOOLEAN /\ p.sc.fast \in BOOLEAN /\ p.sc.internal \in BOOLEAN
         /\ p.link_in \in Seq(Byte) /\ p.link_out \in Seq(Byte)
BY DEF SerialState, Control
-----------------------------------------------------------------------------
\* A state whose queues are bounded.
Port == {p \in SerialState : p.link_in \in Queue /\ p.link_out \in Queue}
\* q differs from p in nothing an edge leaves alone.
Same(p, q) ==
  /\ q.cgb = p.cgb /\ q.prev_div = p.prev_div /\ q.link_connected = p.link_connected
  /\ q.sc.internal = p.sc.internal /\ q.sc.fast = p.sc.fast

\* Ending a transfer clears the start bit and nothing else.
LEMMA Ended ==
  ASSUME NEW p \in Port
  PROVE  /\ ended(p) \in Port /\ Same(p, ended(p)) /\ ~ended(p).sc.active
         /\ ended(p).shifted = p.shifted /\ ended(p).master_clock = p.master_clock
         /\ ended(p).link_master_waiting = p.link_master_waiting
         /\ ended(p).link_in = p.link_in /\ ended(p).link_out = p.link_out
<1> DEFINE c == [p.sc EXCEPT !.active = FALSE]
<1>1. c \in Control /\ ~c.active /\ c.internal = p.sc.internal /\ c.fast = p.sc.fast
  BY Fields DEF Port, Control
<1> HIDE DEF c
<1>2. ended(p) = [p EXCEPT !.sc = c]
  BY DEF ended, c
<1> QED BY <1>1, <1>2 DEF Port, SerialState, Same

\* The last bit: the transfer ends, or the port holds with a peer that sent nothing.
LEMMA Completed ==
  ASSUME NEW p \in Port
  PROVE  LET q == completed(p)
         IN /\ q \in Port /\ Same(p, q) /\ q.shifted = p.shifted
            /\ q.master_clock = p.master_clock
            /\ \/ ~q.sc.active /\ q.link_master_waiting = p.link_master_waiting
               \/ /\ q.link_master_waiting /\ q.sc = p.sc
                  /\ q.link_in = <<>> /\ q.link_connected
<1>1. CASE ~p.link_connected
  BY <1>1, Ended DEF completed
<1>2. CASE p.link_connected
  <2> DEFINE o == enqueued(p.link_out, p.out_shift)
             q == [p EXCEPT !.link_out = o]
             w == [q EXCEPT !.link_master_waiting = TRUE]
             b == Head(p.link_in)
             t == Tail(p.link_in)
             r == [q EXCEPT !.sb = b, !.link_in = t]
  <2>1. o \in Queue
    BY Fields, Enqueued DEF Port
  <2>2. p.link_in # <<>> => t \in Queue /\ b \in Byte
    BY Dequeued DEF Port
  <2>3. completed(p) = IF p.link_in = <<>> THEN w ELSE ended(r)
    BY <1>2 DEF completed
  <2> HIDE DEF o, b, t
  <2>4. /\ q \in Port /\ q.link_in = p.link_in /\ Same(p, q) /\ q.sc = p.sc
        /\ q.shifted = p.shifted /\ q.master_clock = p.master_clock
        /\ q.link_master_waiting = p.link_master_waiting
    BY <2>1 DEF Port, SerialState, Queue, Same
  <2> HIDE DEF q
  <2>5. CASE p.link_in = <<>>
    <3>1. /\ w \in Port /\ Same(q, w) /\ w.sc = q.sc /\ w.shifted = q.shifted
          /\ w.master_clock = q.master_clock /\ w.link_master_waiting
          /\ w.link_in = q.link_in
      BY <2>4 DEF Port, SerialState, Same
    <3> HIDE DEF w
    <3> QED BY <1>2, <2>3, <2>4, <2>5, <3>1 DEF Same
  <2>6. CASE p.link_in # <<>>
    <3>1. /\ r \in Port /\ Same(q, r) /\ r.sc = q.sc /\ r.shifted = q.shifted
          /\ r.master_clock = q.master_clock
          /\ r.link_master_waiting = q.link_master_waiting
      BY <2>2, <2>4, <2>6 DEF Port, SerialState, Same, Queue
    <3> HIDE DEF r
    <3> QED BY <2>3, <2>4, <2>6, <3>1, Ended DEF Same
  <2> QED BY <2>5, <2>6
<1> QED BY <1>1, <1>2, Fields DEF Port

\* The edge shifts when the flip-flop drops in a master transfer that is not held.
Shifts(p) == p.master_clock /\ is_master(p) /\ ~p.link_master_waiting

\* An edge turns the flip-flop.  It shifts one bit, ends or holds the transfer with the
\* last one, or touches nothing else.
LEMMA Edge ==
  ASSUME NEW p \in Port
  PROVE  LET q == master_edge(p)
         IN /\ q \in Port /\ Same(p, q) /\ (q.master_clock <=> ~p.master_clock)
            /\ CASE ~Shifts(p) ->
                      /\ q.sc = p.sc /\ q.shifted = p.shifted
                      /\ q.link_master_waiting = p.link_master_waiting
                      /\ q.link_in = p.link_in /\ q.link_out = p.link_out
                 [] Shifts(p) /\ p.shifted < Width - 1 ->
                      /\ q.sc = p.sc /\ q.shifted = p.shifted + 1
                      /\ ~q.link_master_waiting
                      /\ q.link_in = p.link_in /\ q.link_out = p.link_out
                 [] OTHER ->
                      /\ q.shifted = 0
                      /\ \/ ~q.sc.active /\ ~q.link_master_waiting
                         \/ /\ q.link_master_waiting /\ q.sc = p.sc
                            /\ q.link_in = <<>> /\ q.link_connected
<1> DEFINE t == [p EXCEPT !.master_clock = ~@]
<1>1. /\ t \in Port /\ Same(p, t) /\ (t.master_clock <=> ~p.master_clock) /\ t.sc = p.sc
      /\ t.shifted = p.shifted /\ t.link_master_waiting = p.link_master_waiting
      /\ t.link_in = p.link_in /\ t.link_out = p.link_out
  BY DEF Port, SerialState, Same
<1>2. master_edge(p) = IF Shifts(p) THEN shifted_one(t) ELSE t
  BY DEF master_edge, Shifts
<1> HIDE DEF t
<1>3. CASE ~Shifts(p)
  BY <1>1, <1>2, <1>3
<1>4. CASE Shifts(p)
  <2> DEFINE o == shifted_in(t.out_shift, msb(t.sb))
             b == shifted_in(t.sb, incoming(t))
             n == (t.shifted + 1) % Width
             q == [t EXCEPT !.out_shift = o, !.sb = b, !.shifted = n]
  <2>0. t \in SerialState
    BY <1>1 DEF Port
  <2>1. o \in Byte /\ b \in Byte
    BY <2>0, Fields, Shifting, MsbBit, IncomingBit
  <2>2. /\ n \in 0..(Width - 1) /\ p.shifted \in 0..(Width - 1)
        /\ n = IF p.shifted < Width - 1 THEN p.shifted + 1 ELSE 0
    <3> DEFINE k == t.shifted
    <3>1. k \in 0..(Width - 1) /\ p.shifted = k
      BY <1>1, <2>0, Fields
    <3> HIDE DEF k
    <3>2. k < Width - 1 => (k + 1) % Width = k + 1
      BY <3>1, WidthAssumption
    <3>3. k = Width - 1 => (k + 1) % Width = 0
      BY <3>1, WidthAssumption
    <3> QED BY <3>1, <3>2, <3>3, WidthAssumption DEF k
  <2>3. shifted_one(t) = IF q.shifted = 0 THEN completed(q) ELSE q
    BY DEF shifted_one
  <2> HIDE DEF o, b, n
  <2>4. /\ q \in Port /\ Same(t, q) /\ q.master_clock = t.master_clock /\ q.sc = t.sc
        /\ q.shifted = n /\ q.link_master_waiting = t.link_master_waiting
        /\ q.link_in = t.link_in /\ q.link_out = t.link_out
    BY <1>1, <2>1, <2>2 DEF Port, SerialState, Same
  <2> HIDE DEF q
  <2>5. ~p.link_master_waiting
    BY <1>4 DEF Shifts
  <2>6. CASE p.shifted < Width - 1
    <3>1. n # 0
      BY <2>2, <2>6
    <3> QED BY <1>1, <1>2, <1>4, <2>2, <2>3, <2>4, <2>5, <2>6, <3>1 DEF Same
  <2>7. CASE ~(p.shifted < Width - 1)
    <3>1. master_edge(p) = completed(q) /\ q.shifted = 0
      BY <1>2, <1>4, <2>2, <2>3, <2>4, <2>7
    <3> QED BY <1>1, <1>4, <2>4, <2>5, <2>7, <3>1, Completed DEF Same
  <2> QED BY <2>6, <2>7
<1> QED BY <1>3, <1>4
-----------------------------------------------------------------------------
\* A transfer begins with an empty history.
LEMMA RunTyped ==
  /\ NoRun \in History /\ NoRun.edges = 0 /\ NoRun.forced = 0 /\ ~NoRun.stop
  /\ 0 \in 0..EdgeCap
BY BoundsAssumption DEF NoRun, History

\* Counting an edge of the clock bit.
LEMMA Saw ==
  ASSUME run \in History, NEW edge \in BOOLEAN
  PROVE  /\ saw(edge) \in History /\ saw(edge).forced = run.forced
         /\ saw(edge).stop = run.stop
         /\ ~run.stop /\ run.edges < EdgeCap =>
              saw(edge).edges = run.edges + (IF edge THEN 1 ELSE 0)
<1> DEFINE n == IF edge /\ run.edges < EdgeCap /\ ~run.stop THEN run.edges + 1 ELSE run.edges
<1>1. run.edges \in 0..EdgeCap
  BY DEF History
<1>2. n \in 0..EdgeCap
  BY <1>1, BoundsAssumption
<1>3. ~run.stop /\ run.edges < EdgeCap => n = run.edges + (IF edge THEN 1 ELSE 0)
  BY <1>1
<1>4. saw(edge) = [run EXCEPT !.edges = n]
  BY DEF saw
<1> HIDE DEF n
<1> QED BY <1>2, <1>3, <1>4 DEF History

\* The invariant of a state, and its parts as one fact.
LEMMA Parts ==
  ASSUME IInv
  PROVE  /\ s \in Port /\ div \in DivValue /\ due \in BOOLEAN /\ iff \in BOOLEAN
         /\ run \in History /\ s.prev_div \in DivValue /\ s.shifted \in 0..(Width - 1)
         /\ Held /\ Synced /\ Counted
BY Fields DEF IInv, PortOK, Port, Queue

\* Back from the parts.
LEMMA Whole ==
  ASSUME s' \in Port, div' \in DivValue, due' \in BOOLEAN, iff' \in BOOLEAN,
         run' \in History, Held', Synced', Counted'
  PROVE  IInv'
BY Fields DEF IInv, PortOK, Port, Queue

\* Record keeps a history, or none when no transfer is being clocked.
LEMMA Recorded ==
  ASSUME NEW r \in History, Record(r)
  PROVE  /\ run' \in History /\ (running' => run' = r) /\ (~running' => run' = NoRun)
BY RunTyped DEF Record, running

\* An edge of the clock bit, seen by a port that agrees with the divider.
LEMMA EdgeKeeps ==
  ASSUME IInv, NEW p \in Port, NEW edge \in BOOLEAN, NEW real \in BOOLEAN,
         Same(s, [p EXCEPT !.prev_div = s.prev_div]), p.sc = s.sc,
         p.shifted = s.shifted, p.master_clock = s.master_clock,
         p.link_master_waiting = s.link_master_waiting,
         p.link_in = s.link_in, p.link_out = s.link_out,
         running /\ ~run.stop => edge = real,
         s' = IF edge THEN master_edge(p) ELSE p,
         Record(saw(real))
  PROVE  s' \in Port /\ run' \in History /\ Held' /\ Counted' /\ s'.prev_div = p.prev_div
         /\ (running' => running /\ run'.stop = run.stop)
<1>0. /\ s \in Port /\ run \in History /\ Held /\ Counted /\ s.shifted \in 0..(Width - 1)
      /\ is_master(p) = is_master(s) /\ p.link_connected = s.link_connected
  BY Parts DEF is_master, Same
<1>1. s' \in Port /\ s'.prev_div = p.prev_div
  BY Edge DEF Same
<1>2. Held'
  BY <1>0, Edge DEF Held, is_master, Shifts, Same
<1>3. running' => running
  BY <1>0, Edge DEF running, is_master, Shifts, Same
<1>4. /\ run' \in History /\ (running' => run' = saw(real)) /\ (~running' => run' = NoRun)
  BY <1>0, Saw, Recorded
<1>5. Counted'
  <2> SUFFICES ASSUME running', ~run'.stop
               PROVE  run'.edges = 2 * (s'.shifted - run'.forced)
                                     + (IF s'.master_clock THEN 1 ELSE 0)
    BY <1>4 DEF Counted
  <2>1. run' = saw(real) /\ ~run.stop /\ running /\ edge = real
    BY <1>0, <1>3, <1>4, Saw
  <2>2. /\ run.edges = 2 * (s.shifted - run.forced) + (IF s.master_clock THEN 1 ELSE 0)
        /\ run.forced \in 0..1 /\ run.edges \in 0..EdgeCap
    BY <1>0, <2>1 DEF Counted, History
  <2>3. run.edges < EdgeCap
    BY <1>0, <2>2, WidthAssumption, BoundsAssumption
  <2>4. run'.forced = run.forced /\ run'.edges = run.edges + (IF real THEN 1 ELSE 0)
    BY <1>0, <2>1, <2>3, Saw
  <2>5. CASE ~real
    <3>1. s' = p
      BY <2>1, <2>5
    <3> QED BY <2>2, <2>4, <2>5, <3>1
  <2>6. CASE real
    <3>1. s' = master_edge(p) /\ (s'.master_clock <=> ~s.master_clock)
      BY <2>1, <2>6, Edge
    <3>2. s'.shifted = IF s.master_clock THEN s.shifted + 1 ELSE s.shifted
      BY <1>0, <2>1, <3>1, Edge DEF running, Shifts, is_master
    <3> QED BY <1>0, <2>2, <2>4, <2>6, <3>1, <3>2
  <2> QED BY <2>5, <2>6
<1> QED BY <1>1, <1>2, <1>3, <1>4, <1>5, Saw, <1>0
\* The divider moves by one M-cycle and wraps at its width.
LEMMA NextDiv == ASSUME div \in DivValue PROVE (div + 4) % DivMod \in DivValue /\ 0 \in DivValue
<1>1. DivMod \in Nat \ {0} /\ DivMod % 4 = 0
  <2>1. CASE SlowHalf = 4 BY <2>1, ClockAssumption
  <2>2. CASE SlowHalf = 8 BY <2>2, ClockAssumption
  <2>3. CASE SlowHalf = 16 BY <2>3, ClockAssumption
  <2>4. CASE SlowHalf = 32 BY <2>4, ClockAssumption
  <2>5. CASE SlowHalf = 64 BY <2>5, ClockAssumption
  <2>6. CASE SlowHalf = 128 BY <2>6, ClockAssumption
  <2> QED BY <2>1, <2>2, <2>3, <2>4, <2>5, <2>6, ClockAssumption
<1>2. div \in 0..(DivMod - 1) /\ div % 4 = 0
  BY DEF DivValue
<1>3. div + 4 <= DivMod
  BY <1>1, <1>2
<1>4. (div + 4) % 4 = 0
  BY <1>2
<1>5. CASE div + 4 = DivMod
  <2>1. (div + 4) % DivMod = 0
    BY <1>1, <1>5
  <2> QED BY <1>1, <2>1 DEF DivValue
<1>6. CASE div + 4 < DivMod
  <2>1. (div + 4) % DivMod = div + 4
    BY <1>1, <1>2, <1>6
  <2> QED BY <1>1, <1>2, <1>4, <1>6, <2>1 DEF DivValue
<1> QED BY <1>1, <1>2, <1>3, <1>5, <1>6

\* Power-on: no transfer, no link.
LEMMA InitHolds == Init => IInv
<1> SUFFICES ASSUME Init PROVE IInv
  OBVIOUS
<1>1. PICK cgb \in BOOLEAN : s = Fresh(cgb)
  BY DEF Init
<1>2. s \in SerialState /\ s.link_in = <<>> /\ s.link_out = <<>>
  <2>1. 0 \in DivValue
    BY ClockAssumption DEF DivValue
  <2>2. 0 \in 0..(Width - 1)
    BY WidthAssumption
  <2>3. s.sc \in Control
    BY <1>1 DEF Fresh, Control
  <2> QED BY <1>1, <2>1, <2>2, <2>3, Bytes DEF Fresh, SerialState
<1>3. ~running /\ ~s.link_master_waiting /\ ~due /\ run = NoRun
  BY <1>1 DEF Fresh, Init, running, is_master
<1>4. div \in DivValue
  BY ClockAssumption DEF DivValue, Init
<1>5. PortOK
  <2>1. Len(s.link_in) <= QueueCap /\ Len(s.link_out) <= QueueCap
    BY <1>2, BoundsAssumption
  <2> QED BY <1>2, <1>3, <1>4, <2>1, RunTyped DEF Init, PortOK
<1> QED BY <1>3, <1>5 DEF IInv, Held, Synced, Counted

\* An M-cycle keeps the invariant: its edge is counted and may shift.
LEMMA TickKeeps == IInv /\ Tick => IInv'
<1> SUFFICES ASSUME IInv, Tick PROVE IInv'
  OBVIOUS
<1> DEFINE d == (div + 4) % DivMod
           p == [s EXCEPT !.prev_div = d]
           seen == clock_bit(s, s.prev_div) /\ ~clock_bit(s, d)
           real == clock_bit(s, div) /\ ~clock_bit(s, d)
<1>1. /\ div' = d /\ due' = TRUE /\ s' = (IF seen THEN master_edge(p) ELSE p)
      /\ iff' = (seen /\ edge_iff(p)) /\ Record(saw(real))
  BY DEF Tick
<1>2. d \in DivValue
  BY Parts, NextDiv
<1>3. running /\ ~run.stop => seen = real
  BY Parts DEF Synced
<1>4. iff' \in BOOLEAN /\ seen \in BOOLEAN /\ real \in BOOLEAN
  BY <1>1
<1> HIDE DEF d, seen, real
<1>5. /\ p \in Port /\ Same(s, [p EXCEPT !.prev_div = s.prev_div]) /\ p.sc = s.sc
      /\ p.shifted = s.shifted /\ p.master_clock = s.master_clock /\ p.prev_div = d
      /\ p.link_master_waiting = s.link_master_waiting
      /\ p.link_in = s.link_in /\ p.link_out = s.link_out
  BY <1>2, Parts DEF Port, SerialState, Same
<1> HIDE DEF p
<1>6. /\ s' \in Port /\ run' \in History /\ Held' /\ Counted' /\ s'.prev_div = d
  BY <1>1, <1>3, <1>4, <1>5, EdgeKeeps
<1>7. Synced'
  BY <1>1, <1>6 DEF Synced
<1> QED BY <1>1, <1>2, <1>4, <1>6, <1>7, Whole

\* A DIV write keeps the invariant: the edge it makes is counted like any other.
LEMMA WriteDIVKeeps == IInv /\ WriteDIV => IInv'
<1> SUFFICES ASSUME IInv, WriteDIV PROVE IInv'
  OBVIOUS
<1> DEFINE p == [s EXCEPT !.prev_div = 0]
           drops == clock_bit(s, div)
<1>1. /\ div' = 0 /\ due' = FALSE /\ s' = (IF drops THEN master_edge(p) ELSE p)
      /\ iff' = (drops /\ edge_iff(p)) /\ Record(saw(drops))
  BY DEF WriteDIV, Access
<1>2. 0 \in DivValue
  BY Parts, NextDiv
<1>3. drops \in BOOLEAN /\ iff' \in BOOLEAN
  BY <1>1 DEF clock_bit
<1> HIDE DEF drops
<1>4. /\ p \in Port /\ Same(s, [p EXCEPT !.prev_div = s.prev_div]) /\ p.sc = s.sc
      /\ p.shifted = s.shifted /\ p.master_clock = s.master_clock /\ p.prev_div = 0
      /\ p.link_master_waiting = s.link_master_waiting
      /\ p.link_in = s.link_in /\ p.link_out = s.link_out
  BY <1>2, Parts DEF Port, SerialState, Same
<1> HIDE DEF p
<1>5. /\ s' \in Port /\ run' \in History /\ Held' /\ Counted' /\ s'.prev_div = 0
  BY <1>1, <1>3, <1>4, EdgeKeeps
<1>6. Synced'
  BY <1>1, <1>5 DEF Synced
<1> QED BY <1>1, <1>2, <1>3, <1>5, <1>6, Whole

\* A write of SC restarts the count, and its forced edge never ends the old transfer.
LEMMA WriteSCKeeps ==
  IInv /\ WriteSC => IInv' /\ ~iff' /\ s'.link_out = s.link_out /\ s'.link_in = s.link_in
<1> SUFFICES ASSUME IInv, WriteSC
             PROVE  IInv' /\ ~iff' /\ s'.link_out = s.link_out /\ s'.link_in = s.link_in
  OBVIOUS
<1> DEFINE p == [s EXCEPT !.shifted = 0]
           q == IF s.master_clock THEN master_edge(p) ELSE p
           r == [NoRun EXCEPT !.forced = q.shifted, !.alone = (s.link_in = <<>>)]
<1>1. PICK c \in Control :
        /\ s' = [q EXCEPT !.sc = c, !.link_master_waiting = FALSE]
        /\ iff' = (s.master_clock /\ edge_iff(p)) /\ Record(r) /\ div' = div
        /\ due /\ due' = FALSE
  BY DEF WriteSC, Access
<1>2. /\ p \in Port /\ Same(s, p) /\ p.sc = s.sc /\ p.shifted = 0
      /\ p.master_clock = s.master_clock /\ p.link_master_waiting = s.link_master_waiting
      /\ p.link_in = s.link_in /\ p.link_out = s.link_out /\ p.prev_div = s.prev_div
  BY Parts, WidthAssumption DEF Port, SerialState, Same
<1> HIDE DEF p
<1>3. /\ master_edge(p) \in Port /\ Same(p, master_edge(p)) /\ master_edge(p).sc = p.sc
      /\ (master_edge(p).master_clock <=> ~p.master_clock)
      /\ master_edge(p).shifted \in {0, 1}
      /\ master_edge(p).link_in = s.link_in /\ master_edge(p).link_out = s.link_out
  <2>1. CASE Shifts(p)
    BY <1>2, <2>1, Edge, WidthAssumption
  <2>2. CASE ~Shifts(p)
    BY <1>2, <2>2, Edge
  <2> QED BY <2>1, <2>2
<1>4. ~iff' /\ iff' \in BOOLEAN
  BY <1>1, <1>3 DEF edge_iff
<1>5. /\ q \in Port /\ Same(p, q) /\ ~q.master_clock /\ q.shifted \in {0, 1}
      /\ q.link_in = s.link_in /\ q.link_out = s.link_out
  <2>1. CASE s.master_clock
    BY <1>2, <1>3, <2>1
  <2>2. CASE ~s.master_clock
    BY <1>2, <2>2 DEF Same
  <2> QED BY <2>1, <2>2
<1> HIDE DEF q
<1>6. /\ s' \in Port /\ s'.shifted = q.shifted /\ ~s'.master_clock
      /\ ~s'.link_master_waiting /\ s'.prev_div = s.prev_div
      /\ s'.link_in = s.link_in /\ s'.link_out = s.link_out
  BY <1>1, <1>2, <1>5 DEF Port, SerialState, Same
<1>7. r \in History /\ r.edges = 0 /\ r.forced = q.shifted
  <2> DEFINE a == s.link_in = <<>>
  <2>1. a \in BOOLEAN /\ q.shifted \in 0..1
    BY <1>5
  <2> HIDE DEF a
  <2>2. /\ [NoRun EXCEPT !.forced = q.shifted, !.alone = a] \in History
        /\ [NoRun EXCEPT !.forced = q.shifted, !.alone = a].edges = 0
        /\ [NoRun EXCEPT !.forced = q.shifted, !.alone = a].forced = q.shifted
    BY <2>1, RunTyped DEF History
  <2> QED BY <2>2 DEF a
<1> HIDE DEF r
<1>8. /\ run' \in History /\ (running' => run' = r) /\ (~running' => run' = NoRun)
  BY <1>1, <1>7, Recorded
<1>9. Counted'
  BY <1>5, <1>6, <1>7, <1>8 DEF Counted
<1>10. Synced' /\ Held'
  BY <1>1, <1>6, Parts DEF Synced, Held
<1> QED BY <1>1, <1>6, <1>8, <1>9, <1>10, <1>4, Parts, Whole
\* The accesses that start no transfer raise no interrupt and leave SC alone.
LEMMA OtherAccessKeeps ==
  IInv /\ (WriteSB \/ Stop \/ OtherAccess \/ LockDmg) => IInv' /\ ~iff' /\ s'.sc = s.sc
<1> SUFFICES ASSUME IInv, WriteSB \/ Stop \/ OtherAccess \/ LockDmg
             PROVE  IInv' /\ ~iff' /\ s'.sc = s.sc
  OBVIOUS
<1> DEFINE Alike == /\ s' \in Port /\ s'.sc = s.sc /\ s'.shifted = s.shifted
                    /\ s'.master_clock = s.master_clock /\ s'.prev_div = s.prev_div
                    /\ s'.link_master_waiting = s.link_master_waiting
                    /\ s'.link_connected = s.link_connected
                    /\ s'.link_in = s.link_in /\ s'.link_out = s.link_out
<1>1. Alike => Held' /\ (running' <=> running)
  BY Parts DEF Held, running, is_master
<1>2. ASSUME NEW v \in Byte, Access, s' = [s EXCEPT !.sb = v], iff' = FALSE,
             Record([run EXCEPT !.clean = FALSE]), div' = div
      PROVE  IInv' /\ ~iff' /\ s'.sc = s.sc
  <2>1. Alike
    BY <1>2, Parts DEF Port, SerialState
  <2>2. /\ [run EXCEPT !.clean = FALSE] \in History
        /\ [run EXCEPT !.clean = FALSE].edges = run.edges
        /\ [run EXCEPT !.clean = FALSE].forced = run.forced
        /\ [run EXCEPT !.clean = FALSE].stop = run.stop
    BY Parts DEF History
  <2>3. /\ run' \in History /\ (~running' => run' = NoRun)
        /\ running' => run'.edges = run.edges /\ run'.forced = run.forced /\ run'.stop = run.stop
    BY <1>2, <2>2, Recorded
  <2>4. Counted' /\ Synced'
    BY <1>1, <1>2, <2>1, <2>3, Parts DEF Counted, Synced, Access
  <2> QED BY <1>1, <1>2, <2>1, <2>3, <2>4, Parts, Whole DEF Access
<1>3. CASE Stop
  <2>1. Alike /\ div' = 0 /\ due' = FALSE /\ iff' = FALSE
    BY <1>3, Parts DEF Stop, Access
  <2>2. /\ [run EXCEPT !.edges = 0, !.forced = 0, !.stop = TRUE] \in History
        /\ [run EXCEPT !.edges = 0, !.forced = 0, !.stop = TRUE].stop
    BY Parts, RunTyped DEF History
  <2>3. run' \in History /\ (running' => run'.stop) /\ (~running' => run' = NoRun)
    BY <1>3, <2>2, Recorded DEF Stop
  <2>4. Counted' /\ Synced'
    BY <2>1, <2>3 DEF Counted, Synced
  <2>5. 0 \in DivValue
    BY Parts, NextDiv
  <2> QED BY <1>1, <2>1, <2>3, <2>4, <2>5, Whole
<1>4. CASE OtherAccess
  <2>1. Alike /\ UNCHANGED <<div, run>> /\ due' = FALSE /\ iff' = FALSE
    BY <1>4, Parts DEF OtherAccess, Access
  <2>2. Counted' /\ Synced'
    BY <1>1, <2>1, Parts DEF Counted, Synced
  <2> QED BY <1>1, <2>1, <2>2, Parts, Whole
<1>5. CASE LockDmg
  <2>1. Alike /\ UNCHANGED <<div, run>> /\ due' = FALSE /\ iff' = FALSE
    BY <1>5, Parts DEF LockDmg, Access, Port, SerialState
  <2>2. Counted' /\ Synced'
    BY <1>1, <2>1, Parts DEF Counted, Synced
  <2> QED BY <1>1, <2>1, <2>2, Parts, Whole
<1> QED BY <1>2, <1>3, <1>4, <1>5 DEF WriteSB

\* The calls of the link: each ends a transfer exactly when it raises the interrupt.
LEMMA HookKeeps ==
  IInv /\ (LinkAttach \/ LinkDetach \/ PushLinkIn \/ TakeLinkSend \/ LinkSlaveTransfer)
    => IInv' /\ (iff' <=> s.sc.active /\ ~s'.sc.active)
<1> SUFFICES ASSUME IInv, NEW b, Hook(b),
                    LinkAttach \/ LinkDetach \/ PushLinkIn \/ TakeLinkSend \/ LinkSlaveTransfer
             PROVE  IInv' /\ (iff' <=> s.sc.active /\ ~s'.sc.active)
  BY DEF LinkAttach, LinkDetach, PushLinkIn, TakeLinkSend, LinkSlaveTransfer
<1>0. ~due /\ ~due' /\ div' = div /\ due' \in BOOLEAN
  BY Parts DEF Hook
<1>1. s \in Port /\ run \in History
  BY Parts
<1>2. s.link_master_waiting => is_master(s) /\ run = NoRun
  BY Parts DEF Held, Counted, running
\* A transfer that ends, on whichever path, leaves no run and no held master.
<1>3. ASSUME NEW p \in Port, s' = ended(p), ~p.link_master_waiting, iff' = TRUE,
             run' = NoRun, s.sc.active
      PROVE  IInv' /\ (iff' <=> s.sc.active /\ ~s'.sc.active)
  <2>1. s' \in Port /\ ~s'.sc.active /\ ~s'.link_master_waiting
    BY <1>3, Ended
  <2>2. ~running'
    BY <2>1 DEF running, is_master
  <2>3. Held' /\ Counted' /\ Synced'
    BY <1>0, <1>3, <2>1, <2>2, RunTyped DEF Held, Counted, Synced
  <2> QED BY <1>0, <1>3, <2>1, <2>3, RunTyped, Parts, Whole
\* Nothing else of the port moves but its cable.
<1>4. ASSUME s' \in Port, s'.sc = s.sc, s'.shifted = s.shifted,
             s'.master_clock = s.master_clock, s'.prev_div = s.prev_div,
             s'.link_master_waiting = s.link_master_waiting, Held', iff' = FALSE,
             run' \in History, running => /\ run'.edges = run.edges
                                         /\ run'.forced = run.forced /\ run'.stop = run.stop,
             ~running => run' = NoRun
      PROVE  IInv' /\ (iff' <=> s.sc.active /\ ~s'.sc.active)
  <2>1. running' <=> running
    BY <1>4 DEF running, is_master
  <2>2. Counted' /\ Synced'
    BY <1>0, <1>4, <2>1, Parts DEF Counted, Synced
  <2> QED BY <1>0, <1>4, <2>2, Parts, Whole
<1>5. CASE LinkAttach
  <2>1. /\ s' \in Port /\ s'.sc = s.sc /\ s'.shifted = s.shifted
        /\ s'.master_clock = s.master_clock /\ s'.prev_div = s.prev_div
        /\ s'.link_master_waiting = s.link_master_waiting
        /\ s'.link_connected /\ s'.link_in = s.link_in /\ run' = run /\ iff' = FALSE
    BY <1>1, <1>5 DEF LinkAttach, Port, SerialState
  <2>2. Held'
    BY <2>1, Parts DEF Held, is_master
  <2>3. ~running => run' = NoRun
    BY <2>1, Parts DEF Counted
  <2> QED BY <1>1, <1>4, <2>1, <2>2, <2>3
<1>6. CASE LinkDetach
  <2> DEFINE p == [s EXCEPT !.link_connected = FALSE, !.link_in = <<>>, !.link_out = <<>>]
             q == [p EXCEPT !.sb = ones, !.shifted = 0, !.link_master_waiting = FALSE]
  <2>1. /\ s' = (IF s.link_master_waiting THEN ended(q) ELSE p)
        /\ iff' = s.link_master_waiting /\ run' = run
    BY <1>6 DEF LinkDetach
  <2>2. /\ p \in Port /\ p.sc = s.sc /\ p.shifted = s.shifted
        /\ p.master_clock = s.master_clock /\ p.prev_div = s.prev_div
        /\ p.link_master_waiting = s.link_master_waiting
    BY <1>1, EmptyQueue DEF Port, SerialState, Queue
  <2> HIDE DEF p
  <2>3. q \in Port /\ ~q.link_master_waiting
    BY <2>2, Bytes, ZeroShifted DEF Port, SerialState
  <2> HIDE DEF q
  <2>4. CASE s.link_master_waiting
    BY <1>2, <1>3, <2>1, <2>3, <2>4 DEF is_master
  <2>5. CASE ~s.link_master_waiting
    <3>1. Held' /\ iff' = FALSE
      BY <1>1, <2>1, <2>2, <2>5, Fields DEF Held, Port
    <3>2. ~running => run' = NoRun
      BY <2>1, Parts DEF Counted
    <3> QED BY <1>1, <1>4, <2>1, <2>2, <2>5, <3>1, <3>2
  <2> QED BY <2>4, <2>5
<1>7. ASSUME NEW v \in Byte, iff' = s.link_master_waiting,
             s' = IF s.link_master_waiting
                  THEN ended([s EXCEPT !.sb = v, !.shifted = 0, !.link_master_waiting = FALSE])
                  ELSE [s EXCEPT !.link_in = enqueued(@, v)],
             Record([run EXCEPT !.alone = FALSE])
      PROVE  IInv' /\ (iff' <=> s.sc.active /\ ~s'.sc.active)
  <2>0. /\ [run EXCEPT !.alone = FALSE] \in History
        /\ [run EXCEPT !.alone = FALSE].edges = run.edges
        /\ [run EXCEPT !.alone = FALSE].forced = run.forced
        /\ [run EXCEPT !.alone = FALSE].stop = run.stop
    BY <1>1 DEF History
  <2>1. /\ run' \in History /\ (~running' => run' = NoRun)
        /\ running' => run'.edges = run.edges /\ run'.forced = run.forced /\ run'.stop = run.stop
    BY <1>7, <2>0, Recorded
  <2>2. CASE s.link_master_waiting
    <3> DEFINE q == [s EXCEPT !.sb = v, !.shifted = 0, !.link_master_waiting = FALSE]
    <3>1. q \in Port /\ ~q.link_master_waiting
      BY <1>1, ZeroShifted DEF Port, SerialState
    <3>2. s' = ended(q)
      BY <1>7, <2>2
    <3> HIDE DEF q
    <3>3. ~running' /\ s.sc.active
      BY <1>2, <2>2, <3>1, <3>2, Ended DEF running, is_master
    <3> QED BY <1>3, <1>7, <2>1, <2>2, <3>1, <3>2, <3>3
  <2>3. CASE ~s.link_master_waiting
    <3> DEFINE o == enqueued(s.link_in, v)
    <3>1. o \in Queue
      BY <1>1, Enqueued DEF Port
    <3>2. s' = [s EXCEPT !.link_in = o] /\ iff' = FALSE
      BY <1>1, <1>7, <2>3
    <3> HIDE DEF o
    <3>3. /\ s' \in Port /\ s'.sc = s.sc /\ s'.shifted = s.shifted
          /\ s'.master_clock = s.master_clock /\ s'.prev_div = s.prev_div
          /\ s'.link_master_waiting = s.link_master_waiting
      BY <1>1, <3>1, <3>2 DEF Port, SerialState, Queue
    <3>4. Held' /\ (running' <=> running)
      BY <2>3, <3>3 DEF Held, running, is_master
    <3> QED BY <1>4, <2>1, <3>2, <3>3, <3>4
  <2> QED BY <2>2, <2>3
<1>8. CASE TakeLinkSend
  <2> DEFINE o == Tail(s.link_out)
  <2>1. o \in Queue
    BY <1>1, <1>8, Dequeued DEF TakeLinkSend, Port
  <2>2. s' = [s EXCEPT !.link_out = o] /\ iff' = FALSE /\ run' = run
    BY <1>1, <1>8 DEF TakeLinkSend
  <2> HIDE DEF o
  <2>3. /\ s' \in Port /\ s'.sc = s.sc /\ s'.shifted = s.shifted
        /\ s'.master_clock = s.master_clock /\ s'.prev_div = s.prev_div
        /\ s'.link_master_waiting = s.link_master_waiting
        /\ s'.link_connected = s.link_connected /\ s'.link_in = s.link_in
    BY <1>1, <2>1, <2>2 DEF Port, SerialState, Queue
  <2>4. Held'
    BY <2>3, Parts DEF Held, is_master
  <2>5. ~running => run' = NoRun
    BY <2>2, Parts DEF Counted
  <2> QED BY <1>1, <1>4, <2>2, <2>3, <2>4, <2>5
<1>9. ASSUME NEW v \in Byte, is_armed(s), iff' = TRUE, run' = run,
             s' = ended([s EXCEPT !.sb = v, !.shifted = 0])
      PROVE  IInv' /\ (iff' <=> s.sc.active /\ ~s'.sc.active)
  <2> DEFINE q == [s EXCEPT !.sb = v, !.shifted = 0]
  <2>1. q \in Port /\ q.link_master_waiting = s.link_master_waiting
    BY <1>1, ZeroShifted DEF Port, SerialState
  <2> HIDE DEF q
  <2>2. ~is_master(s) /\ ~s.link_master_waiting /\ s.sc.active
    BY <1>2, <1>9 DEF is_armed, is_master
  <2>3. run = NoRun
    BY <2>2, Parts DEF Counted, running
  <2> QED BY <1>3, <1>9, <2>1, <2>2, <2>3 DEF q
<1> QED BY <1>5, <1>6, <1>7, <1>8, <1>9 DEF PushLinkIn, LinkSlaveTransfer
\* An edge outside a write of SC ends a transfer exactly when it raises the interrupt.
LEMMA ClockIff ==
  IInv /\ (Tick \/ WriteDIV) => (iff' <=> s.sc.active /\ ~s'.sc.active)
<1> SUFFICES ASSUME IInv, NEW p, p.sc = s.sc, NEW edge, edge \in BOOLEAN,
                    s' = IF edge THEN master_edge(p) ELSE p, iff' = (edge /\ edge_iff(p))
             PROVE  iff' <=> s.sc.active /\ ~s'.sc.active
  <2>1. CASE Tick
    <3> DEFINE d == (div + 4) % DivMod
               p == [s EXCEPT !.prev_div = d]
               seen == clock_bit(s, s.prev_div) /\ ~clock_bit(s, d)
    <3>1. /\ s' = (IF seen THEN master_edge(p) ELSE p) /\ iff' = (seen /\ edge_iff(p))
          /\ seen \in BOOLEAN
      BY <2>1 DEF Tick
    <3>2. p.sc = s.sc
      BY Parts DEF Port, SerialState
    <3> HIDE DEF p, seen
    <3> QED BY <3>1, <3>2
  <2>2. CASE WriteDIV
    <3> DEFINE p == [s EXCEPT !.prev_div = 0]
               drops == clock_bit(s, div)
    <3>1. /\ s' = (IF drops THEN master_edge(p) ELSE p) /\ iff' = (drops /\ edge_iff(p))
          /\ drops \in BOOLEAN
      BY <2>2 DEF WriteDIV, clock_bit
    <3>2. p.sc = s.sc
      BY Parts DEF Port, SerialState
    <3> HIDE DEF p, drops
    <3> QED BY <3>1, <3>2
  <2> QED BY <2>1, <2>2
<1>1. CASE edge
  BY <1>1 DEF edge_iff
<1>2. CASE ~edge
  BY <1>2
<1> QED BY <1>1, <1>2
-----------------------------------------------------------------------------
\* The inductive invariant: a held master has shifted its bits and found no byte, the port
\* and the timer agree on the divider, and the edges counted are the bits shifted.
THEOREM Inductive == Spec => []IInv
<1>1. IInv /\ [Next]_vars => IInv'
  <2>1. IInv /\ UNCHANGED vars => IInv'
    BY DEF vars, IInv, PortOK, Held, Synced, Counted, running, is_master
  <2> QED BY <2>1, TickKeeps, WriteDIVKeeps, WriteSCKeeps, OtherAccessKeeps, HookKeeps DEF Next
<1> QED BY <1>1, InitHolds, PTL DEF Spec

\* For every width every register keeps its width, the bit counter stays below it and no
\* queue outgrows its cap (serial.rs:150-170, and the check of read_state).
THEOREM TypeCorrect == Spec => []TypeOK
<1> DEFINE Handed == {<<>>} \cup {<<v>> : v \in Byte}
           CameOK == came \in Handed
<1>1. Init => CameOK
  BY DEF Init
<1>2. CameOK /\ [Next]_vars => CameOK'
  <2>1. Next => CameOK'
    BY DEF Next, Tick, WriteSB, WriteSC, WriteDIV, Stop, OtherAccess, LockDmg, Access, Hook,
           LinkAttach, LinkDetach, PushLinkIn, TakeLinkSend, LinkSlaveTransfer
  <2> QED BY <2>1 DEF vars
<1>3. IInv /\ CameOK => TypeOK
  BY DEF IInv, PortOK, TypeOK
<1> QED BY <1>1, <1>2, <1>3, Inductive, PTL DEF Spec

\* For every width and both clocks no edge is missed or seen twice across DIV writes, clock
\* changes and the forced edge of a write of SC, as long as STOP does not run (serial.rs,
\* module docs).
THEOREM EdgesExact == Spec => []EveryEdgeCounts
<1>1. IInv => EveryEdgeCounts
  BY DEF IInv, Counted, running, EveryEdgeCounts
<1> QED BY <1>1, Inductive, PTL

\* A held master is a transfer with a peer, all bits shifted and no byte waiting that would
\* have released it (serial.rs:150-173).
THEOREM HeldSafe == Spec => []HeldAtCompletion
<1>1. IInv => HeldAtCompletion
  BY DEF IInv, Held, HeldAtCompletion
<1> QED BY <1>1, Inductive, PTL

\* On every path the interrupt is raised exactly when a transfer ends, and a write of SC
\* raises none and touches no queue, whatever its forced edge finds.
THEOREM InterruptExact == Spec => InterruptMeansDone
<1>1. IInv /\ [Next]_vars =>
        [IF WriteSC THEN ~iff' /\ s'.link_out = s.link_out /\ s'.link_in = s.link_in
                    ELSE iff' <=> (s.sc.active /\ ~s'.sc.active)]_vars
  <2> SUFFICES ASSUME IInv, Next, ~WriteSC
               PROVE  iff' <=> (s.sc.active /\ ~s'.sc.active)
    BY WriteSCKeeps
  <2> QED BY ClockIff, OtherAccessKeeps, HookKeeps DEF Next
<1> QED BY <1>1, Inductive, PTL DEF Spec, InterruptMeansDone
-----------------------------------------------------------------------------
\* A transfer that ends with its last bit takes the first byte of a connected peer, or
\* keeps what was shifted in.  One that is held takes none.
LEMMA CompletedByte ==
  ASSUME NEW p \in Port, p.sc.active
  PROVE  LET q == completed(p)
         IN /\ q.sc.active => q.link_in = p.link_in
            /\ ~q.sc.active => q.sb = IF p.link_connected THEN Head(p.link_in) ELSE p.sb
            /\ ~q.sc.active /\ p.link_connected =>
                 p.link_in # <<>> /\ q.link_in = Tail(p.link_in)
<1>0. \A r : r \in Port => ended(r).sb = r.sb
  <2> SUFFICES ASSUME NEW r \in Port PROVE ended(r).sb = r.sb
    OBVIOUS
  <2> DEFINE c == [r.sc EXCEPT !.active = FALSE]
  <2>1. ended(r) = [r EXCEPT !.sc = c]
    BY DEF ended
  <2> HIDE DEF c
  <2> QED BY <2>1 DEF Port, SerialState
<1>1. CASE ~p.link_connected
  BY <1>0, <1>1, Ended DEF completed
<1>2. CASE p.link_connected
  <2> DEFINE o == enqueued(p.link_out, p.out_shift)
             q == [p EXCEPT !.link_out = o]
             w == [q EXCEPT !.link_master_waiting = TRUE]
             b == Head(p.link_in)
             t == Tail(p.link_in)
             r == [q EXCEPT !.sb = b, !.link_in = t]
  <2>1. o \in Queue
    BY Fields, Enqueued DEF Port
  <2>2. p.link_in # <<>> => t \in Queue /\ b \in Byte
    BY Dequeued DEF Port
  <2>3. completed(p) = IF p.link_in = <<>> THEN w ELSE ended(r)
    BY <1>2 DEF completed
  <2> HIDE DEF o, b, t
  <2>4. q \in Port /\ q.sc = p.sc /\ q.link_in = p.link_in
    BY <2>1 DEF Port, SerialState, Queue
  <2> HIDE DEF q
  <2>5. w.sc = q.sc /\ w.link_in = q.link_in
    BY <2>4 DEF Port, SerialState
  <2>6. p.link_in # <<>> => r \in Port /\ r.sb = b /\ r.link_in = t
    BY <2>2, <2>4 DEF Port, SerialState, Queue
  <2> HIDE DEF w, r
  <2>7. CASE p.link_in = <<>>
    BY <2>3, <2>4, <2>5, <2>7
  <2>8. CASE p.link_in # <<>>
    <3>1. /\ completed(p).sb = b /\ completed(p).link_in = t
          /\ ~completed(p).sc.active
      BY <1>0, <2>3, <2>6, <2>8, Ended
    <3> QED BY <1>2, <2>8, <3>1 DEF b, t
  <2> QED BY <2>7, <2>8
<1> QED BY <1>1, <1>2

\* The byte a bit has been shifted into: the peer's bit, or a one from the open cable.
\* The last bit of an ending transfer leaves the byte of a connected peer instead.
LEMMA ShiftedByte ==
  ASSUME NEW p \in Port, Shifts(p)
  PROVE  LET q == master_edge(p)
         IN /\ p.shifted < Width - 1 => q.sb = shifted_in(p.sb, incoming(p))
            /\ p.shifted = Width - 1 /\ ~q.sc.active =>
                 q.sb = IF p.link_connected THEN Head(p.link_in)
                                            ELSE shifted_in(p.sb, incoming(p))
            /\ q.sc.active => q.link_in = p.link_in
            /\ ~q.sc.active /\ p.link_connected =>
                 /\ p.link_in # <<>> /\ q.link_in = Tail(p.link_in)
                 /\ q.sb = Head(p.link_in)
<1> DEFINE t == [p EXCEPT !.master_clock = ~@]
           o == shifted_in(t.out_shift, msb(t.sb))
           b == shifted_in(t.sb, incoming(t))
           n == (t.shifted + 1) % Width
           q == [t EXCEPT !.out_shift = o, !.sb = b, !.shifted = n]
<1>1. /\ t \in Port /\ t.sb = p.sb /\ t.sc = p.sc /\ t.shifted = p.shifted
      /\ t.link_in = p.link_in /\ t.link_connected = p.link_connected
      /\ incoming(t) = incoming(p)
  BY DEF Port, SerialState, incoming
<1>2. master_edge(p) = IF q.shifted = 0 THEN completed(q) ELSE q
  BY DEF master_edge, Shifts, shifted_one
<1>3. b = shifted_in(p.sb, incoming(p))
  BY <1>1
<1>4. /\ p.shifted < Width - 1 => n # 0 /\ n = p.shifted + 1
      /\ p.shifted = Width - 1 => n = 0
  <2> DEFINE k == t.shifted
  <2>1. k \in 0..(Width - 1) /\ p.shifted = k
    BY <1>1, Fields DEF Port
  <2> HIDE DEF k
  <2>2. k < Width - 1 => (k + 1) % Width = k + 1
    BY <2>1, WidthAssumption
  <2>3. k = Width - 1 => (k + 1) % Width = 0
    BY <2>1, WidthAssumption
  <2> QED BY <2>1, <2>2, <2>3, WidthAssumption DEF k
<1>8. o \in Byte /\ b \in Byte /\ n \in 0..(Width - 1)
  <2>1. t.shifted \in 0..(Width - 1)
    BY <1>1, Fields DEF Port
  <2>2. t \in SerialState
    BY <1>1 DEF Port
  <2>3. o \in Byte /\ b \in Byte
    BY <2>2, Fields, Shifting, MsbBit, IncomingBit
  <2>4. n \in 0..(Width - 1)
    <3> HIDE DEF n
    <3> QED BY <1>1, <1>4, <2>1, ZeroShifted, WidthAssumption
  <2> QED BY <2>3, <2>4
<1> HIDE DEF o, b, n
<1>5. /\ q.sb = b /\ q.shifted = n /\ q.sc = p.sc
      /\ q.link_in = p.link_in /\ q.link_connected = p.link_connected
      /\ q.sc.active /\ q \in Port
  BY <1>1, <1>8, Fields DEF Port, SerialState, Shifts, is_master
<1> HIDE DEF t, q
<1>6. CASE p.shifted < Width - 1
  BY <1>2, <1>3, <1>4, <1>5, <1>6, WidthAssumption, Fields DEF Port
<1>7. CASE p.shifted = Width - 1
  <2>1. master_edge(p) = completed(q)
    BY <1>2, <1>4, <1>5, <1>7
  <2>0. ~(p.shifted < Width - 1)
    BY <1>7, WidthAssumption
  <2> QED BY <1>3, <1>5, <1>7, <2>0, <2>1, CompletedByte
<1> QED BY <1>6, <1>7, WidthAssumption, Fields DEF Port

\* The last bits of SB are ones, as many as have been shifted: SB + 1 is a multiple of
\* their power of two, within the byte.
Filled(v, n) == \E a, b \in Int : v + 1 = a * 2^n + b * 2^Width

\* A byte of which nothing has been shifted.
LEMMA NoneFilled == ASSUME NEW v \in Int PROVE Filled(v, 0)
<1> DEFINE k == 2^0
           N == 2^Width
<1>1. k = 1 /\ N \in Nat
  BY PowerAssumption, Bytes
<1> HIDE DEF k, N
<1>2. v + 1 = (v + 1) * k + 0 * N /\ v + 1 \in Int /\ 0 \in Int
  BY <1>1
<1> QED BY <1>2 DEF k, N, Filled

\* One more one from the open cable.
LEMMA OneMore ==
  ASSUME NEW v \in Byte, NEW n \in 0..(Width - 1), Filled(v, n)
  PROVE  Filled(shifted_in(v, 1), n + 1)
<1> DEFINE k == 2^n
           m == 2^(n + 1)
           N == 2^Width
           w == (2 * v + 1) % N
           d == (2 * v + 1) \div N
<1>1. k \in Nat \ {0} /\ N \in Nat \ {0} /\ m = 2 * k /\ v \in Nat
  BY PowerAssumption, Bytes, WidthAssumption DEF Byte
<1>2. PICK a, b \in Int : v + 1 = a * k + b * N
  BY DEF Filled
<1> HIDE DEF k, m, N
<1>3. w \in Int /\ d \in Int /\ 2 * v + 1 = d * N + w
  BY <1>1
<1> HIDE DEF w, d
<1>4. w + 1 = 2 * (v + 1) - d * N
  BY <1>1, <1>3
<1>5. 2 * (v + 1) = a * (2 * k) + (2 * b) * N
  BY <1>1, <1>2
<1>6. w + 1 = a * m + (2 * b - d) * N /\ 2 * b - d \in Int
  BY <1>1, <1>3, <1>4, <1>5
<1> QED BY <1>6 DEF m, N, w, shifted_in, Filled

\* A byte of ones only.
LEMMA AllFilled ==
  ASSUME NEW v \in Byte, Filled(v, Width)
  PROVE  v = ones
<1> DEFINE N == 2^Width
<1>1. N \in Nat \ {0} /\ v \in 0..(N - 1)
  BY Bytes DEF Byte
<1>2. PICK a, b \in Int : v + 1 = a * N + b * N
  BY DEF Filled
<1> HIDE DEF N
<1> DEFINE c == a + b
<1>3. c \in Int /\ v + 1 = c * N
  BY <1>1, <1>2
<1> HIDE DEF c
<1>4. c >= 1
  BY <1>1, <1>3
<1>5. c <= 1
  BY <1>1, <1>3
<1>6. v = N - 1
  BY <1>1, <1>3, <1>4, <1>5
<1> QED BY <1>6 DEF N, ones

\* A transfer no peer has touched and the program has not either shifts in ones.
Ones == running /\ run.clean /\ run.alone => s.link_in = <<>> /\ Filled(s.sb, s.shifted)

\* With nobody at the other end the bit that comes in is a one.
LEMMA OpenCable ==
  ASSUME NEW p \in Port, p.link_in = <<>>, Shifts(p), Filled(p.sb, p.shifted)
  PROVE  LET q == master_edge(p)
         IN /\ p.shifted < Width - 1 => q.link_in = <<>> /\ Filled(q.sb, q.shifted)
            /\ p.shifted = Width - 1 /\ ~q.sc.active /\ ~p.link_connected => q.sb = ones
<1>1. incoming(p) = 1
  BY DEF incoming
<1>2. p.sb \in Byte /\ p.shifted \in 0..(Width - 1)
  BY Fields DEF Port
<1>3. Filled(shifted_in(p.sb, 1), p.shifted + 1) /\ shifted_in(p.sb, 1) \in Byte
  BY <1>2, OneMore, Shifting
<1>4. CASE p.shifted < Width - 1
  <2>1. LET q == master_edge(p)
        IN /\ q.sb = shifted_in(p.sb, 1) /\ q.shifted = p.shifted + 1
           /\ q.link_in = p.link_in
    BY <1>1, <1>4, Edge, ShiftedByte
  <2> QED BY <1>2, <1>3, <1>4, <2>1, WidthAssumption
<1>5. CASE p.shifted = Width - 1
  <2>1. p.shifted + 1 = Width
    BY <1>5, WidthAssumption
  <2>2. shifted_in(p.sb, 1) = ones
    BY <1>3, <2>1, AllFilled
  <2> QED BY <1>1, <1>5, <2>2, ShiftedByte, WidthAssumption
<1> QED BY <1>2, <1>4, <1>5, WidthAssumption

\* What a transfer with nobody at the other end leaves in SB.
Last == iff' /\ is_master(s) /\ ~s.link_connected /\ run.clean /\ run.alone => s'.sb = ones

\* An edge, on an M-cycle or at a DIV write, keeps the ones and completes the byte.
LEMMA EdgeOnes ==
  ASSUME IInv, Ones, NEW p \in Port, NEW edge \in BOOLEAN, NEW real \in BOOLEAN,
         p.sc = s.sc, p.sb = s.sb, p.shifted = s.shifted,
         p.link_master_waiting = s.link_master_waiting,
         p.link_in = s.link_in, p.link_connected = s.link_connected,
         s' = IF edge THEN master_edge(p) ELSE p,
         iff' = (edge /\ edge_iff(p)),
         Record(saw(real))
  PROVE  Ones' /\ Last
<1>1. /\ run \in History /\ Held /\ s.shifted \in 0..(Width - 1)
      /\ is_master(p) = is_master(s)
  BY Parts DEF is_master
<1>2. running' => run'.clean = run.clean /\ run'.alone = run.alone
  <2>1. saw(real).clean = run.clean /\ saw(real).alone = run.alone
    BY <1>1 DEF saw, History
  <2> QED BY <1>1, <2>1, Saw, Recorded
<1>3. CASE ~edge
  <2>1. s' = p /\ ~iff'
    BY <1>3
  <2> QED BY <1>2, <2>1, <1>1 DEF Ones, Last, running
<1>4. CASE edge /\ ~Shifts(p)
  <2> DEFINE q == [p EXCEPT !.master_clock = ~@]
  <2>1. s' = q
    BY <1>4 DEF master_edge, Shifts
  <2>2. /\ q.sc = p.sc /\ q.sb = p.sb /\ q.shifted = p.shifted /\ q.link_in = p.link_in
        /\ q.link_master_waiting = p.link_master_waiting
    BY DEF Port, SerialState
  <2> HIDE DEF q
  <2>3. ~iff'
    BY <1>4, <2>1, <2>2 DEF edge_iff
  <2> QED BY <1>1, <1>2, <2>1, <2>2, <2>3 DEF Ones, Last, running, is_master
<1>5. CASE edge /\ Shifts(p)
  <2>1. running /\ s' = master_edge(p) /\ (iff' => ~s'.sc.active)
    BY <1>1, <1>5 DEF Shifts, running, edge_iff
  <2>2. CASE p.shifted < Width - 1
    <3>1. Last
      <4>1. master_edge(p).sc = p.sc
        BY <1>5, <2>2, Edge
      <4> QED BY <1>5, <4>1 DEF Last, edge_iff
    <3>2. Ones'
      <4> SUFFICES ASSUME running', run'.clean, run'.alone
                   PROVE  s'.link_in = <<>> /\ Filled(s'.sb, s'.shifted)
        BY DEF Ones
      <4>1. p.link_in = <<>> /\ Filled(p.sb, p.shifted)
        BY <1>2, <2>1 DEF Ones
      <4> QED BY <1>5, <2>1, <2>2, <4>1, OpenCable
    <3> QED BY <3>1, <3>2
  <2>3. CASE p.shifted = Width - 1
    <3>1. ~running'
      <4>1. ~(p.shifted < Width - 1)
        BY <2>3, WidthAssumption
      <4> QED BY <1>5, <2>1, <4>1, Edge DEF running, is_master
    <3>3. ASSUME iff', ~s.link_connected, run.clean, run.alone PROVE s'.sb = ones
      <4>1. p.link_in = <<>> /\ Filled(p.sb, p.shifted)
        BY <2>1, <3>3 DEF Ones
      <4> QED BY <1>5, <2>1, <2>3, <3>3, <4>1, OpenCable
    <3> QED BY <3>1, <3>3 DEF Ones, Last
  <2> QED BY <1>1, <2>2, <2>3, WidthAssumption
<1> QED BY <1>3, <1>4, <1>5

\* A write of SC starts a transfer of which its forced edge has shifted one bit or none.
LEMMA WriteSCOnes == IInv /\ Ones /\ WriteSC => Ones' /\ Last
<1> SUFFICES ASSUME IInv, Ones, WriteSC PROVE Ones'
  BY WriteSCKeeps DEF Last
<1> DEFINE p == [s EXCEPT !.shifted = 0]
           q == IF s.master_clock THEN master_edge(p) ELSE p
           r == [NoRun EXCEPT !.forced = q.shifted, !.alone = (s.link_in = <<>>)]
<1>1. PICK c \in Control :
        s' = [q EXCEPT !.sc = c, !.link_master_waiting = FALSE] /\ Record(r)
  BY DEF WriteSC
<1>2. /\ p \in Port /\ p.shifted = 0 /\ p.sb = s.sb /\ p.link_in = s.link_in
      /\ s.sb \in Byte /\ p.master_clock = s.master_clock
  BY Parts, Fields, WidthAssumption DEF Port, SerialState
<1>3. ASSUME s.link_in = <<>> PROVE q.link_in = <<>> /\ Filled(q.sb, q.shifted)
  <2>1. Filled(p.sb, p.shifted)
    BY <1>2, NoneFilled, Bytes DEF Byte
  <2> HIDE DEF p
  <2>2. CASE ~s.master_clock
    BY <1>2, <1>3, <2>1, <2>2
  <2>3. CASE s.master_clock /\ Shifts(p)
    <3>1. 0 < Width - 1
      BY WidthAssumption
    <3> QED BY <1>2, <1>3, <2>1, <2>3, <3>1, OpenCable
  <2>4. CASE s.master_clock /\ ~Shifts(p)
    <3> DEFINE t == [p EXCEPT !.master_clock = ~@]
    <3>1. q = t
      BY <2>4 DEF master_edge, Shifts
    <3>2. t.sb = p.sb /\ t.shifted = p.shifted /\ t.link_in = p.link_in
      BY <1>2 DEF Port, SerialState
    <3> HIDE DEF t, q
    <3> QED BY <1>2, <1>3, <2>1, <3>1, <3>2
  <2> QED BY <2>2, <2>3, <2>4
<1>4. q \in Port
  BY <1>2, Edge
<1> HIDE DEF p, q
<1>5. s'.sb = q.sb /\ s'.shifted = q.shifted /\ s'.link_in = q.link_in
  BY <1>1, <1>4 DEF Port, SerialState
<1>6. running' => (run'.alone => s.link_in = <<>>)
  <2>1. running' => run' = r
    BY <1>1 DEF Record, running
  <2> QED BY <2>1 DEF NoRun
<1> QED BY <1>3, <1>5, <1>6 DEF Ones

\* Every step keeps the ones, and ends a transfer over an open cable with them.
LEMMA OnesKept == IInv /\ Ones /\ Next => Ones' /\ Last
<1> SUFFICES ASSUME IInv, Ones, Next PROVE Ones' /\ Last
  OBVIOUS
<1>0. /\ s \in Port /\ run \in History /\ Held /\ div \in DivValue /\ due \in BOOLEAN
      /\ 0 # Width - 1
  BY Parts, WidthAssumption
\* Nothing is shifted and no interrupt is raised but by an edge.
<1>1. ASSUME s'.sc = s.sc, s'.shifted = s.shifted, s'.sb = s.sb \/ ~run'.clean, ~iff',
             s'.link_master_waiting = s.link_master_waiting,
             s'.link_in = s.link_in \/ s'.link_in = <<>> \/ ~run'.alone,
             running' => (run'.clean => run.clean) /\ (run'.alone => run.alone)
      PROVE  Ones' /\ Last
  BY <1>1 DEF Ones, Last, running, is_master
<1>2. CASE Tick
  <2> DEFINE d == (div + 4) % DivMod
             p == [s EXCEPT !.prev_div = d]
             seen == clock_bit(s, s.prev_div) /\ ~clock_bit(s, d)
             real == clock_bit(s, div) /\ ~clock_bit(s, d)
  <2>1. /\ s' = (IF seen THEN master_edge(p) ELSE p)
        /\ iff' = (seen /\ edge_iff(p)) /\ Record(saw(real))
        /\ seen \in BOOLEAN /\ real \in BOOLEAN
    BY <1>2 DEF Tick
  <2>2. d \in DivValue
    BY <1>0, NextDiv
  <2> HIDE DEF d, seen, real
  <2>3. /\ p \in Port /\ p.sc = s.sc /\ p.sb = s.sb /\ p.shifted = s.shifted
        /\ p.link_master_waiting = s.link_master_waiting
        /\ p.link_in = s.link_in /\ p.link_connected = s.link_connected
    BY <1>0, <2>2 DEF Port, SerialState
  <2> HIDE DEF p
  <2> QED BY <2>1, <2>3, EdgeOnes
<1>3. CASE WriteDIV
  <2> DEFINE p == [s EXCEPT !.prev_div = 0]
             drops == clock_bit(s, div)
  <2>1. /\ s' = (IF drops THEN master_edge(p) ELSE p)
        /\ iff' = (drops /\ edge_iff(p)) /\ Record(saw(drops))
        /\ drops \in BOOLEAN
    BY <1>3 DEF WriteDIV, clock_bit
  <2>2. 0 \in DivValue
    BY <1>0, NextDiv
  <2> HIDE DEF drops
  <2>3. /\ p \in Port /\ p.sc = s.sc /\ p.sb = s.sb /\ p.shifted = s.shifted
        /\ p.link_master_waiting = s.link_master_waiting
        /\ p.link_in = s.link_in /\ p.link_connected = s.link_connected
    BY <1>0, <2>2 DEF Port, SerialState
  <2> HIDE DEF p
  <2> QED BY <2>1, <2>3, EdgeOnes
<1>4. CASE WriteSB
  <2>1. PICK v \in Byte : s' = [s EXCEPT !.sb = v] /\ ~iff' /\ Record([run EXCEPT !.clean = FALSE])
    BY <1>4 DEF WriteSB
  <2>2. /\ s'.sc = s.sc /\ s'.shifted = s.shifted /\ s'.link_in = s.link_in
        /\ s'.link_master_waiting = s.link_master_waiting
    BY <1>0, <2>1 DEF Port, SerialState
  <2>3. running' => ~run'.clean
    BY <1>0, <2>1 DEF Record, running, History
  <2> QED BY <2>1, <2>2, <2>3 DEF Ones, Last
<1>5. CASE WriteSC
  BY <1>5, WriteSCOnes
<1>6. CASE Stop
  <2>1. s' = s /\ ~iff' /\ Record([run EXCEPT !.edges = 0, !.forced = 0, !.stop = TRUE])
    BY <1>6 DEF Stop
  <2>2. running' => run'.clean = run.clean /\ run'.alone = run.alone
    BY <1>0, <2>1 DEF Record, running, History
  <2> QED BY <1>1, <2>1, <2>2
<1>7. CASE OtherAccess \/ LockDmg \/ LinkAttach \/ TakeLinkSend
  <2>1. /\ s'.sc = s.sc /\ s'.shifted = s.shifted /\ s'.sb = s.sb /\ ~iff' /\ run' = run
        /\ s'.link_master_waiting = s.link_master_waiting /\ s'.link_in = s.link_in
    <3>1. CASE OtherAccess
      BY <3>1 DEF OtherAccess
    <3>2. CASE LockDmg
      BY <1>0, <3>2 DEF LockDmg, Port, SerialState
    <3>3. CASE LinkAttach
      BY <1>0, <3>3 DEF LinkAttach, Port, SerialState
    <3>4. CASE TakeLinkSend
      BY <1>0, <3>4 DEF TakeLinkSend, Port, SerialState
    <3> QED BY <1>7, <3>1, <3>2, <3>3, <3>4
  <2> QED BY <1>1, <2>1
<1>8. CASE LinkDetach
  <2> DEFINE p == [s EXCEPT !.link_connected = FALSE, !.link_in = <<>>, !.link_out = <<>>]
             q == [p EXCEPT !.sb = ones, !.shifted = 0, !.link_master_waiting = FALSE]
  <2>1. /\ s' = (IF s.link_master_waiting THEN ended(q) ELSE p)
        /\ iff' = s.link_master_waiting /\ run' = run
    BY <1>8 DEF LinkDetach
  <2>2. /\ p \in Port /\ p.sc = s.sc /\ p.shifted = s.shifted /\ p.sb = s.sb
        /\ p.link_in = <<>> /\ p.link_master_waiting = s.link_master_waiting
    BY <1>0, EmptyQueue DEF Port, SerialState, Queue
  <2>3. q \in Port
    BY <2>2, Bytes, ZeroShifted DEF Port, SerialState
  <2> HIDE DEF p, q
  <2>4. CASE s.link_master_waiting
    <3>1. s.link_connected /\ ~s'.sc.active
      BY <1>0, <2>1, <2>3, <2>4, Ended DEF Held
    <3> QED BY <1>0, <3>1 DEF Ones, Last, running, is_master
  <2>5. CASE ~s.link_master_waiting
    BY <1>1, <2>1, <2>2, <2>5
  <2> QED BY <2>4, <2>5
<1>9. CASE PushLinkIn
  <2>1. PICK v \in Byte :
          /\ s' = IF s.link_master_waiting
                  THEN ended([s EXCEPT !.sb = v, !.shifted = 0, !.link_master_waiting = FALSE])
                  ELSE [s EXCEPT !.link_in = enqueued(@, v)]
          /\ iff' = s.link_master_waiting /\ Record([run EXCEPT !.alone = FALSE])
    BY <1>9 DEF PushLinkIn
  <2>2. running' => ~run'.alone
    BY <1>0, <2>1 DEF Record, running, History
  <2>3. iff' => s.link_connected
    BY <1>0, <2>1 DEF Held
  <2> QED BY <1>0, <2>2, <2>3 DEF Ones, Last
<1>10. CASE LinkSlaveTransfer
  <2>1. PICK v \in Byte : s' = ended([s EXCEPT !.sb = v, !.shifted = 0])
    BY <1>10 DEF LinkSlaveTransfer
  <2> DEFINE q == [s EXCEPT !.sb = v, !.shifted = 0]
  <2>2. q \in Port
    BY <1>0, ZeroShifted DEF Port, SerialState
  <2> HIDE DEF q
  <2>3. ~s'.sc.active /\ ~is_master(s)
    BY <1>10, <2>1, <2>2, Ended DEF LinkSlaveTransfer, is_armed, is_master, q
  <2> QED BY <2>3 DEF Ones, Last, running, is_master
<1> QED BY <1>2, <1>3, <1>4, <1>5, <1>6, <1>7, <1>8, <1>9, <1>10 DEF Next

\* What the step takes of the bytes that came, while a peer is attached, and what an
\* unplugged cable leaves.
Takes ==
  LET arrived == s.link_in \o came'
      done == iff' /\ is_master(s)
  IN /\ s'.link_connected /\ done =>
          arrived # <<>> /\ s'.sb = Head(arrived) /\ s'.link_in = Tail(arrived)
     /\ s'.link_connected /\ ~done =>
          s'.link_in = IF Len(arrived) <= QueueCap THEN arrived ELSE s.link_in
     /\ ~s'.link_connected /\ done /\ s.link_connected => s'.sb = ones

\* A queue with nothing new behind it, and the empty queue with one byte behind it.
LEMMA Arrivals ==
  ASSUME NEW q \in Queue, NEW v \in Byte
  PROVE  /\ q \o <<>> = q /\ Len(q) <= QueueCap
         /\ q \o <<v>> = Append(q, v) /\ Len(q \o <<v>>) = Len(q) + 1 /\ Len(q) \in Nat
         /\ <<>> \o <<v>> = <<v>> /\ <<v>> # <<>> /\ Head(<<v>>) = v /\ Tail(<<v>>) = <<>>
<1>1. q \in Seq(Byte) /\ Len(q) <= QueueCap
  BY DEF Queue
<1>2. q \o <<>> = q
  BY <1>1, ConcatEmptySeq
<1>3. q \o <<v>> = Append(q, v) /\ Len(q \o <<v>>) = Len(q) + 1 /\ Len(q) \in Nat
  BY <1>1
<1>4. <<v>> \in Seq(Byte) /\ <<v>> # <<>> /\ Head(<<v>>) = v /\ Tail(<<v>>) = <<>>
  OBVIOUS
<1>5. <<>> \o <<v>> = <<v>>
  BY <1>4, ConcatEmptySeq
<1> QED BY <1>1, <1>2, <1>3, <1>4, <1>5

\* The clock takes a byte exactly when its edge ends a transfer with a peer.
LEMMA ClockTakes == IInv /\ (Tick \/ WriteDIV) => Takes
<1> SUFFICES ASSUME IInv, Tick \/ WriteDIV PROVE Takes
  OBVIOUS
<1> SUFFICES ASSUME came' = <<>>, NEW p \in Port, NEW edge \in BOOLEAN, p.sc = s.sc,
                    p.link_in = s.link_in, p.link_connected = s.link_connected,
                    s' = IF edge THEN master_edge(p) ELSE p, iff' = (edge /\ edge_iff(p))
             PROVE  Takes
  <2>0. s \in Port /\ div \in DivValue
    BY Parts
  <2>1. CASE Tick
    <3> DEFINE d == (div + 4) % DivMod
               p == [s EXCEPT !.prev_div = d]
               seen == clock_bit(s, s.prev_div) /\ ~clock_bit(s, d)
    <3>1. /\ s' = (IF seen THEN master_edge(p) ELSE p) /\ iff' = (seen /\ edge_iff(p))
          /\ seen \in BOOLEAN /\ came' = <<>>
      BY <2>1 DEF Tick
    <3>2. d \in DivValue
      BY <2>0, NextDiv
    <3> HIDE DEF d, seen
    <3>3. /\ p \in Port /\ p.sc = s.sc /\ p.link_in = s.link_in
          /\ p.link_connected = s.link_connected
      BY <2>0, <3>2 DEF Port, SerialState
    <3> HIDE DEF p
    <3> QED BY <3>1, <3>3
  <2>2. CASE WriteDIV
    <3> DEFINE p == [s EXCEPT !.prev_div = 0]
               drops == clock_bit(s, div)
    <3>1. /\ s' = (IF drops THEN master_edge(p) ELSE p) /\ iff' = (drops /\ edge_iff(p))
          /\ drops \in BOOLEAN /\ came' = <<>>
      BY <2>2 DEF WriteDIV, clock_bit, Access
    <3>2. 0 \in DivValue
      BY <2>0, NextDiv
    <3> HIDE DEF drops
    <3>3. /\ p \in Port /\ p.sc = s.sc /\ p.link_in = s.link_in
          /\ p.link_connected = s.link_connected
      BY <2>0, <3>2 DEF Port, SerialState
    <3> HIDE DEF p
    <3> QED BY <3>1, <3>3
  <2> QED BY <2>1, <2>2
<1>1. s \in Port /\ is_master(p) = is_master(s) /\ 0 \in Byte
  BY Parts, Bytes DEF is_master
<1>2. s.link_in \o came' = s.link_in /\ Len(s.link_in) <= QueueCap
  <2>1. s.link_in \in Queue
    BY <1>1 DEF Port
  <2> QED BY <1>1, <2>1, Arrivals
<1>3. s'.link_connected = s.link_connected
  BY Edge DEF Same
<1>4. CASE edge /\ Shifts(p)
  <2>1. s' = master_edge(p) /\ is_master(s) /\ p.sc.active /\ (iff' <=> ~s'.sc.active)
    BY <1>1, <1>4 DEF edge_iff, Shifts, is_master
  <2> QED BY <1>2, <1>3, <1>4, <2>1, ShiftedByte DEF Takes
<1>5. CASE ~(edge /\ Shifts(p))
  <2>1. s'.link_in = s.link_in /\ ~iff'
    BY <1>5, Edge DEF edge_iff
  <2> QED BY <1>2, <1>3, <2>1 DEF Takes
<1> QED BY <1>4, <1>5

\* A register access takes no byte.
LEMMA AccessTakes ==
  IInv /\ (WriteSB \/ WriteSC \/ Stop \/ OtherAccess \/ LockDmg) => Takes
<1> SUFFICES ASSUME IInv, WriteSB \/ WriteSC \/ Stop \/ OtherAccess \/ LockDmg PROVE Takes
  OBVIOUS
<1>1. s \in Port /\ 0 \in Byte
  BY Parts, Bytes
<1>2. came' = <<>>
  BY DEF WriteSB, WriteSC, Stop, OtherAccess, LockDmg, Access
<1>3. ~iff'
  BY OtherAccessKeeps, WriteSCKeeps
<1>4. s'.link_in = s.link_in
  <2>1. CASE WriteSB
    BY <1>1, <2>1 DEF WriteSB, Port, SerialState
  <2>2. CASE WriteSC
    BY <2>2, WriteSCKeeps
  <2>3. CASE Stop \/ OtherAccess
    BY <2>3 DEF Stop, OtherAccess
  <2>4. CASE LockDmg
    BY <1>1, <2>4 DEF LockDmg, Port, SerialState
  <2> QED BY <2>1, <2>2, <2>3, <2>4
<1>5. s.link_in \o came' = s.link_in /\ Len(s.link_in) <= QueueCap
  <2>1. s.link_in \in Queue
    BY <1>1 DEF Port
  <2> QED BY <1>1, <1>2, <2>1, Arrivals
<1> QED BY <1>3, <1>4, <1>5 DEF Takes

\* A call of the link: a byte that comes releases a held master or joins the queue, and an
\* unplugged cable releases it with ones.
LEMMA HookTakes ==
  IInv /\ (LinkAttach \/ LinkDetach \/ PushLinkIn \/ TakeLinkSend \/ LinkSlaveTransfer)
    => Takes
<1> SUFFICES ASSUME IInv,
                    LinkAttach \/ LinkDetach \/ PushLinkIn \/ TakeLinkSend \/ LinkSlaveTransfer
             PROVE  Takes
  OBVIOUS
<1>1. s \in Port /\ s.link_in \in Queue /\ Held /\ 0 \in Byte
  BY Parts, Bytes DEF Port
<1>2. s.link_in \o <<>> = s.link_in /\ Len(s.link_in) <= QueueCap
  BY <1>1, Arrivals
\* A call that completes no master transfer and leaves the queue alone.
<1>3. ASSUME came' = <<>>, s'.link_in = s.link_in, ~iff' \/ ~is_master(s)
      PROVE  Takes
  BY <1>2, <1>3 DEF Takes
<1>4. CASE LinkAttach
  BY <1>1, <1>3, <1>4 DEF LinkAttach, Hook, Port, SerialState
<1>5. CASE TakeLinkSend
  BY <1>1, <1>3, <1>5 DEF TakeLinkSend, Hook, Port, SerialState
<1>6. CASE LinkSlaveTransfer
  <2>1. PICK v \in Byte : s' = ended([s EXCEPT !.sb = v, !.shifted = 0]) /\ Hook(<<>>)
    BY <1>6 DEF LinkSlaveTransfer
  <2> DEFINE q == [s EXCEPT !.sb = v, !.shifted = 0]
  <2>2. q \in Port /\ q.link_in = s.link_in
    BY <1>1, ZeroShifted DEF Port, SerialState
  <2> HIDE DEF q
  <2>3. s'.link_in = s.link_in
    BY <2>1, <2>2, Ended DEF q
  <2>4. ~is_master(s)
    BY <1>6 DEF LinkSlaveTransfer, is_armed, is_master
  <2> QED BY <1>3, <2>1, <2>3, <2>4 DEF Hook
<1>7. CASE LinkDetach
  <2> DEFINE p == [s EXCEPT !.link_connected = FALSE, !.link_in = <<>>, !.link_out = <<>>]
             q == [p EXCEPT !.sb = ones, !.shifted = 0, !.link_master_waiting = FALSE]
  <2>1. /\ s' = (IF s.link_master_waiting THEN ended(q) ELSE p)
        /\ iff' = s.link_master_waiting
    BY <1>7 DEF LinkDetach
  <2>2. p \in Port /\ ~p.link_connected
    BY <1>1, EmptyQueue DEF Port, SerialState, Queue
  <2> HIDE DEF p
  <2>3. q \in Port /\ q.sb = ones /\ ~q.link_connected
    BY <2>2, Bytes, ZeroShifted DEF Port, SerialState
  <2> HIDE DEF q
  <2>4. ended(q).sb = q.sb
    <3> DEFINE c == [q.sc EXCEPT !.active = FALSE]
    <3>1. ended(q) = [q EXCEPT !.sc = c]
      BY DEF ended
    <3> HIDE DEF c
    <3> QED BY <2>3, <3>1 DEF Port, SerialState
  <2>5. ~s'.link_connected /\ (iff' => s'.sb = ones)
    BY <2>1, <2>2, <2>3, <2>4, Ended DEF Same
  <2> QED BY <2>5 DEF Takes
<1>8. CASE PushLinkIn
  <2>1. PICK v \in Byte :
          /\ s' = IF s.link_master_waiting
                  THEN ended([s EXCEPT !.sb = v, !.shifted = 0, !.link_master_waiting = FALSE])
                  ELSE [s EXCEPT !.link_in = enqueued(@, v)]
          /\ iff' = s.link_master_waiting /\ Hook(<<v>>)
    BY <1>8 DEF PushLinkIn
  <2>2. came' = <<v>>
    BY <2>1 DEF Hook
  <2>3. CASE s.link_master_waiting
    <3> DEFINE q == [s EXCEPT !.sb = v, !.shifted = 0, !.link_master_waiting = FALSE]
               c == [q.sc EXCEPT !.active = FALSE]
    <3>1. /\ q \in Port /\ q.sb = v /\ q.link_in = s.link_in
          /\ q.link_connected = s.link_connected
      BY <1>1, ZeroShifted DEF Port, SerialState
    <3>2. s' = ended(q) /\ iff'
      BY <2>1, <2>3
    <3> HIDE DEF q
    <3>3. s' = [q EXCEPT !.sc = c]
      BY <3>2 DEF ended
    <3> HIDE DEF c
    <3>4. s'.sb = v /\ s'.link_in = s.link_in /\ s'.link_connected = s.link_connected
      BY <3>1, <3>3 DEF Port, SerialState
    <3>5. s.link_in = <<>> /\ s.link_connected /\ is_master(s)
      BY <1>1, <2>3 DEF Held
    <3>6. s.link_in \o came' = <<v>>
      BY <1>1, <2>2, <3>5, Arrivals
    <3>7. <<v>> # <<>> /\ Head(<<v>>) = v /\ Tail(<<v>>) = <<>>
      BY <1>1, Arrivals
    <3> QED BY <3>2, <3>4, <3>5, <3>6, <3>7 DEF Takes
  <2>4. CASE ~s.link_master_waiting
    <3> DEFINE o == enqueued(s.link_in, v)
    <3>1. s' = [s EXCEPT !.link_in = o] /\ ~iff'
      BY <2>1, <2>4
    <3>2. o = IF Len(s.link_in \o <<v>>) <= QueueCap THEN s.link_in \o <<v>> ELSE s.link_in
      <4>1. /\ s.link_in \o <<v>> = Append(s.link_in, v) /\ Len(s.link_in) \in Nat
            /\ Len(s.link_in \o <<v>>) = Len(s.link_in) + 1
        BY <1>1, Arrivals
      <4>2. Len(s.link_in) < QueueCap <=> Len(s.link_in) + 1 <= QueueCap
        BY <4>1, BoundsAssumption
      <4> QED BY <4>1, <4>2 DEF enqueued
    <3> HIDE DEF o
    <3>3. s'.link_in = o
      BY <1>1, <3>1 DEF Port, SerialState
    <3> QED BY <2>2, <3>1, <3>2, <3>3 DEF Takes
  <2> QED BY <2>3, <2>4
<1> QED BY <1>4, <1>5, <1>6, <1>7, <1>8

\* For every width and every queue a master transfer that ends, with its last bit, with the
\* byte that releases a held one or with the cable unplugged, receives the first byte of the
\* peer no transfer has taken, each once and in the order of arrival, or the ones of an open
\* cable (serial.rs:125-180, 225-273).
THEOREM ByteReceived == Spec => ReceivedByte
<1> DEFINE Receives == Last /\ Takes
<1>1. Init => Ones
  <2>1. Init => ~s.sc.active
    BY DEF Init, Fresh
  <2> QED BY <2>1 DEF Ones, running, is_master
<1>2. IInv /\ Ones /\ [Next]_vars => Ones' /\ [Receives]_vars
  <2>1. UNCHANGED vars /\ Ones => Ones' /\ [Receives]_vars
    BY DEF vars, Ones, running, is_master
  <2>2. IInv /\ Next => Takes
    BY ClockTakes, AccessTakes, HookTakes DEF Next
  <2> QED BY <2>1, <2>2, OnesKept
<1>3. Spec => [][Receives]_vars
  BY <1>1, <1>2, Inductive, PTL DEF Spec
<1>4. [Receives]_vars =>
        [LET arrived == s.link_in \o came'
             done == iff' /\ is_master(s)
         IN /\ s'.link_connected /\ done =>
                 /\ arrived # <<>>
                 /\ s'.sb = Head(arrived) /\ s'.link_in = Tail(arrived)
            /\ s'.link_connected /\ ~done =>
                 s'.link_in = IF Len(arrived) <= QueueCap THEN arrived ELSE s.link_in
            /\ ~s'.link_connected /\ done
                 /\ (s.link_connected \/ (run.clean /\ run.alone)) => s'.sb = ones]_vars
  BY DEF Last, Takes
<1> QED BY <1>3, <1>4, PTL DEF ReceivedByte
-----------------------------------------------------------------------------
(* Joypad. *)

Bits == {0, 1}

\* One packet more is PacketBits bits more.
LEMMA Products ==
  ASSUME NEW a \in Nat, NEW b \in Nat, a < b
  PROVE  PacketBits * a + PacketBits <= PacketBits * b
<1>1. PICK d \in Nat : b = a + 1 + d
  <2>1. b - a - 1 \in Nat /\ b = a + 1 + (b - a - 1)
    OBVIOUS
  <2> QED BY <2>1
<1>2. PacketBits \in Nat
  BY PacketAssumption
<1>3. PacketBits * b = PacketBits * a + PacketBits + PacketBits * d
  BY <1>1, <1>2
<1>4. PacketBits * d >= 0 /\ PacketBits * d \in Nat /\ PacketBits * a \in Nat
  BY <1>2
<1> QED BY <1>2, <1>3, <1>4

\* What is left of a number of bits after its packets.
LEMMA Remainder ==
  ASSUME NEW n \in Nat, NEW r \in 0..(PacketBits - 1)
  PROVE  (PacketBits * n + r) % PacketBits = r /\ (PacketBits * n + r) \div PacketBits = n
<1>1. PacketBits \in Nat \ {0}
  BY PacketAssumption
<1> QED BY <1>1, SMTT(60)

-----------------------------------------------------------------------------
\* The ports of the states that occur, and the history beside them.
SgbPort == {g \in Sgb : /\ g.player < g.count /\ Len(g.packets) <= PacketQueueCap
                        /\ ~g.present => ~g.write}
Heard == [wire : Seq(Bits), run : Seq(Packet)]
Given == [packet : Packet \union {NoPacket}, cmd : Seq(Bits), start : BOOLEAN]
Typed == keys \in Keys /\ irq \in BOOLEAN /\ sgb \in SgbPort /\ out \in Given /\ h \in Heard

\* The packets accepted since the transfer start, and none after the step that delivered
\* their command.
since == IF out.cmd # NoPacket THEN <<>> ELSE h.run

\* The bits c are the packets p and then the bits w.
Holds(c, p, w) ==
  /\ Len(c) = PacketBits * Len(p) + Len(w)
  /\ \A i \in 1..Len(w) : c[PacketBits * Len(p) + i] = w[i]
  /\ \A i \in 1..Len(p), j \in 1..PacketBits : c[PacketBits * (i - 1) + j] = p[i][j]

\* An open packet: the buffer holds the packets accepted and the pulses since the reset.
Open(g, o, k) ==
  g.write => /\ o.cmd = NoPacket
             /\ Holds(g.command, k.run, k.wire)
             /\ Len(k.wire) <= PacketBits
             /\ g.stop <=> Len(k.wire) = PacketBits
\* Between two packets the buffer is empty or holds the packets accepted.
Between(g, o, k) ==
  ~g.write =>
    g.command = <<>> \/ (~g.stop /\ o.cmd = NoPacket /\ Holds(g.command, k.run, <<>>))
\* A command has fewer packets than its first one announces until it is delivered.
Growing(o, k) ==
  o.cmd = NoPacket /\ k.run # <<>> => Len(k.run) < Length[k.run[1]]

Received == Open(sgb, out, h) /\ Between(sgb, out, h) /\ Growing(out, h)
ReceiverInv == Typed /\ Received
-----------------------------------------------------------------------------
(* What a pulse does to the packet being received: one of six things. *)

\* Nothing, as between two pulses.
Ignored ==
  /\ sgb'.command = sgb.command /\ sgb'.write = sgb.write /\ sgb'.stop = sgb.stop
  /\ out' = Silence /\ h'.run = since /\ (sgb.write => h'.wire = h.wire)
\* A bit of data, the last of which makes the stop bit due.
DataBit ==
  \E bit \in Bits :
    /\ sgb.write /\ ~sgb.stop
    /\ sgb'.command = Append(sgb.command, bit) /\ sgb'.write
    /\ sgb'.stop <=> at_boundary(sgb'.command)
    /\ out' = Silence /\ h'.run = since /\ h'.wire = Append(h.wire, bit)
\* The stop bit.
StopBit ==
  /\ sgb.write /\ sgb.stop /\ ~sgb'.write /\ ~sgb'.stop
  /\ LET c == sgb.command
         done == Len(c) = command_size(c)
     IN /\ out' = [packet |-> last(c), start |-> FALSE, cmd |-> IF done THEN c ELSE NoPacket]
        /\ sgb'.command = IF done THEN <<>> ELSE c
        /\ h'.run = IF out.cmd # NoPacket THEN <<>> ELSE Append(h.run, last(c))
        /\ h'.wire = Append(h.wire, 0)
\* A one in its place.
Corrupt == sgb'.command = <<>> /\ ~sgb'.write /\ out' = Silence /\ h'.run = since
\* A reset pulse, before the next packet of a command or for a new one.
NextPacket ==
  /\ at_boundary(sgb.command) /\ sgb.command # <<>> /\ ~sgb.stop
  /\ sgb'.command = sgb.command /\ sgb'.write /\ ~sgb'.stop
  /\ out' = Silence /\ h'.run = since /\ h'.wire = <<>>
NewCommand ==
  /\ sgb'.command = <<>> /\ sgb'.write /\ ~sgb'.stop
  /\ out' = [Silence EXCEPT !.start = TRUE] /\ h'.run = <<>> /\ h'.wire = <<>>

Pulse == Ignored \/ DataBit \/ StopBit \/ Corrupt \/ NextPacket \/ NewCommand

\* No packet is no sequence of bits of a packet's length.
LEMMA Packets ==
  /\ PacketBits \in Nat \ {0} /\ NoPacket \notin Packet
  /\ \A p \in Packet : Len(p) = PacketBits /\ p \in Seq(Bits)
<1>1. PacketBits \in Nat \ {0}
  BY PacketAssumption
<1>2. ASSUME NEW p \in Packet PROVE Len(p) = PacketBits /\ p \in Seq(Bits)
  BY <1>1 DEF Packet, Bits
<1>3. NoPacket \notin Packet
  BY <1>1, <1>2 DEF NoPacket
<1> QED BY <1>1, <1>2, <1>3

\* The last packet of the buffer is one, and so is the first.
LEMMA LastPacket ==
  ASSUME NEW c \in Seq(Bits), PacketBits <= Len(c)
  PROVE  /\ last(c) \in Packet /\ \A j \in 1..PacketBits : last(c)[j] = c[Len(c) - PacketBits + j]
         /\ first(c) \in Packet /\ \A j \in 1..PacketBits : first(c)[j] = c[j]
<1>1. Len(c) \in Nat /\ PacketBits \in Nat \ {0} /\ \A i \in 1..Len(c) : c[i] \in Bits
  BY Packets, ElementOfSeq
<1> DEFINE k == Len(c) - PacketBits
           q == SubSeq(c, k + 1, Len(c))
           f == SubSeq(c, 1, PacketBits)
<1>2. k \in Nat /\ k + PacketBits = Len(c) /\ Len(c) - (k + 1) + 1 = PacketBits
      /\ (\A j \in 1..PacketBits : k + 1 + j - 1 = k + j /\ 1 + j - 1 = j)
      /\ (k + 1)..Len(c) \subseteq 1..Len(c) /\ 1..PacketBits \subseteq 1..Len(c)
      /\ PacketBits - 1 + 1 = PacketBits
  BY <1>1
<1> HIDE DEF k
<1>3. /\ q \in Seq(Bits) /\ Len(q) = PacketBits
      /\ \A j \in 1..PacketBits : q[j] = c[k + j]
  <2>1. \A i \in (k + 1)..Len(c) : c[i] \in Bits
    BY <1>1, <1>2
  <2>2. k + 1 \in Int /\ Len(c) \in Int /\ k + 1 <= Len(c)
    BY <1>1, <1>2
  <2>3. /\ q \in Seq(Bits) /\ Len(q) = Len(c) - (k + 1) + 1
        /\ \A i \in 1..(Len(c) - (k + 1) + 1) : q[i] = c[k + 1 + i - 1]
    BY <2>1, <2>2, SubSeqProperties
  <2> QED BY <1>2, <2>3
<1>4. /\ f \in Seq(Bits) /\ Len(f) = PacketBits
      /\ \A j \in 1..PacketBits : f[j] = c[j]
  <2>1. \A i \in 1..PacketBits : c[i] \in Bits
    BY <1>1, <1>2
  <2>2. 1 \in Int /\ PacketBits \in Int /\ 1 <= PacketBits
    BY <1>1
  <2>3. /\ f \in Seq(Bits) /\ Len(f) = PacketBits - 1 + 1
        /\ \A i \in 1..(PacketBits - 1 + 1) : f[i] = c[1 + i - 1]
    BY <2>1, <2>2, SubSeqProperties
  <2> QED BY <1>2, <2>3
<1>5. last(c) = q /\ first(c) = f
  BY DEF last, first, k
<1> HIDE DEF q, f
<1>6. q \in Packet /\ f \in Packet
  <2>1. q \in [1..Len(q) -> Bits] /\ f \in [1..Len(f) -> Bits]
    BY <1>3, <1>4, LenProperties
  <2> QED BY <1>3, <1>4, <2>1 DEF Packet, Bits
<1> QED BY <1>3, <1>4, <1>5, <1>6 DEF k

-----------------------------------------------------------------------------
(* The port. *)

\* The pulse decoder's fields of the port.
Decoder(g) == <<g.command, g.write, g.stop>>

\* A field of the port replaced.
LEMMA PortFields ==
  ASSUME NEW g \in SgbPort
  PROVE  /\ g \in Sgb /\ g.command \in Seq(Bits) /\ g.packets \in Seq(Packet)
         /\ g.count \in 1..4 /\ g.player \in 0..3 /\ g.player < g.count
         /\ Len(g.packets) <= PacketQueueCap
         /\ g.pulse \in BOOLEAN /\ g.write \in BOOLEAN /\ g.stop \in BOOLEAN
         /\ g.present \in BOOLEAN /\ (~g.present => ~g.write)
BY DEF SgbPort, Sgb, Bits

\* The change of player concerns nothing else, and there is such a player.
LEMMA Rotating ==
  ASSUME NEW g \in SgbPort, NEW old, NEW new
  PROVE  LET r == rotated(g, old, new)
         IN /\ r \in SgbPort /\ Decoder(r) = Decoder(g)
            /\ r.pulse = g.pulse /\ r.present = g.present
<1> DEFINE p == (g.player + 1) % g.count
           r == rotated(g, old, new)
<1>1. p \in 0..3 /\ p < g.count
  <2>1. g.count \in 1..4 /\ g.player \in 0..3
    BY PortFields
  <2>2. CASE g.count = 1
    BY <2>1, <2>2
  <2>3. CASE g.count = 2
    BY <2>1, <2>3
  <2>4. CASE g.count = 3
    BY <2>1, <2>4
  <2>5. CASE g.count = 4
    BY <2>1, <2>5
  <2> QED BY <2>1, <2>2, <2>3, <2>4, <2>5
<1>2. r = [g EXCEPT !.player = p] \/ r = g
  BY DEF rotated
<1> HIDE DEF p, r
<1>3. r \in SgbPort /\ Decoder(r) = Decoder(g) /\ r.pulse = g.pulse /\ r.present = g.present
  BY <1>1, <1>2 DEF SgbPort, Sgb, Decoder
<1> QED BY <1>3 DEF r

\* MLT_REQ changes the players, and the one selected exists.
LEMMA Ready ==
  ASSUME NEW g \in SgbPort, PacketBits <= Len(g.command)
  PROVE  LET r == command_ready(g)
         IN /\ r \in SgbPort /\ Decoder(r) = Decoder(g) /\ r.pulse = g.pulse
            /\ r.present = g.present
<1> DEFINE n == Players[first(g.command)]
           p == CASE n = 1 -> 0
                  [] n = 3 -> IF (g.player + 1) % 4 >= 2 THEN 2 ELSE 0
                  [] OTHER -> g.player % n
<1>1. n \in {0, 1, 2, 3, 4}
  BY LastPacket, PortFields, PacketAssumption
<1>2. g.player \in 0..3
  BY PortFields
<1>3. CASE n = 0
  BY <1>3 DEF command_ready
<1>4. CASE n # 0
  <2>1. p \in 0..3 /\ p < n /\ n \in 1..4
    BY <1>1, <1>2, <1>4
  <2>2. command_ready(g) = [g EXCEPT !.count = n, !.player = p]
    BY <1>4 DEF command_ready, switched
  <2> HIDE DEF n, p
  <2> QED BY <2>1, <2>2 DEF SgbPort, Sgb, Decoder
<1> QED BY <1>3, <1>4

\* The queue of packets keeps its cap.
LEMMA Teeing ==
  ASSUME NEW q \in Seq(Packet), Len(q) <= PacketQueueCap, NEW p \in Packet
  PROVE  tee_packet(q, p) \in Seq(Packet) /\ Len(tee_packet(q, p)) <= PacketQueueCap
<1>1. PacketQueueCap \in Nat \ {0} /\ Len(q) \in Nat
  BY PacketAssumption, LenProperties
<1>2. CASE Len(q) < PacketQueueCap
  <2>1. tee_packet(q, p) = Append(q, p)
    BY <1>2 DEF tee_packet
  <2>2. Append(q, p) \in Seq(Packet) /\ Len(Append(q, p)) = Len(q) + 1
    BY AppendProperties
  <2> QED BY <1>1, <1>2, <2>1, <2>2
<1>3. CASE ~(Len(q) < PacketQueueCap)
  <2> DEFINE t == Tail(q)
  <2>1. q # <<>>
    BY <1>1, <1>3, EmptySeq
  <2>2. t \in Seq(Packet) /\ Len(t) = Len(q) - 1
    BY <2>1, HeadTailProperties
  <2> HIDE DEF t
  <2>3. Append(t, p) \in Seq(Packet) /\ Len(Append(t, p)) = Len(t) + 1
    BY <2>2, AppendProperties
  <2>4. tee_packet(q, p) = Append(t, p)
    BY <1>3 DEF tee_packet, t
  <2> QED BY <1>1, <1>3, <2>2, <2>3, <2>4
<1> QED BY <1>2, <1>3

\* The stop bit.
LEMMA Accepting ==
  ASSUME NEW g \in SgbPort, PacketBits <= Len(g.command)
  PROVE  LET a == packet_accepted(g)
             c == g.command
             done == Len(c) = command_size(c)
         IN /\ a.port \in SgbPort /\ ~a.port.write /\ ~a.port.stop /\ a.port.present = g.present
            /\ a.port.command = IF done THEN <<>> ELSE c
            /\ a.out = [packet |-> last(c), start |-> FALSE, cmd |-> IF done THEN c ELSE NoPacket]
            /\ a.out \in Given
<1> DEFINE a == packet_accepted(g)
           c == g.command
           done == Len(c) = command_size(c)
           q == tee_packet(g.packets, last(c))
           kept == [g EXCEPT !.packets = q, !.pulse = FALSE, !.write = FALSE, !.stop = FALSE]
           d == IF done THEN c ELSE NoPacket
<1>1. g \in Sgb /\ c \in Seq(Bits) /\ last(c) \in Packet
  BY PortFields, LastPacket
<1>2. q \in Seq(Packet) /\ Len(q) <= PacketQueueCap
  BY <1>1, PortFields, Teeing
<1>3. /\ a.port = IF done THEN discarded(command_ready(kept)) ELSE kept
      /\ a.out = [packet |-> last(c), start |-> FALSE, cmd |-> d]
  BY DEF packet_accepted, result
<1>4. d \in Seq(Bits) /\ d = IF done THEN c ELSE NoPacket
  <2>1. <<>> \in Seq(Bits)
    BY EmptySeq
  <2> QED BY <1>1, <2>1 DEF NoPacket
<1> HIDE DEF q
<1>5. kept \in SgbPort /\ ~kept.write /\ ~kept.stop /\ kept.command = c /\ kept.present = g.present
  BY <1>1, <1>2 DEF SgbPort, Sgb
<1> HIDE DEF kept, a, d
<1>6. a.out \in Given
  BY <1>1, <1>3, <1>4 DEF Given
<1>7. CASE ~done
  BY <1>3, <1>4, <1>5, <1>6, <1>7 DEF a
<1>8. CASE done
  <2> DEFINE r == command_ready(kept)
  <2>1. r \in SgbPort /\ Decoder(r) = Decoder(kept) /\ r.present = kept.present
    BY <1>5, Ready
  <2> HIDE DEF r
  <2>2. discarded(r) = [r EXCEPT !.command = <<>>] /\ <<>> \in Seq({0, 1})
    BY EmptySeq DEF discarded
  <2>3. /\ discarded(r) \in SgbPort /\ ~discarded(r).write /\ ~discarded(r).stop
        /\ discarded(r).command = <<>> /\ discarded(r).present = g.present
    BY <1>5, <2>1, <2>2 DEF SgbPort, Sgb, Decoder
  <2> QED BY <1>3, <1>4, <1>6, <1>8, <2>3 DEF a, r
<1> QED BY <1>7, <1>8

\* A bit of data.
LEMMA ShiftingBit ==
  ASSUME NEW g \in SgbPort, NEW bit \in Bits, has_room(g), g.write, ~g.stop
  PROVE  LET r == data_bit(g, bit)
         IN /\ r \in SgbPort /\ r.command = Append(g.command, bit) /\ r.write
            /\ r.stop <=> at_boundary(r.command)
            /\ r.present = g.present
<1> DEFINE c == Append(g.command, bit)
           r == data_bit(g, bit)
           b == at_boundary(c)
<1>1. c \in Seq(Bits) /\ g \in Sgb
  BY PortFields, AppendProperties
<1>2. r = [g EXCEPT !.command = c, !.pulse = FALSE, !.stop = g.stop \/ b]
  BY DEF data_bit
<1>3. (g.stop \/ b) \in BOOLEAN /\ ((g.stop \/ b) <=> b)
  BY DEF at_boundary
<1> HIDE DEF r, c
<1> DEFINE t == g.stop \/ b
<1>4. r = [g EXCEPT !.command = c, !.pulse = FALSE, !.stop = t] /\ t \in BOOLEAN /\ (t <=> b)
  BY <1>2, <1>3
<1> HIDE DEF t, b
<1>5. /\ r \in SgbPort /\ r.command = c /\ r.write /\ (r.stop <=> t) /\ r.present = g.present
  BY <1>1, <1>4 DEF SgbPort, Sgb, Bits
<1> QED BY <1>4, <1>5 DEF r, c, b

\* A reset pulse.
LEMMA Resetting ==
  ASSUME NEW g \in SgbPort, g.present, g.pulse
  PROVE  LET a == reset_pulse(g)
             starts == ~at_boundary(g.command) \/ g.command = <<>> \/ g.stop
         IN /\ a.port \in SgbPort /\ a.port.write /\ ~a.port.stop
            /\ a.port.command = IF starts THEN <<>> ELSE g.command
            /\ a.out = [Silence EXCEPT !.start = starts]
            /\ starts \in BOOLEAN
<1> DEFINE a == reset_pulse(g)
           starts == ~at_boundary(g.command) \/ g.command = <<>> \/ g.stop
           c == IF starts THEN <<>> ELSE g.command
           t == IF starts THEN FALSE ELSE g.stop
           opened == [g EXCEPT !.write = TRUE, !.pulse = FALSE]
<1>1. g \in Sgb /\ c \in Seq(Bits) /\ t = FALSE /\ g.stop \in BOOLEAN
  BY PortFields, EmptySeq
<1>2. a.port = (IF starts THEN [discarded(opened) EXCEPT !.stop = FALSE] ELSE opened)
      /\ a.out = [Silence EXCEPT !.start = starts]
  BY DEF reset_pulse, result
<1>3. a.port = [g EXCEPT !.command = c, !.write = TRUE, !.pulse = FALSE, !.stop = t]
  BY <1>1, <1>2 DEF discarded, Sgb
<1>4. starts \in BOOLEAN /\ c = IF starts THEN <<>> ELSE g.command
  BY DEF at_boundary
<1> HIDE DEF a, starts, c, t
<1>5. a.port \in SgbPort /\ a.port.write /\ ~a.port.stop /\ a.port.command = c
  BY <1>1, <1>3, ZenonT(40) DEF SgbPort, Sgb, Bits
<1> QED BY <1>2, <1>4, <1>5 DEF a, starts

-----------------------------------------------------------------------------
(* A write is one of the six things. *)

\* A buffer whose packet is not full has room for it.
LEMMA Room ==
  ASSUME ReceiverInv, sgb.write, ~sgb.stop
  PROVE  has_room(sgb) /\ Len(h.wire) < PacketBits
<1>1. /\ out.cmd = NoPacket /\ Len(sgb.command) = PacketBits * Len(h.run) + Len(h.wire)
      /\ Len(h.wire) < PacketBits
  <2>1. h.wire \in Seq(Bits) /\ Len(h.wire) \in Nat /\ PacketBits \in Nat
    BY Packets, LenProperties DEF ReceiverInv, Typed, Heard
  <2>2. /\ out.cmd = NoPacket /\ Len(sgb.command) = PacketBits * Len(h.run) + Len(h.wire)
        /\ Len(h.wire) <= PacketBits /\ Len(h.wire) # PacketBits
    BY DEF ReceiverInv, Received, Open, Holds
  <2> DEFINE w == Len(h.wire)
  <2>3. w < PacketBits
    <3> HIDE DEF w
    <3>1. w \in Nat /\ w <= PacketBits /\ w # PacketBits
      BY <2>1, <2>2 DEF w
    <3> QED BY <2>1, <3>1
  <2> QED BY <2>2, <2>3
<1> DEFINE n == Len(h.run)
<1>2. n \in Nat /\ n < MaxPackets /\ MaxPackets \in Nat
  <2>1. h.run \in Seq(Packet) /\ MaxPackets \in Nat \ {0}
    BY PacketAssumption DEF ReceiverInv, Typed, Heard
  <2>2. CASE h.run = <<>>
    BY <2>1, <2>2
  <2>3. CASE h.run # <<>>
    <3>1. n \in Nat /\ h.run[1] \in Packet
      BY <2>1, <2>3, EmptySeq, ElementOfSeq, LenProperties
    <3>2. Length[h.run[1]] \in 1..MaxPackets
      BY <3>1, PacketAssumption
    <3>3. n < Length[h.run[1]]
      BY <1>1, <2>3 DEF ReceiverInv, Received, Growing
    <3> QED BY <2>1, <3>1, <3>2, <3>3
  <2> QED BY <2>2, <2>3
<1>3. Len(h.wire) \in Nat /\ PacketBits \in Nat
  BY Packets, LenProperties DEF ReceiverInv, Typed, Heard
<1> DEFINE m == PacketBits * n
           x == PacketBits * MaxPackets
<1>4. m + PacketBits <= x /\ m \in Nat /\ x \in Nat /\ x = MaxPackets * PacketBits
  BY <1>2, <1>3, Products
<1>5. Len(sgb.command) = m + Len(h.wire)
  BY <1>1
<1> HIDE DEF m, x
<1>6. Len(sgb.command) < x
  <2> DEFINE w == Len(h.wire)
             c == Len(sgb.command)
  <2>1. w \in Nat /\ w < PacketBits /\ c = m + w /\ PacketBits \in Nat
    BY <1>1, <1>3, <1>5
  <2> HIDE DEF w, c
  <2>2. c < x
    BY <1>4, <2>1
  <2> QED BY <2>2 DEF c
<1> QED BY <1>1, <1>4, <1>6 DEF has_room

\* A full packet is in the buffer when the stop bit is due.
LEMMA Full ==
  ASSUME ReceiverInv, sgb.write, sgb.stop
  PROVE  /\ sgb.command \in Seq(Bits) /\ PacketBits <= Len(sgb.command)
         /\ Len(sgb.command) = PacketBits * (Len(h.run) + 1)
         /\ Len(h.wire) = PacketBits
<1> DEFINE n == Len(h.run)
           m == PacketBits * n
<1>1. Len(sgb.command) = m + PacketBits /\ Len(h.wire) = PacketBits
  BY DEF ReceiverInv, Received, Open, Holds
<1>2. n \in Nat /\ PacketBits \in Nat
  BY Packets, LenProperties DEF ReceiverInv, Typed, Heard
<1>3. m \in Nat /\ PacketBits * (n + 1) = m + PacketBits
  BY <1>2
<1>4. sgb.command \in Seq(Bits)
  BY PortFields DEF ReceiverInv, Typed
<1> HIDE DEF m
<1> QED BY <1>1, <1>2, <1>3, <1>4

\* What the history makes of a write.
LEMMA Telling ==
  ASSUME ReceiverInv, NEW new, NEW o, h' = told(h, sgb, new, o)
  PROVE  /\ ~o.start /\ o.packet = NoPacket => h'.run = since
         /\ o.start => h'.run = <<>>
         /\ ~o.start /\ o.packet # NoPacket =>
              h'.run = IF out.cmd # NoPacket THEN <<>> ELSE Append(h.run, o.packet)
         /\ ~sgb.pulse \/ new = {"P14", "P15"} => h'.wire = h.wire
         /\ sgb.pulse /\ new = {} => h'.wire = <<>>
         /\ sgb.pulse /\ new \in {{"P14"}, {"P15"}} /\ Len(h.wire) < PacketBits + 2 =>
              h'.wire = Append(h.wire, IF new = {"P15"} THEN 0 ELSE 1)
<1>1. h'.run = (IF o.start \/ out.cmd # NoPacket THEN <<>>
                ELSE IF o.packet # NoPacket THEN Append(h.run, o.packet) ELSE h.run)
      /\ h'.wire = wired(h.wire, sgb, new)
  BY DEF told
<1>2. "P14" # "P15"
  OBVIOUS
<1>3. {"P14", "P15"} # {} /\ {"P14"} # {} /\ {"P15"} # {} /\ {"P14"} # {"P14", "P15"}
      /\ {"P15"} # {"P14", "P15"} /\ {"P14"} # {"P15"}
  BY <1>2
<1>4. /\ ~sgb.pulse \/ new = {"P14", "P15"} => h'.wire = h.wire
      /\ sgb.pulse /\ new = {} => h'.wire = <<>>
      /\ sgb.pulse /\ new \in {{"P14"}, {"P15"}} /\ Len(h.wire) < PacketBits + 2 =>
           h'.wire = Append(h.wire, IF new = {"P15"} THEN 0 ELSE 1)
  BY <1>1, <1>3 DEF wired
<1> QED BY <1>1, <1>4 DEF since

\* Every write is one of the six.
LEMMA WritePulse ==
  ASSUME ReceiverInv, NEW new \in SUBSET {"P14", "P15"}, Write(new)
  PROVE  Pulse /\ sgb' \in SgbPort /\ out' \in Given
<1> DEFINE r == rotated(sgb, keys.high, new)
           w == IF sgb.present THEN joyp_write(sgb, keys.high, new) ELSE result(sgb, Silence)
<1>1. sgb' = w.port /\ out' = w.out /\ h' = told(h, sgb, new, w.out)
  BY DEF Write
<1>2. sgb \in SgbPort /\ (~sgb.present => ~sgb.write)
  BY PortFields DEF ReceiverInv, Typed
<1>3. r \in SgbPort /\ Decoder(r) = Decoder(sgb) /\ r.pulse = sgb.pulse /\ r.present = sgb.present
  BY <1>2, Rotating
<1>4. Silence \in Given /\ Silence.packet = NoPacket /\ Silence.start = FALSE
      /\ Silence.cmd = NoPacket
  <2>1. <<>> \in Seq(Bits)
    BY EmptySeq
  <2> QED BY <2>1 DEF Silence, Given, NoPacket
<1> HIDE DEF r, w
<1>5. ASSUME NEW g \in SgbPort, w = result(g, Silence), Decoder(g) = Decoder(sgb),
             sgb.write => h'.wire = h.wire
      PROVE  Ignored /\ sgb' \in SgbPort /\ out' \in Given
  <2>1. sgb' = g /\ out' = Silence
    BY <1>1, <1>5 DEF result
  <2>2. h'.run = since
    BY <1>1, <1>4, <2>1, Telling
  <2> QED BY <1>4, <1>5, <2>1, <2>2 DEF Ignored, Decoder
<1>6. CASE ~sgb.present
  <2>1. w = result(sgb, Silence)
    BY <1>6 DEF w
  <2> QED BY <1>2, <1>5, <1>6, <2>1 DEF Pulse
<1>7. CASE sgb.present /\ new = {"P14", "P15"}
  <2> DEFINE g == [r EXCEPT !.pulse = TRUE]
  <2>1. w = result(g, Silence)
    BY <1>7 DEF w, joyp_write, r
  <2>2. g \in SgbPort /\ Decoder(g) = Decoder(sgb)
    BY <1>3 DEF SgbPort, Sgb, Decoder
  <2> HIDE DEF g
  <2>3. h'.wire = h.wire
    BY <1>1, <1>7, Telling
  <2> QED BY <1>5, <2>1, <2>2, <2>3 DEF Pulse
<1>8. CASE sgb.present /\ new = {} /\ ~sgb.pulse
  <2>1. w = result(r, Silence)
    BY <1>3, <1>8 DEF w, joyp_write, r, reset_pulse
  <2>2. h'.wire = h.wire
    BY <1>1, <1>8, Telling
  <2> QED BY <1>3, <1>5, <2>1, <2>2 DEF Pulse
<1>9. CASE sgb.present /\ new = {} /\ sgb.pulse
  <2> DEFINE a == reset_pulse(r)
             starts == ~at_boundary(r.command) \/ r.command = <<>> \/ r.stop
  <2>1. w = a
    BY <1>9 DEF w, joyp_write, r
  <2>2. /\ a.port \in SgbPort /\ a.port.write /\ ~a.port.stop
        /\ a.port.command = IF starts THEN <<>> ELSE r.command
        /\ a.out = [Silence EXCEPT !.start = starts] /\ starts \in BOOLEAN
    BY <1>3, <1>9, Resetting
  <2>3. starts <=> ~at_boundary(sgb.command) \/ sgb.command = <<>> \/ sgb.stop
    BY <1>3 DEF Decoder
  <2>4. h'.wire = <<>>
    BY <1>1, <1>9, Telling
  <2>5. r.command = sgb.command
    BY <1>3 DEF Decoder
  <2> HIDE DEF a, starts
  <2>6. a.out \in Given /\ a.out.packet = NoPacket /\ a.out.start = starts
    BY <1>4, <2>2 DEF Given, Silence
  <2>7. CASE starts
    <3>1. h'.run = <<>>
      BY <1>1, <2>1, <2>6, <2>7, Telling
    <3>2. NewCommand
      BY <1>1, <2>1, <2>2, <2>4, <2>7, <3>1 DEF NewCommand
    <3> QED BY <1>1, <2>1, <2>2, <2>6, <3>2 DEF Pulse
  <2>8. CASE ~starts
    <3>1. h'.run = since
      BY <1>1, <2>1, <2>6, <2>8, Telling
    <3>2. a.out = Silence
      BY <2>2, <2>8 DEF Silence
    <3>3. NextPacket
      BY <1>1, <2>1, <2>2, <2>3, <2>4, <2>5, <2>8, <3>1, <3>2 DEF NextPacket
    <3> QED BY <1>1, <2>1, <2>2, <2>6, <3>3 DEF Pulse
  <2> QED BY <2>2, <2>7, <2>8
<1>10. CASE sgb.present /\ new \in {{"P14"}, {"P15"}}
  <2> DEFINE bit == IF new = {"P15"} THEN 0 ELSE 1
             pulsed == IF new = {"P15"} THEN zero_pulse(r) ELSE one_pulse(r)
  <2>1. w = pulsed
    <3>1. {"P14", "P15"} # {} /\ {"P14"} # {} /\ {"P15"} # {} /\ {"P14"} # {"P14", "P15"}
          /\ {"P15"} # {"P14", "P15"} /\ {"P14"} # {"P15"}
      OBVIOUS
    <3> QED BY <1>10, <3>1 DEF w, joyp_write, r
  <2>2. bit \in Bits
    BY DEF Bits
  <2>3. CASE ~listens(r)
    <3>1. w = result(r, Silence)
      BY <2>1, <2>3 DEF zero_pulse, one_pulse
    <3>2. sgb.write => h'.wire = h.wire
      <4>1. sgb.write => ~sgb.pulse
        BY <1>3, <2>3 DEF listens, Decoder
      <4> QED BY <1>1, <4>1, Telling
    <3> QED BY <1>3, <1>5, <3>1, <3>2 DEF Pulse
  <2>4. CASE listens(r) /\ ~r.stop
    <3>1. sgb.write /\ ~sgb.stop /\ sgb.pulse /\ r.write /\ r.command = sgb.command
      BY <1>3, <2>4 DEF listens, Decoder
    <3>2. has_room(sgb) /\ Len(h.wire) < PacketBits
      BY <3>1, Room
    <3>3. has_room(r)
      BY <3>1, <3>2 DEF has_room
    <3> DEFINE g == data_bit(r, bit)
    <3>4. /\ g \in SgbPort /\ g.command = Append(r.command, bit) /\ g.write
          /\ g.stop <=> at_boundary(g.command)
      BY <1>3, <2>2, <2>4, <3>1, <3>3, ShiftingBit
    <3>5. w = result(g, Silence)
      BY <2>1, <2>4 DEF zero_pulse, one_pulse
    <3> HIDE DEF g
    <3>6. sgb' = g /\ out' = Silence
      BY <1>1, <3>5 DEF result
    <3>7. h'.run = since
      BY <1>1, <1>4, <3>6, Telling
    <3>8. h'.wire = Append(h.wire, bit)
      <4>1. Len(h.wire) < PacketBits + 2
        <5>1. Len(h.wire) \in Nat /\ PacketBits \in Nat
          BY Packets, LenProperties DEF ReceiverInv, Typed, Heard
        <5> QED BY <3>2, <5>1
      <4> QED BY <1>1, <1>10, <3>1, <4>1, Telling
    <3> HIDE DEF bit
    <3>9. DataBit
      BY <2>2, <3>1, <3>4, <3>6, <3>7, <3>8 DEF DataBit
    <3> QED BY <1>4, <3>4, <3>6, <3>9 DEF Pulse
  <2>5. CASE listens(r) /\ r.stop /\ new = {"P15"}
    <3>1. sgb.write /\ sgb.stop /\ sgb.pulse /\ r.command = sgb.command
      BY <1>3, <2>5 DEF listens, Decoder
    <3> DEFINE a == packet_accepted(r)
               c == r.command
               done == Len(c) = command_size(c)
    <3>2. w = a
      BY <2>1, <2>5 DEF zero_pulse
    <3>3. sgb.command \in Seq(Bits) /\ PacketBits <= Len(sgb.command) /\ Len(h.wire) = PacketBits
      BY <3>1, Full
    <3>4. /\ a.port \in SgbPort /\ ~a.port.write /\ ~a.port.stop
          /\ a.port.command = IF done THEN <<>> ELSE c
          /\ a.out = [packet |-> last(c), start |-> FALSE, cmd |-> IF done THEN c ELSE NoPacket]
          /\ a.out \in Given
      BY <1>3, <3>1, <3>3, Accepting
    <3>5. last(c) # NoPacket
      BY <3>1, <3>3, LastPacket, Packets
    <3>6. h'.wire = Append(h.wire, 0)
      <4>1. Len(h.wire) < PacketBits + 2
        BY <3>3, Packets
      <4> QED BY <1>1, <2>5, <3>1, <4>1, Telling
    <3> HIDE DEF a
    <3>7. h'.run = IF out.cmd # NoPacket THEN <<>> ELSE Append(h.run, last(c))
      <4>1. ~a.out.start /\ a.out.packet = last(c)
        BY <3>4
      <4> HIDE DEF c
      <4> QED BY <1>1, <3>2, <3>5, <4>1, Telling
    <3>8. StopBit
      BY <1>1, <3>1, <3>2, <3>4, <3>6, <3>7 DEF StopBit
    <3> QED BY <1>1, <3>2, <3>4, <3>8 DEF Pulse
  <2>6. CASE listens(r) /\ r.stop /\ new # {"P15"}
    <3> DEFINE g == [r EXCEPT !.pulse = FALSE, !.write = FALSE, !.command = <<>>]
    <3>1. w = result(g, Silence)
      BY <1>3, <2>1, <2>6 DEF one_pulse, discarded, SgbPort, Sgb
    <3>2. g \in SgbPort /\ g.command = <<>> /\ ~g.write
      <4>1. <<>> \in Seq({0, 1})
        BY EmptySeq
      <4> QED BY <1>3, <4>1 DEF SgbPort, Sgb
    <3> HIDE DEF g
    <3>3. sgb' = g /\ out' = Silence
      BY <1>1, <3>1 DEF result
    <3>4. h'.run = since
      BY <1>1, <1>4, <3>3, Telling
    <3>5. Corrupt
      BY <3>2, <3>3, <3>4 DEF Corrupt
    <3> QED BY <1>4, <3>2, <3>3, <3>5 DEF Pulse
  <2> QED BY <2>3, <2>4, <2>5, <2>6
<1>11. new \in {{}, {"P14"}, {"P15"}, {"P14", "P15"}}
  OBVIOUS
<1> QED BY <1>6, <1>7, <1>8, <1>9, <1>10, <1>11

-----------------------------------------------------------------------------
(* What the buffer holds. *)

\* Numbers of bits and of packets.
LEMMA Bit ==
  ASSUME NEW n \in Nat
  PROVE  PacketBits * n \in Nat /\ PacketBits * (n + 1) = PacketBits * n + PacketBits
BY PacketAssumption

\* Nothing is no packets and no pulses.
LEMMA HoldsNothing == Holds(<<>>, <<>>, <<>>)
<1>1. Len(<<>>) = 0 /\ PacketBits * 0 + 0 = 0
  BY PacketAssumption
<1> QED BY <1>1 DEF Holds

\* A bit that arrives is the last pulse.
LEMMA HoldsBit ==
  ASSUME NEW c \in Seq(Bits), NEW p \in Seq(Packet), NEW w \in Seq(Bits), NEW bit \in Bits,
         Holds(c, p, w)
  PROVE  Holds(Append(c, bit), p, Append(w, bit))
<1> DEFINE m == PacketBits * Len(p)
           n == Len(w)
           d == Append(c, bit)
           v == Append(w, bit)
<1>1. m \in Nat /\ n \in Nat /\ Len(c) = m + n
  BY Bit, LenProperties DEF Holds
<1>2. /\ \A i \in 1..n : c[m + i] = w[i]
      /\ \A i \in 1..Len(p), j \in 1..PacketBits : c[PacketBits * (i - 1) + j] = p[i][j]
  BY DEF Holds
<1>3. /\ Len(d) = Len(c) + 1 /\ \A i \in 1..Len(c) : d[i] = c[i]
      /\ d[Len(c) + 1] = bit
      /\ Len(v) = n + 1 /\ \A i \in 1..n : v[i] = w[i]
      /\ v[n + 1] = bit
  BY AppendProperties
<1> HIDE DEF d, v, n
<1>4. \A i \in 1..Len(p), j \in 1..PacketBits : PacketBits * (i - 1) + j \in 1..m
  <2> TAKE i \in 1..Len(p), j \in 1..PacketBits
  <2>1. Len(p) \in Nat /\ PacketBits \in Nat
    BY Packets, LenProperties
  <2> DEFINE k == PacketBits * (i - 1)
  <2>2. i - 1 \in Nat /\ i - 1 < Len(p)
    BY <2>1
  <2>3. k + PacketBits <= m /\ k \in Nat
    BY <2>1, <2>2, Products, Bit
  <2>4. m \in Nat /\ j \in Nat /\ 1 <= j /\ j <= PacketBits
    BY <1>1, <2>1
  <2> HIDE DEF k, m
  <2>5. k + j \in 1..m
    BY <2>1, <2>3, <2>4
  <2> QED BY <2>5 DEF k
<1> HIDE DEF m
<1>5. Len(d) = m + Len(v)
  BY <1>1, <1>3
<1>6. ASSUME NEW i \in 1..Len(v) PROVE d[m + i] = v[i]
  <2>1. CASE i = n + 1
    <3>1. m + i = Len(c) + 1
      BY <1>1, <2>1
    <3> QED BY <1>3, <2>1, <3>1
  <2>2. CASE i # n + 1
    <3>1. i \in 1..n /\ m + i \in 1..(m + n)
      BY <1>1, <1>3, <2>2
    <3>2. d[m + i] = c[m + i] /\ v[i] = w[i] /\ c[m + i] = w[i]
      BY <1>1, <1>2, <1>3, <3>1
    <3> QED BY <3>2
  <2> QED BY <2>1, <2>2
<1>7. \A i \in 1..Len(p), j \in 1..PacketBits : d[PacketBits * (i - 1) + j] = p[i][j]
  <2>1. 1..m \subseteq 1..Len(c)
    BY <1>1
  <2> QED BY <1>2, <1>3, <1>4, <2>1
<1> QED BY <1>5, <1>6, <1>7 DEF Holds, m, d, v

\* A full packet is the one after the packets accepted.
LEMMA HoldsPacket ==
  ASSUME NEW c \in Seq(Bits), NEW p \in Seq(Packet), NEW w \in Seq(Bits),
         Holds(c, p, w), Len(w) = PacketBits
  PROVE  /\ last(c) \in Packet /\ w = last(c) /\ PacketBits <= Len(c)
         /\ Holds(c, Append(p, last(c)), <<>>)
<1> DEFINE n == Len(p)
           m == PacketBits * n
           l == last(c)
           q == Append(p, l)
<1>1. n \in Nat /\ m \in Nat /\ PacketBits \in Nat \ {0} /\ Len(c) = m + PacketBits
      /\ PacketBits * (n + 1) = m + PacketBits
  BY Packets, Bit, LenProperties DEF Holds
<1>2. /\ \A i \in 1..PacketBits : c[m + i] = w[i]
      /\ \A i \in 1..n, j \in 1..PacketBits : c[PacketBits * (i - 1) + j] = p[i][j]
  BY DEF Holds
<1> HIDE DEF m
<1>3. PacketBits <= Len(c) /\ Len(c) - PacketBits = m
  BY <1>1
<1>4. l \in Packet /\ \A j \in 1..PacketBits : l[j] = c[m + j]
  BY <1>3, LastPacket
<1> HIDE DEF l
<1>5. w = l
  <2>1. l \in Seq(Bits) /\ Len(l) = PacketBits
    BY <1>4, Packets
  <2>2. \A i \in 1..Len(w) : w[i] = l[i]
    BY <1>2, <1>4
  <2> QED BY <2>1, <2>2, SeqEqual
<1>6. /\ Len(q) = n + 1 /\ \A i \in 1..n : q[i] = p[i]
      /\ q[n + 1] = l
  BY <1>4, AppendProperties
<1> HIDE DEF q
<1>7. ASSUME NEW i \in 1..Len(q), NEW j \in 1..PacketBits
      PROVE  c[PacketBits * (i - 1) + j] = q[i][j]
  <2> HIDE DEF n
  <2>1. CASE i = n + 1
    <3>1. i - 1 = n
      BY <1>1, <2>1
    <3>2. PacketBits * (i - 1) = m
      BY <3>1 DEF m
    <3> QED BY <1>4, <1>6, <2>1, <3>2
  <2>2. CASE i # n + 1
    <3>1. i \in 1..n
      BY <1>1, <1>6, <2>2
    <3> QED BY <1>2, <1>6, <3>1 DEF n
  <2> QED BY <2>1, <2>2
<1>8. Len(c) = PacketBits * Len(q) + Len(<<>>)
  <2>1. Len(<<>>) = 0 /\ PacketBits * Len(q) = m + PacketBits
    BY <1>1, <1>6
  <2> DEFINE k == PacketBits * Len(q)
  <2> HIDE DEF k
  <2>2. k = m + PacketBits /\ Len(<<>>) = 0
    BY <2>1 DEF k
  <2>3. Len(c) = k + Len(<<>>)
    BY <1>1, <2>2
  <2> QED BY <2>3 DEF k
<1>9. \A i \in 1..Len(<<>>) : c[PacketBits * Len(q) + i] = <<>>[i]
  <2>1. 1..Len(<<>>) = {}
    OBVIOUS
  <2> QED BY <2>1
<1> QED BY <1>3, <1>4, <1>5, <1>7, <1>8, <1>9 DEF Holds, q, l

\* The first packet of the buffer is the first of the packets accepted.
LEMMA HoldsFirst ==
  ASSUME NEW c \in Seq(Bits), NEW p \in Seq(Packet), NEW w \in Seq(Bits),
         Holds(c, p, w), p # <<>>
  PROVE  first(c) = p[1] /\ PacketBits <= Len(c) /\ p[1] \in Packet
<1> DEFINE n == Len(p)
           m == PacketBits * n
<1>1. n \in Nat \ {0} /\ m \in Nat /\ PacketBits \in Nat \ {0} /\ Len(w) \in Nat
      /\ Len(c) = m + Len(w)
  <2>1. n \in Nat \ {0} /\ PacketBits \in Nat \ {0} /\ Len(w) \in Nat
    BY Packets, EmptySeq, LenProperties
  <2>2. m \in Nat
    BY <2>1, Bit
  <2> QED BY <2>1, <2>2 DEF Holds
<1>2. p[1] \in Packet
  <2>1. 1 \in 1..n
    BY <1>1
  <2> QED BY <2>1, ElementOfSeq
<1>3. \A j \in 1..PacketBits : c[j] = p[1][j]
  <2>1. \A j \in 1..PacketBits : PacketBits * (1 - 1) + j = j
    BY <1>1
  <2>2. 1 \in 1..Len(p)
    BY <1>1
  <2> QED BY <2>1, <2>2 DEF Holds
<1>4. PacketBits <= m
  <2>1. 0 < n /\ n \in Nat
    BY <1>1
  <2> HIDE DEF n
  <2>2. PacketBits * 0 + PacketBits <= PacketBits * n
    BY <2>1, Products
  <2>3. PacketBits * 0 = 0
    BY <1>1
  <2> QED BY <1>1, <2>2, <2>3
<1> HIDE DEF m
<1>5. PacketBits <= Len(c)
  BY <1>1, <1>4
<1>6. first(c) \in Packet /\ \A j \in 1..PacketBits : first(c)[j] = p[1][j]
  BY <1>3, <1>5, LastPacket
<1>7. first(c) = p[1]
  <2> DEFINE f == first(c)
             e == p[1]
  <2> HIDE DEF f, e
  <2>1. f \in Packet /\ e \in Packet /\ \A j \in 1..PacketBits : f[j] = e[j]
    BY <1>2, <1>6 DEF f, e
  <2>2. f \in Seq(Bits) /\ e \in Seq(Bits) /\ Len(f) = PacketBits /\ Len(e) = PacketBits
    BY <2>1, Packets
  <2>3. f = e
    BY <2>1, <2>2, SeqEqual
  <2> QED BY <2>3 DEF f, e
<1> QED BY <1>2, <1>5, <1>7

-----------------------------------------------------------------------------
(* Each of the six things keeps the account of what was received. *)

\* What a step gives out is framed, and a command is all the packets accepted.
Framed(o, k) == o.packet # NoPacket => k.wire = Append(o.packet, 0)
Delivered(o, k) ==
  o.cmd # NoPacket => /\ k.run # <<>> /\ Len(k.run) = Length[k.run[1]]
                      /\ Holds(o.cmd, k.run, <<>>)
Told == Framed(out, h) /\ Delivered(out, h)

\* The types of what is received.
LEMMA ReceiverParts ==
  ASSUME ReceiverInv
  PROVE  /\ sgb \in SgbPort /\ sgb.command \in Seq(Bits)
         /\ sgb.write \in BOOLEAN /\ sgb.stop \in BOOLEAN
         /\ h.wire \in Seq(Bits) /\ h.run \in Seq(Packet)
         /\ out.cmd \in Seq(Bits) /\ since \in Seq(Packet)
         /\ PacketBits \in Nat \ {0} /\ Len(h.wire) \in Nat /\ Len(h.run) \in Nat
<1>1. <<>> \in Seq(Packet)
  BY EmptySeq
<1> QED BY <1>1, PortFields, Packets, LenProperties DEF ReceiverInv, Typed, Heard, Given, since

\* The packets of a command that is not complete are fewer than it has.
LEMMA Since ==
  ASSUME ReceiverInv
  PROVE  /\ out.cmd = NoPacket => since = h.run
         /\ since # <<>> => Len(since) < Length[since[1]]
BY DEF ReceiverInv, Received, Growing, since

\* A step that gives nothing out owes nothing.
LEMMA SilentTold ==
  ASSUME out' = Silence \/ out' = [Silence EXCEPT !.start = TRUE]
  PROVE  Told' /\ out'.cmd = NoPacket /\ out'.packet = NoPacket
BY DEF Told, Framed, Delivered, Silence

\* What is ignored changes neither the buffer nor the packets it holds.
LEMMA IgnoredKeeps ==
  ASSUME ReceiverInv, Ignored
  PROVE  Received' /\ Told'
<1>1. Told' /\ out'.cmd = NoPacket
  BY SilentTold DEF Ignored
<1>2. Open(sgb, out, h)'
  BY <1>1, Since DEF Ignored, ReceiverInv, Received, Open
<1>3. Between(sgb, out, h)'
  BY <1>1, Since DEF Ignored, ReceiverInv, Received, Between
<1>4. Growing(out, h)'
  BY Since DEF Ignored, Growing
<1> QED BY <1>1, <1>2, <1>3, <1>4 DEF Received

\* A bit of data is added to the buffer and to the pulses.
LEMMA DataBitKeeps ==
  ASSUME ReceiverInv, DataBit
  PROVE  Received' /\ Told'
<1>1. Told' /\ out'.cmd = NoPacket
  BY SilentTold DEF DataBit
<1>2. PICK bit \in Bits :
        /\ sgb.write /\ ~sgb.stop
        /\ sgb'.command = Append(sgb.command, bit) /\ sgb'.write
        /\ sgb'.stop <=> at_boundary(sgb'.command)
        /\ h'.run = since /\ h'.wire = Append(h.wire, bit)
  BY DEF DataBit
<1>3. out.cmd = NoPacket /\ Holds(sgb.command, h.run, h.wire) /\ h'.run = h.run
  BY <1>2, Since DEF ReceiverInv, Received, Open
<1>4. Len(h.wire) < PacketBits
  BY <1>2, Room
<1>5. Holds(sgb'.command, h'.run, h'.wire)
  BY <1>2, <1>3, ReceiverParts, HoldsBit
<1> DEFINE n == Len(h.run)
           w == Len(h'.wire)
           m == PacketBits * n
<1>6. w = Len(h.wire) + 1
  BY <1>2, ReceiverParts, AppendProperties
<1>7. n \in Nat /\ w \in 1..PacketBits /\ PacketBits \in Nat \ {0}
  <2> DEFINE v == Len(h.wire)
  <2>1. v \in Nat /\ n \in Nat /\ PacketBits \in Nat \ {0} /\ v < PacketBits /\ w = v + 1
    BY <1>4, <1>6, ReceiverParts
  <2> HIDE DEF v, w, n
  <2> QED BY <2>1
<1>8. Len(sgb'.command) = m + w
  BY <1>3, <1>5 DEF Holds
<1>9. (m + w) % PacketBits = 0 <=> w = PacketBits
  <2> HIDE DEF n, w
  <2>1. CASE w = PacketBits
    <3>1. m + w = PacketBits * (n + 1) + 0 /\ n + 1 \in Nat /\ 0 \in 0..(PacketBits - 1)
      BY <1>7, <2>1, Bit
    <3>2. (PacketBits * (n + 1) + 0) % PacketBits = 0
      BY <3>1, Remainder
    <3> QED BY <2>1, <3>1, <3>2
  <2>2. CASE w # PacketBits
    <3>1. w \in 0..(PacketBits - 1) /\ w # 0
      BY <1>7, <2>2
    <3>2. (m + w) % PacketBits = w
      BY <1>7, <3>1, Remainder
    <3> QED BY <2>2, <3>1, <3>2
  <2> QED BY <2>1, <2>2
<1>10. w <= PacketBits
  BY <1>7
<1>11. sgb'.stop <=> w = PacketBits
  BY <1>2, <1>8, <1>9 DEF at_boundary
<1>12. Open(sgb, out, h)'
  BY <1>1, <1>5, <1>10, <1>11 DEF Open
<1>13. Between(sgb, out, h)'
  BY <1>2 DEF Between
<1>14. Growing(out, h)'
  BY <1>2, Since DEF Growing
<1> QED BY <1>1, <1>12, <1>13, <1>14 DEF Received

\* A one for the stop bit empties the buffer.
LEMMA CorruptKeeps ==
  ASSUME ReceiverInv, Corrupt
  PROVE  Received' /\ Told'
<1>1. Told' /\ out'.cmd = NoPacket
  BY SilentTold DEF Corrupt
<1>2. Growing(out, h)'
  BY Since DEF Corrupt, Growing
<1>3. Open(sgb, out, h)' /\ Between(sgb, out, h)'
  BY DEF Corrupt, Open, Between
<1> QED BY <1>1, <1>2, <1>3 DEF Received

\* A new command starts from nothing.
LEMMA NewCommandKeeps ==
  ASSUME ReceiverInv, NewCommand
  PROVE  Received' /\ Told'
<1>1. Told' /\ out'.cmd = NoPacket
  BY SilentTold DEF NewCommand
<1>2. Growing(out, h)' /\ Between(sgb, out, h)'
  BY DEF NewCommand, Growing, Between
<1>3. Open(sgb, out, h)'
  <2>1. Len(<<>>) = 0 /\ 0 <= PacketBits /\ 0 # PacketBits
    BY Packets
  <2>2. Len(<<>>) <= PacketBits /\ Len(<<>>) # PacketBits
    BY <2>1
  <2> QED BY <1>1, <2>2, HoldsNothing DEF NewCommand, Open
<1> QED BY <1>1, <1>2, <1>3 DEF Received

\* A reset pulse between two packets keeps those accepted.
LEMMA NextPacketKeeps ==
  ASSUME ReceiverInv, NextPacket
  PROVE  Received' /\ Told'
<1>1. Told' /\ out'.cmd = NoPacket
  BY SilentTold DEF NextPacket
<1>2. out.cmd = NoPacket /\ Holds(sgb.command, h.run, <<>>)
  <2>1. CASE ~sgb.write
    BY <2>1 DEF NextPacket, ReceiverInv, Received, Between
  <2>2. CASE sgb.write
    <3>1. out.cmd = NoPacket /\ Holds(sgb.command, h.run, h.wire)
      BY <2>2 DEF ReceiverInv, Received, Open
    <3>2. Len(h.wire) < PacketBits
      BY <2>2, Room DEF NextPacket
    <3> DEFINE w == Len(h.wire)
               n == Len(h.run)
    <3>3. Len(sgb.command) = PacketBits * n + w
      BY <3>1 DEF Holds
    <3>4. w \in Nat /\ n \in Nat /\ PacketBits \in Nat \ {0} /\ w < PacketBits
      BY <3>2, ReceiverParts
    <3> HIDE DEF w, n
    <3>5. w \in 0..(PacketBits - 1)
      BY <3>4
    <3>6. (PacketBits * n + w) % PacketBits = w
      BY <3>4, <3>5, Remainder
    <3>7. w = 0
      BY <3>3, <3>6 DEF NextPacket, at_boundary
    <3>8. h.wire = <<>>
      BY <3>7, ReceiverParts, EmptySeq DEF w
    <3> QED BY <3>1, <3>8
  <2> QED BY <2>1, <2>2
<1>3. h'.run = h.run
  BY <1>2, Since DEF NextPacket
<1>4. Open(sgb, out, h)'
  <2>1. Len(<<>>) = 0 /\ 0 <= PacketBits /\ 0 # PacketBits
    BY Packets
  <2>2. Len(<<>>) <= PacketBits /\ Len(<<>>) # PacketBits
    BY <2>1
  <2> QED BY <1>1, <1>2, <1>3, <2>2 DEF NextPacket, Open
<1>5. Between(sgb, out, h)'
  BY DEF NextPacket, Between
<1>6. Growing(out, h)'
  BY Since DEF NextPacket, Growing
<1> QED BY <1>1, <1>4, <1>5, <1>6 DEF Received

\* The stop bit ends a packet, and the command with the last of its packets.
LEMMA StopBitKeeps ==
  ASSUME ReceiverInv, StopBit
  PROVE  Received' /\ Told'
<1> DEFINE c == sgb.command
           done == Len(c) = command_size(c)
           n == Len(h.run)
           run2 == Append(h.run, last(c))
<1>1. out.cmd = NoPacket /\ Holds(c, h.run, h.wire)
  BY DEF StopBit, ReceiverInv, Received, Open
<1>2. Len(h.wire) = PacketBits /\ Len(c) = PacketBits * (n + 1)
  BY Full DEF StopBit
<1>3. /\ last(c) \in Packet /\ h.wire = last(c) /\ PacketBits <= Len(c)
      /\ Holds(c, run2, <<>>)
  BY <1>1, <1>2, ReceiverParts, HoldsPacket
<1>4. /\ out'.packet = last(c) /\ out'.cmd = (IF done THEN c ELSE NoPacket)
      /\ sgb'.command = (IF done THEN <<>> ELSE c) /\ ~sgb'.write /\ ~sgb'.stop
      /\ h'.run = run2 /\ h'.wire = Append(h.wire, 0)
  BY <1>1 DEF StopBit
<1>5. /\ run2 \in Seq(Packet) /\ run2 # <<>> /\ Len(run2) = n + 1
      /\ h.run # <<>> => run2[1] = h.run[1]
      /\ h.run = <<>> => n = 0
  <2>1. /\ run2 \in Seq(Packet) /\ run2 # <<>> /\ Len(run2) = n + 1
        /\ \A i \in 1..n : run2[i] = h.run[i]
    <3> DEFINE l == last(c)
               p == h.run
    <3>1. l \in Packet /\ p \in Seq(Packet)
      BY <1>3, ReceiverParts
    <3> HIDE DEF l, p
    <3>2. /\ Append(p, l) \in Seq(Packet) /\ Append(p, l) # <<>>
          /\ Len(Append(p, l)) = Len(p) + 1
          /\ \A i \in 1..Len(p) : Append(p, l)[i] = p[i]
      BY <3>1, AppendProperties
    <3> QED BY <3>2 DEF l, p
  <2>2. h.run # <<>> => n \in Nat \ {0}
    BY ReceiverParts, EmptySeq
  <2>3. h.run # <<>> => 1 \in 1..n
    BY <2>2
  <2> QED BY <2>1, <2>3
<1>6. first(c) = run2[1] /\ run2[1] \in Packet
  <2>1. <<>> \in Seq(Bits)
    BY EmptySeq
  <2> QED BY <1>3, <1>5, <2>1, ReceiverParts, HoldsFirst
<1> DEFINE size == Length[run2[1]]
<1>7. size \in Nat /\ 1 <= size /\ n \in Nat
  <2>1. size \in 1..MaxPackets /\ MaxPackets \in Nat
    BY <1>6, PacketAssumption
  <2>2. n \in Nat
    BY ReceiverParts
  <2> HIDE DEF size
  <2> QED BY <2>1, <2>2
<1>8. n < size
  <2>1. CASE h.run = <<>>
    <3>1. n = 0
      BY <1>5, <2>1
    <3> HIDE DEF size, n
    <3> QED BY <1>7, <3>1
  <2>2. CASE h.run # <<>>
    BY <1>1, <1>5, <2>2 DEF ReceiverInv, Received, Growing
  <2> QED BY <2>1, <2>2
<1>9. done <=> n + 1 = size
  <2>1. command_size(c) = PacketBits * size
    BY <1>6 DEF command_size
  <2> HIDE DEF size, n
  <2>2. done <=> PacketBits * (n + 1) = PacketBits * size
    BY <1>2, <2>1
  <2>3. PacketBits * (n + 1) = PacketBits * size => n + 1 = size
    <3>1. n + 1 = size \/ n + 1 < size
      BY <1>7, <1>8
    <3>2. n + 1 < size => PacketBits * (n + 1) + PacketBits <= PacketBits * size
      BY <1>7, Products
    <3>3. PacketBits * (n + 1) \in Nat /\ PacketBits \in Nat \ {0}
      BY <1>7, Packets, Bit
    <3> QED BY <3>1, <3>2, <3>3
  <2> QED BY <2>2, <2>3
<1> HIDE DEF size, run2, done, n
<1>10. c # NoPacket
  <2>1. Len(c) # 0
    BY <1>3, ReceiverParts
  <2>2. Len(NoPacket) = 0
    BY DEF NoPacket
  <2> QED BY <2>1, <2>2
<1>11. (out'.cmd # NoPacket) <=> done
  BY <1>4, <1>10
<1>12. Framed(out, h)'
  BY <1>3, <1>4 DEF Framed
<1>13. Delivered(out, h)'
  BY <1>3, <1>4, <1>5, <1>9, <1>11 DEF Delivered, size
<1>14. Growing(out, h)'
  <2>1. ~done => n + 1 < size
    BY <1>7, <1>8, <1>9
  <2> QED BY <1>4, <1>5, <1>11, <2>1 DEF Growing, size
<1>15. Between(sgb, out, h)'
  BY <1>3, <1>4, <1>11 DEF Between
<1>16. Open(sgb, out, h)'
  BY <1>4 DEF Open
<1> QED BY <1>12, <1>13, <1>14, <1>15, <1>16 DEF Received, Told

\* So each of them does.
LEMMA PulseKeeps ==
  ASSUME ReceiverInv, Pulse
  PROVE  Received' /\ Told'
BY IgnoredKeeps, DataBitKeeps, StopBitKeeps, CorruptKeeps, NextPacketKeeps, NewCommandKeeps DEF Pulse

-----------------------------------------------------------------------------
(* The steps. *)

\* The steps that are no write leave the receiver alone.
LEMMA Calling ==
  ASSUME ReceiverInv, quiet, sgb' \in SgbPort,
         sgb'.command = sgb.command, sgb'.write = sgb.write, sgb'.stop = sgb.stop
  PROVE  Ignored /\ out' \in Given
<1>1. out' = Silence /\ h' = [h EXCEPT !.run = since]
  BY DEF quiet, since
<1>2. h'.run = since /\ h'.wire = h.wire
  BY <1>1 DEF ReceiverInv, Typed, Heard
<1>3. <<>> \in Seq(Bits)
  BY EmptySeq
<1> QED BY <1>1, <1>2, <1>3 DEF Ignored, Silence, Given, NoPacket

\* What each step does to the port and gives out.
LEMMA Stepping ==
  ASSUME ReceiverInv, JoypadNext
  PROVE  Pulse /\ sgb' \in SgbPort /\ out' \in Given
<1>1. sgb \in SgbPort /\ sgb \in Sgb
  BY PortFields DEF ReceiverInv, Typed
<1>2. ASSUME NEW new \in SUBSET {"P14", "P15"}, Write(new)
      PROVE  Pulse /\ sgb' \in SgbPort /\ out' \in Given
  BY <1>2, WritePulse
<1>3. ASSUME sgb' = sgb, quiet PROVE Pulse /\ sgb' \in SgbPort /\ out' \in Given
  BY <1>1, <1>3, Calling DEF Pulse
<1>4. ASSUME NEW column \in {"dpad", "buttons"}, NEW line \in Lines,
             Press(column, line) \/ Release(column, line)
      PROVE  Pulse /\ sgb' \in SgbPort /\ out' \in Given
  BY <1>3, <1>4 DEF Press, Release
<1>5. ASSUME NEW pads \in Feeds, SetSgbFeed(pads)
      PROVE  Pulse /\ sgb' \in SgbPort /\ out' \in Given
  <2>1. sgb' = [sgb EXCEPT !.feed = pads] /\ quiet
    BY <1>5 DEF SetSgbFeed
  <2>2. /\ sgb' \in SgbPort /\ sgb'.command = sgb.command
        /\ sgb'.write = sgb.write /\ sgb'.stop = sgb.stop
    BY <1>1, <2>1 DEF SgbPort, Sgb
  <2> QED BY <2>1, <2>2, Calling DEF Pulse
<1>6. CASE TakeIrq
  BY <1>3, <1>6 DEF TakeIrq
<1>7. CASE TakeSgbPacket
  <2> DEFINE q == Tail(sgb.packets)
  <2>1. sgb' = [sgb EXCEPT !.packets = q] /\ quiet
    BY <1>7 DEF TakeSgbPacket
  <2>2. q \in Seq(Packet) /\ Len(q) <= PacketQueueCap
    <3>1. sgb.packets # <<>> /\ sgb.packets \in Seq(Packet) /\ Len(sgb.packets) <= PacketQueueCap
      BY <1>1, <1>7, PortFields DEF TakeSgbPacket
    <3>2. q \in Seq(Packet) /\ Len(q) = Len(sgb.packets) - 1
      BY <3>1, HeadTailProperties
    <3> DEFINE n == Len(sgb.packets)
    <3>3. n \in Nat /\ PacketQueueCap \in Nat /\ n <= PacketQueueCap
      BY <3>1, LenProperties, PacketAssumption
    <3> HIDE DEF n
    <3>4. n - 1 <= PacketQueueCap
      BY <3>3
    <3> QED BY <3>2, <3>4 DEF n
  <2> HIDE DEF q
  <2>3. /\ sgb' \in SgbPort /\ sgb'.command = sgb.command
        /\ sgb'.write = sgb.write /\ sgb'.stop = sgb.stop
    BY <1>1, <2>1, <2>2 DEF SgbPort, Sgb
  <2> QED BY <2>1, <2>3, Calling DEF Pulse
<1> QED BY <1>2, <1>4, <1>5, <1>6, <1>7 DEF JoypadNext

\* The keys and the latch keep their types.
LEMMA KeysTyped ==
  ASSUME ReceiverInv, JoypadNext
  PROVE  keys' \in Keys /\ irq' \in BOOLEAN
<1>1. keys \in Keys /\ irq \in BOOLEAN
  BY DEF ReceiverInv, Typed
<1>2. \A k1, g1, k2, g2 : (irq \/ falls(k1, g1, k2, g2)) \in BOOLEAN
  OBVIOUS
<1>3. ASSUME NEW new \in SUBSET {"P14", "P15"}, Write(new) PROVE keys' \in Keys /\ irq' \in BOOLEAN
  BY <1>1, <1>2, <1>3 DEF Write, Keys
<1>4. ASSUME NEW column \in {"dpad", "buttons"}, NEW line \in Lines,
             Press(column, line) \/ Release(column, line)
      PROVE  keys' \in Keys /\ irq' \in BOOLEAN
  BY <1>1, <1>2, <1>4 DEF Press, Release, Keys
<1>5. ASSUME NEW pads \in Feeds, SetSgbFeed(pads) PROVE keys' \in Keys /\ irq' \in BOOLEAN
  BY <1>1, <1>2, <1>5 DEF SetSgbFeed
<1> QED BY <1>1, <1>3, <1>4, <1>5 DEF JoypadNext, TakeIrq, TakeSgbPacket

\* So does the history.
LEMMA HeardTyped ==
  ASSUME ReceiverInv, JoypadNext, out' \in Given
  PROVE  h' \in Heard
<1>1. h \in Heard /\ h.wire \in Seq(Bits) /\ h.run \in Seq(Packet) /\ since \in Seq(Packet)
  BY ReceiverParts DEF ReceiverInv, Typed
<1>2. ASSUME quiet PROVE h' \in Heard
  <2>1. h' = [h EXCEPT !.run = since]
    BY <1>2 DEF quiet, since
  <2> QED BY <1>1, <2>1 DEF Heard
<1>3. ASSUME NEW new \in SUBSET {"P14", "P15"}, Write(new) PROVE h' \in Heard
  <2> DEFINE r == IF sgb.present THEN joyp_write(sgb, keys.high, new) ELSE result(sgb, Silence)
  <2>1. out' = r.out /\ h' = told(h, sgb, new, r.out)
    BY <1>3 DEF Write
  <2> HIDE DEF r
  <2>2. wired(h.wire, sgb, new) \in Seq(Bits)
    <3>1. <<>> \in Seq(Bits) /\ 0 \in Bits /\ 1 \in Bits
      BY EmptySeq DEF Bits
    <3>2. Append(h.wire, 0) \in Seq(Bits) /\ Append(h.wire, 1) \in Seq(Bits)
      BY <1>1, <3>1, AppendProperties
    <3> QED BY <1>1, <3>1, <3>2 DEF wired
  <2> DEFINE v == wired(h.wire, sgb, new)
             u == IF r.out.start \/ out.cmd # NoPacket THEN <<>>
                  ELSE IF r.out.packet # NoPacket THEN Append(h.run, r.out.packet) ELSE h.run
  <2>3. u \in Seq(Packet)
    <3>1. r.out \in Given
      BY <2>1
    <3>2. r.out.packet # NoPacket => r.out.packet \in Packet
      BY <3>1 DEF Given
    <3>3. <<>> \in Seq(Packet)
      BY EmptySeq
    <3>4. r.out.packet # NoPacket => Append(h.run, r.out.packet) \in Seq(Packet)
      BY <1>1, <3>2, AppendProperties
    <3> QED BY <1>1, <3>3, <3>4
  <2>4. h' = [wire |-> v, run |-> u]
    BY <2>1 DEF told
  <2> HIDE DEF u, v
  <2>5. v \in Seq(Bits)
    BY <2>2 DEF v
  <2> QED BY <2>3, <2>4, <2>5 DEF Heard
<1> QED BY <1>2, <1>3 DEF JoypadNext, Press, Release, SetSgbFeed, TakeIrq, TakeSgbPacket

\* The account is kept by every step, and what a step gives out agrees with it.
LEMMA StepKeeps ==
  ASSUME ReceiverInv, JoypadNext
  PROVE  ReceiverInv' /\ Told'
<1>1. Pulse /\ sgb' \in SgbPort /\ out' \in Given
  BY Stepping
<1>2. Received' /\ Told'
  BY <1>1, PulseKeeps
<1>3. keys' \in Keys /\ irq' \in BOOLEAN /\ h' \in Heard
  BY <1>1, KeysTyped, HeardTyped
<1> QED BY <1>1, <1>2, <1>3 DEF ReceiverInv, Typed

\* It holds at first.
LEMMA Start ==
  ASSUME JoypadInit
  PROVE  ReceiverInv /\ Told
<1>1. <<>> \in Seq(Bits) /\ <<>> \in Seq(Packet) /\ <<>> \in Seq({0, 1}) /\ Len(<<>>) = 0
  BY EmptySeq
<1>2. sgb \in Sgb /\ sgb.player < sgb.count /\ Len(sgb.packets) <= PacketQueueCap /\ ~sgb.write
      /\ sgb.command = <<>>
  <2>1. sgb.packets = <<>> /\ sgb.player = 0 /\ sgb.count = 1 /\ ~sgb.write /\ sgb.command = <<>>
    BY DEF JoypadInit
  <2>2. 0 <= PacketQueueCap
    BY PacketAssumption
  <2>3. sgb \in Sgb
    <3>1. PICK b \in BOOLEAN :
            sgb = [present |-> b, command |-> <<>>, pulse |-> FALSE, write |-> FALSE,
                 stop |-> FALSE, count |-> 1, player |-> 0, packets |-> <<>>,
                 feed |-> NoFeed]
      BY DEF JoypadInit
    <3>2. 1 \in 1..4 /\ 0 \in 0..3
      OBVIOUS
    <3> QED BY <1>1, <3>1, <3>2 DEF Sgb
  <2> QED BY <1>1, <2>1, <2>2, <2>3
<1>3. sgb \in SgbPort
  BY <1>2 DEF SgbPort
<1>4. keys \in Keys /\ irq \in BOOLEAN
  BY DEF JoypadInit, Keys
<1>5. out \in Given /\ h \in Heard /\ h.run = <<>> /\ out.cmd = NoPacket /\ out.packet = NoPacket
  BY <1>1 DEF JoypadInit, Given, Heard, Silence, NoPacket
<1>6. Received
  BY <1>2, <1>5 DEF Received, Open, Between, Growing
<1>7. Told
  BY <1>5 DEF Told, Framed, Delivered
<1> QED BY <1>3, <1>4, <1>5, <1>6, <1>7 DEF ReceiverInv, Typed

-----------------------------------------------------------------------------
(* What the invariant says. *)

\* The packets of a command are what its bits are cut into.
LEMMA Cutting ==
  ASSUME NEW c \in Seq(Bits), NEW p \in Seq(Packet), Holds(c, p, <<>>)
  PROVE  Len(c) = PacketBits * Len(p) /\ cut(c) = p
<1> DEFINE n == Len(p)
           m == PacketBits * n
<1>1. n \in Nat /\ PacketBits \in Nat \ {0} /\ p \in [1..n -> Packet] /\ m \in Nat
  BY Packets, Bit, LenProperties
<1>2. Len(c) = m
  <2>1. Len(c) = m + Len(<<>>) /\ Len(<<>>) = 0
    BY DEF Holds
  <2> HIDE DEF m
  <2> QED BY <1>1, <2>1
<1>3. \A i \in 1..n, j \in 1..PacketBits : c[PacketBits * (i - 1) + j] = p[i][j]
  BY DEF Holds
<1>4. Len(c) \div PacketBits = n
  <2> HIDE DEF n
  <2>1. m = PacketBits * n + 0 /\ 0 \in 0..(PacketBits - 1)
    BY <1>1
  <2>2. (PacketBits * n + 0) \div PacketBits = n
    BY <1>1, <2>1, Remainder
  <2> HIDE DEF m
  <2> QED BY <1>2, <2>1, <2>2
<1>5. ASSUME NEW i \in 1..n
      PROVE  SubSeq(c, PacketBits * (i - 1) + 1, PacketBits * i) = p[i]
  <2> DEFINE a == PacketBits * (i - 1)
             b == PacketBits * i
             q == SubSeq(c, a + 1, b)
  <2>1. i - 1 \in Nat /\ i - 1 < n /\ i - 1 + 1 = i /\ i \in 1..n
    BY <1>1
  <2>2. a \in Nat /\ b = a + PacketBits
    <3>1. a \in Nat /\ PacketBits * (i - 1 + 1) = a + PacketBits
      BY <2>1, Bit
    <3> QED BY <2>1, <3>1
  <2>3. a + PacketBits <= m
    BY <1>1, <2>1, Products
  <2>4. p[i] \in Packet
    BY <1>1
  <2>5. p[i] \in Seq(Bits) /\ Len(p[i]) = PacketBits /\ \A j \in 1..PacketBits : p[i][j] \in Bits
    BY <2>4, Packets DEF Packet, Bits
  <2>6. \A j \in 1..PacketBits : c[a + j] = p[i][j]
    BY <1>3
  <2> HIDE DEF n, m, a, b
  <2>7. /\ a + 1 \in Int /\ b \in Int /\ a + 1 <= b /\ b - (a + 1) + 1 = PacketBits
        /\ \A k \in (a + 1)..b : k - a \in 1..PacketBits /\ a + (k - a) = k
        /\ \A j \in 1..PacketBits : a + 1 + j - 1 = a + j
    BY <1>1, <2>2
  <2>8. \A k \in (a + 1)..b : c[k] \in Bits
    BY <2>5, <2>6, <2>7
  <2>9. /\ q \in Seq(Bits) /\ Len(q) = b - (a + 1) + 1
        /\ \A j \in 1..(b - (a + 1) + 1) : q[j] = c[a + 1 + j - 1]
    BY <2>7, <2>8, SubSeqProperties
  <2> HIDE DEF q
  <2>10. Len(q) = Len(p[i]) /\ \A j \in 1..Len(q) : q[j] = p[i][j]
    BY <2>5, <2>6, <2>7, <2>9
  <2>11. q = p[i]
    BY <2>5, <2>9, <2>10, SeqEqual
  <2> QED BY <2>11 DEF q, a, b
<1>6. cut(c) = [i \in 1..n |-> p[i]]
  BY <1>4, <1>5 DEF cut
<1>7. [i \in 1..n |-> p[i]] = p
  BY <1>1
<1> QED BY <1>2, <1>6, <1>7

\* The buffer never outgrows the command that its first packet announces.
LEMMA Fits ==
  ASSUME ReceiverInv, PacketBits <= Len(sgb.command)
  PROVE  Len(sgb.command) <= command_size(sgb.command)
<1> DEFINE c == sgb.command
           n == Len(h.run)
           m == PacketBits * n
           l == Len(c)
           w == Len(h.wire)
<1>1. c \in Seq(Bits) /\ h.run \in Seq(Packet) /\ h.wire \in Seq(Bits) /\ n \in Nat
      /\ w \in Nat /\ PacketBits \in Nat \ {0} /\ m \in Nat
  BY ReceiverParts, Bit
<1>2. l # 0 /\ c # <<>>
  <2>1. l # 0
    BY <1>1
  <2>2. Len(<<>>) = 0
    OBVIOUS
  <2> QED BY <2>1, <2>2
<1>3. /\ out.cmd = NoPacket
      /\ \/ Holds(c, h.run, h.wire) /\ l = m + w /\ w <= PacketBits
         \/ Holds(c, h.run, <<>>) /\ l = m
  <2>1. CASE sgb.write
    BY <2>1 DEF ReceiverInv, Received, Open, Holds
  <2>2. CASE ~sgb.write
    <3>1. out.cmd = NoPacket /\ Holds(c, h.run, <<>>)
      BY <1>2, <2>2 DEF ReceiverInv, Received, Between
    <3> QED BY <1>1, <3>1, Cutting
  <2> QED BY <2>1, <2>2
<1>4. first(c) \in Packet
  BY <1>1, LastPacket
<1> DEFINE size == Length[first(c)]
           z == PacketBits * size
<1>5. size \in Nat /\ 1 <= size
  <2>1. size \in 1..MaxPackets /\ MaxPackets \in Nat
    BY <1>4, PacketAssumption
  <2> HIDE DEF size
  <2> QED BY <2>1
<1>6. n < size
  <2>1. CASE h.run = <<>>
    <3>1. n = 0
      BY <2>1
    <3> HIDE DEF n, size
    <3> QED BY <1>5, <3>1
  <2>2. CASE h.run # <<>>
    <3>1. n < Length[h.run[1]]
      BY <1>3, <2>2 DEF ReceiverInv, Received, Growing
    <3>2. <<>> \in Seq(Bits)
      BY EmptySeq
    <3>3. first(c) = h.run[1]
      BY <1>1, <1>3, <2>2, <3>2, HoldsFirst
    <3> QED BY <3>1, <3>3
  <2> QED BY <2>1, <2>2
<1>7. m + PacketBits <= z
  <2> HIDE DEF n, size
  <2> QED BY <1>1, <1>5, <1>6, Products
<1>8. z \in Nat
  BY <1>5, Bit
<1>9. (l = m + w /\ w <= PacketBits) \/ l = m
  BY <1>3
<1>10. command_size(c) = z
  BY DEF command_size
<1> HIDE DEF m, l, w, z
<1>11. l <= z
  BY <1>1, <1>7, <1>8, <1>9
<1> QED BY <1>10, <1>11 DEF l

\* The account holds in every reachable state.
LEMMA ReceiverInductive == JoypadSpec => [](ReceiverInv /\ Told)
<1>1. JoypadInit => ReceiverInv /\ Told
  BY Start
<1>2. ReceiverInv /\ Told /\ [JoypadNext]_joypadVars => (ReceiverInv /\ Told)'
  <2>1. CASE JoypadNext
    BY <2>1, StepKeeps
  <2>2. CASE UNCHANGED joypadVars
    BY <2>2 DEF joypadVars, ReceiverInv, Told, Typed, Received, Framed, Delivered, Open, Between, Growing
  <2> QED BY <2>1, <2>2
<1> QED BY <1>1, <1>2, PTL DEF JoypadSpec

\* The buffer keeps to the size of its command, the queue to its cap, and there is a pad
\* for the selected player (joypad.rs:530-538).
THEOREM JoypadTypeCorrect == JoypadSpec => []JoypadTypeOK
<1>1. ReceiverInv => JoypadTypeOK
  <2> SUFFICES ASSUME ReceiverInv PROVE JoypadTypeOK
    OBVIOUS
  <2>1. keys \in Keys /\ irq \in BOOLEAN /\ sgb \in Sgb /\ sgb.player < sgb.count
        /\ Len(sgb.packets) <= PacketQueueCap
    BY PortFields DEF ReceiverInv, Typed
  <2> QED BY <2>1, Fits DEF JoypadTypeOK
<1> QED BY <1>1, ReceiverInductive, PTL

\* The packet given out is the pulses since the last reset pulse but the stop bit, for
\* every length of packet (joypad.rs:200-263).
THEOREM Framing == JoypadSpec => []PacketIsFramed
<1>1. Told => PacketIsFramed
  BY DEF Told, Framed, PacketIsFramed
<1> QED BY <1>1, ReceiverInductive, PTL

\* A command given out is all the packets accepted since its start and no others, and it
\* is given out with the last one it announces (joypad.rs:180-192, 204-214, 251-261).
THEOREM Commands == JoypadSpec => []CommandIsItsPackets
<1>1. ReceiverInv /\ Told => CommandIsItsPackets
  <2> SUFFICES ASSUME ReceiverInv, Told, h.run # <<>>
               PROVE  /\ Len(h.run) <= Length[h.run[1]]
                      /\ Len(h.run) = Length[h.run[1]] <=> out.cmd # NoPacket
                      /\ out.cmd # NoPacket => /\ Len(out.cmd) = PacketBits * Len(h.run)
                                               /\ cut(out.cmd) = h.run
    BY DEF CommandIsItsPackets
  <2> DEFINE n == Len(h.run)
             size == Length[h.run[1]]
  <2>1. n \in Nat /\ size \in Nat
    <3>1. h.run[1] \in Packet /\ n \in Nat
      <4>1. n \in Nat \ {0} /\ h.run \in Seq(Packet)
        BY ReceiverParts, EmptySeq
      <4>2. 1 \in 1..n
        BY <4>1
      <4> QED BY <4>1, <4>2, ElementOfSeq
    <3>2. size \in 1..MaxPackets /\ MaxPackets \in Nat
      BY <3>1, PacketAssumption
    <3> HIDE DEF size
    <3> QED BY <3>1, <3>2
  <2>2. CASE out.cmd = NoPacket
    <3>1. n < size
      BY <2>2 DEF ReceiverInv, Received, Growing
    <3> HIDE DEF n, size
    <3>2. n <= size /\ n # size
      BY <2>1, <3>1
    <3> QED BY <2>2, <3>2 DEF n, size
  <2>3. CASE out.cmd # NoPacket
    <3>1. n = size /\ Holds(out.cmd, h.run, <<>>)
      BY <2>3 DEF Told, Delivered
    <3>2. Len(out.cmd) = PacketBits * n /\ cut(out.cmd) = h.run
      BY <3>1, ReceiverParts, Cutting
    <3>3. n <= size
      BY <2>1, <3>1
    <3> QED BY <2>3, <3>1, <3>2, <3>3
  <2> QED BY <2>2, <2>3
<1> QED BY <1>1, ReceiverInductive, PTL

\* A key that is let go lowers no line, and the queue of packets has none
\* (joypad.rs:405-415).
LEMMA NoFall ==
  ASSUME ReceiverInv
  PROVE  /\ \A column \in {"dpad", "buttons"}, line \in Lines :
              Release(column, line) => ~falls(keys, sgb, keys', sgb')
         /\ TakeSgbPacket => ~falls(keys, sgb, keys', sgb')
<1>1. ASSUME NEW column \in {"dpad", "buttons"}, NEW line \in Lines, Release(column, line)
      PROVE  ~falls(keys, sgb, keys', sgb')
  <2>1. /\ sgb' = sgb /\ keys'.high = keys.high /\ keys'.dpad \subseteq keys.dpad
        /\ keys'.buttons \subseteq keys.buttons
    BY <1>1 DEF Release, ReceiverInv, Typed, Keys
  <2>2. /\ held(keys', sgb').dpad \subseteq held(keys, sgb).dpad
        /\ held(keys', sgb').buttons \subseteq held(keys, sgb).buttons
    BY <2>1 DEF held
  <2>3. input_lines(keys', sgb') \subseteq input_lines(keys, sgb)
    BY <2>1, <2>2 DEF input_lines
  <2> QED BY <2>3 DEF falls
<1>2. ASSUME TakeSgbPacket PROVE ~falls(keys, sgb, keys', sgb')
  <2>1. keys' = keys /\ sgb'.feed = sgb.feed /\ sgb'.player = sgb.player
    BY <1>2 DEF TakeSgbPacket, ReceiverInv, Typed, SgbPort, Sgb
  <2>2. held(keys', sgb') = held(keys, sgb)
    BY <2>1 DEF held
  <2>3. input_lines(keys', sgb') = input_lines(keys, sgb)
    BY <2>1, <2>2 DEF input_lines
  <2> QED BY <2>3 DEF falls
<1> QED BY <1>1, <1>2

\* The interrupt is latched by exactly the steps that lower a line, whatever lowers it
\* (joypad.rs:392-396, 464-474).
THEOREM Falling == JoypadSpec => InterruptIsAFall
<1> DEFINE Latched == (irq' /\ ~irq) <=> ~irq /\ falls(keys, sgb, keys', sgb')
<1>1. ReceiverInv /\ [JoypadNext]_joypadVars => [Latched]_joypadVars
  <2> SUFFICES ASSUME ReceiverInv, JoypadNext PROVE Latched
    OBVIOUS
  <2>1. irq \in BOOLEAN
    BY DEF ReceiverInv, Typed
  <2>2. ASSUME NEW new \in SUBSET {"P14", "P15"}, Write(new) PROVE Latched
    <3>1. irq' = (irq \/ falls(keys, sgb, keys', sgb'))
      BY <2>2 DEF Write
    <3> QED BY <2>1, <3>1
  <2>3. ASSUME NEW column \in {"dpad", "buttons"}, NEW line \in Lines, Press(column, line)
        PROVE  Latched
    <3>1. irq' = (irq \/ falls(keys, sgb, keys', sgb'))
      BY <2>3 DEF Press
    <3> QED BY <2>1, <3>1
  <2>4. ASSUME NEW column \in {"dpad", "buttons"}, NEW line \in Lines, Release(column, line)
        PROVE  Latched
    BY <2>4, NoFall DEF Release
  <2>5. ASSUME NEW pads \in Feeds, SetSgbFeed(pads) PROVE Latched
    <3>1. irq' = (irq \/ falls(keys, sgb, keys', sgb'))
      BY <2>5 DEF SetSgbFeed
    <3> QED BY <2>1, <3>1
  <2>6. CASE TakeIrq
    BY <2>6 DEF TakeIrq
  <2>7. CASE TakeSgbPacket
    BY <2>7, NoFall DEF TakeSgbPacket
  <2> QED BY <2>2, <2>3, <2>4, <2>5, <2>6, <2>7 DEF JoypadNext
<1>2. JoypadSpec => [][Latched]_joypadVars
  BY <1>1, ReceiverInductive, PTL DEF JoypadSpec
<1> QED BY <1>2 DEF InterruptIsAFall
==============================================================================

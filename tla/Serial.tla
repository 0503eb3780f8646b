------------------------------- MODULE Serial -------------------------------
(***************************************************************************)
(* The serial port (FF01 SB, FF02 SC), crates/slopgb-core/src/serial.rs,   *)
(* clocked by the DIV counter of timer.rs and driven by the bus            *)
(* (interconnect/tick.rs, memory.rs, speed.rs) and by the Link's byte      *)
(* hook (interconnect/link.rs).                                            *)
(*                                                                         *)
(* A step is the tick of one M-cycle, the bus access that follows it, or a *)
(* call of the link between two instructions.  A byte has Width bits (8 in *)
(* the code); the slow and the fast clock are the DIV bits with half       *)
(* periods SlowHalf (128) and FastHalf (4).                                *)
(*                                                                         *)
(* The variable run is a history of the running master transfer since the  *)
(* SC write that started it, and came is the byte the link hands over in   *)
(* the step; the port reads neither.                                       *)
(***************************************************************************)
EXTENDS Integers, Sequences

CONSTANTS Width,    \* bits in a byte
          DivMod,   \* number of values of the DIV counter
          SlowHalf, \* T-cycles the slow clock bit stays low, and high
          FastHalf, \* the same for the CGB fast clock bit
          QueueCap, \* LINK_QUEUE_CAP
          EdgeCap   \* bound on the edges the history counts

ASSUME WidthAssumption == Width \in Nat /\ Width > 1
\* Facts of arithmetic, for the proofs.
ASSUME PowerAssumption ==
  /\ 2^0 = 1
  /\ \A n \in 0..Width : 2^n \in Nat \ {0}
  /\ \A n \in 0..Width-1 : 2^(n + 1) = 2 * 2^n
ASSUME ClockAssumption ==
  /\ SlowHalf \in {4, 8, 16, 32, 64, 128} /\ FastHalf \in {4, 8, 16, 32, 64, 128}
  /\ DivMod \in Nat \ {0} /\ DivMod % (2 * SlowHalf) = 0 /\ DivMod % (2 * FastHalf) = 0
ASSUME BoundsAssumption ==
  /\ QueueCap \in Nat \ {0}
  /\ EdgeCap \in Nat /\ EdgeCap > 2 * Width

VARIABLES s,    \* the fields of struct Serial
          div,  \* the timer's DIV counter
          due,  \* the M-cycle has ticked and its bus access is due
          iff,  \* the step raised the serial interrupt
          run,  \* history of the running master transfer
          came  \* history: the bytes of the peer that came in this step

vars == <<s, div, due, iff, run, came>>

Byte == 0..(2^Width - 1)
DivValue == {d \in 0..DivMod-1 : d % 4 = 0}
Control == [active : BOOLEAN, fast : BOOLEAN, internal : BOOLEAN]
SerialState ==
  [cgb : BOOLEAN, sb : Byte, sc : Control, shifted : 0..Width-1,
   master_clock : BOOLEAN, prev_div : DivValue, out_shift : Byte,
   link_connected : BOOLEAN, link_in : Seq(Byte), link_out : Seq(Byte),
   link_master_waiting : BOOLEAN]

\* edges: falling edges of the clock bit since the SC write; forced: bits its
\* forced edge shifted; clean: SB has not been replaced since; alone: no peer byte
\* has been there since; stop: STOP was executed since (edges and forced are not
\* kept past it).
History == [edges : 0..EdgeCap, forced : 0..1, clean : BOOLEAN, alone : BOOLEAN,
            stop : BOOLEAN]
NoRun == [edges |-> 0, forced |-> 0, clean |-> TRUE, alone |-> TRUE, stop |-> FALSE]

ones == 2^Width - 1
clock_half(p) == IF p.cgb /\ p.sc.fast THEN FastHalf ELSE SlowHalf
clock_bit(p, d) == (d \div clock_half(p)) % 2 = 1
is_master(p) == p.sc.active /\ p.sc.internal
is_armed(p) == p.sc.active /\ ~p.sc.internal

enqueued(q, v) == IF Len(q) < QueueCap THEN Append(q, v) ELSE q
shifted_in(v, bit) == (2 * v + bit) % 2^Width
msb(v) == v \div 2^(Width - 1)

Fresh(cgb) ==
  [cgb |-> cgb, sb |-> 0,
   sc |-> [active |-> FALSE, fast |-> FALSE, internal |-> FALSE],
   shifted |-> 0, master_clock |-> FALSE, prev_div |-> 0, out_shift |-> 0,
   link_connected |-> FALSE, link_in |-> <<>>, link_out |-> <<>>,
   link_master_waiting |-> FALSE]

Init ==
  /\ \E cgb \in BOOLEAN : s = Fresh(cgb)
  /\ div = 0
  /\ due = FALSE
  /\ iff = FALSE
  /\ run = NoRun
  /\ came = <<>>
-----------------------------------------------------------------------------
(* One edge of the clock (Serial::master_edge). *)

\* Transfer over: SC bit 7 clears itself.
ended(p) == [p EXCEPT !.sc.active = FALSE]

\* The last bit is out: complete at once, with the byte of a peer that sent one
\* already, or hold until the peer's byte arrives.
completed(p) ==
  IF ~p.link_connected THEN ended(p)
  ELSE LET q == [p EXCEPT !.link_out = enqueued(@, p.out_shift)]
       IN IF p.link_in = <<>> THEN [q EXCEPT !.link_master_waiting = TRUE]
          ELSE ended([q EXCEPT !.sb = Head(p.link_in), !.link_in = Tail(@)])

incoming(p) ==
  IF p.link_in = <<>> THEN 1
  ELSE (Head(p.link_in) \div 2^(Width - 1 - p.shifted)) % 2

shifted_one(p) ==
  LET q == [p EXCEPT !.out_shift = shifted_in(@, msb(p.sb)),
                     !.sb = shifted_in(@, incoming(p)),
                     !.shifted = (@ + 1) % Width]
  IN IF q.shifted = 0 THEN completed(q) ELSE q

master_edge(p) ==
  LET q == [p EXCEPT !.master_clock = ~@]
  IN IF p.master_clock /\ is_master(p) /\ ~p.link_master_waiting
       THEN shifted_one(q) ELSE q

\* The edge raises the interrupt exactly when it ends the transfer.
edge_iff(p) == p.sc.active /\ ~master_edge(p).sc.active
-----------------------------------------------------------------------------
\* The history is kept while a master transfer is being clocked.
Record(r) ==
  run' = IF is_master(s') /\ ~s'.link_master_waiting THEN r ELSE NoRun
saw(edge) ==
  [run EXCEPT !.edges = IF edge /\ @ < EdgeCap /\ ~run.stop THEN @ + 1 ELSE @]

Tick ==
  LET d == (div + 4) % DivMod
      p == [s EXCEPT !.prev_div = d]
      seen == clock_bit(s, s.prev_div) /\ ~clock_bit(s, d)
      real == clock_bit(s, div) /\ ~clock_bit(s, d)
  IN /\ ~due /\ due' = TRUE /\ came' = <<>>
     /\ div' = d
     /\ s' = IF seen THEN master_edge(p) ELSE p
     /\ iff' = (seen /\ edge_iff(p))
     /\ Record(saw(real))

\* The bus access of the M-cycle.
Access == due /\ due' = FALSE /\ came' = <<>>

WriteSB == \E v \in Byte :
  /\ Access
  /\ s' = [s EXCEPT !.sb = v]
  /\ iff' = FALSE
  /\ Record([run EXCEPT !.clean = FALSE])
  /\ UNCHANGED div

\* The counter resets, a high flip-flop is forced through an edge, SC is stored.
WriteSC == \E c \in Control :
  LET p == [s EXCEPT !.shifted = 0]
      q == IF s.master_clock THEN master_edge(p) ELSE p
  IN /\ Access
     /\ c.fast => s.cgb
     /\ s' = [q EXCEPT !.sc = c, !.link_master_waiting = FALSE]
     /\ iff' = (s.master_clock /\ edge_iff(p))
     /\ Record([NoRun EXCEPT !.forced = q.shifted, !.alone = (s.link_in = <<>>)])
     /\ UNCHANGED div

\* Mutants, here and below: a definition with the slip its comment names.
\* WriteDIV that leaves the edge to the next tick.
MutWriteDIVSilent ==
  /\ Access
  /\ div' = 0
  /\ s' = s
  /\ iff' = FALSE
  /\ Record(saw(clock_bit(s, div)))

WriteDIV ==
  LET p == [s EXCEPT !.prev_div = 0]
      falls == clock_bit(s, div)
  IN /\ Access
     /\ div' = 0
     /\ s' = IF falls THEN master_edge(p) ELSE p
     /\ iff' = (falls /\ edge_iff(p))
     /\ Record(saw(falls))

\* STOP resets DIV through the timer and does not tell the serial port.
Stop ==
  /\ Access
  /\ UNCHANGED s
  /\ div' = 0
  /\ iff' = FALSE
  /\ Record([run EXCEPT !.edges = 0, !.forced = 0, !.stop = TRUE])

OtherAccess == Access /\ iff' = FALSE /\ UNCHANGED <<s, div, run>>

\* FF4C: the boot ROM leaves CGB mode, once.
LockDmg ==
  /\ Access
  /\ s.cgb
  /\ s' = [s EXCEPT !.cgb = FALSE]
  /\ iff' = FALSE
  /\ UNCHANGED <<div, run>>
-----------------------------------------------------------------------------
(* The link's calls, between two instructions. *)

Hook(bytes) == ~due /\ UNCHANGED <<due, div>> /\ came' = bytes

LinkAttach ==
  /\ Hook(<<>>)
  /\ s' = [s EXCEPT !.link_connected = TRUE]
  /\ iff' = FALSE
  /\ UNCHANGED run

\* LinkDetach that completes the transfer without the interrupt.
MutDetachSilent ==
  LET p == [s EXCEPT !.link_connected = FALSE, !.link_in = <<>>, !.link_out = <<>>]
  IN /\ Hook(<<>>)
     /\ s' = IF s.link_master_waiting
               THEN ended([p EXCEPT !.sb = ones, !.link_master_waiting = FALSE])
               ELSE p
     /\ iff' = FALSE
     /\ UNCHANGED run

\* A stalled master reads the open cable.
LinkDetach ==
  LET p == [s EXCEPT !.link_connected = FALSE, !.link_in = <<>>, !.link_out = <<>>]
  IN /\ Hook(<<>>)
     /\ s' = IF s.link_master_waiting
               THEN ended([p EXCEPT !.sb = ones, !.shifted = 0,
                                    !.link_master_waiting = FALSE])
               ELSE p
     /\ iff' = s.link_master_waiting
     /\ UNCHANGED run

\* PushLinkIn that releases a held master without the byte.
MutPushDropsByte == \E v \in Byte :
  /\ Hook(<<v>>)
  /\ s' = IF s.link_master_waiting
            THEN ended([s EXCEPT !.shifted = 0, !.link_master_waiting = FALSE])
            ELSE [s EXCEPT !.link_in = enqueued(@, v)]
  /\ iff' = s.link_master_waiting
  /\ Record([run EXCEPT !.alone = FALSE])

PushLinkIn == \E v \in Byte :
  /\ Hook(<<v>>)
  /\ s' = IF s.link_master_waiting
            THEN ended([s EXCEPT !.sb = v, !.shifted = 0, !.link_master_waiting = FALSE])
            ELSE [s EXCEPT !.link_in = enqueued(@, v)]
  /\ iff' = s.link_master_waiting
  /\ Record([run EXCEPT !.alone = FALSE])

TakeLinkSend ==
  /\ Hook(<<>>)
  /\ s.link_out # <<>>
  /\ s' = [s EXCEPT !.link_out = Tail(@)]
  /\ iff' = FALSE
  /\ UNCHANGED run

LinkSlaveTransfer == \E v \in Byte :
  /\ Hook(<<>>)
  /\ is_armed(s)
  /\ s' = ended([s EXCEPT !.sb = v, !.shifted = 0])
  /\ iff' = TRUE
  /\ UNCHANGED run
-----------------------------------------------------------------------------
Next ==
  \/ Tick
  \/ WriteSB \/ WriteSC \/ WriteDIV \/ Stop \/ OtherAccess \/ LockDmg
  \/ LinkAttach \/ LinkDetach \/ PushLinkIn \/ TakeLinkSend \/ LinkSlaveTransfer

Spec == Init /\ [][Next]_vars
-----------------------------------------------------------------------------
\* Every field stays in its type; shifted stays below Width, which read_state
\* relies on when it rejects anything else.
TypeOK ==
  /\ s \in SerialState
  /\ Len(s.link_in) <= QueueCap /\ Len(s.link_out) <= QueueCap
  /\ div \in DivValue
  /\ due \in BOOLEAN /\ iff \in BOOLEAN
  /\ run \in History
  /\ came \in {<<>>} \cup {<<v>> : v \in Byte}

\* A transfer shifts one bit on every second falling edge of its clock bit after
\* the SC write (serial.rs, module docs): no edge is missed or seen twice across
\* DIV writes and clock changes, and an edge forced by the SC write counts one bit,
\* as long as the program does not execute STOP.
EveryEdgeCounts ==
  due /\ is_master(s) /\ ~s.link_master_waiting /\ ~run.stop =>
    run.edges = 2 * (s.shifted - run.forced) + (IF s.master_clock THEN 1 ELSE 0)

\* A transfer ends exactly when the interrupt is raised, on every path: the last
\* shift, the peer's byte, a slave's swap, an unplugged cable.  An SC write only
\* stops or restarts one: its forced edge never completes the old transfer (serial.rs:
\* "forced SC-write edge raised IF"), so it raises none and touches no queue.
InterruptMeansDone ==
  [][IF WriteSC THEN ~iff' /\ s'.link_out = s.link_out /\ s'.link_in = s.link_in
                ELSE iff' <=> (s.sc.active /\ ~s'.sc.active)]_vars

\* A held master is a master transfer with a peer attached, no bit shifted, and
\* no peer byte waiting that would have released it.
HeldAtCompletion ==
  s.link_master_waiting =>
    is_master(s) /\ s.link_connected /\ s.shifted = 0 /\ s.link_in = <<>>

\* A master transfer that ends receives what it should, on every path: the last shift,
\* a byte that releases a held master, the cable unplugged under one.  With the peer
\* attached it takes the first of the bytes that came and no transfer has taken, and it
\* alone: each byte is received once, in the order of arrival, whether it came before
\* the transfer, during it or after its last bit.  Unplugged or with no peer it receives
\* the cable's ones (with no peer as long as the program left SB alone and no old peer
\* byte was there).
ReceivedByte ==
  [][LET arrived == s.link_in \o came'
         done == iff' /\ is_master(s)
     IN /\ s'.link_connected /\ done =>
             /\ arrived # <<>>
             /\ s'.sb = Head(arrived) /\ s'.link_in = Tail(arrived)
        /\ s'.link_connected /\ ~done =>
             s'.link_in = IF Len(arrived) <= QueueCap THEN arrived ELSE s.link_in
        /\ ~s'.link_connected /\ done /\ (s.link_connected \/ (run.clean /\ run.alone)) =>
             s'.sb = ones]_vars
=============================================================================

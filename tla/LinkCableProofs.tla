-------------------------- MODULE LinkCableProofs --------------------------
(***************************************************************************)
(* Proofs about LinkCable.                                                 *)
(*                                                                         *)
(* For every bound and every set of faults (Inductive and what follows it):*)
(* the types with the caps of the four queues, and that the byte of a peer *)
(* never waits in the port's own queue.  The pump hands the port a byte    *)
(* only when an armed slave swaps it or a stalled master is completed by   *)
(* it, and nothing between those tests and the hand-over runs on the same  *)
(* thread; what a Quick Save copied was such a port as well.               *)
(*                                                                         *)
(* For two games that abort no transfer and two machines nobody replaces   *)
(* under the link (Steady), with queues for three packets and two bytes at *)
(* least (Roomy; the code's hold 1024): a conservation law, Flow.  Every   *)
(* byte shipped and not taken, and every reply not received, stands for a  *)
(* master that is held, one for one while both streams are up.  So no held *)
(* master is forgotten, and no queue drops a byte.  With the numbers of the*)
(* bytes (Orders), within a session the whole is the lockstep exchange of  *)
(* LinkExchange.                                                           *)
(*                                                                         *)
(* The flow is not proved action by action: StepKind shows that every step *)
(* is of one of nine kinds (Kind), each defined by what it does to the     *)
(* packets, and each kind has one lemma for the flow and one for the order.*)
(***************************************************************************)
EXTENDS LinkCable, TLAPS, FiniteSetTheorems, SequenceTheorems

\* The ports, links and queues of the states that occur.
GoodCore == {c \in Core : c.link_in = <<>> /\ Len(c.link_out) <= OutCap}
GoodLink == {l \in [attached : BOOLEAN, pending : Seq(XferId)] :
               Len(l.pending) <= PendingCap}
GoodQueue == {s \in Seq(Packet) : Len(s) <= InCap}
Streams == {"none", "dialing", "up", "dead"}
Places == {"run", "step", "pump", "poll", "drain", "block", "last"}

\* The inductive invariant, one part per variable it speaks of.
CoreInv == core \in [Peers -> GoodCore]
CountInv == xfer \in [Peers -> XferId] /\ took \in [Peers -> XferId]
LinkInv == link \in [Peers -> GoodLink]
StreamInv == stream \in [Peers -> Streams]
QueueInv == inq \in [Peers -> GoodQueue] /\ wire \in [Peers -> Seq(Packet)]
PlaceInv == pc \in [Peers -> Places]
QuickInv ==
  quick \in [Peers -> Seq(GoodCore)] /\ \A p \in Peers : Len(quick[p]) <= 1
BoundInv == /\ sessions \in 0..MaxSessions /\ replaced \in 0..MaxReplaced
            /\ \A p \in Peers : stream[p] = "dialing" => sessions < MaxSessions

IInv == /\ CoreInv /\ CountInv /\ LinkInv /\ StreamInv /\ QueueInv /\ PlaceInv
        /\ QuickInv /\ BoundInv

\* No worker starts to dial in this step.
NoNewDial == \A p \in Peers : stream'[p] = "dialing" => stream[p] = "dialing"

\* The two emulators are two.
LEMMA OtherPeer == \A p \in Peers : Other(p) \in Peers /\ Other(p) # p
BY PeersAssumption DEF Other

\* A packet made of a transfer's number is one.
LEMMA PacketType ==
  /\ \A n \in XferId : Pkt("SYNC1", n) \in Packet /\ Pkt("SYNC2", n) \in Packet
  /\ Pkt("VERSION", 0) \in Packet /\ Pkt("DISCONNECT", 0) \in Packet
<1>1. 0 \in XferId
  BY BoundsAssumption DEF XferId
<1> QED BY <1>1 DEF Pkt, Packet

\* The fields of a good port, and the ports a transition makes of it.
LEMMA CoreFields ==
  ASSUME NEW c \in GoodCore
  PROVE  /\ c \in Core /\ c.on \in BOOLEAN /\ c.stalled \in BOOLEAN
         /\ c.sc \in {"idle", "internal", "external"}
         /\ c.link_in = <<>> /\ c.link_out \in Seq(XferId) /\ Len(c.link_out) <= OutCap
         /\ c = [on |-> c.on, sc |-> c.sc, stalled |-> c.stalled,
                 link_in |-> c.link_in, link_out |-> c.link_out]
BY DEF GoodCore, Core

\* A record with an empty queue and few bytes to ship is a good port.
LEMMA MakeCore ==
  ASSUME NEW on \in BOOLEAN, NEW sc \in {"idle", "internal", "external"},
         NEW stalled \in BOOLEAN, NEW out \in Seq(XferId), Len(out) <= OutCap
  PROVE  [on |-> on, sc |-> sc, stalled |-> stalled, link_in |-> <<>>,
          link_out |-> out] \in GoodCore
BY DEF GoodCore, Core

\* No byte to ship is within every cap.
LEMMA EmptyOut == <<>> \in Seq(XferId) /\ Len(<<>>) <= OutCap
BY BoundsAssumption

\* A new machine has a good port.
LEMMA FreshCoreGood == FreshCore \in GoodCore
BY MakeCore, EmptyOut DEF FreshCore

\* Unplugging empties the queues.
LEMMA DetachedGood == ASSUME NEW c \in GoodCore PROVE detached(c) \in GoodCore
<1>1. (IF c.stalled THEN "idle" ELSE c.sc) \in {"idle", "internal", "external"}
  BY CoreFields
<1> QED BY <1>1, MakeCore, EmptyOut DEF detached

\* The records a change of one field of a link makes.
LEMMA LinkFields ==
  ASSUME NEW l \in GoodLink, NEW e, NEW b
  PROVE  /\ [l EXCEPT !.pending = e] = [attached |-> l.attached, pending |-> e]
         /\ [l EXCEPT !.attached = b] = [attached |-> b, pending |-> l.pending]
         /\ l.attached \in BOOLEAN /\ l.pending \in Seq(XferId)
         /\ Len(l.pending) <= PendingCap
BY DEF GoodLink

\* The same for the bytes to ship and the stall of a port.
LEMMA OutFields ==
  ASSUME NEW c \in GoodCore, NEW out, NEW b
  PROVE  [c EXCEPT !.link_out = out, !.stalled = b]
           = [on |-> c.on, sc |-> c.sc, stalled |-> b, link_in |-> <<>>,
              link_out |-> out]
<1> DEFINE e == [c EXCEPT !.link_out = out]
<1>1. e = [on |-> c.on, sc |-> c.sc, stalled |-> c.stalled, link_in |-> <<>>,
           link_out |-> out]
  BY CoreFields
<1> HIDE DEF e
<1>2. [e EXCEPT !.stalled = b]
        = [on |-> c.on, sc |-> c.sc, stalled |-> b, link_in |-> <<>>,
           link_out |-> out]
  BY <1>1
<1> QED BY <1>2 DEF e

\* SC and the stall may be set to anything.
LEMMA ScGood ==
  ASSUME NEW c \in GoodCore, NEW sc \in {"idle", "internal", "external"},
         NEW b \in BOOLEAN
  PROVE  /\ [c EXCEPT !.sc = sc] \in GoodCore
         /\ [c EXCEPT !.sc = sc, !.stalled = b] \in GoodCore
<1>1. [c EXCEPT !.sc = sc] = [on |-> c.on, sc |-> sc, stalled |-> c.stalled,
                              link_in |-> <<>>, link_out |-> c.link_out]
  BY CoreFields
<1>2. [c EXCEPT !.sc = sc, !.stalled = b]
        = [on |-> c.on, sc |-> sc, stalled |-> b,
           link_in |-> <<>>, link_out |-> c.link_out]
  <2> DEFINE d == [c EXCEPT !.sc = sc]
  <2>1. [d EXCEPT !.stalled = b] = [on |-> c.on, sc |-> sc, stalled |-> b,
                                    link_in |-> <<>>, link_out |-> c.link_out]
    <3> HIDE DEF d
    <3>1. d = [on |-> c.on, sc |-> sc, stalled |-> c.stalled,
               link_in |-> <<>>, link_out |-> c.link_out]
      BY <1>1 DEF d
    <3> QED BY <3>1
  <2> QED BY <2>1
<1> QED BY <1>1, <1>2, CoreFields, MakeCore

\* A byte handed to a stalled master never enters the queue.
LEMMA PushedGood ==
  ASSUME NEW c \in GoodCore, NEW n, c.stalled PROVE pushed(c, n) \in GoodCore
BY ScGood DEF pushed

\* The swap of a slave bypasses the queue.
LEMMA SwappedGood == ASSUME NEW c \in GoodCore PROVE swapped(c) \in GoodCore
BY ScGood DEF swapped

\* Sending appends packets to the wire of the other end, or nothing.
LEMMA EmitType ==
  ASSUME NEW p \in Peers, wire \in [Peers -> Seq(Packet)], NEW s \in Seq(Packet),
         Emit(p, s)
  PROVE  wire' \in [Peers -> Seq(Packet)]
<1> DEFINE q == Other(p)
           e == IF \A r \in Peers : stream[r] = "up" THEN wire[q] \o s ELSE wire[q]
<1>1. e \in Seq(Packet)
  BY OtherPeer
<1>2. wire' = [wire EXCEPT ![q] = e]
  BY DEF Emit
<1> HIDE DEF e, q
<1> QED BY <1>1, <1>2

\* A cut of a queue is a queue.
LEMMA CutType ==
  ASSUME NEW S, NEW s \in Seq(S), NEW n \in 0..Len(s)
  PROVE  SubSeq(s, 1, n) \in Seq(S)
OBVIOUS

\* What the pump, a packet and the user's disconnect leave of a link.
LEMMA DisconnectStep ==
  ASSUME IInv, NEW p \in Peers, Disconnect(p)
  PROVE  CoreInv' /\ LinkInv' /\ StreamInv' /\ NoNewDial /\ QueueInv'
<1> DEFINE q == Other(p)
           queued == IF link[p].attached /\ is_connected(p)
                       THEN Append(wire[q], Pkt("DISCONNECT", 0)) ELSE wire[q]
<1>1. q \in Peers
  BY OtherPeer
<1>2. CoreInv'
  <2>1. core' = [core EXCEPT ![p] = detached(core[p])]
    BY DEF Disconnect
  <2> QED BY <2>1, DetachedGood DEF IInv, CoreInv
<1>3. LinkInv'
  <2>1. FreshLink \in GoodLink
    BY BoundsAssumption DEF FreshLink, GoodLink
  <2>2. link' = [link EXCEPT ![p] = FreshLink]
    BY DEF Disconnect
  <2> QED BY <2>1, <2>2 DEF IInv, LinkInv
<1>4. StreamInv' /\ NoNewDial
  BY DEF Disconnect, IInv, StreamInv, Streams, NoNewDial
<1>5. inq' \in [Peers -> GoodQueue]
  <2>1. <<>> \in GoodQueue
    BY BoundsAssumption DEF GoodQueue
  <2>2. inq' = [inq EXCEPT ![p] = <<>>]
    BY DEF Disconnect
  <2> QED BY <2>1, <2>2 DEF IInv, QueueInv
<1>6. wire' \in [Peers -> Seq(Packet)]
  <2>1. queued \in Seq(Packet)
    BY <1>1, PacketType DEF IInv, QueueInv
  <2>2. PICK n \in 0..Len(queued) :
          wire' = [wire EXCEPT ![q] = IF stream[q] = "up" THEN SubSeq(queued, 1, n)
                                                          ELSE <<>>,
                               ![p] = <<>>]
    BY DEF Disconnect
  <2> HIDE DEF queued
  <2> DEFINE e == IF stream[q] = "up" THEN SubSeq(queued, 1, n) ELSE <<>>
  <2>3. e \in Seq(Packet)
    BY <2>1, CutType
  <2> HIDE DEF e, q
  <2>4. wire' = [[wire EXCEPT ![q] = e] EXCEPT ![p] = <<>>]
    BY <2>2 DEF e
  <2>5. [wire EXCEPT ![q] = e] \in [Peers -> Seq(Packet)]
    BY <2>3 DEF IInv, QueueInv
  <2> QED BY <2>4, <2>5
<1> QED BY <1>2, <1>3, <1>4, <1>5, <1>6 DEF QueueInv

\* A byte swapped, shipped or stored keeps every invariant but those of pc, which the
\* callers set.
LEMMA Sync1Step ==
  ASSUME IInv, NEW p \in Peers, NEW n \in XferId, ApplySync1(p, n)
  PROVE  CoreInv' /\ took' \in [Peers -> XferId] /\ LinkInv' /\ StreamInv'
         /\ NoNewDial /\ wire' \in [Peers -> Seq(Packet)]
<1>1. StreamInv' /\ NoNewDial
  BY DEF ApplySync1, IInv, StreamInv, NoNewDial
<1>2. CASE link[p].pending = <<>> /\ armed(core[p])
  <2>1. core' = [core EXCEPT ![p] = swapped(core[p])]
        /\ Take(p, n) /\ Emit(p, <<Pkt("SYNC2", n)>>) /\ UNCHANGED link
    BY <1>2 DEF ApplySync1
  <2>2. CoreInv'
    BY <2>1, SwappedGood DEF IInv, CoreInv
  <2>3. took' \in [Peers -> XferId]
    BY <2>1 DEF Take, IInv, CountInv
  <2>4. wire' \in [Peers -> Seq(Packet)]
    <3>1. <<Pkt("SYNC2", n)>> \in Seq(Packet)
      BY PacketType
    <3> QED BY <2>1, <3>1, EmitType DEF IInv, QueueInv
  <2> QED BY <1>1, <2>1, <2>2, <2>3, <2>4 DEF IInv, LinkInv
<1>3. CASE ~(link[p].pending = <<>> /\ armed(core[p]))
  <2> DEFINE e == IF Len(link[p].pending) < PendingCap
                    THEN Append(link[p].pending, n) ELSE link[p].pending
  <2>1. link' = [link EXCEPT ![p].pending = e] /\ UNCHANGED <<core, took, wire>>
    BY <1>3 DEF ApplySync1
  <2>2. e \in Seq(XferId) /\ Len(e) <= PendingCap
    BY BoundsAssumption DEF IInv, LinkInv, GoodLink
  <2> HIDE DEF e
  <2>3. link' = [link EXCEPT ![p] = [attached |-> link[p].attached, pending |-> e]]
    <3>1. link[p] \in GoodLink
      BY DEF IInv, LinkInv
    <3>2. link' = [link EXCEPT ![p] = [link[p] EXCEPT !.pending = e]]
      BY <2>1 DEF IInv, LinkInv
    <3> QED BY <3>1, <3>2, LinkFields
  <2>4. [attached |-> link[p].attached, pending |-> e] \in GoodLink
    BY <2>2 DEF IInv, LinkInv, GoodLink
  <2>5. LinkInv'
    BY <2>3, <2>4 DEF IInv, LinkInv
  <2> QED BY <1>1, <2>1, <2>5 DEF IInv, CoreInv, CountInv, QueueInv
<1> QED BY <1>2, <1>3

\* A reply reaches the port only while the master is stalled.
LEMMA Sync2Step ==
  ASSUME IInv, NEW p \in Peers, NEW n \in XferId, ApplySync2(p, n)
  PROVE  CoreInv' /\ UNCHANGED <<took, link, stream, wire>>
<1>1. CASE core[p].stalled
  <2>1. core' = [core EXCEPT ![p] = pushed(core[p], n)]
    BY <1>1 DEF ApplySync2
  <2> QED BY <1>1, <2>1, PushedGood DEF ApplySync2, IInv, CoreInv
<1>2. CASE ~core[p].stalled
  BY <1>2 DEF ApplySync2, IInv, CoreInv
<1> QED BY <1>1, <1>2

\* What is taken off the inbound queue is a packet, and the rest is a queue.
LEMMA QueueHead ==
  ASSUME NEW s \in GoodQueue, s # <<>>
  PROVE  Head(s) \in Packet /\ Head(s).id \in XferId /\ Tail(s) \in GoodQueue
<1>1. s \in Seq(Packet) /\ Len(s) <= InCap
  BY DEF GoodQueue
<1>2. Head(s) \in Packet
  BY <1>1
<1>3. Tail(s) \in Seq(Packet) /\ Len(Tail(s)) <= InCap
  BY <1>1, BoundsAssumption
<1>4. Head(s).id \in XferId
  BY <1>2 DEF Packet
<1> QED BY <1>2, <1>3, <1>4 DEF GoodQueue

\* One packet of the peer.
LEMMA PacketStep ==
  ASSUME IInv, NEW p \in Peers, inq[p] # <<>>, ApplyPacket(p)
  PROVE  CoreInv' /\ took' \in [Peers -> XferId] /\ LinkInv' /\ StreamInv'
         /\ NoNewDial /\ QueueInv'
<1> DEFINE pkt == Head(inq[p])
<1>1. pkt \in Packet /\ pkt.id \in XferId /\ Tail(inq[p]) \in GoodQueue
  BY QueueHead DEF IInv, QueueInv
<1>2. took \in [Peers -> XferId] /\ inq \in [Peers -> GoodQueue]
  BY DEF IInv, CountInv, QueueInv
<1>3. ASSUME inq' = [inq EXCEPT ![p] = Tail(inq[p])] PROVE inq' \in [Peers -> GoodQueue]
  BY <1>1, <1>2, <1>3
<1> HIDE DEF pkt
<1>4. CASE ApplySync1(p, pkt.id) /\ inq' = [inq EXCEPT ![p] = Tail(inq[p])]
  BY <1>1, <1>3, <1>4, Sync1Step DEF QueueInv
<1>5. CASE ApplySync2(p, pkt.id) /\ inq' = [inq EXCEPT ![p] = Tail(inq[p])]
  <2>1. CoreInv' /\ UNCHANGED <<took, link, stream, wire>>
    BY <1>1, <1>5, Sync2Step
  <2> QED BY <1>2, <1>3, <1>5, <2>1 DEF IInv, LinkInv, StreamInv, QueueInv, NoNewDial
<1>6. CASE Disconnect(p) /\ UNCHANGED took
  BY <1>2, <1>6, DisconnectStep
<1>7. CASE inq' = [inq EXCEPT ![p] = Tail(inq[p])]
           /\ UNCHANGED <<core, ended, took, link, stream, wire>>
  BY <1>2, <1>3, <1>7 DEF IInv, CoreInv, LinkInv, StreamInv, QueueInv, NoNewDial
<1> QED BY <1>4, <1>5, <1>6, <1>7 DEF ApplyPacket, pkt

\* Moving the UI thread of a peer.
LEMMA PlaceStep ==
  ASSUME IInv, NEW p \in Peers, NEW v \in Places, pc' = [pc EXCEPT ![p] = v]
  PROVE  PlaceInv'
BY DEF IInv, PlaceInv

\* The game's own steps.
LEMMA GameStep == ASSUME IInv, NEW p \in Peers, Game(p) PROVE IInv'
<1>1. ASSUME NEW v \in {"idle", "internal", "external"}, WriteSC(p, v) PROVE IInv'
  <2>1. core' = [core EXCEPT ![p] = [core[p] EXCEPT !.sc = v, !.stalled = FALSE]]
    BY <1>1 DEF WriteSC, IInv, CoreInv
  <2>2. CoreInv'
    BY <2>1, ScGood DEF IInv, CoreInv
  <2>3. PlaceInv'
    BY <1>1, PlaceStep DEF WriteSC, Places
  <2> QED BY <1>1, <2>2, <2>3 DEF WriteSC, IInv, CountInv, LinkInv, StreamInv, QueueInv,
                                 QuickInv, BoundInv
<1>2. CASE MasterDone(p)
  <2> DEFINE c == core[p]
             sent == IF c.on /\ Len(c.link_out) < OutCap
                       THEN Append(c.link_out, xfer'[p]) ELSE c.link_out
  <2>1. c \in GoodCore /\ c.link_in = <<>>
    BY CoreFields DEF IInv, CoreInv
  <2>2. xfer' \in [Peers -> XferId]
    BY <1>2, BoundsAssumption DEF MasterDone, IInv, CountInv, XferId
  <2>3. sent \in Seq(XferId) /\ Len(sent) <= OutCap
    BY <2>1, <2>2, CoreFields, BoundsAssumption
  <2>4. \/ /\ core' = [core EXCEPT ![p].link_out = sent, ![p].stalled = TRUE]
           /\ pc' = [pc EXCEPT ![p] = "step"] /\ UNCHANGED took
        \/ /\ core' = [core EXCEPT ![p].sc = "idle"]
           /\ UNCHANGED <<pc, took>>
    BY <1>2, <2>1 DEF MasterDone
  <2> HIDE DEF sent
  <2>5. CoreInv'
    <3>1. CASE core' = [core EXCEPT ![p].link_out = sent, ![p].stalled = TRUE]
      <4> DEFINE d == [on |-> c.on, sc |-> c.sc, stalled |-> TRUE, link_in |-> <<>>,
                       link_out |-> sent]
      <4>1. core' = [core EXCEPT ![p] = [c EXCEPT !.link_out = sent, !.stalled = TRUE]]
        BY <3>1 DEF IInv, CoreInv
      <4>2. [c EXCEPT !.link_out = sent, !.stalled = TRUE] = d
        BY <2>1, OutFields
      <4>3. d \in GoodCore
        BY <2>1, <2>3, CoreFields, MakeCore
      <4> HIDE DEF d
      <4> QED BY <4>1, <4>2, <4>3 DEF IInv, CoreInv
    <3>2. CASE core' = [core EXCEPT ![p].sc = "idle"]
      <4>1. core' = [core EXCEPT ![p] = [core[p] EXCEPT !.sc = "idle"]]
        BY <3>2 DEF IInv, CoreInv
      <4> QED BY <4>1, ScGood DEF IInv, CoreInv
    <3> QED BY <2>4, <3>1, <3>2
  <2>6. PlaceInv'
    BY <2>4, PlaceStep DEF Places, IInv, PlaceInv
  <2>7. CountInv'
    BY <2>2, <2>4 DEF IInv, CountInv
  <2> QED BY <1>2, <2>5, <2>6, <2>7 DEF MasterDone, IInv, LinkInv, StreamInv, QueueInv,
                                       QuickInv, BoundInv
<1> QED BY <1>1, <1>2 DEF Game

\* The ends of a slice.
LEMMA SliceStep == ASSUME IInv, NEW p \in Peers, Slice(p) PROVE IInv'
<1>1. pc' = [pc EXCEPT ![p] = "pump"]
      /\ UNCHANGED <<core, xfer, ended, took, link, stream, inq, wire, quick, sessions,
                     replaced>>
  BY DEF Slice, OtherInstruction, SliceOver
<1>2. PlaceInv'
  BY <1>1, PlaceStep DEF Places
<1> QED BY <1>1, <1>2 DEF IInv, CoreInv, CountInv, LinkInv, StreamInv, QueueInv,
                         QuickInv, BoundInv

\* The head of the pump: reap, nothing, or attach and ship.
LEMMA HeadStep == ASSUME IInv, NEW p \in Peers, PumpHead(p) PROVE IInv'
<1>1. QuickInv' /\ xfer' = xfer /\ (NoNewDial => BoundInv')
  BY DEF NoNewDial, BoundInv, PumpHead, IInv, QuickInv
<1>2. CASE ReapDeadLink(p)
  <2>1. PlaceInv'
    BY <1>2, PlaceStep DEF ReapDeadLink, Places
  <2> QED BY <1>1, <1>2, <2>1, DisconnectStep DEF ReapDeadLink, IInv, CountInv
<1>3. CASE NothingToPump(p)
  <2>1. PlaceInv'
    BY <1>3, PlaceStep DEF NothingToPump, Places
  <2> QED BY <1>1, <1>3, <2>1 DEF NothingToPump, IInv, CoreInv, CountInv, LinkInv,
                                 StreamInv, QueueInv, NoNewDial
<1>4. CASE AttachAndShip(p)
  <2> DEFINE c == core[p]
             on == IF link[p].attached THEN c.on ELSE TRUE
             s == (IF link[p].attached THEN <<>> ELSE <<Pkt("VERSION", 0)>>)
                    \o [i \in DOMAIN c.link_out |-> Pkt("SYNC1", c.link_out[i])]
  <2>1. c \in GoodCore /\ on \in BOOLEAN
    BY CoreFields DEF IInv, CoreInv
  <2>2. LinkInv'
    <3>1. link' = [link EXCEPT ![p] = [attached |-> TRUE, pending |-> link[p].pending]]
      <4>1. link[p] \in GoodLink
        BY DEF IInv, LinkInv
      <4>2. link' = [link EXCEPT ![p] = [link[p] EXCEPT !.attached = TRUE]]
        BY <1>4 DEF AttachAndShip, IInv, LinkInv
      <4> QED BY <4>1, <4>2, LinkFields
    <3>2. [attached |-> TRUE, pending |-> link[p].pending] \in GoodLink
      BY DEF IInv, LinkInv, GoodLink
    <3> QED BY <3>1, <3>2 DEF IInv, LinkInv
  <2>3. CoreInv'
    <3>1. core' = [core EXCEPT ![p].link_out = <<>>, ![p].on = on]
      BY <1>4 DEF AttachAndShip, IInv, CoreInv
    <3> HIDE DEF on
    <3> DEFINE e == [c EXCEPT !.link_out = <<>>]
               d == [on |-> on, sc |-> c.sc, stalled |-> c.stalled, link_in |-> <<>>,
                     link_out |-> <<>>]
    <3>2. core' = [core EXCEPT ![p] = [e EXCEPT !.on = on]]
      BY <3>1 DEF IInv, CoreInv
    <3>3. e = [on |-> c.on, sc |-> c.sc, stalled |-> c.stalled, link_in |-> <<>>,
               link_out |-> <<>>]
      BY <2>1, CoreFields
    <3> HIDE DEF e
    <3>4. [e EXCEPT !.on = on] = d
      BY <3>3
    <3>5. d \in GoodCore
      BY <2>1, CoreFields, MakeCore, EmptyOut
    <3> HIDE DEF d
    <3> QED BY <3>2, <3>4, <3>5 DEF IInv, CoreInv
  <2>4. Emit(p, s) /\ pc' = [pc EXCEPT ![p] = "poll"] /\ UNCHANGED <<took, stream, inq>>
    BY <1>4 DEF AttachAndShip, ShipOut
  <2>5. s \in Seq(Packet)
    <3>1. c.link_out \in Seq(XferId)
      BY <2>1, CoreFields
    <3>2. [i \in DOMAIN c.link_out |-> Pkt("SYNC1", c.link_out[i])] \in Seq(Packet)
      BY <3>1, PacketType
    <3>3. (IF link[p].attached THEN <<>> ELSE <<Pkt("VERSION", 0)>>) \in Seq(Packet)
      BY PacketType
    <3> QED BY <3>2, <3>3
  <2> HIDE DEF s
  <2>6. wire' \in [Peers -> Seq(Packet)]
    BY <2>4, <2>5, EmitType DEF IInv, QueueInv
  <2>7. PlaceInv'
    BY <2>4, PlaceStep DEF Places
  <2> QED BY <1>1, <2>2, <2>3, <2>4, <2>6, <2>7 DEF IInv, CountInv, StreamInv, QueueInv,
                                                             NoNewDial
<1> QED BY <1>2, <1>3, <1>4 DEF PumpHead

\* One round of the poll loop.
LEMMA PollStep == ASSUME IInv, NEW p \in Peers, PumpPoll(p) PROVE IInv'
<1>1. QuickInv' /\ xfer' = xfer /\ (NoNewDial => BoundInv')
  BY DEF NoNewDial, BoundInv, PumpPoll, IInv, QuickInv
<1>2. CASE inq[p] # <<>> /\ ApplyPacket(p) /\ UNCHANGED pc
  BY <1>1, <1>2, PacketStep DEF IInv, CountInv, PlaceInv
<1>3. CASE pc' = [pc EXCEPT ![p] = "drain"]
           /\ UNCHANGED <<core, ended, took, link, stream, inq, wire>>
  <2>1. PlaceInv'
    BY <1>3, PlaceStep DEF Places
  <2> QED BY <1>1, <1>3, <2>1 DEF IInv, CoreInv, CountInv, LinkInv, StreamInv, QueueInv,
                                 NoNewDial
<1> QED BY <1>2, <1>3 DEF PumpPoll

\* One buffered byte, or the end of the drain.
LEMMA DrainStep == ASSUME IInv, NEW p \in Peers, DrainPending(p) PROVE IInv'
<1>1. BoundInv' /\ QuickInv' /\ StreamInv' /\ xfer' = xfer /\ inq' = inq
  BY DEF DrainPending, IInv, BoundInv, QuickInv, StreamInv
<1> DEFINE n == Head(link[p].pending)
           l == [attached |-> link[p].attached, pending |-> Tail(link[p].pending)]
<1>2. ASSUME link[p].pending # <<>>, link' = [link EXCEPT ![p].pending = Tail(@)]
      PROVE  LinkInv' /\ n \in XferId
  <2>1. link' = [link EXCEPT ![p] = l]
    <3>1. link[p] \in GoodLink
      BY DEF IInv, LinkInv
    <3>2. link' = [link EXCEPT ![p] = [link[p] EXCEPT !.pending = Tail(link[p].pending)]]
      BY <1>2 DEF IInv, LinkInv
    <3> QED BY <3>1, <3>2, LinkFields
  <2>2. /\ link[p].pending \in Seq(XferId) /\ link[p].attached \in BOOLEAN
        /\ Len(link[p].pending) <= PendingCap
    BY DEF IInv, LinkInv, GoodLink
  <2>3. /\ Tail(link[p].pending) \in Seq(XferId)
        /\ Len(Tail(link[p].pending)) <= PendingCap /\ n \in XferId
    BY <1>2, <2>2, BoundsAssumption
  <2>4. l \in GoodLink
    BY <2>2, <2>3 DEF GoodLink
  <2> HIDE DEF l, n
  <2> QED BY <2>1, <2>3, <2>4 DEF IInv, LinkInv
<1> HIDE DEF n
<1>3. CASE AnswerPending(p)
  <2>1. LinkInv' /\ n \in XferId
    BY <1>2, <1>3 DEF AnswerPending
  <2>2. core' = [core EXCEPT ![p] = swapped(core[p])]
        /\ Take(p, n) /\ Emit(p, <<Pkt("SYNC2", n)>>) /\ UNCHANGED pc
    BY <1>3 DEF AnswerPending, n
  <2>3. CoreInv'
    BY <2>2, SwappedGood DEF IInv, CoreInv
  <2>4. CountInv'
    BY <1>1, <2>1, <2>2 DEF Take, IInv, CountInv
  <2>5. wire' \in [Peers -> Seq(Packet)]
    <3>1. <<Pkt("SYNC2", n)>> \in Seq(Packet)
      BY <2>1, PacketType
    <3> QED BY <2>2, <3>1, EmitType DEF IInv, QueueInv
  <2> QED BY <1>1, <2>1, <2>2, <2>3, <2>4, <2>5 DEF IInv, QueueInv, PlaceInv
<1>4. CASE FeedStalled(p)
  <2>1. LinkInv' /\ n \in XferId
    BY <1>2, <1>4 DEF FeedStalled
  <2>2. core' = [core EXCEPT ![p] = pushed(core[p], n)] /\ core[p].stalled
        /\ Take(p, n) /\ UNCHANGED <<wire, pc>>
    BY <1>4 DEF FeedStalled, n
  <2>3. CoreInv'
    BY <2>2, PushedGood DEF IInv, CoreInv
  <2>4. CountInv'
    BY <1>1, <2>1, <2>2 DEF Take, IInv, CountInv
  <2> QED BY <1>1, <2>1, <2>2, <2>3, <2>4 DEF IInv, QueueInv, PlaceInv
<1>5. CASE StopDraining(p)
  <2>1. pc' = [pc EXCEPT ![p] = AfterDrain(p)] /\ UNCHANGED <<core, ended, took, link, wire>>
    BY <1>5 DEF StopDraining
  <2>2. AfterDrain(p) \in Places
    BY DEF AfterDrain, Places
  <2>3. PlaceInv'
    BY <2>1, <2>2, PlaceStep
  <2> QED BY <1>1, <2>1, <2>3 DEF IInv, CoreInv, CountInv, LinkInv, QueueInv
<1> QED BY <1>3, <1>4, <1>5 DEF DrainPending

\* The wait of a stalled master.
LEMMA BlockStep == ASSUME IInv, NEW p \in Peers, PumpBlocking(p) PROVE IInv'
<1>1. /\ QuickInv' /\ xfer' = xfer /\ (NoNewDial => BoundInv')
      /\ pc' = [pc EXCEPT ![p] = "last"]
  BY DEF NoNewDial, BoundInv, PumpBlocking, IInv, QuickInv
<1>2. PlaceInv'
  BY <1>1, PlaceStep DEF Places
<1>3. CASE inq[p] # <<>> /\ ApplyPacket(p)
  BY <1>1, <1>2, <1>3, PacketStep DEF IInv, CountInv
<1>4. CASE UNCHANGED <<core, ended, took, link, stream, inq, wire>>
  BY <1>1, <1>2, <1>4 DEF IInv, CoreInv, CountInv, LinkInv, StreamInv, QueueInv, NoNewDial
<1> QED BY <1>3, <1>4 DEF PumpBlocking

\* The sockets and their threads.
LEMMA ConnectionStep ==
  ASSUME IInv,
         \/ Establish
         \/ \E p \in Peers : \/ OpenSocket(p) \/ Socket(p) \/ StreamFails(p)
                             \/ UserDisconnect(p)
  PROVE  IInv'
<1>1. CASE Establish
  <2>1. PICK p \in Peers : stream[p] = "dialing"
    BY <1>1, PeersAssumption DEF Establish
  <2>2. StreamInv' /\ wire' \in [Peers -> Seq(Packet)]
    BY <1>1 DEF Establish, StreamInv, Streams
  <2>3. BoundInv'
    BY <1>1, <2>1, BoundsAssumption DEF Establish, IInv, BoundInv
  <2> QED BY <1>1, <2>2, <2>3 DEF Establish, IInv, CoreInv, CountInv, LinkInv, QueueInv,
                                 PlaceInv, QuickInv
<1>2. ASSUME NEW p \in Peers, OpenSocket(p) PROVE IInv'
  <2>1. FreshLink \in GoodLink
    BY BoundsAssumption DEF FreshLink, GoodLink
  <2>2. LinkInv' /\ StreamInv'
    BY <1>2, <2>1 DEF OpenSocket, IInv, LinkInv, StreamInv, Streams
  <2> QED BY <1>2, <2>2 DEF OpenSocket, IInv, CoreInv, CountInv, QueueInv, PlaceInv,
                           QuickInv, BoundInv
<1>3. ASSUME NEW p \in Peers, Deliver(p) PROVE IInv'
  <2> DEFINE e == IF Len(inq[p]) < InCap THEN Append(inq[p], Head(wire[p])) ELSE inq[p]
  <2>1. wire[p] \in Seq(Packet) /\ wire[p] # <<>> /\ inq[p] \in GoodQueue
    BY <1>3 DEF Deliver, IInv, QueueInv
  <2>2. Head(wire[p]) \in Packet /\ Tail(wire[p]) \in Seq(Packet)
    BY <2>1
  <2>3. e \in GoodQueue
    BY <2>1, <2>2, BoundsAssumption DEF GoodQueue
  <2>4. inq' = [inq EXCEPT ![p] = e] /\ wire' = [wire EXCEPT ![p] = Tail(wire[p])]
    BY <1>3 DEF Deliver
  <2> HIDE DEF e
  <2>5. QueueInv'
    BY <2>2, <2>3, <2>4 DEF IInv, QueueInv
  <2> QED BY <1>3, <2>5 DEF Deliver, IInv, CoreInv, CountInv, LinkInv, StreamInv, PlaceInv,
                           QuickInv, BoundInv
<1>4. ASSUME NEW p \in Peers, PeerClosed(p) PROVE IInv'
  <2>1. StreamInv'
    BY <1>4 DEF PeerClosed, IInv, StreamInv, Streams
  <2> QED BY <1>4, <2>1 DEF PeerClosed, IInv, CoreInv, CountInv, LinkInv, QueueInv,
                           PlaceInv, QuickInv, BoundInv
<1>5. ASSUME NEW p \in Peers, StreamFails(p) PROVE IInv'
  <2>1. StreamInv'
    BY <1>5 DEF StreamFails, IInv, StreamInv, Streams
  <2> DEFINE q == Other(p)
  <2>2. q \in Peers /\ q # p /\ wire \in [Peers -> Seq(Packet)] /\ wire[q] \in Seq(Packet)
    BY OtherPeer DEF IInv, QueueInv
  <2>3. PICK n \in 0..Len(wire[q]) :
          wire' = [wire EXCEPT ![p] = <<>>, ![q] = SubSeq(@, 1, n)]
    BY <1>5 DEF StreamFails
  <2> HIDE DEF q
  <2> DEFINE d == [wire EXCEPT ![p] = <<>>]
             e == SubSeq(wire[q], 1, n)
  <2>4. d \in [Peers -> Seq(Packet)] /\ d[q] = wire[q]
    BY <2>2
  <2>6. e \in Seq(Packet)
    BY <2>2, CutType
  <2> HIDE DEF d, e
  <2>7. wire' = [d EXCEPT ![q] = e]
    BY <2>2, <2>3, <2>4 DEF d, e
  <2>8. wire' \in [Peers -> Seq(Packet)]
    BY <2>4, <2>6, <2>7
  <2>9. BoundInv'
    BY <1>5 DEF StreamFails, IInv, StreamInv, BoundInv
  <2> QED BY <1>5, <2>1, <2>8, <2>9 DEF StreamFails, IInv, CoreInv, CountInv, LinkInv,
                                       QueueInv, PlaceInv, QuickInv
<1>6. ASSUME NEW p \in Peers, UserDisconnect(p) PROVE IInv'
  BY <1>6, DisconnectStep
  DEF UserDisconnect, IInv, CountInv, PlaceInv, QuickInv, BoundInv, NoNewDial
<1> QED BY <1>1, <1>2, <1>3, <1>4, <1>5, <1>6 DEF Socket

\* The frontend replaces the machine: a new one, the file's SC, a copy or its return.
LEMMA ReplaceStep == ASSUME IInv, NEW p \in Peers, Replace(p) PROVE IInv'
<1>1. ASSUME NEW f, Replacing(p, f), CoreInv', QuickInv' PROVE IInv'
  BY <1>1, BoundsAssumption
  DEF Replacing, IInv, CountInv, LinkInv, StreamInv, QueueInv, PlaceInv, BoundInv
<1>2. CASE ResetMachine(p)
  <2>1. CoreInv' /\ QuickInv'
    BY <1>2, FreshCoreGood DEF ResetMachine, IInv, CoreInv, QuickInv
  <2> QED BY <1>1, <1>2, <2>1 DEF ResetMachine
<1>3. CASE LoadState(p)
  <2>1. PICK v \in {"idle", "internal", "external"} : core' = [core EXCEPT ![p].sc = v]
    BY <1>3 DEF LoadState
  <2>2. core' = [core EXCEPT ![p] = [core[p] EXCEPT !.sc = v]]
    BY <2>1 DEF IInv, CoreInv
  <2>3. CoreInv' /\ QuickInv'
    BY <1>3, <2>2, ScGood DEF LoadState, IInv, CoreInv, QuickInv
  <2> QED BY <1>1, <1>3, <2>3 DEF LoadState
<1>4. CASE QuickSave(p)
  <2>1. quick' = [quick EXCEPT ![p] = <<core[p]>>] /\ UNCHANGED core
    BY <1>4 DEF QuickSave
  <2>2. <<core[p]>> \in Seq(GoodCore) /\ Len(<<core[p]>>) = 1
    BY DEF IInv, CoreInv
  <2>3. CoreInv' /\ QuickInv'
    BY <2>1, <2>2 DEF IInv, CoreInv, QuickInv
  <2> QED BY <1>1, <1>4, <2>3 DEF QuickSave
<1>5. CASE QuickLoad(p)
  <2>1. /\ quick[p] # <<>> /\ UNCHANGED quick
        /\ core' = [core EXCEPT ![p] = Head(quick[p])]
    BY <1>5 DEF QuickLoad
  <2>2. Head(quick[p]) \in GoodCore
    BY <2>1 DEF IInv, QuickInv
  <2>3. CoreInv' /\ QuickInv'
    BY <2>1, <2>2 DEF IInv, CoreInv, QuickInv
  <2> QED BY <1>1, <1>5, <2>3 DEF QuickLoad
<1> QED BY <1>2, <1>3, <1>4, <1>5 DEF Replace

\* Both emulators start unlinked.
LEMMA InitStep == Init => IInv
<1> SUFFICES ASSUME Init PROVE IInv
  OBVIOUS
<1>1. 0 \in XferId /\ FreshLink \in GoodLink /\ <<>> \in GoodQueue
  BY BoundsAssumption DEF XferId, FreshLink, GoodLink, GoodQueue
<1>2. CoreInv /\ CountInv /\ LinkInv
  BY <1>1, FreshCoreGood DEF Init, CoreInv, CountInv, LinkInv
<1>3. StreamInv /\ PlaceInv /\ QueueInv
  BY <1>1 DEF Init, StreamInv, Streams, PlaceInv, Places, QueueInv
<1>4. QuickInv /\ BoundInv
  BY BoundsAssumption DEF Init, QuickInv, BoundInv
<1> QED BY <1>2, <1>3, <1>4 DEF IInv

\* For every bound and every set of faults the invariant of the parts holds: no step of
\* either UI thread, socket thread or frontend leaves a queue over its cap or a byte in
\* a port's own queue (link.rs, app_pacing.rs, session.rs).
THEOREM Inductive == Spec => []IInv
<1>1. IInv /\ [Next]_vars => IInv'
  <2> SUFFICES ASSUME IInv, [Next]_vars PROVE IInv'
    OBVIOUS
  <2>1. CASE UNCHANGED vars
    BY <2>1 DEF vars, IInv, CoreInv, CountInv, LinkInv, StreamInv, QueueInv, PlaceInv,
                QuickInv, BoundInv
  <2>2. ASSUME NEW p \in Peers, Game(p) \/ Slice(p) \/ Pump(p) \/ Replace(p) PROVE IInv'
    BY <2>2, GameStep, SliceStep, HeadStep, PollStep, DrainStep, BlockStep, ReplaceStep
    DEF Pump
  <2>3. CASE \/ Establish
             \/ \E p \in Peers : \/ OpenSocket(p) \/ Socket(p) \/ StreamFails(p)
                                 \/ UserDisconnect(p)
    BY <2>3, ConnectionStep
  <2> QED BY <2>1, <2>2, <2>3 DEF Next
<1> QED BY <1>1, InitStep, PTL DEF Spec

\* Every variable keeps its type and every queue its cap (IN_QUEUE_CAP, LINK_QUEUE_CAP).
THEOREM TypeCorrect == Spec => []TypeOK
<1>1. IInv => TypeOK
  <2> SUFFICES ASSUME IInv PROVE TypeOK
    OBVIOUS
  <2>1. core \in [Peers -> Core]
    BY DEF IInv, CoreInv, GoodCore
  <2>2. ASSUME NEW p \in Peers PROVE quick[p] \in Seq(Core) /\ Len(quick[p]) <= 1
    <3>1. quick[p] \in Seq(GoodCore) /\ Len(quick[p]) <= 1
      BY DEF IInv, QuickInv
    <3>2. \A c \in GoodCore : c \in Core
      BY DEF GoodCore
    <3> HIDE DEF GoodCore
    <3> QED BY <3>1, <3>2
  <2>3. ASSUME NEW p \in Peers
        PROVE  /\ Len(core[p].link_in) <= OutCap /\ Len(core[p].link_out) <= OutCap
               /\ link[p].attached \in BOOLEAN
               /\ link[p].pending \in Seq(XferId) /\ Len(link[p].pending) <= PendingCap
               /\ inq[p] \in Seq(Packet) /\ Len(inq[p]) <= InCap
               /\ wire[p] \in Seq(Packet)
    BY BoundsAssumption, CoreFields, EmptyOut
    DEF IInv, CoreInv, LinkInv, GoodLink, QueueInv, GoodQueue
  <2> QED BY <2>1, <2>2, <2>3 DEF TypeOK, IInv, CountInv, StreamInv, Streams, PlaceInv,
                                  Places, BoundInv
<1> QED BY <1>1, Inductive, PTL

\* For every bound and every set of faults, aborts and replacements of the machine
\* included, a byte of the peer never waits where a later transfer would shift it in
\* (link.rs, pending_master).
THEOREM QueueEmpty == Spec => []CoreQueueStaysEmpty
<1>1. IInv => CoreQueueStaysEmpty
  BY CoreFields DEF IInv, CoreInv, CoreQueueStaysEmpty
<1> QED BY <1>1, Inductive, PTL
-----------------------------------------------------------------------------
\* How many of the first i packets of a queue are of one kind, and how many of all.
CountTo(s, c, i) == Cardinality({j \in 1..i : s[j].cmd = c})
CountOf(s, c) == CountTo(s, c, Len(s))

\* What is counted is finite.
LEMMA CountFinite ==
  ASSUME NEW s, NEW c, NEW i \in Nat PROVE IsFiniteSet({j \in 1..i : s[j].cmd = c})
<1>1. IsFiniteSet(1..i)
  BY FS_Interval
<1>2. {j \in 1..i : s[j].cmd = c} \in SUBSET (1..i)
  OBVIOUS
<1> QED BY <1>1, <1>2, FS_Subset

\* A count is a number, no larger than where it stops.
LEMMA CountType ==
  ASSUME NEW s, NEW c, NEW i \in Nat
  PROVE  CountTo(s, c, i) \in Nat /\ CountTo(s, c, i) <= i
<1>1. IsFiniteSet(1..i) /\ Cardinality(1..i) = i
  BY FS_Interval
<1>2. {j \in 1..i : s[j].cmd = c} \in SUBSET (1..i)
  OBVIOUS
<1>3. Cardinality({j \in 1..i : s[j].cmd = c}) <= i
  BY <1>1, <1>2, FS_Subset
<1> QED BY <1>3, CountFinite, FS_CardinalityType DEF CountTo

\* Nothing counted yet.
LEMMA CountNone == ASSUME NEW s, NEW c PROVE CountTo(s, c, 0) = 0
<1>1. {j \in 1..0 : s[j].cmd = c} = {}
  OBVIOUS
<1> QED BY <1>1, FS_EmptySet DEF CountTo

\* One packet more.
LEMMA CountNext ==
  ASSUME NEW s, NEW c, NEW i \in Nat
  PROVE  CountTo(s, c, i + 1) = CountTo(s, c, i) + (IF s[i + 1].cmd = c THEN 1 ELSE 0)
<1> DEFINE A == {j \in 1..i : s[j].cmd = c}
           B == {j \in 1..(i + 1) : s[j].cmd = c}
<1>1. IsFiniteSet(A)
  BY CountFinite
<1>2. CASE s[i + 1].cmd = c
  <2>1. B = A \cup {i + 1} /\ i + 1 \notin A
    BY <1>2
  <2> HIDE DEF A, B
  <2>2. Cardinality(B) = Cardinality(A) + 1
    BY <1>1, <2>1, FS_AddElement
  <2> QED BY <1>2, <2>2 DEF CountTo, A, B
<1>3. CASE s[i + 1].cmd # c
  <2>1. B = A
    BY <1>3
  <2>2. Cardinality(A) \in Nat
    BY <1>1, FS_CardinalityType
  <2> QED BY <1>3, <2>1, <2>2 DEF CountTo
<1> QED BY <1>2, <1>3

\* Queues that agree up to a position have the same count there.
LEMMA CountSame ==
  ASSUME NEW s, NEW t, NEW c, NEW i \in Nat, \A j \in 1..i : s[j] = t[j]
  PROVE  CountTo(s, c, i) = CountTo(t, c, i)
<1>1. {j \in 1..i : s[j].cmd = c} = {j \in 1..i : t[j].cmd = c}
  OBVIOUS
<1> QED BY <1>1 DEF CountTo

\* The count does not shrink.
LEMMA CountGrows ==
  ASSUME NEW s, NEW c, NEW i \in Nat, NEW k \in Nat, i <= k
  PROVE  CountTo(s, c, i) <= CountTo(s, c, k)
<1>1. {j \in 1..i : s[j].cmd = c} \in SUBSET {j \in 1..k : s[j].cmd = c}
  OBVIOUS
<1>2. IsFiniteSet({j \in 1..k : s[j].cmd = c})
  BY CountFinite
<1> QED BY <1>1, <1>2, FS_Subset DEF CountTo

\* A packet of the kind is counted from its position on.
LEMMA CountMember ==
  ASSUME NEW s, NEW c, NEW i \in Nat, NEW k \in 1..i, s[k].cmd = c
  PROVE  CountTo(s, c, i) >= 1
<1>1. k \in Nat /\ k - 1 \in Nat /\ k <= i
  OBVIOUS
<1>2. CountTo(s, c, k) = CountTo(s, c, k - 1) + 1
  BY <1>1, CountNext, (k - 1) + 1 = k
<1>3. CountTo(s, c, k - 1) \in Nat /\ CountTo(s, c, k) \in Nat /\ CountTo(s, c, i) \in Nat
  BY <1>1, CountType
<1>4. CountTo(s, c, k) <= CountTo(s, c, i)
  BY <1>1, CountGrows
<1> QED BY <1>2, <1>3, <1>4

\* With none of the kind the count is zero; a positive count has a packet of the kind.
LEMMA CountZero ==
  ASSUME NEW s, NEW c, NEW i \in Nat
  PROVE  CountTo(s, c, i) = 0 <=> \A k \in 1..i : s[k].cmd # c
<1>1. IsFiniteSet({j \in 1..i : s[j].cmd = c})
  BY CountFinite
<1> QED BY <1>1, FS_EmptySet DEF CountTo

\* Taking the head off shifts the positions by one.
LEMMA CountShift ==
  ASSUME NEW s \in Seq(Packet), s # <<>>, NEW c, NEW i \in 0..Len(Tail(s))
  PROVE  CountTo(s, c, i + 1)
           = CountTo(Tail(s), c, i) + (IF Head(s).cmd = c THEN 1 ELSE 0)
<1> DEFINE A == {j \in 1..i : Tail(s)[j].cmd = c}
           B == {j \in 2..(i + 1) : s[j].cmd = c}
           C == {j \in 1..(i + 1) : s[j].cmd = c}
<1>1. /\ Len(Tail(s)) \in Nat /\ i \in Nat /\ Head(s) = s[1]
      /\ \A j \in 1..i : Tail(s)[j] = s[j + 1]
  BY LenProperties
<1>2. IsFiniteSet(A)
  BY <1>1, CountFinite
<1>3. IsFiniteSet(B) /\ Cardinality(B) = Cardinality(A)
  <2> DEFINE f == [j \in A |-> j + 1]
  <2>1. f \in Bijection(A, B)
    <3>1. f \in [A -> B]
      BY <1>1
    <3>2. \A x, y \in A : f[x] = f[y] => x = y
      BY <1>1
    <3>3. \A y \in B : y - 1 \in A /\ f[y - 1] = y
      BY <1>1
    <3> HIDE DEF f, A, B
    <3>4. f \in Injection(A, B)
      BY <3>1, <3>2 DEF Injection, IsInjective
    <3>5. f \in Surjection(A, B)
      BY <3>1, <3>3 DEF Surjection
    <3> QED BY <3>4, <3>5 DEF Bijection
  <2> HIDE DEF f, A, B
  <2>2. ExistsBijection(A, B)
    BY <2>1 DEF ExistsBijection
  <2> QED BY <1>2, <2>2, FS_Bijection
<1>4. Cardinality(A) \in Nat
  BY <1>2, FS_CardinalityType
<1>5. CASE Head(s).cmd = c
  <2>1. C = B \cup {1} /\ 1 \notin B
    BY <1>1, <1>5
  <2> HIDE DEF A, B, C
  <2>2. Cardinality(C) = Cardinality(B) + 1
    BY <1>3, <2>1, FS_AddElement
  <2> QED BY <1>3, <1>5, <2>2 DEF CountTo, A, C
<1>6. CASE Head(s).cmd # c
  <2>1. C = B
    BY <1>1, <1>6
  <2> HIDE DEF A, B, C
  <2>2. Cardinality(C) = Cardinality(A) + 0
    BY <1>3, <1>4, <2>1
  <2> QED BY <1>6, <2>2 DEF CountTo, A, C
<1> QED BY <1>5, <1>6

\* The whole queue: empty, longer by one packet, without its head, cut short.
LEMMA CountEmpty == ASSUME NEW c PROVE CountOf(<<>>, c) = 0
BY CountNone DEF CountOf

\* A count is a number, at most the length.
LEMMA CountOfType ==
  ASSUME NEW s \in Seq(Packet), NEW c
  PROVE  CountOf(s, c) \in Nat /\ CountOf(s, c) <= Len(s)
BY CountType, LenProperties DEF CountOf

\* The count of a packet more.
LEMMA CountAppend ==
  ASSUME NEW s \in Seq(Packet), NEW x \in Packet, NEW c
  PROVE  CountOf(Append(s, x), c) = CountOf(s, c) + (IF x.cmd = c THEN 1 ELSE 0)
<1> DEFINE t == Append(s, x)
<1>1. /\ Len(s) \in Nat /\ Len(t) = Len(s) + 1 /\ t[Len(s) + 1] = x
      /\ \A j \in 1..Len(s) : t[j] = s[j]
  BY AppendProperties, LenProperties
<1> HIDE DEF t
<1>2. CountTo(t, c, Len(s)) = CountTo(s, c, Len(s))
  BY <1>1, CountSame
<1>3. CountTo(t, c, Len(s) + 1)
        = CountTo(t, c, Len(s)) + (IF t[Len(s) + 1].cmd = c THEN 1 ELSE 0)
  BY <1>1, CountNext
<1>4. CountOf(t, c) = CountOf(s, c) + (IF x.cmd = c THEN 1 ELSE 0)
  BY <1>1, <1>2, <1>3 DEF CountOf
<1> QED BY <1>4 DEF t

\* The count when the head is taken.
LEMMA CountTail ==
  ASSUME NEW s \in Seq(Packet), s # <<>>, NEW c
  PROVE  CountOf(s, c) = CountOf(Tail(s), c) + (IF Head(s).cmd = c THEN 1 ELSE 0)
<1>1. Len(Tail(s)) \in Nat /\ Len(s) = Len(Tail(s)) + 1
  BY LenProperties, HeadTailProperties
<1> QED BY <1>1, CountShift DEF CountOf

\* The count of what a cut leaves.
LEMMA CountCut ==
  ASSUME NEW s \in Seq(Packet), NEW n \in 0..Len(s), NEW c
  PROVE  CountOf(SubSeq(s, 1, n), c) = CountTo(s, c, n) /\ CountTo(s, c, n) <= CountOf(s, c)
<1> DEFINE t == SubSeq(s, 1, n)
<1>1. n \in Nat /\ Len(s) \in Nat /\ Len(t) = n /\ \A j \in 1..n : t[j] = s[j]
  BY LenProperties
<1> HIDE DEF t
<1>2. CountTo(t, c, n) = CountTo(s, c, n)
  BY <1>1, CountSame
<1>3. CountTo(s, c, n) <= CountTo(s, c, Len(s))
  BY <1>1, CountGrows
<1> QED BY <1>1, <1>2, <1>3 DEF CountOf, t
-----------------------------------------------------------------------------
Linked(p) == stream[p] \in {"up", "dead"}
BothIn == \A r \in Peers : Linked(r)
BothUp == \A r \in Peers : stream[r] = "up"
InPump(p) == pc[p] \in {"poll", "drain", "block", "last"}

\* The sizes: bytes in p's outgoing queue, bytes and replies of p on their way, packets of
\* p on their way, bytes p has buffered, whether p is held; and what p has shipped or is
\* about to and its peer's port has not taken.
Out(p) == Len(core[p].link_out)
Wired(p) == CountOf(InFlight(p), "SYNC1")
Replies(p) == CountOf(InFlight(p), "SYNC2")
Size(p) == Len(InFlight(p))
Waiting(p) == Len(link[p].pending)
Held(p) == IF core[p].stalled THEN 1 ELSE 0
Sent(p) == Out(p) + Wired(p) + Waiting(Other(p))
Owed(p) == Sent(p) + Replies(p)

\* The port: held only at the end of a transfer of a port that knows its peer, and
\* then its byte is in the queue until the pump ships it.
Port(p) ==
  /\ core[p].stalled => core[p].on /\ core[p].sc = "internal"
  /\ core[p].on = link[p].attached
  /\ core[p].link_out = <<>> \/ (core[p].stalled /\ Len(core[p].link_out) = 1)
  /\ InPump(p) => core[p].link_out = <<>>

\* The socket: nothing is queued or buffered without one.
Sock(p) ==
  /\ link[p].attached => Linked(p)
  /\ ~Linked(p) => inq[p] = <<>>
  /\ stream[p] # "up" => wire[p] = <<>>
  /\ InPump(p) /\ ~link[p].attached => stream[p] = "none"
  /\ ~link[p].attached => link[p].pending = <<>>

Replying(s, held, pending) ==
  \A i \in 1..Len(s) : s[i].cmd = "SYNC2" =>
    /\ held /\ pending = <<>>
    /\ \A j \in 1..(i - 1) : s[j].cmd \notin {"SYNC1", "SYNC2"}
\* A reply on its way finds its master held, nothing buffered there, and nothing of
\* the exchange in front of it.
Reply(p) == Replying(InFlight(p), core[Other(p)].stalled, link[Other(p)].pending)

\* The flight is short: beside bytes and replies, a version and a disconnect.
Short(p) ==
  /\ Size(p) <= 4
  /\ BothIn => Size(p) <= 3
  /\ BothUp => Size(p) <= Wired(p) + Replies(p) + (IF link[p].attached THEN 1 ELSE 0)

\* The conservation law: what is owed, in both directions together, is what is held,
\* and never more while a socket is still there on each side.
Balance(p) ==
  /\ BothIn => Owed(p) + Owed(Other(p)) <= Held(p) + Held(Other(p))
  /\ BothUp => Owed(p) + Owed(Other(p)) = Held(p) + Held(Other(p))
  /\ Sent(p) <= 2

PeerFlow(p) == Port(p) /\ Sock(p) /\ Reply(p) /\ Short(p) /\ Balance(p)
Flow == \A p \in Peers : PeerFlow(p)

\* The peer of the peer is the emulator itself, and there is no third.
LEMMA TwoPeers ==
  \A p \in Peers : /\ Other(p) \in Peers /\ Other(p) # p /\ Other(Other(p)) = p
                   /\ \A r \in Peers : r = p \/ r = Other(p)
<1> SUFFICES ASSUME NEW p \in Peers
             PROVE  /\ Other(p) \in Peers /\ Other(p) # p /\ Other(Other(p)) = p
                    /\ \A r \in Peers : r = p \/ r = Other(p)
  OBVIOUS
<1>1. Other(p) \in Peers /\ Other(p) # p /\ Other(Other(p)) \in Peers
      /\ Other(Other(p)) # Other(p)
  BY OtherPeer
<1> QED BY <1>1, PeersAssumption

\* The types of the queues, and the sizes as numbers.
Typed == \A p \in Peers :
  /\ InFlight(p) \in Seq(Packet)
  /\ inq[p] \in Seq(Packet) /\ wire[p] \in Seq(Packet)
  /\ core[p].link_out \in Seq(XferId) /\ link[p].pending \in Seq(XferId)
  /\ core[p].stalled \in BOOLEAN /\ link[p].attached \in BOOLEAN
  /\ Out(p) \in Nat /\ Wired(p) \in Nat /\ Replies(p) \in Nat
  /\ Size(p) \in Nat /\ Waiting(p) \in Nat /\ Held(p) \in {0, 1}
  /\ Sent(p) = Out(p) + Wired(p) + Waiting(Other(p))
  /\ Owed(p) = Sent(p) + Replies(p) /\ Sent(p) \in Nat /\ Owed(p) \in Nat

\* The types the flow needs.
LEMMA FlowTypes == IInv => Typed
<1> SUFFICES ASSUME IInv, NEW p \in Peers
             PROVE  Typed!(p)
  BY DEF Typed
<1> DEFINE q == Other(p)
<1>1. q \in Peers
  BY OtherPeer
<1>2. /\ inq[p] \in Seq(Packet) /\ inq[q] \in Seq(Packet)
      /\ wire[p] \in Seq(Packet) /\ wire[q] \in Seq(Packet)
  BY <1>1 DEF IInv, QueueInv, GoodQueue
<1>3. InFlight(p) \in Seq(Packet) /\ Size(p) \in Nat
  BY <1>2, ConcatProperties, LenProperties DEF InFlight, Size
<1>4. Wired(p) \in Nat /\ Replies(p) \in Nat
  BY <1>3, CountOfType DEF Replies, Wired
<1>5. core[p].link_out \in Seq(XferId) /\ link[p].pending \in Seq(XferId)
  BY CoreFields, LinkFields DEF IInv, CoreInv, LinkInv
<1>6. Out(p) \in Nat /\ Waiting(p) \in Nat
  BY <1>5 DEF Out, Waiting
<1>7. core[p].stalled \in BOOLEAN /\ link[p].attached \in BOOLEAN
  BY CoreFields, LinkFields DEF IInv, CoreInv, LinkInv
<1>8. Held(p) \in {0, 1}
  BY DEF Held
<1>9. Sent(p) \in Nat /\ Owed(p) \in Nat
  <2>1. Waiting(q) \in Nat
    BY <1>1, LinkFields DEF IInv, LinkInv, Waiting
  <2>2. Sent(p) \in Nat
    BY <1>4, <1>6, <2>1 DEF Sent
  <2> QED BY <1>4, <2>2 DEF Owed
<1> QED BY <1>2, <1>3, <1>4, <1>5, <1>6, <1>7, <1>8, <1>9 DEF Sent, Owed

\* The same after a step.
LEMMA FlowTypesNext == IInv' => Typed'
BY FlowTypes, PTL

\* Replying, whatever happens to the queue.
LEMMA ReplyTail ==
  ASSUME NEW s \in Seq(Packet), s # <<>>, NEW h, NEW h2, NEW b, NEW b2,
         Replying(s, h, b),
         Head(s).cmd \notin {"SYNC1", "SYNC2"} => (h => h2) /\ b2 = b
  PROVE  Replying(Tail(s), h2, b2)
<1>1. /\ Len(Tail(s)) \in Nat /\ Len(s) = Len(Tail(s)) + 1 /\ Head(s) = s[1]
      /\ \A j \in 1..Len(Tail(s)) : Tail(s)[j] = s[j + 1]
  BY LenProperties, HeadTailProperties
<1> DEFINE t == Tail(s)
<1> HIDE DEF t
<1> SUFFICES ASSUME NEW i \in 1..Len(t), t[i].cmd = "SYNC2"
             PROVE  /\ h2 /\ b2 = <<>>
                    /\ \A j \in 1..(i - 1) : t[j].cmd \notin {"SYNC1", "SYNC2"}
  BY DEF Replying, t
<1>2. i + 1 \in 1..Len(s) /\ s[i + 1].cmd = "SYNC2" /\ 1 \in 1..((i + 1) - 1)
  BY <1>1 DEF t
<1>3. h /\ b = <<>> /\ \A j \in 1..((i + 1) - 1) : s[j].cmd \notin {"SYNC1", "SYNC2"}
  BY <1>2 DEF Replying
<1>4. Head(s).cmd \notin {"SYNC1", "SYNC2"}
  BY <1>1, <1>2, <1>3
<1>5. ASSUME NEW j \in 1..(i - 1) PROVE t[j].cmd \notin {"SYNC1", "SYNC2"}
  <2>1. j + 1 \in 1..((i + 1) - 1) /\ j \in 1..Len(t)
    BY <1>1 DEF t
  <2> QED BY <1>1, <1>3, <2>1 DEF t
<1> QED BY <1>3, <1>4, <1>5

\* What a reply says of the packets before it survives a cut.
LEMMA ReplyCut ==
  ASSUME NEW s \in Seq(Packet), NEW n \in 0..Len(s), NEW h, NEW h2, NEW b, NEW b2,
         Replying(s, h, b), (h => h2) /\ (b = <<>> => b2 = b)
  PROVE  Replying(SubSeq(s, 1, n), h2, b2)
<1> DEFINE t == SubSeq(s, 1, n)
<1>1. n \in Nat /\ Len(s) \in Nat /\ n <= Len(s) /\ Len(t) = n /\ \A j \in 1..n : t[j] = s[j]
  BY LenProperties
<1> HIDE DEF t
<1> SUFFICES ASSUME NEW i \in 1..Len(t), t[i].cmd = "SYNC2"
             PROVE  /\ h2 /\ b2 = <<>>
                    /\ \A j \in 1..(i - 1) : t[j].cmd \notin {"SYNC1", "SYNC2"}
  BY DEF Replying, t
<1>2. i \in 1..Len(s) /\ s[i].cmd = "SYNC2"
  BY <1>1
<1>3. h /\ b = <<>> /\ \A j \in 1..(i - 1) : s[j].cmd \notin {"SYNC1", "SYNC2"}
  BY <1>2 DEF Replying
<1>4. \A j \in 1..(i - 1) : j \in 1..n
  BY <1>1
<1> QED BY <1>1, <1>3, <1>4

\* A new packet keeps it unless it is a reply, which must find nothing before it.
LEMMA ReplyAppend ==
  ASSUME NEW s \in Seq(Packet), NEW x \in Packet, NEW h, NEW b,
         Replying(s, h, b),
         x.cmd = "SYNC2" =>
           h /\ b = <<>> /\ \A j \in 1..Len(s) : s[j].cmd \notin {"SYNC1", "SYNC2"}
  PROVE  Replying(Append(s, x), h, b)
<1> DEFINE t == Append(s, x)
<1>1. /\ Len(s) \in Nat /\ Len(t) = Len(s) + 1 /\ t[Len(s) + 1] = x
      /\ \A j \in 1..Len(s) : t[j] = s[j]
  BY AppendProperties, LenProperties
<1> HIDE DEF t
<1> SUFFICES ASSUME NEW i \in 1..Len(t), t[i].cmd = "SYNC2"
             PROVE  /\ h /\ b = <<>>
                    /\ \A j \in 1..(i - 1) : t[j].cmd \notin {"SYNC1", "SYNC2"}
  BY DEF Replying, t
<1>2. CASE i = Len(s) + 1
  BY <1>1, <1>2
<1>3. CASE i # Len(s) + 1
  <2>1. i \in 1..Len(s) /\ s[i].cmd = "SYNC2"
    BY <1>1, <1>3
  <2>2. h /\ b = <<>> /\ \A j \in 1..(i - 1) : s[j].cmd \notin {"SYNC1", "SYNC2"}
    BY <2>1 DEF Replying
  <2>3. \A j \in 1..(i - 1) : j \in 1..Len(s)
    BY <1>1, <2>1
  <2> QED BY <1>1, <2>2, <2>3
<1> QED BY <1>2, <1>3

\* At most one reply is under way, and only to a held master.
LEMMA OneReply ==
  ASSUME NEW s \in Seq(Packet), NEW h, NEW b, Replying(s, h, b)
  PROVE  CountOf(s, "SYNC2") <= 1 /\ (CountOf(s, "SYNC2") >= 1 => h /\ b = <<>>)
<1>1. Len(s) \in Nat /\ CountOf(s, "SYNC2") \in Nat
  BY LenProperties, CountOfType
<1>2. CASE \A k \in 1..Len(s) : s[k].cmd # "SYNC2"
  BY <1>1, <1>2, CountZero DEF CountOf
<1>3. CASE \E k \in 1..Len(s) : s[k].cmd = "SYNC2"
  <2> DEFINE A == {j \in 1..Len(s) : s[j].cmd = "SYNC2"}
  <2>1. PICK k \in 1..Len(s) : s[k].cmd = "SYNC2"
    BY <1>3
  <2>2. \A j \in A : j = k
    <3> SUFFICES ASSUME NEW j \in A, j # k PROVE FALSE
      OBVIOUS
    <3>1. j \in 1..(k - 1) \/ k \in 1..(j - 1)
      BY <1>1
    <3> QED BY <2>1, <3>1 DEF Replying
  <2>3. A = {k}
    BY <2>1, <2>2
  <2>4. Cardinality(A) = 1
    BY <2>3, FS_Singleton
  <2> QED BY <2>1, <2>4 DEF CountOf, CountTo, Replying
<1> QED BY <1>2, <1>3
-----------------------------------------------------------------------------
\* A queue made of two: taking its head, extending it, moving a packet over, cutting it.
LEMMA TailConcat ==
  ASSUME NEW a \in Seq(Packet), NEW b \in Seq(Packet), a # <<>>
  PROVE  a \o b # <<>> /\ Head(a \o b) = Head(a) /\ Tail(a \o b) = Tail(a) \o b
<1>1. Len(a) \in Nat /\ Len(b) \in Nat /\ Len(a) >= 1
  BY LenProperties
<1>2. /\ a \o b \in Seq(Packet) /\ Len(a \o b) = Len(a) + Len(b)
      /\ \A i \in 1..Len(a) + Len(b) :
           (a \o b)[i] = IF i <= Len(a) THEN a[i] ELSE b[i - Len(a)]
  BY ConcatProperties
<1>3. a \o b # <<>>
  BY <1>1, <1>2
<1>4. /\ Tail(a) \in Seq(Packet) /\ Len(Tail(a)) = Len(a) - 1
      /\ \A i \in 1..Len(Tail(a)) : Tail(a)[i] = a[i + 1]
  BY HeadTailProperties
<1>5. /\ Tail(a \o b) \in Seq(Packet) /\ Len(Tail(a \o b)) = Len(a \o b) - 1
      /\ \A i \in 1..Len(Tail(a \o b)) : Tail(a \o b)[i] = (a \o b)[i + 1]
  BY <1>2, <1>3, HeadTailProperties
<1>6. /\ Tail(a) \o b \in Seq(Packet) /\ Len(Tail(a) \o b) = Len(Tail(a)) + Len(b)
      /\ \A i \in 1..Len(Tail(a)) + Len(b) :
           (Tail(a) \o b)[i] = IF i <= Len(Tail(a)) THEN Tail(a)[i] ELSE b[i - Len(Tail(a))]
  BY <1>4, ConcatProperties
<1> DEFINE s == Tail(a \o b)
           t == Tail(a) \o b
<1>7. \A i \in 1..Len(s) : s[i] = t[i]
  <2> SUFFICES ASSUME NEW i \in 1..Len(s) PROVE s[i] = t[i]
    OBVIOUS
  <2>1. i \in Nat /\ 1 <= i /\ i <= Len(a) + Len(b) - 1 /\ s[i] = (a \o b)[i + 1]
    BY <1>1, <1>2, <1>5
  <2>2. t[i] = IF i <= Len(a) - 1 THEN Tail(a)[i] ELSE b[i - (Len(a) - 1)]
    BY <1>1, <1>4, <1>6, <2>1
  <2>3. (a \o b)[i + 1] = IF i + 1 <= Len(a) THEN a[i + 1] ELSE b[(i + 1) - Len(a)]
    BY <1>1, <1>2, <2>1
  <2> HIDE DEF s, t
  <2>4. CASE i + 1 <= Len(a)
    BY <1>1, <1>4, <2>1, <2>2, <2>3, <2>4
  <2>5. CASE ~(i + 1 <= Len(a))
    <3>1. (i + 1) - Len(a) = i - (Len(a) - 1)
      BY <1>1, <2>1
    <3> QED BY <1>1, <2>1, <2>2, <2>3, <2>5, <3>1
  <2> QED BY <2>4, <2>5
<1>8. s = t
  <2>1. Len(s) = Len(t) /\ s \in Seq(Packet) /\ t \in Seq(Packet)
    BY <1>1, <1>2, <1>4, <1>5, <1>6
  <2> HIDE DEF s, t
  <2> QED BY <1>7, <2>1, SeqEqual
<1>9. Head(a \o b) = Head(a)
  BY <1>1, <1>2, <1>3
<1> QED BY <1>3, <1>8, <1>9

\* A packet sent goes behind both the queue and the wire.
LEMMA AppendConcat ==
  ASSUME NEW a \in Seq(Packet), NEW b \in Seq(Packet), NEW x \in Packet
  PROVE  a \o Append(b, x) = Append(a \o b, x)
<1>1. Append(b, x) = b \o <<x>> /\ <<x>> \in Seq(Packet)
  BY AppendIsConcat
<1>2. a \o b \in Seq(Packet)
  BY ConcatProperties
<1>3. Append(a \o b, x) = (a \o b) \o <<x>>
  BY <1>2, AppendIsConcat
<1> QED BY <1>1, <1>3, ConcatAssociative

\* A packet delivered keeps its place in the flight.
LEMMA MoveHead ==
  ASSUME NEW a \in Seq(Packet), NEW b \in Seq(Packet), b # <<>>
  PROVE  Append(a, Head(b)) \o Tail(b) = a \o b
<1>1. Head(b) \in Packet /\ Tail(b) \in Seq(Packet) /\ <<Head(b)>> \in Seq(Packet)
  BY HeadTailProperties
<1>2. Append(a, Head(b)) = a \o <<Head(b)>>
  BY <1>1, AppendIsConcat
<1>3. (a \o <<Head(b)>>) \o Tail(b) = a \o (<<Head(b)>> \o Tail(b))
  BY <1>1, ConcatAssociative
<1>4. <<Head(b)>> \o Tail(b) = b
  <2> DEFINE h == <<Head(b)>>
             t == h \o Tail(b)
  <2>1. h \in Seq(Packet) /\ Len(h) = 1 /\ h[1] = b[1]
    BY <1>1
  <2>2. /\ Len(b) \in Nat /\ Len(b) >= 1 /\ Len(Tail(b)) = Len(b) - 1
        /\ \A i \in 1..Len(Tail(b)) : Tail(b)[i] = b[i + 1]
    BY LenProperties, HeadTailProperties
  <2>3. /\ t \in Seq(Packet) /\ Len(t) = Len(h) + Len(Tail(b))
        /\ \A i \in 1..Len(h) + Len(Tail(b)) :
             t[i] = IF i <= Len(h) THEN h[i] ELSE Tail(b)[i - Len(h)]
    BY <1>1, <2>1, ConcatProperties
  <2> HIDE DEF t, h
  <2>4. Len(t) = Len(b)
    BY <2>1, <2>2, <2>3
  <2>5. \A i \in 1..Len(t) : t[i] = b[i]
    <3> SUFFICES ASSUME NEW i \in 1..Len(t) PROVE t[i] = b[i]
      OBVIOUS
    <3>1. i = 1 \/ i - 1 \in 1..Len(Tail(b))
      BY <2>2, <2>4
    <3> QED BY <2>1, <2>2, <2>3, <2>4, <3>1
  <2>6. t = b
    BY <2>3, <2>4, <2>5, SeqEqual
  <2> QED BY <2>6 DEF t, h
<1> QED BY <1>2, <1>3, <1>4

\* A cut of the wire is a cut of the flight.
LEMMA CutConcat ==
  ASSUME NEW a \in Seq(Packet), NEW b \in Seq(Packet), NEW n \in 0..Len(b)
  PROVE  /\ Len(a) + n \in 0..Len(a \o b)
         /\ a \o SubSeq(b, 1, n) = SubSeq(a \o b, 1, Len(a) + n)
<1> DEFINE c == SubSeq(b, 1, n)
           s == a \o c
           u == a \o b
           t == SubSeq(u, 1, Len(a) + n)
<1>1. Len(a) \in Nat /\ Len(b) \in Nat /\ n \in Nat /\ n <= Len(b)
  BY LenProperties
<1>2. c \in Seq(Packet) /\ Len(c) = n /\ \A i \in 1..n : c[i] = b[i]
  BY <1>1
<1>3. /\ u \in Seq(Packet) /\ Len(u) = Len(a) + Len(b)
      /\ \A i \in 1..Len(a) + Len(b) : u[i] = IF i <= Len(a) THEN a[i] ELSE b[i - Len(a)]
  BY ConcatProperties
<1> HIDE DEF c, u
<1>4. /\ s \in Seq(Packet) /\ Len(s) = Len(a) + Len(c)
      /\ \A i \in 1..Len(a) + Len(c) : s[i] = IF i <= Len(a) THEN a[i] ELSE c[i - Len(a)]
  BY <1>2, ConcatProperties
<1>5. Len(a) + n \in 0..Len(u)
  BY <1>1, <1>3
<1>6. /\ t \in Seq(Packet) /\ Len(t) = Len(a) + n
      /\ \A i \in 1..Len(a) + n : t[i] = u[i]
  BY <1>1, <1>3, <1>5
<1> HIDE DEF s, t
<1>7. \A i \in 1..Len(s) : s[i] = t[i]
  <2> SUFFICES ASSUME NEW i \in 1..Len(s) PROVE s[i] = t[i]
    OBVIOUS
  <2>1. i \in 1..(Len(a) + n) /\ i \in 1..(Len(a) + Len(b))
    BY <1>1, <1>2, <1>4
  <2>2. CASE i <= Len(a)
    BY <1>2, <1>3, <1>4, <1>6, <2>1, <2>2
  <2>3. CASE ~(i <= Len(a))
    <3>1. i - Len(a) \in 1..n
      BY <1>1, <2>1, <2>3
    <3> QED BY <1>2, <1>3, <1>4, <1>6, <2>1, <2>3, <3>1
  <2> QED BY <2>2, <2>3
<1>8. s = t
  BY <1>1, <1>2, <1>4, <1>6, <1>7, SeqEqual
<1> QED BY <1>5, <1>8 DEF s, t, c, u
-----------------------------------------------------------------------------
\* What is on its way to p.
LEMMA FlightTo ==
  ASSUME NEW p \in Peers
  PROVE  /\ InFlight(Other(p)) = inq[p] \o wire[p]
         /\ InFlight(Other(p))' = inq'[p] \o wire'[p]
BY TwoPeers DEF InFlight

\* The flow is a matter of the two peers, and the balance is the same for both.
LEMMA Assemble ==
  ASSUME Typed', NEW p \in Peers, Port(p)', Port(Other(p))', Sock(p)', Sock(Other(p))',
         Reply(p)', Reply(Other(p))', Short(p)', Short(Other(p))',
         Balance(p)', (Sent(Other(p)) <= 2)'
  PROVE  Flow'
<1> DEFINE q == Other(p)
<1>1. q \in Peers /\ Other(q) = p /\ \A r \in Peers : r = p \/ r = q
  BY TwoPeers
<1>2. Owed(p)' \in Nat /\ Owed(q)' \in Nat /\ Held(p)' \in {0, 1} /\ Held(q)' \in {0, 1}
  BY <1>1 DEF Typed
<1>3. Balance(q)'
  BY <1>1, <1>2 DEF Balance
<1>4. PeerFlow(p)' /\ PeerFlow(q)'
  BY <1>3 DEF PeerFlow
<1> QED BY <1>1, <1>4 DEF Flow

\* The sizes of one direction, before and after.
SizesOf(p) ==
  /\ Out(p) \in Nat /\ Wired(p) \in Nat /\ Waiting(p) \in Nat /\ Replies(p) \in Nat
  /\ Size(p) \in Nat /\ Held(p) \in Nat /\ Held(p) <= 1
  /\ Sent(p) = Out(p) + Wired(p) + Waiting(Other(p)) /\ Owed(p) = Sent(p) + Replies(p)
  /\ Sent(p) \in Nat /\ Owed(p) \in Nat

\* They are numbers, and add up.
LEMMA Sizes == ASSUME Typed, NEW p \in Peers PROVE SizesOf(p)
BY DEF Typed, SizesOf

\* The same after a step.
LEMMA SizesNext == ASSUME Typed', NEW p \in Peers PROVE SizesOf(p)'
BY DEF Typed, SizesOf

\* What a step leaves of the bounds when the streams do not come up in it.
StreamsFall == (BothIn' => BothIn) /\ (BothUp' => BothUp)

\* The balance of a step that adds a hold for every byte it owes more.
LEMMA BalanceStep ==
  ASSUME Typed, Typed', NEW p \in Peers, Balance(p), StreamsFall,
         BothIn => Owed(p)' + Owed(Other(p))' + Held(p) + Held(Other(p))
                     <= Owed(p) + Owed(Other(p)) + Held(p)' + Held(Other(p))',
         BothUp => Owed(p)' + Owed(Other(p))' + Held(p) + Held(Other(p))
                     = Owed(p) + Owed(Other(p)) + Held(p)' + Held(Other(p))',
         (Sent(p) <= 2)'
  PROVE  Balance(p)'
<1>1. Other(p) \in Peers
  BY TwoPeers
<1>2. /\ Owed(p) \in Nat /\ Owed(p)' \in Nat /\ Held(p) \in Nat /\ Held(p)' \in Nat
      /\ Owed(Other(p)) \in Nat /\ Owed(Other(p))' \in Nat
      /\ Held(Other(p)) \in Nat /\ Held(Other(p))' \in Nat
  <2>1. ASSUME NEW r \in Peers
        PROVE  Owed(r) \in Nat /\ Owed(r)' \in Nat /\ Held(r) \in Nat /\ Held(r)' \in Nat
    BY Sizes, SizesNext DEF SizesOf
  <2> QED BY <1>1, <2>1
<1>3. ASSUME BothIn' PROVE Owed(p)' + Owed(Other(p))' <= Held(p)' + Held(Other(p))'
  <2>1. Owed(p) + Owed(Other(p)) <= Held(p) + Held(Other(p))
    BY <1>3 DEF Balance, StreamsFall
  <2> QED BY <1>2, <1>3, <2>1 DEF StreamsFall
<1>4. ASSUME BothUp' PROVE Owed(p)' + Owed(Other(p))' = Held(p)' + Held(Other(p))'
  <2>1. Owed(p) + Owed(Other(p)) = Held(p) + Held(Other(p))
    BY <1>4 DEF Balance, StreamsFall
  <2> QED BY <1>2, <1>4, <2>1 DEF StreamsFall
<1> QED BY <1>3, <1>4 DEF Balance

\* p takes the head of its inbound queue.
LEMMA TakeHead ==
  ASSUME Typed, NEW p \in Peers, inq[p] # <<>>,
         inq'[p] = Tail(inq[p]), wire'[p] = wire[p]
  PROVE  /\ InFlight(Other(p)) # <<>> /\ Head(InFlight(Other(p))) = Head(inq[p])
         /\ InFlight(Other(p))' = Tail(InFlight(Other(p)))
         /\ Size(Other(p))' = Size(Other(p)) - 1
         /\ Wired(Other(p))' = Wired(Other(p)) - (IF Head(inq[p]).cmd = "SYNC1" THEN 1 ELSE 0)
         /\ Replies(Other(p))'
              = Replies(Other(p)) - (IF Head(inq[p]).cmd = "SYNC2" THEN 1 ELSE 0)
<1> DEFINE s == InFlight(Other(p))
<1>1. inq[p] \in Seq(Packet) /\ wire[p] \in Seq(Packet) /\ s \in Seq(Packet)
  BY TwoPeers DEF Typed
<1>2. s = inq[p] \o wire[p] /\ s' = inq'[p] \o wire'[p]
  BY FlightTo
<1>3. s # <<>> /\ Head(s) = Head(inq[p]) /\ Tail(s) = Tail(inq[p]) \o wire[p]
  <2> DEFINE a == inq[p]
             b == wire[p]
  <2>1. a \in Seq(Packet) /\ b \in Seq(Packet) /\ a # <<>> /\ s = a \o b
    BY <1>1, <1>2
  <2> HIDE DEF a, b, s
  <2>2. a \o b # <<>> /\ Head(a \o b) = Head(a) /\ Tail(a \o b) = Tail(a) \o b
    BY <2>1, TailConcat
  <2> QED BY <2>1, <2>2 DEF a, b
<1>4. s' = Tail(s)
  BY <1>2, <1>3
<1> HIDE DEF s
<1>5. Len(Tail(s)) = Len(s) - 1 /\ Tail(s) \in Seq(Packet)
  BY <1>1, <1>3, HeadTailProperties
<1>6. ASSUME NEW c
      PROVE  CountOf(Tail(s), c) = CountOf(s, c) - (IF Head(s).cmd = c THEN 1 ELSE 0)
  <2>1. CountOf(s, c) = CountOf(Tail(s), c) + (IF Head(s).cmd = c THEN 1 ELSE 0)
    BY <1>1, <1>3, CountTail
  <2>2. CountOf(s, c) \in Nat /\ CountOf(Tail(s), c) \in Nat
    BY <1>1, <1>5, CountOfType
  <2> QED BY <2>1, <2>2
<1> QED BY <1>3, <1>4, <1>5, <1>6 DEF s, Size, Wired, Replies

\* p sends one packet.
LEMMA SendOne ==
  ASSUME Typed, NEW p \in Peers, NEW x \in Packet, Emit(p, <<x>>),
         inq'[Other(p)] = inq[Other(p)], wire \in [Peers -> Seq(Packet)]
  PROVE  /\ wire'[p] = wire[p] /\ (~BothUp => wire' = wire)
         /\ InFlight(p)' = IF BothUp THEN Append(InFlight(p), x) ELSE InFlight(p)
         /\ Size(p)' = Size(p) + (IF BothUp THEN 1 ELSE 0)
         /\ Wired(p)' = Wired(p) + (IF BothUp /\ x.cmd = "SYNC1" THEN 1 ELSE 0)
         /\ Replies(p)' = Replies(p) + (IF BothUp /\ x.cmd = "SYNC2" THEN 1 ELSE 0)
<1> DEFINE q == Other(p)
           s == InFlight(p)
<1>1. q \in Peers /\ q # p
  BY TwoPeers
<1>2. inq[q] \in Seq(Packet) /\ wire[q] \in Seq(Packet) /\ s \in Seq(Packet)
  BY <1>1 DEF Typed
<1>3. wire' = [wire EXCEPT ![q] = IF BothUp THEN wire[q] \o <<x>> ELSE wire[q]]
  BY DEF Emit, BothUp
<1>4. wire'[p] = wire[p] /\ (~BothUp => wire' = wire)
  BY <1>1, <1>3
<1>5. s = inq[q] \o wire[q] /\ s' = inq'[q] \o wire'[q]
  BY DEF InFlight
<1>6. CASE BothUp
  <2>1. wire'[q] = Append(wire[q], x)
    BY <1>1, <1>2, <1>3, <1>6, AppendIsConcat
  <2>2. s' = Append(s, x)
    BY <1>2, <1>5, <2>1, AppendConcat, ZenonT(40)
  <2> HIDE DEF s
  <2>3. Len(Append(s, x)) = Len(s) + 1
    BY <1>2, AppendProperties
  <2>4. ASSUME NEW c
        PROVE  CountOf(Append(s, x), c) = CountOf(s, c) + (IF x.cmd = c THEN 1 ELSE 0)
    BY <1>2, CountAppend, CountOfType
  <2> QED BY <1>4, <1>6, <2>2, <2>3, <2>4 DEF s, Size, Wired, Replies
<1>7. CASE ~BothUp
  <2>1. s' = s
    BY <1>4, <1>5, <1>7
  <2>2. Size(p) \in Nat /\ Wired(p) \in Nat /\ Replies(p) \in Nat
    BY DEF Typed
  <2> QED BY <1>4, <1>7, <2>1, <2>2 DEF Size, Wired, Replies
<1> QED BY <1>6, <1>7

\* What is on its way stays, is cut, or is lost with the connection.
LEMMA FlightSame ==
  ASSUME NEW p \in Peers, InFlight(p)' = InFlight(p)
  PROVE  Size(p)' = Size(p) /\ Wired(p)' = Wired(p) /\ Replies(p)' = Replies(p)
BY DEF Size, Wired, Replies

\* A cut leaves no more of anything.
LEMMA FlightCut ==
  ASSUME Typed, NEW p \in Peers, NEW k \in 0..Size(p),
         InFlight(p)' = SubSeq(InFlight(p), 1, k)
  PROVE  Size(p)' <= Size(p) /\ Wired(p)' <= Wired(p) /\ Replies(p)' <= Replies(p)
<1> DEFINE s == InFlight(p)
<1>1. s \in Seq(Packet) /\ k \in 0..Len(s) /\ Len(s) \in Nat
  BY LenProperties DEF Typed, Size
<1>2. s' = SubSeq(s, 1, k)
  OBVIOUS
<1> HIDE DEF s
<1>3. Len(SubSeq(s, 1, k)) = k
  BY <1>1
<1>4. ASSUME NEW c PROVE CountOf(SubSeq(s, 1, k), c) <= CountOf(s, c)
  <2>1. CountOf(SubSeq(s, 1, k), c) = CountTo(s, c, k) /\ CountTo(s, c, k) <= CountOf(s, c)
    BY <1>1, CountCut
  <2> QED BY <2>1
<1> QED BY <1>1, <1>2, <1>3, <1>4 DEF s, Size, Wired, Replies

\* Nothing on its way counts nothing.
LEMMA FlightEmpty ==
  ASSUME NEW p \in Peers
  PROVE  /\ InFlight(p) = <<>> => Size(p) = 0 /\ Wired(p) = 0 /\ Replies(p) = 0
         /\ InFlight(p)' = <<>> => Size(p)' = 0 /\ Wired(p)' = 0 /\ Replies(p)' = 0
BY CountEmpty DEF Size, Wired, Replies

\* Nothing of p is on its way to a peer that has no socket.
LEMMA Lonely ==
  ASSUME Flow, NEW p \in Peers, ~Linked(Other(p))
  PROVE  /\ InFlight(p) = <<>> /\ link[Other(p)].pending = <<>>
         /\ Size(p) = 0 /\ Wired(p) = 0 /\ Replies(p) = 0 /\ Waiting(Other(p)) = 0
<1> DEFINE q == Other(p)
<1>1. q \in Peers /\ Sock(q)
  BY TwoPeers DEF Flow, PeerFlow
<1>2. inq[q] = <<>> /\ wire[q] = <<>> /\ link[q].pending = <<>>
  BY <1>1 DEF Sock, Linked
<1>3. InFlight(p) = <<>>
  BY <1>2 DEF InFlight
<1> QED BY <1>2, <1>3, FlightEmpty DEF Waiting

\* Replying, when only the master's side changes.
LEMMA ReplyMono ==
  ASSUME NEW s, NEW h, NEW h2, NEW b, Replying(s, h, b), h => h2 PROVE Replying(s, h2, b)
BY DEF Replying

\* No reply is on its way while bytes wait.
LEMMA ReplyVacuous ==
  ASSUME NEW s, NEW h, NEW h2, NEW b, NEW b2, Replying(s, h, b), b # <<>>
  PROVE  Replying(s, h2, b2)
BY DEF Replying

\* No reply is on its way when nothing is.
LEMMA ReplyEmpty == ASSUME NEW h, NEW b PROVE Replying(<<>>, h, b)
BY DEF Replying

\* An armed slave that takes a byte of its peer finds nothing of its own under way.
LEMMA AnswerReady ==
  ASSUME Typed, Flow, BothUp, NEW p \in Peers, ~core[p].stalled, Sent(Other(p)) >= 1
  PROVE  /\ core[Other(p)].stalled /\ link[Other(p)].pending = <<>>
         /\ \A j \in 1..Len(InFlight(p)) : InFlight(p)[j].cmd \notin {"SYNC1", "SYNC2"}
         /\ Wired(p) = 0 /\ Replies(p) = 0 /\ Waiting(Other(p)) = 0 /\ Sent(p) = 0
         /\ Sent(Other(p)) = 1
<1> DEFINE q == Other(p)
<1>1. q \in Peers /\ Other(q) = p
  BY TwoPeers
<1>2. Owed(p) + Owed(q) = Held(p) + Held(q)
  BY DEF Flow, PeerFlow, Balance
<1>3. Held(p) = 0
  BY DEF Held
<1>4. SizesOf(p) /\ SizesOf(q)
  BY <1>1, Sizes
<1>5. Held(q) = 1 /\ Owed(p) = 0 /\ Sent(q) = 1
  <2>1. Owed(q) \in Nat /\ Owed(p) \in Nat /\ Held(q) \in Nat /\ Held(q) <= 1
    BY <1>4 DEF SizesOf
  <2>2. Owed(q) = Sent(q) + Replies(q) /\ Sent(q) \in Nat /\ Replies(q) \in Nat
    BY <1>4 DEF SizesOf
  <2>3. Owed(q) >= 1 /\ Sent(q) <= Owed(q)
    BY <2>2
  <2>4. Held(q) = 1 /\ Owed(p) = 0 /\ Owed(q) = 1
    BY <1>2, <1>3, <2>1, <2>3
  <2> QED BY <2>2, <2>3, <2>4
<1>6. Wired(p) = 0 /\ Replies(p) = 0 /\ Waiting(q) = 0 /\ Sent(p) = 0
  <2>1. /\ Sent(p) \in Nat /\ Replies(p) \in Nat /\ Wired(p) \in Nat /\ Out(p) \in Nat
        /\ Waiting(q) \in Nat
    BY <1>4 DEF SizesOf
  <2>2. Sent(p) = 0 /\ Replies(p) = 0
    <3>1. Owed(p) = Sent(p) + Replies(p)
      BY <1>4 DEF SizesOf
    <3> QED BY <1>5, <2>1, <3>1
  <2>3. Sent(p) = Out(p) + Wired(p) + Waiting(q)
    BY <1>4 DEF SizesOf
  <2> QED BY <2>1, <2>2, <2>3
<1>7. core[q].stalled
  BY <1>5 DEF Held
<1>8. link[q].pending = <<>>
  BY <1>1, <1>6 DEF Waiting, Typed
<1>9. \A j \in 1..Len(InFlight(p)) : InFlight(p)[j].cmd \notin {"SYNC1", "SYNC2"}
  <2>1. Len(InFlight(p)) \in Nat
    BY <1>4 DEF SizesOf, Size
  <2>2. /\ CountTo(InFlight(p), "SYNC1", Len(InFlight(p))) = 0
        /\ CountTo(InFlight(p), "SYNC2", Len(InFlight(p))) = 0
    BY <1>6 DEF Wired, Replies, CountOf
  <2> QED BY <2>1, <2>2, CountZero
<1> QED BY <1>5, <1>6, <1>7, <1>8, <1>9
-----------------------------------------------------------------------------
\* A byte that the port cannot take is buffered behind the ones before it.
Buffers(p) ==
  /\ inq[p] # <<>> /\ Head(inq[p]).cmd = "SYNC1"
  /\ inq' = [inq EXCEPT ![p] = Tail(inq[p])]
  /\ link' = [link EXCEPT ![p].pending =
                IF Len(@) < PendingCap THEN Append(@, Head(inq[p]).id) ELSE @]
  /\ UNCHANGED <<core, stream, wire>>
  /\ InPump(p) /\ pc'[Other(p)] = pc[Other(p)]
\* It keeps the flow: the byte is the same byte, one place nearer.
LEMMA BufferFlow ==
  ASSUME IInv, IInv', Flow, PendingCap >= 2, NEW p \in Peers, Buffers(p)
  PROVE  /\ Flow'
         /\ link'[p].pending = Append(link[p].pending, Head(inq[p]).id)
         /\ link'[Other(p)].pending = link[Other(p)].pending
         /\ InFlight(Other(p)) # <<>> /\ Head(InFlight(Other(p))) = Head(inq[p])
         /\ InFlight(Other(p))' = Tail(InFlight(Other(p))) /\ InFlight(p)' = InFlight(p)
         /\ Waiting(p)' = Waiting(p) + 1 /\ Waiting(Other(p))' = Waiting(Other(p))
         /\ Sent(p)' = Sent(p) /\ Sent(Other(p))' = Sent(Other(p)) /\ BothUp' = BothUp
         /\ Replies(p)' = Replies(p) /\ Replies(Other(p))' = Replies(Other(p))
<1> DEFINE q == Other(p)
           x == Head(inq[p])
<1>1. q \in Peers /\ q # p /\ Other(q) = p /\ Typed /\ Typed' /\ x.cmd = "SYNC1"
  BY TwoPeers, FlowTypes, FlowTypesNext DEF Buffers
<1>2. PeerFlow(p) /\ PeerFlow(q)
  BY <1>1 DEF Flow
<1>3. SizesOf(p) /\ SizesOf(q) /\ SizesOf(p)' /\ SizesOf(q)'
  BY <1>1, Sizes, SizesNext
<1>4. /\ core' = core /\ stream' = stream /\ link'[q] = link[q] /\ wire' = wire
      /\ link'[p].attached = link[p].attached
      /\ inq'[p] = Tail(inq[p]) /\ inq'[q] = inq[q]
  BY <1>1 DEF Buffers, IInv, LinkInv, GoodLink, QueueInv
<1>5. /\ InFlight(q) # <<>> /\ Head(InFlight(q)).cmd = "SYNC1" /\ Head(InFlight(q)) = x
      /\ InFlight(q)' = Tail(InFlight(q)) /\ InFlight(p)' = InFlight(p)
  BY <1>1, <1>4, TakeHead DEF Buffers, InFlight
<1>6. StreamsFall
  BY <1>4 DEF StreamsFall, BothIn, BothUp, Linked
<1>7. /\ Size(q)' = Size(q) - 1 /\ Wired(q)' = Wired(q) - 1 /\ Replies(q)' = Replies(q)
      /\ Size(p)' = Size(p) /\ Wired(p)' = Wired(p) /\ Replies(p)' = Replies(p)
  <2>1. Replies(q) \in Nat
    BY <1>3 DEF SizesOf
  <2>2. Size(q)' = Size(q) - 1 /\ Wired(q)' = Wired(q) - 1 /\ Replies(q)' = Replies(q) - 0
    BY <1>1, <1>4, TakeHead DEF Buffers
  <2> QED BY <1>5, <2>1, <2>2, FlightSame
<1>8. link'[p].pending = Append(link[p].pending, x.id)
  <2>1. Sent(q) <= 2
    BY <1>2 DEF PeerFlow, Balance
  <2>2. Waiting(p) <= 1
    BY <1>1, <1>3, <1>7, <2>1 DEF SizesOf
  <2>3. Waiting(p) < PendingCap
    BY <1>3, <2>2, BoundsAssumption DEF SizesOf
  <2> QED BY <2>3 DEF Buffers, IInv, LinkInv, GoodLink, Waiting
<1>a. /\ Waiting(p)' = Waiting(p) + 1 /\ Waiting(q)' = Waiting(q)
      /\ Out(p)' = Out(p) /\ Out(q)' = Out(q)
      /\ Held(p)' = Held(p) /\ Held(q)' = Held(q)
  <2>1. Waiting(p)' = Waiting(p) + 1
    BY <1>1, <1>8 DEF Typed, Waiting
  <2> QED BY <1>4, <2>1 DEF Out, Waiting, Held
<1>b. Sent(p)' = Sent(p) /\ Sent(q)' = Sent(q) /\ Owed(p)' = Owed(p) /\ Owed(q)' = Owed(q)
  BY <1>1, <1>3, <1>7, <1>a DEF SizesOf
<1>9. Port(p)' /\ Port(q)' /\ Sock(p)' /\ Sock(q)'
  BY <1>1, <1>2, <1>4, <1>8 DEF Buffers, PeerFlow, Port, Sock, InPump, Linked
<1>10. Reply(p)'
  BY <1>2, <1>4, <1>5 DEF PeerFlow, Reply
<1>11. Reply(q)'
  <2>1. Replying(Tail(InFlight(q)), core[p].stalled, link'[p].pending)
    BY <1>1, <1>2, <1>5, ReplyTail DEF PeerFlow, Reply, Typed
  <2> QED BY <1>1, <1>4, <1>5, <2>1 DEF Reply
<1>12. Short(p)' /\ Short(q)'
  BY <1>2, <1>3, <1>4, <1>6, <1>7 DEF PeerFlow, Short, SizesOf, StreamsFall
<1>13. Balance(p)' /\ (Sent(q) <= 2)'
  BY <1>1, <1>2, <1>6, <1>a, <1>b DEF PeerFlow, Balance, StreamsFall
<1>14. Flow'
  BY <1>1, <1>9, <1>10, <1>11, <1>12, <1>13, Assemble
<1>15. BothUp' = BothUp
  BY <1>4 DEF BothUp
<1> QED BY <1>4, <1>5, <1>7, <1>8, <1>a, <1>b, <1>14, <1>15
-----------------------------------------------------------------------------
\* What a step of the flow starts from.
LEMMA Ready ==
  ASSUME IInv, IInv', Flow, NEW p \in Peers
  PROVE  /\ Other(p) \in Peers /\ Other(p) # p /\ Other(Other(p)) = p
         /\ Typed /\ Typed' /\ PeerFlow(p) /\ PeerFlow(Other(p))
         /\ SizesOf(p) /\ SizesOf(Other(p)) /\ SizesOf(p)' /\ SizesOf(Other(p))'
<1>1. Other(p) \in Peers /\ Other(p) # p /\ Other(Other(p)) = p /\ Typed /\ Typed'
  BY TwoPeers, FlowTypes, FlowTypesNext
<1>2. PeerFlow(p) /\ PeerFlow(Other(p))
  BY <1>1 DEF Flow
<1> QED BY <1>1, <1>2, Sizes, SizesNext

\* A step that leaves the flow alone: of the game or of the pump's own place.
Quiet ==
  /\ UNCHANGED <<link, stream, inq, wire>>
  /\ \A r \in Peers :
       /\ core'[r].stalled = core[r].stalled /\ core'[r].on = core[r].on
       /\ core'[r].link_out = core[r].link_out
       /\ core[r].stalled => core'[r].sc = core[r].sc
       /\ InPump(r)' => InPump(r) \/ (link[r].attached /\ core[r].link_out = <<>>)

\* It keeps the flow.
LEMMA QuietFlow ==
  ASSUME IInv, IInv', Flow, Quiet
  PROVE  /\ Flow' /\ BothUp' = BothUp
         /\ \A r \in Peers : /\ InFlight(r)' = InFlight(r) /\ Sent(r)' = Sent(r)
                            /\ Replies(r)' = Replies(r) /\ Waiting(r)' = Waiting(r)
<1>1. PICK p \in Peers : TRUE
  BY PeersAssumption
<1> DEFINE q == Other(p)
<1>2. /\ q \in Peers /\ q # p /\ Other(q) = p /\ Typed /\ Typed' /\ PeerFlow(p) /\ PeerFlow(q)
      /\ SizesOf(p) /\ SizesOf(q) /\ SizesOf(p)' /\ SizesOf(q)'
  BY <1>1, Ready
<1>3. link' = link /\ stream' = stream /\ inq' = inq /\ wire' = wire
  BY DEF Quiet
<1>4. ASSUME NEW r \in Peers
      PROVE  /\ Size(r)' = Size(r) /\ Wired(r)' = Wired(r) /\ Replies(r)' = Replies(r)
             /\ Waiting(r)' = Waiting(r) /\ Out(r)' = Out(r) /\ Held(r)' = Held(r)
             /\ InFlight(r)' = InFlight(r)
  BY <1>3 DEF InFlight, Size, Wired, Replies, Waiting, Out, Held, Quiet
<1>5. Sent(p)' = Sent(p) /\ Sent(q)' = Sent(q) /\ Owed(p)' = Owed(p) /\ Owed(q)' = Owed(q)
  BY <1>1, <1>2, <1>4 DEF Sent, Owed
<1>6. StreamsFall
  BY <1>3 DEF StreamsFall, BothIn, BothUp, Linked
<1>7. Port(p)' /\ Port(q)' /\ Sock(p)' /\ Sock(q)'
  <2>1. ASSUME NEW r \in Peers, Port(r), Sock(r) PROVE Port(r)' /\ Sock(r)'
    <3>1. /\ InPump(r)' => InPump(r) \/ (link[r].attached /\ core[r].link_out = <<>>)
          /\ Linked(r)' = Linked(r)
      BY <1>3 DEF Quiet, Linked
    <3>2. /\ core'[r].stalled = core[r].stalled /\ core'[r].on = core[r].on
          /\ core'[r].link_out = core[r].link_out
          /\ core[r].stalled => core'[r].sc = core[r].sc
      BY DEF Quiet
    <3> QED BY <1>3, <2>1, <3>1, <3>2 DEF Port, Sock
  <2> QED BY <1>2, <2>1 DEF PeerFlow
<1>8. Reply(p)' /\ Reply(q)'
  BY <1>2, <1>3, <1>4 DEF PeerFlow, Reply, Quiet
<1>9. Short(p)' /\ Short(q)'
  BY <1>2, <1>3, <1>4, <1>6 DEF PeerFlow, Short, SizesOf, StreamsFall
<1>10. Balance(p)' /\ (Sent(q) <= 2)'
  BY <1>2, <1>4, <1>5, <1>6 DEF PeerFlow, Balance, StreamsFall
<1>11. Flow'
  BY <1>2, <1>7, <1>8, <1>9, <1>10, Assemble
<1>12. BothUp' = BothUp
  BY <1>3 DEF BothUp
<1>13. \A r \in Peers : Sent(r)' = Sent(r)
  BY <1>1, <1>5, TwoPeers
<1> QED BY <1>4, <1>11, <1>12, <1>13

\* A master transfer of a port that knows its peer ends: the byte goes out.
Stalls(p) ==
  /\ pc[p] = "run" /\ core[p].sc = "internal" /\ ~core[p].stalled /\ core[p].on
  /\ UNCHANGED <<link, stream, inq, wire>>
  /\ pc' = [pc EXCEPT ![p] = "step"]
  /\ \A r \in Peers : r # p => core'[r] = core[r]
  /\ core'[p].stalled /\ core'[p].on /\ core'[p].sc = "internal"
  /\ core'[p].link_out = Append(core[p].link_out, xfer'[p])

\* It adds a hold and a byte.
LEMMA StallFlow ==
  ASSUME IInv, IInv', Flow, NEW p \in Peers, Stalls(p)
  PROVE  /\ Flow' /\ BothUp' = BothUp /\ link' = link
         /\ InFlight(p)' = InFlight(p) /\ InFlight(Other(p))' = InFlight(Other(p))
         /\ Sent(p)' = Sent(p) + 1 /\ Sent(Other(p))' = Sent(Other(p))
         /\ Replies(p)' = Replies(p) /\ Replies(Other(p))' = Replies(Other(p))
         /\ core'[p].link_out[1] = xfer'[p] /\ core'[Other(p)] = core[Other(p)]
<1> DEFINE q == Other(p)
<1>2. /\ q \in Peers /\ q # p /\ Other(q) = p /\ Typed /\ Typed' /\ PeerFlow(p) /\ PeerFlow(q)
      /\ SizesOf(p) /\ SizesOf(q) /\ SizesOf(p)' /\ SizesOf(q)'
  BY Ready
<1>3. /\ link' = link /\ stream' = stream /\ inq' = inq /\ wire' = wire
      /\ core'[q] = core[q] /\ pc'[q] = pc[q] /\ pc'[p] = "step"
  BY <1>2 DEF Stalls, IInv, PlaceInv
<1>4. InFlight(p)' = InFlight(p) /\ InFlight(q)' = InFlight(q)
  BY <1>3 DEF InFlight
<1>5. /\ Size(p)' = Size(p) /\ Wired(p)' = Wired(p) /\ Replies(p)' = Replies(p)
      /\ Size(q)' = Size(q) /\ Wired(q)' = Wired(q) /\ Replies(q)' = Replies(q)
  BY <1>2, <1>4, FlightSame
<1>6. /\ core[p].link_out = <<>> /\ Len(core'[p].link_out) = 1
      /\ core'[p].link_out[1] = xfer'[p]
  <2>1. core[p].link_out = <<>>
    BY <1>2 DEF Stalls, PeerFlow, Port
  <2>2. core'[p].link_out = Append(core[p].link_out, xfer'[p])
    BY DEF Stalls
  <2> QED BY <2>1, <2>2
<1>7. /\ Out(p) = 0 /\ Out(p)' = 1 /\ Out(q)' = Out(q)
      /\ Waiting(p)' = Waiting(p) /\ Waiting(q)' = Waiting(q)
      /\ Held(p) = 0 /\ Held(p)' = 1 /\ Held(q)' = Held(q)
  BY <1>3, <1>6 DEF Out, Waiting, Held, Stalls
<1>8. /\ Sent(p)' = Sent(p) + 1 /\ Sent(q)' = Sent(q)
      /\ Owed(p)' = Owed(p) + 1 /\ Owed(q)' = Owed(q)
  BY <1>2, <1>5, <1>7 DEF SizesOf
<1>9. Sent(p) <= 1
  <2>1. Linked(p)
    BY <1>2 DEF Stalls, PeerFlow, Port, Sock
  <2>2. CASE Linked(q)
    <3>1. BothIn
      BY <2>1, <2>2, TwoPeers DEF BothIn
    <3>2. Owed(p) + Owed(q) <= Held(p) + Held(q)
      BY <1>2, <3>1 DEF PeerFlow, Balance
    <3> QED BY <1>2, <1>7, <3>2 DEF SizesOf
  <2>3. CASE ~Linked(q)
    <3>1. Wired(p) = 0 /\ Waiting(q) = 0
      BY <2>3, Lonely
    <3> QED BY <1>2, <1>7, <3>1 DEF SizesOf
  <2> QED BY <2>2, <2>3
<1>10. StreamsFall
  BY <1>3 DEF StreamsFall, BothIn, BothUp, Linked
<1>11. Port(p)' /\ Port(q)' /\ Sock(p)' /\ Sock(q)'
  <2>1. ~InPump(p)' /\ InPump(q)' = InPump(q) /\ Linked(p)' = Linked(p) /\ Linked(q)' = Linked(q)
    BY <1>3 DEF InPump, Linked
  <2> QED BY <1>2, <1>3, <1>6, <2>1 DEF Stalls, PeerFlow, Port, Sock
<1>12. Reply(p)' /\ Reply(q)'
  <2>1. Replying(InFlight(q), TRUE, link[p].pending)
    BY <1>2, ReplyMono DEF PeerFlow, Reply
  <2>2. core'[p].stalled = TRUE
    BY <1>2 DEF Stalls, Typed
  <2> QED BY <1>2, <1>3, <1>4, <2>1, <2>2 DEF PeerFlow, Reply
<1>13. Short(p)' /\ Short(q)'
  BY <1>2, <1>3, <1>5, <1>10 DEF PeerFlow, Short, SizesOf, StreamsFall
<1>14. Balance(p)' /\ (Sent(q) <= 2)'
  <2>1. (Sent(p) <= 2)' /\ (Sent(q) <= 2)'
    BY <1>2, <1>8, <1>9 DEF PeerFlow, Balance, SizesOf
  <2>2. /\ Owed(p)' + Owed(q)' + Held(p) + Held(q) = Owed(p) + Owed(q) + Held(p)' + Held(q)'
    BY <1>2, <1>7, <1>8 DEF SizesOf
  <2> QED BY <1>2, <1>10, <2>1, <2>2, BalanceStep DEF PeerFlow, SizesOf
<1>15. Flow'
  BY <1>2, <1>11, <1>12, <1>13, <1>14, Assemble
<1>16. BothUp' = BothUp
  BY <1>3 DEF BothUp
<1> QED BY <1>3, <1>4, <1>5, <1>6, <1>8, <1>15, <1>16
-----------------------------------------------------------------------------
\* The pump ships its version on the first round, or the byte of a held master.
Posts(p, x) ==
  /\ x \in Packet /\ stream[p] = "up" /\ Emit(p, <<x>>) /\ UNCHANGED <<stream, inq>>
  /\ \A r \in Peers : r # p => /\ core'[r] = core[r] /\ link'[r] = link[r]
                               /\ pc'[r] = pc[r]
  /\ core'[p].on /\ core'[p].link_out = <<>>
  /\ core'[p].stalled = core[p].stalled /\ core'[p].sc = core[p].sc
  /\ link'[p].attached = TRUE /\ link'[p].pending = link[p].pending
  /\ \/ x.cmd = "VERSION" /\ ~link[p].attached /\ core[p].link_out = <<>>
     \/ x.cmd = "SYNC1" /\ link[p].attached /\ Len(core[p].link_out) = 1

\* Neither is a reply, and both find room on the way.
LEMMA PostFlow ==
  ASSUME IInv, IInv', Flow, NEW p \in Peers, NEW x, Posts(p, x)
  PROVE  /\ Flow' /\ BothUp' = BothUp
         /\ InFlight(p)' = IF BothUp THEN Append(InFlight(p), x) ELSE InFlight(p)
         /\ InFlight(Other(p))' = InFlight(Other(p))
         /\ Sent(Other(p))' = Sent(Other(p)) /\ Sent(p)' <= Sent(p)
         /\ BothUp => Sent(p)' = Sent(p)
         /\ Replies(p)' = Replies(p) /\ Replies(Other(p))' = Replies(Other(p))
<1> DEFINE q == Other(p)
<1>1. /\ q \in Peers /\ q # p /\ Other(q) = p /\ Typed /\ Typed' /\ PeerFlow(p) /\ PeerFlow(q)
      /\ SizesOf(p) /\ SizesOf(q) /\ SizesOf(p)' /\ SizesOf(q)'
  BY Ready
<1>2. /\ stream' = stream /\ inq' = inq /\ core'[q] = core[q] /\ link'[q] = link[q]
      /\ pc'[q] = pc[q] /\ x \in Packet
  BY <1>1 DEF Posts
<1>3. wire \in [Peers -> Seq(Packet)]
  BY DEF IInv, QueueInv
<1>4. /\ wire'[p] = wire[p] /\ (~BothUp => wire' = wire)
      /\ InFlight(p)' = IF BothUp THEN Append(InFlight(p), x) ELSE InFlight(p)
  BY <1>1, <1>2, <1>3, SendOne DEF Posts
<1>5. /\ Size(p)' = Size(p) + (IF BothUp THEN 1 ELSE 0)
      /\ Wired(p)' = Wired(p) + (IF BothUp /\ x.cmd = "SYNC1" THEN 1 ELSE 0)
      /\ Replies(p)' = Replies(p) + (IF BothUp /\ x.cmd = "SYNC2" THEN 1 ELSE 0)
  BY <1>1, <1>2, <1>3, SendOne DEF Posts
<1>6. InFlight(q)' = InFlight(q)
  BY <1>1, <1>2, <1>4 DEF InFlight
<1>7. Size(q)' = Size(q) /\ Wired(q)' = Wired(q) /\ Replies(q)' = Replies(q)
  BY <1>1, <1>6, FlightSame
<1>8. /\ Waiting(p)' = Waiting(p) /\ Waiting(q)' = Waiting(q) /\ Out(q)' = Out(q)
      /\ Held(p)' = Held(p) /\ Held(q)' = Held(q) /\ Out(p)' = 0
      /\ Out(p) = IF x.cmd = "SYNC1" THEN 1 ELSE 0
  BY <1>2 DEF Waiting, Out, Held, Posts
<1>9. StreamsFall
  BY <1>2 DEF StreamsFall, BothIn, BothUp, Linked
<1>10. BothUp' = BothUp /\ BothIn' = BothIn /\ (BothUp => BothIn)
  BY <1>2 DEF BothUp, BothIn, Linked
<1>11. x.cmd \in {"VERSION", "SYNC1"} /\ (x.cmd = "VERSION" <=> ~link[p].attached)
       /\ link'[p].attached = TRUE
  BY DEF Posts
<1>12. Port(p)' /\ Port(q)' /\ Sock(p)' /\ Sock(q)'
  <2>1. Port(p)' /\ Port(q)'
    <3>1. InPump(q)' = InPump(q)
      BY <1>2 DEF InPump
    <3>2. core'[p].on = TRUE
      BY <1>1, CoreFields DEF Posts, IInv, CoreInv
    <3> QED BY <1>1, <1>2, <3>1, <3>2 DEF Posts, PeerFlow, Port
  <2>2. Sock(p)'
    BY <1>1, <1>2, <1>4 DEF Posts, PeerFlow, Sock, Linked
  <2>3. Sock(q)'
    <3>1. InPump(q)' = InPump(q) /\ (stream[q] # "up" => wire'[q] = wire[q])
      BY <1>1, <1>2, <1>4 DEF InPump, BothUp
    <3> QED BY <1>1, <1>2, <3>1 DEF PeerFlow, Sock, Linked
  <2> QED BY <2>1, <2>2, <2>3
<1>13. Reply(p)' /\ Reply(q)'
  <2>1. Reply(q)'
    BY <1>1, <1>6 DEF Posts, PeerFlow, Reply
  <2>2. Replying(Append(InFlight(p), x), core[q].stalled, link[q].pending)
    BY <1>1, <1>2, <1>11, ReplyAppend DEF PeerFlow, Reply, Typed
  <2> QED BY <1>1, <1>2, <1>4, <2>1, <2>2 DEF PeerFlow, Reply
<1>14. /\ Sent(q)' = Sent(q) /\ Owed(q)' = Owed(q) /\ Sent(p)' <= Sent(p)
       /\ Owed(p)' <= Owed(p)
       /\ BothUp => Sent(p)' = Sent(p) /\ Owed(p)' = Owed(p)
  BY <1>1, <1>5, <1>7, <1>8, <1>11 DEF SizesOf
<1>15. Balance(p)' /\ (Sent(q) <= 2)'
  <2>1. (Sent(p) <= 2)' /\ (Sent(q) <= 2)'
    BY <1>1, <1>14 DEF PeerFlow, Balance, SizesOf
  <2>2. /\ Owed(p)' + Owed(q)' + Held(p) + Held(q) <= Owed(p) + Owed(q) + Held(p)' + Held(q)'
        /\ BothUp => Owed(p)' + Owed(q)' + Held(p) + Held(q)
                       = Owed(p) + Owed(q) + Held(p)' + Held(q)'
    BY <1>1, <1>8, <1>14 DEF SizesOf
  <2> QED BY <1>1, <1>9, <2>1, <2>2, BalanceStep DEF PeerFlow
<1>16. Short(p)' /\ Short(q)'
  <2>0. Short(p) /\ Short(q)
    BY <1>1 DEF PeerFlow
  <2>1. Short(q)'
    BY <2>0, <1>2, <1>7, <1>10 DEF Short
  <2>2. CASE ~BothUp
    <3>1. Size(p)' = Size(p)
      BY <1>1, <1>5, <2>2 DEF SizesOf
    <3> QED BY <2>0, <2>1, <2>2, <3>1, <1>10 DEF Short
  <2>3. CASE BothUp
    <3>1. Size(p) <= Wired(p) + Replies(p) + (IF link[p].attached THEN 1 ELSE 0)
      BY <1>1, <2>3 DEF PeerFlow, Short
    <3>2. Size(p)' <= Wired(p)' + Replies(p)' + 1
      BY <1>1, <1>5, <1>11, <2>3, <3>1 DEF SizesOf
    <3>3. Owed(p)' + Owed(q)' <= 2
      BY <1>1, <1>8, <1>10, <1>15, <2>3 DEF Balance, SizesOf
    <3>4. Wired(p)' + Replies(p)' <= Owed(p)' /\ Owed(p)' <= 2
      BY <1>1, <3>3 DEF SizesOf
    <3>5. Size(p)' <= 3
      BY <1>1, <3>2, <3>4 DEF SizesOf
    <3>6. Size(p)' <= 4
      BY <1>1, <3>5 DEF SizesOf
    <3> QED BY <1>11, <2>1, <3>2, <3>5, <3>6 DEF Short
  <2> QED BY <2>1, <2>2, <2>3
<1>17. Flow'
  BY <1>1, <1>12, <1>13, <1>15, <1>16, Assemble
<1>18. Replies(p)' = Replies(p)
  BY <1>1, <1>5, <1>11 DEF SizesOf
<1> QED BY <1>4, <1>6, <1>7, <1>10, <1>14, <1>17, <1>18
-----------------------------------------------------------------------------
\* What the sockets do: no port and no link changes, and what is on its way is moved
\* nearer, or cut where one of the two streams is not up.
Cuts ==
  /\ core' = core
  /\ \A r \in Peers :
       /\ link'[r].attached = link[r].attached /\ link'[r].pending = link[r].pending
       /\ InPump(r)' = InPump(r) /\ Linked(r)' = Linked(r)
       /\ ~Linked(r) => inq'[r] = <<>>
       /\ stream'[r] # "up" => wire'[r] = <<>>
       /\ stream[r] = "none" /\ InPump(r) => stream'[r] = "none"
       /\ \E k \in 0..Size(r) : InFlight(r)' = SubSeq(InFlight(r), 1, k)
  /\ BothUp' => BothUp /\ \A r \in Peers : InFlight(r)' = InFlight(r)

\* They keep the flow.
LEMMA CutFlow ==
  ASSUME IInv, IInv', Flow, Cuts
  PROVE  /\ Flow'
         /\ \A r \in Peers : /\ Sent(r)' <= Sent(r) /\ (BothUp' => Sent(r)' = Sent(r))
                            /\ Replies(r)' <= Replies(r)
<1>1. PICK p \in Peers : TRUE
  BY PeersAssumption
<1> DEFINE q == Other(p)
<1>2. /\ q \in Peers /\ q # p /\ Other(q) = p /\ Typed /\ Typed' /\ PeerFlow(p) /\ PeerFlow(q)
      /\ SizesOf(p) /\ SizesOf(q) /\ SizesOf(p)' /\ SizesOf(q)'
  BY <1>1, Ready
<1>3. ASSUME NEW r \in Peers
      PROVE  /\ Waiting(r)' = Waiting(r) /\ Out(r)' = Out(r) /\ Held(r)' = Held(r)
             /\ Linked(r)' = Linked(r)
  BY DEF Waiting, Out, Held, Cuts
<1>4. StreamsFall
  BY <1>3 DEF StreamsFall, BothIn, Cuts
<1>5. ASSUME NEW r \in Peers
      PROVE  /\ Size(r)' <= Size(r) /\ Wired(r)' <= Wired(r) /\ Replies(r)' <= Replies(r)
             /\ BothUp' => /\ Size(r)' = Size(r) /\ Wired(r)' = Wired(r)
                           /\ Replies(r)' = Replies(r)
  <2>1. PICK k \in 0..Size(r) : InFlight(r)' = SubSeq(InFlight(r), 1, k)
    BY DEF Cuts
  <2>2. Size(r)' <= Size(r) /\ Wired(r)' <= Wired(r) /\ Replies(r)' <= Replies(r)
    BY <1>2, <2>1, FlightCut
  <2>3. BothUp' => InFlight(r)' = InFlight(r)
    BY DEF Cuts
  <2> QED BY <2>2, <2>3, FlightSame
<1>6. /\ Sent(p)' <= Sent(p) /\ Sent(q)' <= Sent(q) /\ Owed(p)' <= Owed(p) /\ Owed(q)' <= Owed(q)
      /\ BothUp' => Owed(p)' = Owed(p) /\ Owed(q)' = Owed(q)
      /\ BothUp' => Sent(p)' = Sent(p) /\ Sent(q)' = Sent(q)
  <2>1. /\ Wired(p)' <= Wired(p) /\ Replies(p)' <= Replies(p)
        /\ Wired(q)' <= Wired(q) /\ Replies(q)' <= Replies(q)
        /\ Out(p)' = Out(p) /\ Out(q)' = Out(q)
        /\ Waiting(p)' = Waiting(p) /\ Waiting(q)' = Waiting(q)
        /\ BothUp' => Wired(p)' = Wired(p) /\ Replies(p)' = Replies(p)
        /\ BothUp' => Wired(q)' = Wired(q) /\ Replies(q)' = Replies(q)
    BY <1>1, <1>2, <1>3, <1>5
  <2> QED BY <1>2, <2>1 DEF SizesOf
<1>7. Port(p)' /\ Port(q)' /\ Sock(p)' /\ Sock(q)'
  <2>1. ASSUME NEW r \in Peers, Port(r), Sock(r) PROVE Port(r)' /\ Sock(r)'
    <3>1. /\ core'[r] = core[r]
          /\ link'[r].attached = link[r].attached /\ link'[r].pending = link[r].pending
          /\ InPump(r)' = InPump(r) /\ Linked(r)' = Linked(r)
          /\ ~Linked(r) => inq'[r] = <<>>
          /\ stream'[r] # "up" => wire'[r] = <<>>
          /\ stream[r] = "none" /\ InPump(r) => stream'[r] = "none"
      BY DEF Cuts
    <3> QED BY <2>1, <3>1 DEF Port, Sock
  <2> QED BY <1>2, <2>1 DEF PeerFlow
<1>8. ASSUME NEW r \in Peers PROVE Reply(r)'
  <2>1. PICK k \in 0..Size(r) : InFlight(r)' = SubSeq(InFlight(r), 1, k)
    BY DEF Cuts
  <2>2. /\ Other(r) \in Peers /\ k \in 0..Len(InFlight(r)) /\ InFlight(r) \in Seq(Packet)
        /\ Reply(r)
    BY <1>2, TwoPeers DEF Size, Typed, Flow, PeerFlow
  <2>3. Replying(SubSeq(InFlight(r), 1, k), core[Other(r)].stalled, link[Other(r)].pending)
    BY <2>2, ReplyCut DEF Reply
  <2>4. core' = core /\ link'[Other(r)].pending = link[Other(r)].pending
    BY <2>2 DEF Cuts
  <2> QED BY <2>1, <2>3, <2>4 DEF Reply
<1>9. Short(p)' /\ Short(q)'
  <2>1. ASSUME NEW r \in Peers, Short(r), SizesOf(r), SizesOf(r)' PROVE Short(r)'
    <3>1. /\ Size(r)' <= Size(r) /\ Size(r) \in Nat /\ Size(r)' \in Nat
          /\ BothUp' => /\ Size(r)' = Size(r) /\ Wired(r)' = Wired(r)
                        /\ Replies(r)' = Replies(r)
      BY <1>5, <2>1 DEF SizesOf
    <3>2. (BothIn' => BothIn) /\ (BothUp' => BothUp) /\ link'[r].attached = link[r].attached
      BY <1>4 DEF StreamsFall, Cuts
    <3>3. (Size(r) <= 4)' /\ (BothIn => Size(r) <= 3)'
      BY <2>1, <3>1, <3>2 DEF Short
    <3> QED BY <2>1, <3>1, <3>2, <3>3 DEF Short
  <2> QED BY <1>1, <1>2, <2>1 DEF PeerFlow
<1>10. Balance(p)' /\ (Sent(q) <= 2)'
  <2>1. (Sent(p) <= 2)' /\ (Sent(q) <= 2)'
    BY <1>2, <1>6 DEF PeerFlow, Balance, SizesOf
  <2>2. /\ Owed(p)' + Owed(q)' <= Owed(p) + Owed(q)
        /\ BothUp' => Owed(p)' + Owed(q)' = Owed(p) + Owed(q)
        /\ Held(p)' = Held(p) /\ Held(q)' = Held(q)
    BY <1>1, <1>2, <1>3, <1>6 DEF SizesOf
  <2>3. /\ Owed(p)' + Owed(q)' \in Nat /\ Owed(p) + Owed(q) \in Nat
        /\ Held(p) + Held(q) \in Nat
    BY <1>2 DEF SizesOf
  <2>4. Balance(p)
    BY <1>2 DEF PeerFlow
  <2> QED BY <1>4, <2>1, <2>2, <2>3, <2>4 DEF Balance, StreamsFall
<1>11. Flow'
  BY <1>1, <1>2, <1>7, <1>8, <1>9, <1>10, Assemble
<1>12. \A r \in Peers : r = p \/ r = q
  BY <1>1, TwoPeers
<1> QED BY <1>5, <1>6, <1>11, <1>12

\* Either side leaves: its port, link and queues are empty, and what was on its way to
\* the other, the notice queued last included, may be cut.
Drops(p) ==
  /\ \A r \in Peers : r # p => /\ core'[r] = core[r] /\ link'[r] = link[r]
                               /\ stream'[r] = stream[r] /\ inq'[r] = inq[r]
                               /\ pc'[r] = pc[r]
  /\ core'[p] = detached(core[p]) /\ link'[p] = FreshLink /\ stream'[p] = "none"
  /\ inq'[p] = <<>> /\ wire'[p] = <<>>
  /\ stream[Other(p)] # "up" => wire'[Other(p)] = <<>>
  /\ stream[Other(p)] = "up" =>
       \E n \in 0..Len(InFlight(p)) :
         \/ InFlight(p)' = SubSeq(InFlight(p), 1, n)
         \/ /\ BothUp
            /\ InFlight(p)' = Append(InFlight(p), Pkt("DISCONNECT", 0))

\* What a disconnect does, in those terms.
LEMMA DisconnectDrops ==
  ASSUME IInv, NEW p \in Peers, Disconnect(p), pc'[Other(p)] = pc[Other(p)]
  PROVE  Drops(p)
<1> DEFINE q == Other(p)
           d == Pkt("DISCONNECT", 0)
           queued == IF link[p].attached /\ is_connected(p) THEN Append(wire[q], d) ELSE wire[q]
<1>1. q \in Peers /\ q # p /\ \A r \in Peers : r = p \/ r = q
  BY TwoPeers
<1>2. /\ core' = [core EXCEPT ![p] = detached(core[p])]
      /\ link' = [link EXCEPT ![p] = FreshLink]
      /\ stream' = [stream EXCEPT ![p] = "none"]
      /\ inq' = [inq EXCEPT ![p] = <<>>]
  BY DEF Disconnect
<1>3. /\ core \in [Peers -> GoodCore] /\ link \in [Peers -> GoodLink]
      /\ stream \in [Peers -> Streams]
      /\ inq \in [Peers -> GoodQueue] /\ wire \in [Peers -> Seq(Packet)]
  BY DEF IInv, CoreInv, LinkInv, StreamInv, QueueInv
<1>4. PICK n \in 0..Len(queued) :
        wire' = [wire EXCEPT ![q] = IF stream[q] = "up" THEN SubSeq(queued, 1, n) ELSE <<>>,
                             ![p] = <<>>]
  BY DEF Disconnect
<1> HIDE DEF queued
<1>5. /\ wire'[q] = IF stream[q] = "up" THEN SubSeq(queued, 1, n) ELSE <<>>
      /\ wire'[p] = <<>>
  BY <1>1, <1>3, <1>4
<1>6. ASSUME stream[q] = "up"
      PROVE  \E k \in 0..Len(InFlight(p)) :
               \/ InFlight(p)' = SubSeq(InFlight(p), 1, k)
               \/ BothUp /\ InFlight(p)' = Append(InFlight(p), d)
  <2> DEFINE a == inq[q]
             b == wire[q]
  <2>1. a \in Seq(Packet) /\ b \in Seq(Packet) /\ d \in Packet
    BY <1>1, <1>3, PacketType DEF GoodQueue
  <2>2. InFlight(p) = a \o b /\ InFlight(p)' = a \o SubSeq(queued, 1, n)
    BY <1>1, <1>2, <1>3, <1>5, <1>6 DEF InFlight
  <2>3. CASE n \in 0..Len(b) /\ SubSeq(queued, 1, n) = SubSeq(b, 1, n)
    <3> HIDE DEF a, b
    <3>1. /\ Len(a) + n \in 0..Len(a \o b)
          /\ a \o SubSeq(b, 1, n) = SubSeq(a \o b, 1, Len(a) + n)
      BY <2>1, <2>3, CutConcat
    <3> QED BY <2>2, <2>3, <3>1
  <2>4. CASE /\ link[p].attached /\ is_connected(p)
             /\ SubSeq(queued, 1, n) = Append(b, d)
    <3>1. BothUp
      BY <1>1, <1>6, <2>4 DEF BothUp, is_connected
    <3>2. a \o Append(b, d) = Append(a \o b, d)
      BY <2>1, AppendConcat
    <3>3. 0 \in 0..Len(InFlight(p))
      <4>1. InFlight(p) \in Seq(Packet)
        BY <2>1, <2>2, ConcatProperties
      <4> QED BY <4>1, LenProperties
    <3> QED BY <2>2, <2>4, <3>1, <3>2, <3>3
  <2>5. CASE link[p].attached /\ is_connected(p)
    <3>1. queued = Append(b, d)
      BY <2>5 DEF queued
    <3> HIDE DEF b
    <3>2. /\ Len(b) \in Nat /\ Len(Append(b, d)) = Len(b) + 1
          /\ \A i \in 1..Len(b) : Append(b, d)[i] = b[i]
          /\ Append(b, d) \in Seq(Packet)
      BY <2>1, LenProperties, AppendProperties
    <3> DEFINE e == Append(b, d)
    <3> HIDE DEF e
    <3>3. n \in 0..Len(b) \/ n = Len(e)
      BY <3>1, <3>2 DEF e
    <3>4. CASE n = Len(e)
      <4>1. SubSeq(e, 1, Len(e)) = e
        BY <3>2 DEF e
      <4> QED BY <2>4, <2>5, <3>1, <3>4, <4>1 DEF e
    <3>5. CASE n \in 0..Len(b)
      <4>1. /\ n \in Nat /\ SubSeq(e, 1, n) \in Seq(Packet) /\ SubSeq(b, 1, n) \in Seq(Packet)
            /\ Len(SubSeq(e, 1, n)) = n /\ Len(SubSeq(b, 1, n)) = n
            /\ \A i \in 1..n : SubSeq(e, 1, n)[i] = e[i] /\ SubSeq(b, 1, n)[i] = b[i]
        BY <2>1, <3>2, <3>5 DEF e
      <4>2. \A i \in 1..n : e[i] = b[i]
        BY <3>2, <3>5 DEF e
      <4>3. SubSeq(e, 1, n) = SubSeq(b, 1, n)
        BY <4>1, <4>2, SeqEqual
      <4> QED BY <2>3, <3>1, <3>5, <4>3 DEF e
    <3> QED BY <3>3, <3>4, <3>5
  <2>6. CASE ~(link[p].attached /\ is_connected(p))
    BY <1>4, <2>3, <2>6 DEF queued
  <2> QED BY <2>5, <2>6
<1> QED BY <1>1, <1>2, <1>3, <1>5, <1>6 DEF Drops
-----------------------------------------------------------------------------
\* What is left of the flow is on its way to the other side.
LEMMA DropFlow ==
  ASSUME IInv, IInv', Flow, NEW p \in Peers, Drops(p)
  PROVE  /\ Flow' /\ ~BothUp' /\ InFlight(Other(p))' = <<>>
         /\ Sent(p)' <= Sent(p) /\ Sent(Other(p))' <= Sent(Other(p))
         /\ Replies(p)' <= Replies(p) /\ Replies(Other(p))' = 0
         /\ link'[p].pending = <<>> /\ link'[Other(p)] = link[Other(p)]
         /\ core'[p].link_out = <<>> /\ core'[Other(p)] = core[Other(p)]
         /\ \E k \in 0..Size(p) :
              \/ InFlight(p)' = SubSeq(InFlight(p), 1, k)
              \/ BothUp /\ InFlight(p)' = Append(InFlight(p), Pkt("DISCONNECT", 0))
<1> DEFINE q == Other(p)
           d == Pkt("DISCONNECT", 0)
<1>1. /\ q \in Peers /\ q # p /\ Other(q) = p /\ Typed /\ Typed' /\ PeerFlow(p) /\ PeerFlow(q)
      /\ SizesOf(p) /\ SizesOf(q) /\ SizesOf(p)' /\ SizesOf(q)'
  BY Ready
<1>2. /\ core'[q] = core[q] /\ link'[q] = link[q] /\ stream'[q] = stream[q]
      /\ inq'[q] = inq[q] /\ pc'[q] = pc[q]
      /\ core'[p] = detached(core[p]) /\ link'[p] = FreshLink /\ stream'[p] = "none"
      /\ inq'[p] = <<>> /\ wire'[p] = <<>>
      /\ stream[q] # "up" => wire'[q] = <<>>
  BY <1>1 DEF Drops
<1>3. ~Linked(p)' /\ ~BothIn' /\ ~BothUp'
  BY <1>2 DEF Linked, BothIn, BothUp
<1>4. InFlight(q)' = <<>>
  BY <1>1, <1>2 DEF InFlight
<1>5. Size(q)' = 0 /\ Wired(q)' = 0 /\ Replies(q)' = 0
  BY <1>1, <1>4, FlightEmpty
<1>6. \E k \in 0..Size(p) :
        \/ InFlight(p)' = SubSeq(InFlight(p), 1, k)
        \/ BothUp /\ InFlight(p)' = Append(InFlight(p), d)
  <2>1. CASE stream[q] = "up"
    BY <1>1, <2>1 DEF Drops, Size
  <2>2. CASE stream[q] # "up"
    <3>1. wire[q] = <<>> /\ wire'[q] = <<>>
      BY <1>1, <1>2, <2>2 DEF PeerFlow, Sock
    <3>2. InFlight(p)' = InFlight(p) /\ InFlight(p) \in Seq(Packet)
      BY <1>1, <1>2, <3>1 DEF InFlight, Typed
    <3> DEFINE s == InFlight(p)
    <3>3. Len(s) \in 0..Size(p) /\ SubSeq(s, 1, Len(s)) = s
      <4>1. s \in Seq(Packet) /\ Size(p) = Len(s)
        BY <3>2 DEF Size
      <4> HIDE DEF s
      <4> QED BY <4>1, LenProperties
    <3> QED BY <3>2, <3>3
  <2> QED BY <2>1, <2>2
<1>7. d \in Packet /\ d.cmd = "DISCONNECT" /\ InFlight(p) \in Seq(Packet)
  BY <1>1, PacketType DEF Pkt, Typed
<1>8. /\ Size(p)' <= 4 /\ Wired(p)' <= Wired(p) /\ Replies(p)' <= Replies(p)
      /\ Replying(InFlight(p)', core[q].stalled, link[q].pending)
  <2>1. PICK k \in 0..Size(p) :
          \/ InFlight(p)' = SubSeq(InFlight(p), 1, k)
          \/ BothUp /\ InFlight(p)' = Append(InFlight(p), d)
    BY <1>6
  <2>2. Replying(InFlight(p), core[q].stalled, link[q].pending)
    BY <1>1 DEF PeerFlow, Reply
  <2>3. CASE InFlight(p)' = SubSeq(InFlight(p), 1, k)
    <3>1. Size(p)' <= Size(p) /\ Wired(p)' <= Wired(p) /\ Replies(p)' <= Replies(p)
      BY <1>1, <2>3, FlightCut
    <3>2. Size(p)' <= 4
      BY <1>1, <3>1 DEF PeerFlow, Short, SizesOf
    <3>3. Replying(SubSeq(InFlight(p), 1, k), core[q].stalled, link[q].pending)
      BY <1>7, <2>2, ReplyCut DEF Size
    <3> QED BY <2>3, <3>1, <3>2, <3>3
  <2>4. CASE BothUp /\ InFlight(p)' = Append(InFlight(p), d)
    <3>1. BothIn
      BY <2>4 DEF BothUp, BothIn, Linked
    <3>2. Size(p) <= 3
      BY <1>1, <3>1 DEF PeerFlow, Short
    <3> DEFINE s == InFlight(p)
    <3>3. /\ Len(Append(s, d)) = Len(s) + 1
          /\ CountOf(Append(s, d), "SYNC1") = CountOf(s, "SYNC1")
          /\ CountOf(Append(s, d), "SYNC2") = CountOf(s, "SYNC2")
      <4>1. s \in Seq(Packet)
        BY <1>7
      <4> HIDE DEF s, d
      <4>2. ASSUME NEW c
            PROVE  CountOf(Append(s, d), c) = CountOf(s, c) + (IF d.cmd = c THEN 1 ELSE 0)
        BY <1>7, <4>1, CountAppend
      <4>3. CountOf(s, "SYNC1") \in Nat /\ CountOf(s, "SYNC2") \in Nat
        BY <4>1, CountOfType
      <4> QED BY <1>7, <4>1, <4>2, <4>3, AppendProperties
    <3>4. Size(p)' = Size(p) + 1 /\ Wired(p)' = Wired(p) /\ Replies(p)' = Replies(p)
      BY <2>4, <3>3 DEF Size, Wired, Replies
    <3>5. Size(p)' <= 4 /\ Wired(p)' <= Wired(p) /\ Replies(p)' <= Replies(p)
      BY <1>1, <3>2, <3>4 DEF SizesOf
    <3>6. Replying(Append(InFlight(p), d), core[q].stalled, link[q].pending)
      BY <1>7, <2>2, ReplyAppend
    <3> QED BY <2>4, <3>5, <3>6
  <2> QED BY <2>1, <2>3, <2>4
<1>9. /\ core'[p].stalled = FALSE /\ core'[p].on = FALSE /\ core'[p].link_out = <<>>
      /\ link'[p].attached = FALSE /\ link'[p].pending = <<>>
  BY <1>2 DEF detached, FreshLink
<1>10. Port(p)' /\ Port(q)' /\ Sock(p)' /\ Sock(q)'
  <2>1. InPump(q)' = InPump(q) /\ Linked(q)' = Linked(q)
    BY <1>2 DEF InPump, Linked
  <2> QED BY <1>1, <1>2, <1>3, <1>9, <2>1 DEF PeerFlow, Port, Sock
<1>11. Reply(p)' /\ Reply(q)'
  <2>1. Reply(p)'
    BY <1>2, <1>8 DEF Reply
  <2>2. Reply(q)'
    BY <1>4, ReplyEmpty DEF Reply
  <2> QED BY <2>1, <2>2
<1>12. Short(p)' /\ Short(q)'
  BY <1>3, <1>5, <1>8 DEF Short
<1>13. Balance(p)' /\ (Sent(q) <= 2)' /\ Sent(p)' <= Sent(p) /\ Sent(q)' <= Sent(q)
  <2>1. Out(p)' = 0 /\ Waiting(p)' = 0 /\ Out(q)' = Out(q) /\ Waiting(q)' = Waiting(q)
    BY <1>2, <1>9 DEF Out, Waiting
  <2>2. Sent(p) <= 2 /\ Sent(q) <= 2
    BY <1>1 DEF PeerFlow, Balance
  <2>3. Sent(p)' <= Sent(p)
    BY <1>1, <1>8, <2>1 DEF SizesOf
  <2>4. Sent(q)' <= Sent(q)
    BY <1>1, <1>5, <2>1 DEF SizesOf
  <2>5. (Sent(p) <= 2)' /\ (Sent(q) <= 2)'
    BY <1>1, <2>2, <2>3, <2>4 DEF SizesOf
  <2> QED BY <1>3, <2>3, <2>4, <2>5 DEF Balance
<1>14. Flow'
  BY <1>1, <1>10, <1>11, <1>12, <1>13, Assemble
<1> QED BY <1>2, <1>3, <1>4, <1>5, <1>6, <1>8, <1>9, <1>13, <1>14
-----------------------------------------------------------------------------
\* The port takes the next byte of its peer: the packet at the head of the queue, or the
\* first byte buffered.
TakesPacket(p) ==
  /\ inq[p] # <<>> /\ Head(inq[p]).cmd = "SYNC1" /\ link[p].pending = <<>>
  /\ inq'[p] = Tail(inq[p]) /\ link'[p].pending = link[p].pending
TakesPending(p) ==
  /\ link[p].pending # <<>>
  /\ inq'[p] = inq[p] /\ link'[p].pending = Tail(link[p].pending)

\* What the pump of p leaves to its peer while it takes a packet or a byte.
Aside(p) ==
  /\ InPump(p) /\ stream' = stream
  /\ \A r \in Peers : r # p => /\ core'[r] = core[r] /\ link'[r] = link[r]
                               /\ inq'[r] = inq[r] /\ pc'[r] = pc[r]
  /\ link'[p].attached = link[p].attached
  /\ core'[p].on = core[p].on /\ core'[p].link_out = core[p].link_out

\* A byte taken is off its sender's account.
LEMMA TakenOff ==
  ASSUME IInv, IInv', Flow, NEW p \in Peers, Aside(p), wire'[p] = wire[p],
         TakesPacket(p) \/ TakesPending(p), NEW h
  PROVE  /\ Sent(Other(p)) >= 1 /\ Sent(Other(p))' = Sent(Other(p)) - 1
         /\ Owed(Other(p))' = Owed(Other(p)) - 1 /\ Replies(Other(p))' = Replies(Other(p))
         /\ Short(Other(p))'
         /\ Replying(InFlight(Other(p))', h, link'[p].pending)
<1> DEFINE q == Other(p)
<1>1. /\ q \in Peers /\ q # p /\ Other(q) = p /\ Typed /\ Typed' /\ PeerFlow(p) /\ PeerFlow(q)
      /\ SizesOf(p) /\ SizesOf(q) /\ SizesOf(p)' /\ SizesOf(q)'
  BY Ready
<1>2. /\ core'[q] = core[q] /\ link'[q] = link[q] /\ stream' = stream
  BY <1>1 DEF Aside
<1>3. Out(q)' = Out(q) /\ BothUp' = BothUp /\ BothIn' = BothIn
      /\ link'[q].attached = link[q].attached
  BY <1>2 DEF Out, BothUp, BothIn, Linked
<1>4. Short(q)
  BY <1>1 DEF PeerFlow
<1>5. CASE TakesPacket(p)
  <2>1. /\ InFlight(q) # <<>> /\ Head(InFlight(q)) = Head(inq[p])
        /\ InFlight(q)' = Tail(InFlight(q))
    BY <1>1, <1>5, TakeHead DEF TakesPacket
  <2>2. Head(inq[p]).cmd = "SYNC1"
    BY <1>5 DEF TakesPacket
  <2>3. Size(q)' = Size(q) - 1 /\ Wired(q)' = Wired(q) - 1 /\ Replies(q)' = Replies(q)
    <3>1. /\ Size(q)' = Size(q) - 1
          /\ Wired(q)' = Wired(q) - (IF Head(inq[p]).cmd = "SYNC1" THEN 1 ELSE 0)
          /\ Replies(q)' = Replies(q) - (IF Head(inq[p]).cmd = "SYNC2" THEN 1 ELSE 0)
      BY <1>1, <1>5, TakeHead DEF TakesPacket
    <3>2. Replies(q) \in Nat
      BY <1>1 DEF SizesOf
    <3> QED BY <2>2, <3>1, <3>2
  <2>4. Waiting(p)' = Waiting(p)
    BY <1>5 DEF TakesPacket, Waiting
  <2>5. /\ Sent(q) >= 1 /\ Sent(q)' = Sent(q) - 1 /\ Owed(q)' = Owed(q) - 1
    BY <1>1, <1>3, <2>3, <2>4 DEF SizesOf
  <2>6. Short(q)'
    BY <1>1, <1>3, <1>4, <2>3 DEF Short, SizesOf
  <2>7. Replying(Tail(InFlight(q)), h, link'[p].pending)
    <3>1. InFlight(q) \in Seq(Packet) /\ InFlight(q) # <<>>
          /\ Replying(InFlight(q), core[p].stalled, link[p].pending)
          /\ Head(InFlight(q)).cmd = "SYNC1"
      BY <1>1, <2>1, <2>2 DEF Typed, PeerFlow, Reply
    <3> QED BY <3>1, ReplyTail
  <2> QED BY <2>1, <2>3, <2>5, <2>6, <2>7
<1>6. CASE TakesPending(p)
  <2>1. link[p].pending \in Seq(XferId) /\ link[p].pending # <<>>
        /\ link'[p].pending = Tail(link[p].pending)
    BY <1>1, <1>6 DEF TakesPending, Typed
  <2>2. Waiting(p)' = Waiting(p) - 1
    BY <2>1, HeadTailProperties DEF Waiting
  <2>3. InFlight(q)' = InFlight(q)
    BY <1>1, <1>6 DEF InFlight, TakesPending
  <2>4. Size(q)' = Size(q) /\ Wired(q)' = Wired(q) /\ Replies(q)' = Replies(q)
    BY <1>1, <2>3, FlightSame
  <2>5. Waiting(p) >= 1
    <3>1. Waiting(p) \in Nat /\ Waiting(p)' \in Nat
      BY <1>1 DEF SizesOf
    <3> QED BY <2>2, <3>1
  <2>6. /\ Sent(q) >= 1 /\ Sent(q)' = Sent(q) - 1 /\ Owed(q)' = Owed(q) - 1
    BY <1>1, <1>3, <2>2, <2>4, <2>5 DEF SizesOf
  <2>7. Short(q)'
    BY <1>3, <1>4, <2>4 DEF Short
  <2>8. Replying(InFlight(q), h, link'[p].pending)
    BY <1>1, <2>1, ReplyVacuous DEF PeerFlow, Reply
  <2> QED BY <2>3, <2>4, <2>6, <2>7, <2>8
<1> QED BY <1>5, <1>6

\* An armed slave swaps it and replies.
Answers(p, n) ==
  /\ Aside(p) /\ (TakesPacket(p) \/ TakesPending(p))
  /\ core[p].sc = "external" /\ core'[p].stalled = core[p].stalled
  /\ n \in XferId /\ Emit(p, <<Pkt("SYNC2", n)>>)

\* The reply goes out behind nothing of its own, to a master that is held.
LEMMA AnswerFlow ==
  ASSUME IInv, IInv', Flow, NEW p \in Peers, NEW n, Answers(p, n)
  PROVE  /\ Flow' /\ BothUp' = BothUp /\ wire'[p] = wire[p] /\ ~core[p].stalled
         /\ InFlight(p)' = IF BothUp THEN Append(InFlight(p), Pkt("SYNC2", n)) ELSE InFlight(p)
         /\ Sent(p)' = Sent(p) /\ Sent(Other(p)) >= 1 /\ Sent(Other(p))' = Sent(Other(p)) - 1
         /\ Replies(p)' = Replies(p) + (IF BothUp THEN 1 ELSE 0)
         /\ Replies(Other(p))' = Replies(Other(p))
         /\ BothUp => Sent(Other(p)) = 1
<1> DEFINE q == Other(p)
           x == Pkt("SYNC2", n)
<1>1. /\ q \in Peers /\ q # p /\ Other(q) = p /\ Typed /\ Typed' /\ PeerFlow(p) /\ PeerFlow(q)
      /\ SizesOf(p) /\ SizesOf(q) /\ SizesOf(p)' /\ SizesOf(q)'
  BY Ready
<1>2. /\ core'[q] = core[q] /\ link'[q] = link[q] /\ stream' = stream
      /\ inq'[q] = inq[q] /\ pc'[q] = pc[q]
  BY <1>1 DEF Answers, Aside
<1>3. x \in Packet /\ x.cmd = "SYNC2" /\ wire \in [Peers -> Seq(Packet)]
  BY PacketType DEF Answers, Pkt, IInv, QueueInv
<1> HIDE DEF x
<1>4. Emit(p, <<x>>)
  BY DEF Answers, x
<1>5. /\ wire'[p] = wire[p] /\ (~BothUp => wire' = wire)
      /\ InFlight(p)' = IF BothUp THEN Append(InFlight(p), x) ELSE InFlight(p)
      /\ Size(p)' = Size(p) + (IF BothUp THEN 1 ELSE 0)
      /\ Wired(p)' = Wired(p) + (IF BothUp /\ x.cmd = "SYNC1" THEN 1 ELSE 0)
      /\ Replies(p)' = Replies(p) + (IF BothUp /\ x.cmd = "SYNC2" THEN 1 ELSE 0)
  BY <1>1, <1>2, <1>3, <1>4, SendOne
<1>6. /\ Sent(q) >= 1 /\ Sent(q)' = Sent(q) - 1 /\ Owed(q)' = Owed(q) - 1 /\ Short(q)'
      /\ Replies(q)' = Replies(q)
      /\ Replying(InFlight(q)', core'[p].stalled, link'[p].pending)
  BY <1>5, TakenOff DEF Answers
<1>7. ~core[p].stalled
  BY <1>1 DEF Answers, PeerFlow, Port
<1>8. /\ BothUp' = BothUp /\ BothIn' = BothIn
      /\ Out(p)' = Out(p) /\ Waiting(q)' = Waiting(q) /\ Held(p)' = Held(p) /\ Held(q)' = Held(q)
      /\ link'[p].attached = link[p].attached
  BY <1>2 DEF BothUp, BothIn, Linked, Out, Waiting, Held, Answers, Aside
<1>9. /\ Size(p)' = Size(p) + (IF BothUp THEN 1 ELSE 0) /\ Wired(p)' = Wired(p)
      /\ Replies(p)' = Replies(p) + (IF BothUp THEN 1 ELSE 0)
  <2>1. Wired(p) \in Nat
    BY <1>1 DEF SizesOf
  <2> QED BY <1>3, <1>5, <2>1
<1>10. Sent(p)' = Sent(p) /\ Owed(p)' = Owed(p) + (IF BothUp THEN 1 ELSE 0)
  BY <1>1, <1>8, <1>9 DEF SizesOf
<1>11. BothUp => /\ core[q].stalled /\ link[q].pending = <<>>
                 /\ \A j \in 1..Len(InFlight(p)) :
                      InFlight(p)[j].cmd \notin {"SYNC1", "SYNC2"}
  BY <1>1, <1>6, <1>7, AnswerReady
<1>a. BothUp => Wired(p) = 0 /\ Replies(p) = 0 /\ Sent(q) = 1
  BY <1>1, <1>6, <1>7, AnswerReady
<1>12. Port(p)' /\ Port(q)' /\ Sock(p)' /\ Sock(q)'
  <2>1. /\ InPump(q)' = InPump(q) /\ Linked(q)' = Linked(q) /\ Linked(p)' = Linked(p)
        /\ (stream[q] # "up" => wire'[q] = wire[q])
    BY <1>1, <1>2, <1>5 DEF InPump, BothUp, Linked
  <2>2. Port(p)' /\ Port(q)'
    BY <1>1, <1>2, <1>7, <2>1 DEF Answers, Aside, PeerFlow, Port
  <2>3. Sock(q)'
    BY <1>1, <1>2, <2>1 DEF PeerFlow, Sock
  <2>4. /\ InPump(p) /\ stream' = stream /\ link'[p].attached = link[p].attached
        /\ wire'[p] = wire[p]
        /\ (inq[p] = <<>> => inq'[p] = <<>>) /\ (link[p].pending = <<>> => link'[p].pending = <<>>)
    BY <1>5 DEF Answers, Aside, TakesPacket, TakesPending
  <2>5. Sock(p)'
    BY <1>1, <2>1, <2>4 DEF PeerFlow, Sock
  <2> QED BY <2>2, <2>3, <2>5
<1>13. Reply(p)' /\ Reply(q)'
  <2>1. Reply(q)'
    BY <1>1, <1>6 DEF Reply
  <2>2. Reply(p)
    BY <1>1 DEF PeerFlow
  <2>3. CASE ~BothUp
    BY <1>2, <1>5, <2>1, <2>2, <2>3 DEF Reply
  <2>4. CASE BothUp
    <3>1. Replying(Append(InFlight(p), x), core[q].stalled, link[q].pending)
      BY <1>1, <1>3, <1>11, <2>2, <2>4, ReplyAppend DEF Reply, Typed
    <3> QED BY <1>2, <1>5, <2>1, <2>4, <3>1 DEF Reply
  <2> QED BY <2>3, <2>4
<1>14. Short(p)'
  <2>0. Short(p)
    BY <1>1 DEF PeerFlow
  <2>1. CASE ~BothUp
    <3>1. Size(p)' = Size(p)
      BY <1>1, <1>9, <2>1 DEF SizesOf
    <3> QED BY <1>8, <2>0, <2>1, <3>1 DEF Short
  <2>2. CASE BothUp
    <3>1. Size(p) <= 0 + 0 + (IF link[p].attached THEN 1 ELSE 0)
      BY <1>a, <2>0, <2>2 DEF Short
    <3>2. /\ Size(p)' <= 3 /\ Size(p)' <= 4
          /\ Size(p)' <= Wired(p)' + Replies(p)' + (IF link[p].attached THEN 1 ELSE 0)
      <4>1. /\ Size(p)' = Size(p) + 1 /\ Wired(p)' = 0 /\ Replies(p)' = 1 /\ Size(p) \in Nat
        BY <1>1, <1>9, <1>a, <2>2 DEF SizesOf
      <4>2. CASE link[p].attached
        <5>1. Size(p) <= 1
          BY <3>1, <4>2
        <5> QED BY <4>1, <4>2, <5>1
      <4>3. CASE ~link[p].attached
        <5>1. Size(p) <= 0
          BY <3>1, <4>3
        <5> QED BY <4>1, <4>3, <5>1
      <4> QED BY <4>2, <4>3
    <3> QED BY <1>8, <3>2 DEF Short
  <2> QED BY <2>1, <2>2
<1>15. Balance(p)' /\ (Sent(q) <= 2)'
  <2>1. (Sent(p) <= 2)' /\ (Sent(q) <= 2)'
    BY <1>1, <1>6, <1>10 DEF PeerFlow, Balance, SizesOf
  <2>2. /\ Owed(p)' + Owed(q)' + Held(p) + Held(q) <= Owed(p) + Owed(q) + Held(p)' + Held(q)'
        /\ BothUp => Owed(p)' + Owed(q)' + Held(p) + Held(q)
                       = Owed(p) + Owed(q) + Held(p)' + Held(q)'
    BY <1>1, <1>6, <1>8, <1>10 DEF SizesOf
  <2>3. StreamsFall
    BY <1>8 DEF StreamsFall
  <2> QED BY <1>1, <2>1, <2>2, <2>3, BalanceStep DEF PeerFlow
<1>16. Flow'
  BY <1>1, <1>6, <1>12, <1>13, <1>14, <1>15, Assemble
<1> QED BY <1>5, <1>6, <1>7, <1>8, <1>9, <1>10, <1>a, <1>16 DEF x
-----------------------------------------------------------------------------
\* A held master takes a byte its peer's own master shipped.
Feeds(p) ==
  /\ Aside(p) /\ TakesPending(p) /\ wire' = wire
  /\ core[p].stalled /\ ~core'[p].stalled

\* A held master takes the reply to its byte.
Released(p) ==
  /\ Aside(p) /\ wire' = wire /\ link' = link
  /\ inq[p] # <<>> /\ Head(inq[p]).cmd = "SYNC2" /\ inq'[p] = Tail(inq[p])
  /\ core[p].stalled /\ ~core'[p].stalled

\* A packet that tells the core nothing.
Ignores(p) ==
  /\ Aside(p) /\ wire' = wire /\ link' = link
  /\ inq[p] # <<>> /\ Head(inq[p]).cmd = "VERSION" /\ inq'[p] = Tail(inq[p])
  /\ core'[p].stalled = core[p].stalled /\ core'[p].sc = core[p].sc

\* What p's packets do to the ports and sockets when the port is not held after them.
LEMMA AsideParts ==
  ASSUME IInv, IInv', Flow, NEW p \in Peers, Aside(p), wire' = wire,
         inq[p] = <<>> => inq'[p] = <<>>, link[p].pending = <<>> => link'[p].pending = <<>>,
         core'[p].stalled => core[p].stalled /\ core'[p].sc = core[p].sc
  PROVE  /\ Port(p)' /\ Port(Other(p))' /\ Sock(p)' /\ Sock(Other(p))'
         /\ InFlight(p)' = InFlight(p)
         /\ Size(p)' = Size(p) /\ Wired(p)' = Wired(p) /\ Replies(p)' = Replies(p)
         /\ Sent(p)' = Sent(p) /\ Owed(p)' = Owed(p) /\ Short(p)'
         /\ Held(Other(p))' = Held(Other(p)) /\ Out(Other(p))' = Out(Other(p))
         /\ BothUp' = BothUp /\ BothIn' = BothIn /\ StreamsFall
<1> DEFINE q == Other(p)
<1>1. /\ q \in Peers /\ q # p /\ Other(q) = p /\ Typed /\ Typed' /\ PeerFlow(p) /\ PeerFlow(q)
      /\ SizesOf(p) /\ SizesOf(q) /\ SizesOf(p)' /\ SizesOf(q)'
  BY Ready
<1>2. /\ core'[q] = core[q] /\ link'[q] = link[q] /\ stream' = stream
      /\ inq'[q] = inq[q] /\ pc'[q] = pc[q]
  BY <1>1 DEF Aside
<1>3. /\ InPump(q)' = InPump(q) /\ Linked(q)' = Linked(q) /\ Linked(p)' = Linked(p)
      /\ BothUp' = BothUp /\ BothIn' = BothIn
  BY <1>2 DEF InPump, BothUp, BothIn, Linked
<1>4. /\ InPump(p) /\ stream' = stream /\ link'[p].attached = link[p].attached
      /\ core'[p].on = core[p].on /\ core'[p].link_out = core[p].link_out
  BY DEF Aside
<1>5. Port(p)' /\ Port(q)'
  BY <1>1, <1>2, <1>3, <1>4 DEF PeerFlow, Port
<1>6. Sock(p)' /\ Sock(q)'
  BY <1>1, <1>2, <1>3, <1>4 DEF PeerFlow, Sock
<1>7. InFlight(p)' = InFlight(p)
  BY <1>2 DEF InFlight
<1>8. Size(p)' = Size(p) /\ Wired(p)' = Wired(p) /\ Replies(p)' = Replies(p)
  BY <1>1, <1>7, FlightSame
<1>9. Out(p)' = Out(p) /\ Waiting(q)' = Waiting(q) /\ Out(q)' = Out(q) /\ Held(q)' = Held(q)
  BY <1>2, <1>4 DEF Out, Waiting, Held
<1>10. Sent(p)' = Sent(p) /\ Owed(p)' = Owed(p)
  BY <1>1, <1>8, <1>9 DEF SizesOf
<1>11. Short(p)'
  <2>1. Short(p)
    BY <1>1 DEF PeerFlow
  <2> QED BY <1>3, <1>4, <1>8, <2>1 DEF Short
<1> QED BY <1>3, <1>5, <1>6, <1>7, <1>8, <1>9, <1>10, <1>11 DEF StreamsFall

\* One byte and one hold less.
LEMMA FeedFlow ==
  ASSUME IInv, IInv', Flow, NEW p \in Peers, Feeds(p)
  PROVE  /\ Flow' /\ BothUp' = BothUp /\ InFlight(p)' = InFlight(p)
         /\ Sent(p)' = Sent(p) /\ Sent(Other(p)) >= 1 /\ Sent(Other(p))' = Sent(Other(p)) - 1
         /\ Replies(p)' = Replies(p) /\ Replies(Other(p))' = Replies(Other(p))
<1> DEFINE q == Other(p)
<1>1. /\ q \in Peers /\ q # p /\ Other(q) = p /\ Typed /\ Typed' /\ PeerFlow(p) /\ PeerFlow(q)
      /\ SizesOf(p) /\ SizesOf(q) /\ SizesOf(p)' /\ SizesOf(q)'
  BY Ready
<1>2. /\ Port(p)' /\ Port(q)' /\ Sock(p)' /\ Sock(q)' /\ InFlight(p)' = InFlight(p)
      /\ Sent(p)' = Sent(p) /\ Owed(p)' = Owed(p) /\ Short(p)'
      /\ Held(q)' = Held(q) /\ StreamsFall /\ BothUp' = BothUp /\ Replies(p)' = Replies(p)
  BY AsideParts DEF Feeds, TakesPending
<1>3. /\ Sent(q) >= 1 /\ Sent(q)' = Sent(q) - 1 /\ Owed(q)' = Owed(q) - 1 /\ Short(q)'
      /\ Replies(q)' = Replies(q)
      /\ Replying(InFlight(q)', core'[p].stalled, link'[p].pending)
  BY <1>1, TakenOff DEF Feeds
<1>4. Held(p) = 1 /\ Held(p)' = 0
  BY DEF Held, Feeds
<1>5. Reply(p)' /\ Reply(q)'
  <2>1. core'[q] = core[q] /\ link'[q] = link[q]
    BY <1>1 DEF Feeds, Aside
  <2> QED BY <1>1, <1>2, <1>3, <2>1 DEF PeerFlow, Reply
<1>6. Balance(p)' /\ (Sent(q) <= 2)'
  <2>1. (Sent(p) <= 2)' /\ (Sent(q) <= 2)'
    BY <1>1, <1>2, <1>3 DEF PeerFlow, Balance, SizesOf
  <2>2. /\ Owed(p)' + Owed(q)' + Held(p) + Held(q) = Owed(p) + Owed(q) + Held(p)' + Held(q)'
    BY <1>1, <1>2, <1>3, <1>4 DEF SizesOf
  <2>3. Owed(p) + Owed(q) + Held(p)' + Held(q)' \in Nat
    BY <1>1 DEF SizesOf
  <2> QED BY <1>1, <1>2, <2>1, <2>2, <2>3, BalanceStep DEF PeerFlow
<1>7. Flow'
  BY <1>1, <1>2, <1>3, <1>5, <1>6, Assemble
<1> QED BY <1>2, <1>3, <1>7

\* One reply and one hold less.
LEMMA ReleaseFlow ==
  ASSUME IInv, IInv', Flow, NEW p \in Peers, Released(p)
  PROVE  /\ Flow' /\ BothUp' = BothUp /\ InFlight(p)' = InFlight(p)
         /\ InFlight(Other(p)) # <<>> /\ Head(InFlight(Other(p))) = Head(inq[p])
         /\ InFlight(Other(p))' = Tail(InFlight(Other(p)))
         /\ Sent(p)' = Sent(p) /\ Sent(Other(p))' = Sent(Other(p))
         /\ Replies(p)' = Replies(p) /\ Replies(Other(p))' = Replies(Other(p)) - 1
<1> DEFINE q == Other(p)
<1>1. /\ q \in Peers /\ q # p /\ Other(q) = p /\ Typed /\ Typed' /\ PeerFlow(p) /\ PeerFlow(q)
      /\ SizesOf(p) /\ SizesOf(q) /\ SizesOf(p)' /\ SizesOf(q)'
  BY Ready
<1>2. /\ Port(p)' /\ Port(q)' /\ Sock(p)' /\ Sock(q)' /\ InFlight(p)' = InFlight(p)
      /\ Sent(p)' = Sent(p) /\ Owed(p)' = Owed(p) /\ Short(p)'
      /\ Held(q)' = Held(q) /\ Out(q)' = Out(q) /\ StreamsFall
      /\ BothUp' = BothUp /\ BothIn' = BothIn /\ Replies(p)' = Replies(p)
  BY AsideParts DEF Released
<1>3. /\ InFlight(q) # <<>> /\ Head(InFlight(q)) = Head(inq[p])
      /\ InFlight(q)' = Tail(InFlight(q))
  BY <1>1, TakeHead DEF Released
<1>4. Size(q)' = Size(q) - 1 /\ Wired(q)' = Wired(q) /\ Replies(q)' = Replies(q) - 1
  <2>1. /\ Size(q)' = Size(q) - 1
        /\ Wired(q)' = Wired(q) - (IF Head(inq[p]).cmd = "SYNC1" THEN 1 ELSE 0)
        /\ Replies(q)' = Replies(q) - (IF Head(inq[p]).cmd = "SYNC2" THEN 1 ELSE 0)
    BY <1>1, TakeHead DEF Released
  <2>2. Wired(q) \in Nat /\ Head(inq[p]).cmd = "SYNC2"
    BY <1>1 DEF SizesOf, Released
  <2> QED BY <2>1, <2>2
<1>5. Held(p) = 1 /\ Held(p)' = 0 /\ Waiting(p)' = Waiting(p)
      /\ link'[q].attached = link[q].attached
  BY DEF Held, Released, Waiting
<1>6. Sent(q)' = Sent(q) /\ Owed(q)' = Owed(q) - 1
  BY <1>1, <1>2, <1>4, <1>5 DEF SizesOf
<1>7. Short(q)'
  <2>1. Short(q)
    BY <1>1 DEF PeerFlow
  <2> QED BY <1>1, <1>2, <1>4, <1>5, <2>1 DEF Short, SizesOf
<1>8. Reply(p)' /\ Reply(q)'
  <2>1. core'[q] = core[q] /\ link' = link
    BY <1>1 DEF Released, Aside
  <2>2. /\ InFlight(q) \in Seq(Packet) /\ Head(InFlight(q)).cmd = "SYNC2"
        /\ Replying(InFlight(q), core[p].stalled, link[p].pending)
    BY <1>1, <1>3 DEF Typed, Released, PeerFlow, Reply
  <2>3. Replying(Tail(InFlight(q)), core'[p].stalled, link[p].pending)
    BY <1>3, <2>2, ReplyTail
  <2> QED BY <1>1, <1>2, <1>3, <2>1, <2>3 DEF PeerFlow, Reply
<1>9. Balance(p)' /\ (Sent(q) <= 2)'
  <2>1. (Sent(p) <= 2)' /\ (Sent(q) <= 2)'
    BY <1>1, <1>2, <1>6 DEF PeerFlow, Balance
  <2>2. /\ Owed(p)' + Owed(q)' + Held(p) + Held(q) = Owed(p) + Owed(q) + Held(p)' + Held(q)'
    BY <1>1, <1>2, <1>5, <1>6 DEF SizesOf
  <2>3. Owed(p) + Owed(q) + Held(p)' + Held(q)' \in Nat
    BY <1>1 DEF SizesOf
  <2> QED BY <1>1, <1>2, <2>1, <2>2, <2>3, BalanceStep DEF PeerFlow
<1>10. Flow'
  BY <1>1, <1>2, <1>7, <1>8, <1>9, Assemble
<1> QED BY <1>2, <1>3, <1>4, <1>6, <1>10

\* One packet less.
LEMMA IgnoreFlow ==
  ASSUME IInv, IInv', Flow, NEW p \in Peers, Ignores(p)
  PROVE  /\ Flow' /\ BothUp' = BothUp /\ InFlight(p)' = InFlight(p)
         /\ InFlight(Other(p)) # <<>> /\ Head(InFlight(Other(p))) = Head(inq[p])
         /\ InFlight(Other(p))' = Tail(InFlight(Other(p)))
         /\ Sent(p)' = Sent(p) /\ Sent(Other(p))' = Sent(Other(p))
         /\ Replies(p)' = Replies(p) /\ Replies(Other(p))' = Replies(Other(p))
<1> DEFINE q == Other(p)
<1>1. /\ q \in Peers /\ q # p /\ Other(q) = p /\ Typed /\ Typed' /\ PeerFlow(p) /\ PeerFlow(q)
      /\ SizesOf(p) /\ SizesOf(q) /\ SizesOf(p)' /\ SizesOf(q)'
  BY Ready
<1>2. /\ Port(p)' /\ Port(q)' /\ Sock(p)' /\ Sock(q)' /\ InFlight(p)' = InFlight(p)
      /\ Sent(p)' = Sent(p) /\ Owed(p)' = Owed(p) /\ Short(p)'
      /\ Held(q)' = Held(q) /\ Out(q)' = Out(q) /\ StreamsFall
      /\ BothUp' = BothUp /\ BothIn' = BothIn /\ Replies(p)' = Replies(p)
  BY AsideParts DEF Ignores
<1>3. /\ InFlight(q) # <<>> /\ Head(InFlight(q)) = Head(inq[p])
      /\ InFlight(q)' = Tail(InFlight(q))
  BY <1>1, TakeHead DEF Ignores
<1>4. Size(q)' = Size(q) - 1 /\ Wired(q)' = Wired(q) /\ Replies(q)' = Replies(q)
  <2>1. /\ Size(q)' = Size(q) - 1
        /\ Wired(q)' = Wired(q) - (IF Head(inq[p]).cmd = "SYNC1" THEN 1 ELSE 0)
        /\ Replies(q)' = Replies(q) - (IF Head(inq[p]).cmd = "SYNC2" THEN 1 ELSE 0)
    BY <1>1, TakeHead DEF Ignores
  <2>2. Wired(q) \in Nat /\ Replies(q) \in Nat /\ Head(inq[p]).cmd = "VERSION"
    BY <1>1 DEF SizesOf, Ignores
  <2> QED BY <2>1, <2>2
<1>5. Held(p)' = Held(p) /\ Waiting(p)' = Waiting(p)
      /\ link'[q].attached = link[q].attached
  BY DEF Held, Ignores, Waiting
<1>6. Sent(q)' = Sent(q) /\ Owed(q)' = Owed(q)
  BY <1>1, <1>2, <1>4, <1>5 DEF SizesOf
<1>7. Short(q)'
  <2>1. Short(q)
    BY <1>1 DEF PeerFlow
  <2> QED BY <1>1, <1>2, <1>4, <1>5, <2>1 DEF Short, SizesOf
<1>8. Reply(p)' /\ Reply(q)'
  <2>1. core'[q] = core[q] /\ link' = link /\ core'[p].stalled = core[p].stalled
    BY <1>1 DEF Ignores, Aside
  <2>2. /\ InFlight(q) \in Seq(Packet)
        /\ Replying(InFlight(q), core[p].stalled, link[p].pending)
    BY <1>1 DEF Typed, PeerFlow, Reply
  <2>3. Replying(Tail(InFlight(q)), core'[p].stalled, link[p].pending)
    BY <1>3, <2>1, <2>2, ReplyTail
  <2> QED BY <1>1, <1>2, <1>3, <2>1, <2>3 DEF PeerFlow, Reply
<1>9. Balance(p)' /\ (Sent(q) <= 2)'
  BY <1>1, <1>2, <1>5, <1>6 DEF PeerFlow, Balance
<1>10. Flow'
  BY <1>1, <1>2, <1>7, <1>8, <1>9, Assemble
<1> QED BY <1>2, <1>3, <1>4, <1>6, <1>10
-----------------------------------------------------------------------------
\* The byte a port takes next, and the numbers a step keeps or counts on.
Taken(p) == IF link[p].pending = <<>> THEN Head(inq[p]).id ELSE Head(link[p].pending)
Still == took' = took /\ xfer' = xfer
Kept == Still /\ sessions' = sessions
Ships(p) == xfer' = [xfer EXCEPT ![p] = @ + 1] /\ took' = took /\ sessions' = sessions
Takes(p) == took' = [took EXCEPT ![p] = Taken(p)] /\ xfer' = xfer /\ sessions' = sessions

\* What a step of p, its pump or its socket is to the flow: one of nine kinds.
Kind(p) ==
  \/ Quiet /\ Kept
  \/ Stalls(p) /\ Ships(p)
  \/ Kept /\ \E x : Posts(p, x) /\ (x.cmd = "SYNC1" => x.id = core[p].link_out[1])
  \/ Cuts /\ Kept
  \/ Drops(p) /\ Kept
  \/ Buffers(p) /\ Kept
  \/ Answers(p, Taken(p)) /\ Takes(p)
  \/ Feeds(p) /\ Takes(p)
  \/ (Released(p) \/ Ignores(p)) /\ Kept

\* The pump's threads are one per peer: what moves p's place leaves its peer's.
Moves(p) == pc'[Other(p)] = pc[Other(p)]

\* The fields a change of SC leaves.
LEMMA ScFields ==
  ASSUME NEW c \in GoodCore, NEW sc
  PROVE  LET d == [c EXCEPT !.sc = sc] IN
         /\ d.sc = sc /\ d.on = c.on /\ d.stalled = c.stalled /\ d.link_out = c.link_out
BY CoreFields

\* One packet of the peer.
LEMMA PacketKind ==
  ASSUME IInv, IInv', Flow, PendingCap >= 2, NEW p \in Peers, inq[p] # <<>>, ApplyPacket(p),
         InPump(p), Moves(p), UNCHANGED <<xfer, sessions>>
  PROVE  Kind(p)
<1> DEFINE q == Other(p)
           x == Head(inq[p])
<1>1. /\ q \in Peers /\ q # p /\ Other(q) = p /\ Typed /\ PeerFlow(p) /\ PeerFlow(q)
      /\ \A r \in Peers : r = p \/ r = q
  BY Ready, TwoPeers
<1>2. /\ core \in [Peers -> GoodCore] /\ link \in [Peers -> GoodLink]
      /\ inq \in [Peers -> GoodQueue] /\ x.id \in XferId
  BY QueueHead DEF IInv, CoreInv, LinkInv, QueueInv
<1>3. CASE x.cmd = "SYNC1" /\ ApplySync1(p, x.id) /\ inq' = [inq EXCEPT ![p] = Tail(inq[p])]
  <2>1. inq'[p] = Tail(inq[p]) /\ (\A r \in Peers : r # p => inq'[r] = inq[r])
    BY <1>2, <1>3
  <2>2. CASE link[p].pending = <<>> /\ armed(core[p])
    <3>1. /\ core' = [core EXCEPT ![p] = [core[p] EXCEPT !.sc = "idle"]]
          /\ Emit(p, <<Pkt("SYNC2", x.id)>>) /\ link' = link /\ stream' = stream
          /\ core[p].sc = "external"
      BY <1>3, <2>2 DEF ApplySync1, swapped, armed
    <3>2. /\ core'[p].on = core[p].on /\ core'[p].stalled = core[p].stalled
          /\ core'[p].link_out = core[p].link_out
          /\ \A r \in Peers : r # p => core'[r] = core[r]
      BY <1>2, <3>1, ScFields
    <3>3. Aside(p)
      BY <1>1, <2>1, <3>1, <3>2 DEF Aside, Moves
    <3>4. TakesPacket(p)
      BY <1>3, <2>1, <2>2, <3>1 DEF TakesPacket
    <3>5. Answers(p, x.id)
      BY <1>2, <3>1, <3>2, <3>3, <3>4 DEF Answers
    <3>6. Takes(p) /\ Taken(p) = x.id
      BY <1>3, <2>2 DEF ApplySync1, Take, Takes, Taken
    <3> QED BY <3>5, <3>6 DEF Kind
  <2>3. CASE ~(link[p].pending = <<>> /\ armed(core[p]))
    <3>1. Buffers(p)
      BY <1>1, <1>3, <2>3 DEF ApplySync1, Buffers, Moves
    <3>2. Kept
      BY <1>3, <2>3 DEF ApplySync1, Kept, Still
    <3> QED BY <3>1, <3>2 DEF Kind
  <2> QED BY <2>2, <2>3
<1>4. CASE x.cmd = "SYNC2" /\ ApplySync2(p, x.id) /\ inq' = [inq EXCEPT ![p] = Tail(inq[p])]
  <2>1. inq'[p] = Tail(inq[p]) /\ (\A r \in Peers : r # p => inq'[r] = inq[r])
    BY <1>2, <1>4
  <2>2. core[p].stalled
    <3>1. InFlight(q) # <<>> /\ Head(InFlight(q)) = x /\ InFlight(q) \in Seq(Packet)
      <4>1. inq[p] \in Seq(Packet) /\ wire[p] \in Seq(Packet)
        BY <1>1 DEF Typed
      <4>2. InFlight(q) = inq[p] \o wire[p]
        BY FlightTo
      <4>3. inq[p] \o wire[p] # <<>> /\ Head(inq[p] \o wire[p]) = x
        BY <4>1, TailConcat
      <4> QED BY <1>1, <4>2, <4>3 DEF Typed
    <3>2. 1 \in 1..Len(InFlight(q)) /\ InFlight(q)[1].cmd = "SYNC2"
      <4> DEFINE s == InFlight(q)
      <4>1. s # <<>> /\ Head(s) = x /\ s \in Seq(Packet)
        BY <3>1
      <4> HIDE DEF s, x
      <4>2. 1 \in 1..Len(s) /\ s[1] = x
        BY <4>1
      <4> QED BY <1>4, <4>2 DEF s
    <3> QED BY <1>1, <3>2 DEF PeerFlow, Reply, Replying
  <2>3. /\ core' = [core EXCEPT ![p] = [core[p] EXCEPT !.sc = "idle", !.stalled = FALSE]]
        /\ link' = link /\ stream' = stream /\ wire' = wire
    BY <1>4, <2>2 DEF ApplySync2, pushed
  <2>4. /\ core'[p].on = core[p].on /\ core'[p].stalled = FALSE
        /\ core'[p].link_out = core[p].link_out
        /\ \A r \in Peers : r # p => core'[r] = core[r]
    BY <1>2, <2>3, CoreFields
  <2>5. Aside(p)
    BY <1>1, <2>1, <2>3, <2>4 DEF Aside, Moves
  <2>6. Released(p)
    BY <1>4, <2>1, <2>2, <2>3, <2>4, <2>5 DEF Released
  <2>7. Kept
    BY <1>4 DEF ApplySync2, Kept, Still
  <2> QED BY <2>6, <2>7 DEF Kind
<1>5. CASE Disconnect(p) /\ UNCHANGED took
  BY <1>5, DisconnectDrops DEF Moves, Kind, Kept, Still
<1>6. CASE /\ x.cmd = "VERSION" /\ inq' = [inq EXCEPT ![p] = Tail(inq[p])]
           /\ UNCHANGED <<core, took, link, stream, wire>>
  <2>1. inq'[p] = Tail(inq[p]) /\ (\A r \in Peers : r # p => inq'[r] = inq[r])
    BY <1>2, <1>6
  <2>2. Aside(p)
    BY <1>1, <1>6, <2>1 DEF Aside, Moves
  <2>3. Ignores(p)
    BY <1>6, <2>1, <2>2 DEF Ignores
  <2>4. Kept
    BY <1>6 DEF Kept, Still
  <2> QED BY <2>3, <2>4 DEF Kind
<1> QED BY <1>3, <1>4, <1>5, <1>6 DEF ApplyPacket

\* The game's writes and transfers, when no transfer is aborted.
LEMMA GameKind ==
  ASSUME IInv, IInv', Flow, Faults \subseteq {"close", "fail"}, NEW p \in Peers, Game(p)
  PROVE  Kind(p)
<1>1. PeerFlow(p) /\ core \in [Peers -> GoodCore] /\ pc \in [Peers -> Places]
  BY DEF Flow, IInv, CoreInv, PlaceInv
<1>2. ASSUME NEW v \in {"idle", "internal", "external"}, WriteSC(p, v) PROVE Kind(p)
  <2>1. ~core[p].stalled
    BY <1>1, <1>2 DEF WriteSC, PeerFlow, Port
  <2>2. core' = [core EXCEPT ![p] = [core[p] EXCEPT !.sc = v, !.stalled = FALSE]]
        /\ pc' = [pc EXCEPT ![p] = "run"] /\ UNCHANGED <<link, stream, inq, wire>>
    BY <1>1, <1>2 DEF WriteSC
  <2>3. /\ core'[p].on = core[p].on /\ core'[p].stalled = FALSE
        /\ core'[p].link_out = core[p].link_out
        /\ \A r \in Peers : r # p => core'[r] = core[r]
    BY <1>1, <2>2, CoreFields
  <2>4. core[p].stalled = FALSE
    BY <1>1, <2>1, CoreFields
  <2>5. Quiet
    BY <1>1, <2>2, <2>3, <2>4 DEF Quiet, InPump
  <2>6. Kept
    BY <1>2 DEF WriteSC, Kept, Still
  <2> QED BY <2>5, <2>6 DEF Kind
<1>3. CASE MasterDone(p)
  <2>1. ~core[p].stalled /\ core[p].link_in = <<>> /\ core[p].link_out = <<>>
        /\ Len(core[p].link_out) < OutCap
    BY <1>1, <1>3, CoreFields, BoundsAssumption DEF MasterDone, PeerFlow, Port
  <2>2. CASE core[p].on
    <3>1. /\ core' = [core EXCEPT ![p] = [core[p] EXCEPT !.link_out = Append(@, xfer'[p]),
                                                     !.stalled = TRUE]]
          /\ pc' = [pc EXCEPT ![p] = "step"] /\ UNCHANGED <<link, stream, inq, wire>>
          /\ pc[p] = "run" /\ core[p].sc = "internal"
      BY <1>1, <1>3, <2>1, <2>2 DEF MasterDone
    <3>2. core'[p] = [on |-> core[p].on, sc |-> core[p].sc, stalled |-> TRUE,
                      link_in |-> <<>>, link_out |-> Append(core[p].link_out, xfer'[p])]
      <4> DEFINE e == Append(core[p].link_out, xfer'[p])
      <4>1. core' = [core EXCEPT ![p] = [core[p] EXCEPT !.link_out = e, !.stalled = TRUE]]
        BY <1>1, <3>1
      <4> HIDE DEF e
      <4>2. core'[p] = [core[p] EXCEPT !.link_out = e, !.stalled = TRUE] /\ core[p] \in GoodCore
        BY <1>1, <4>1
      <4>3. core'[p] = [on |-> core[p].on, sc |-> core[p].sc, stalled |-> TRUE,
                        link_in |-> <<>>, link_out |-> e]
        BY <4>2, OutFields
      <4> QED BY <4>3 DEF e
    <3>3. \A r \in Peers : r # p => core'[r] = core[r]
      BY <1>1, <3>1
    <3>4. Stalls(p)
      BY <2>1, <2>2, <3>1, <3>2, <3>3 DEF Stalls
    <3>5. Ships(p)
      BY <1>3, <2>1, <2>2 DEF MasterDone, Ships
    <3> QED BY <3>4, <3>5 DEF Kind
  <2>3. CASE ~core[p].on
    <3>1. /\ core' = [core EXCEPT ![p] = [core[p] EXCEPT !.sc = "idle"]]
          /\ UNCHANGED <<pc, link, stream, inq, wire>>
      BY <1>1, <1>3, <2>3 DEF MasterDone
    <3>2. /\ core'[p].on = core[p].on /\ core'[p].stalled = core[p].stalled
          /\ core'[p].link_out = core[p].link_out
          /\ \A r \in Peers : r # p => core'[r] = core[r]
      BY <1>1, <3>1, ScFields
    <3>3. Quiet
      BY <2>1, <3>1, <3>2 DEF Quiet, InPump
    <3>4. Kept
      BY <1>1, <1>3, <2>3 DEF MasterDone, Kept, Still, IInv, CountInv
    <3> QED BY <3>3, <3>4 DEF Kind
  <2> QED BY <2>2, <2>3
<1> QED BY <1>2, <1>3 DEF Game

\* The ends of a slice.
LEMMA SliceKind ==
  ASSUME IInv, IInv', Flow, NEW p \in Peers, Slice(p) PROVE Kind(p)
<1>1. pc' = [pc EXCEPT ![p] = "pump"] /\ UNCHANGED <<core, link, stream, inq, wire>>
  BY DEF Slice, OtherInstruction, SliceOver
<1>2. Quiet
  BY <1>1 DEF Quiet, InPump, IInv, PlaceInv
<1>3. Kept
  BY DEF Slice, OtherInstruction, SliceOver, Kept, Still
<1> QED BY <1>2, <1>3 DEF Kind

\* The head of the pump.
LEMMA HeadKind ==
  ASSUME IInv, IInv', Flow, NEW p \in Peers, PumpHead(p) PROVE Kind(p)
<1> DEFINE q == Other(p)
<1>1. /\ q \in Peers /\ q # p /\ PeerFlow(p) /\ pc \in [Peers -> Places]
      /\ core \in [Peers -> GoodCore] /\ link \in [Peers -> GoodLink]
  BY Ready DEF IInv, CoreInv, LinkInv, PlaceInv
<1>10. UNCHANGED <<took, xfer, sessions>>
  BY DEF PumpHead, ReapDeadLink, NothingToPump, AttachAndShip, ShipOut
<1>11. Kept
  BY <1>10 DEF Kept, Still
<1>2. CASE ReapDeadLink(p)
  <2>1. pc'[q] = pc[q]
    BY <1>1, <1>2 DEF ReapDeadLink
  <2> QED BY <1>2, <1>11, <2>1, DisconnectDrops DEF ReapDeadLink, Kind
<1>3. CASE NothingToPump(p)
  <2>1. Quiet
    BY <1>1, <1>3 DEF Quiet, InPump, NothingToPump
  <2> QED BY <1>11, <2>1 DEF Kind
<1>4. CASE AttachAndShip(p)
  <2> DEFINE on == IF link[p].attached THEN core[p].on ELSE TRUE
             hello == IF link[p].attached THEN <<>> ELSE <<Pkt("VERSION", 0)>>
             bytes == [i \in DOMAIN core[p].link_out |-> Pkt("SYNC1", core[p].link_out[i])]
  <2>1. /\ stream[p] = "up" /\ link' = [link EXCEPT ![p] = [link[p] EXCEPT !.attached = TRUE]]
        /\ core' = [core EXCEPT ![p] = [core[p] EXCEPT !.link_out = <<>>, !.on = on]]
        /\ Emit(p, hello \o bytes) /\ pc' = [pc EXCEPT ![p] = "poll"]
        /\ stream' = stream /\ inq' = inq
    BY <1>1, <1>4 DEF AttachAndShip, ShipOut, is_connected
  <2>2. /\ \A r \in Peers : r # p => /\ core'[r] = core[r] /\ link'[r] = link[r]
                                     /\ pc'[r] = pc[r]
        /\ link'[p].attached = TRUE /\ link'[p].pending = link[p].pending
    BY <1>1, <2>1, LinkFields
  <2>3. on = TRUE
    BY <1>1, CoreFields DEF PeerFlow, Port
  <2>4. /\ core'[p].on /\ core'[p].link_out = <<>>
        /\ core'[p].stalled = core[p].stalled /\ core'[p].sc = core[p].sc
    <3>1. core'[p] = [core[p] EXCEPT !.link_out = <<>>, !.on = on]
      BY <1>1, <2>1
    <3> HIDE DEF on
    <3> QED BY <1>1, <2>3, <3>1, CoreFields
  <2> HIDE DEF on
  <2>5. CASE ~link[p].attached
    <3>1. core[p].link_out = <<>>
      BY <1>1, <2>5 DEF PeerFlow, Port
    <3>2. hello \o bytes = <<Pkt("VERSION", 0)>>
      <4>1. bytes = <<>> /\ hello = <<Pkt("VERSION", 0)>>
        BY <2>5, <3>1
      <4> HIDE DEF hello, bytes
      <4>2. <<Pkt("VERSION", 0)>> \o <<>> = <<Pkt("VERSION", 0)>>
        BY PacketType
      <4> QED BY <4>1, <4>2
    <3>3. Pkt("VERSION", 0) \in Packet /\ Pkt("VERSION", 0).cmd = "VERSION"
      BY PacketType DEF Pkt
    <3>4. Posts(p, Pkt("VERSION", 0))
      BY <2>1, <2>2, <2>4, <2>5, <3>1, <3>2, <3>3 DEF Posts
    <3>5. Pkt("VERSION", 0).cmd # "SYNC1"
      BY <3>3
    <3> QED BY <1>11, <3>4, <3>5 DEF Kind
  <2>6. CASE link[p].attached /\ core[p].link_out = <<>>
    <3>1. hello \o bytes = <<>>
      BY <2>6
    <3>2. wire' = wire
      <4>1. wire \in [Peers -> Seq(Packet)] /\ wire[q] \o <<>> = wire[q]
        BY <1>1 DEF IInv, QueueInv
      <4>2. Emit(p, <<>>)
        BY <2>1, <3>1
      <4> QED BY <1>1, <4>1, <4>2 DEF Emit
    <3>3. link'[p] = link[p]
      BY <1>1, <2>1, <2>6, LinkFields DEF GoodLink
    <3>4. link' = link
      BY <1>1, <2>1, <3>3
    <3>5. core'[p].on = core[p].on /\ core'[p].link_out = core[p].link_out
      BY <1>1, <2>4, <2>6, CoreFields DEF PeerFlow, Port, IInv, CoreInv
    <3>6. Quiet
      BY <2>1, <2>2, <2>4, <2>6, <3>2, <3>4, <3>5 DEF Quiet, InPump
    <3> QED BY <1>11, <3>6 DEF Kind
  <2>7. CASE link[p].attached /\ core[p].link_out # <<>>
    <3>1. core[p].link_out \in Seq(XferId) /\ Len(core[p].link_out) = 1
      BY <1>1, <2>7, CoreFields DEF PeerFlow, Port
    <3> DEFINE n == core[p].link_out[1]
    <3>2. n \in XferId /\ bytes = <<Pkt("SYNC1", n)>>
      BY <3>1
    <3>3. hello \o bytes = <<Pkt("SYNC1", n)>>
      <4>1. hello = <<>>
        BY <2>7
      <4> HIDE DEF hello, bytes
      <4> QED BY <3>2, <4>1
    <3>4. Pkt("SYNC1", n) \in Packet /\ Pkt("SYNC1", n).cmd = "SYNC1"
      BY <3>2, PacketType DEF Pkt
    <3>6. Pkt("SYNC1", n).id = core[p].link_out[1]
      BY DEF Pkt
    <3> HIDE DEF hello, bytes, n
    <3>5. Posts(p, Pkt("SYNC1", n))
      BY <2>1, <2>2, <2>4, <2>7, <3>1, <3>3, <3>4 DEF Posts
    <3> QED BY <1>11, <3>5, <3>6 DEF Kind
  <2> QED BY <2>5, <2>6, <2>7
<1> QED BY <1>2, <1>3, <1>4 DEF PumpHead

\* One round of the poll loop, and the wait of a held master.
LEMMA PollKind ==
  ASSUME IInv, IInv', Flow, PendingCap >= 2, NEW p \in Peers, PumpPoll(p) \/ PumpBlocking(p)
  PROVE  Kind(p)
<1>1. Other(p) \in Peers /\ Other(p) # p /\ pc \in [Peers -> Places]
  BY OtherPeer DEF IInv, PlaceInv
<1>2. InPump(p) /\ Moves(p)
  BY <1>1 DEF PumpPoll, PumpBlocking, InPump, Moves
<1>3. CASE inq[p] # <<>> /\ ApplyPacket(p)
  <2>1. UNCHANGED <<xfer, sessions>>
    BY DEF PumpPoll, PumpBlocking
  <2> QED BY <1>2, <1>3, <2>1, PacketKind
<1>4. CASE UNCHANGED <<core, took, link, stream, inq, wire>>
  <2>1. Quiet
    BY <1>1, <1>4 DEF Quiet, InPump, PumpPoll, PumpBlocking
  <2>2. Kept
    BY <1>4 DEF PumpPoll, PumpBlocking, Kept, Still
  <2> QED BY <2>1, <2>2 DEF Kind
<1> QED BY <1>3, <1>4 DEF PumpPoll, PumpBlocking

\* One buffered byte, or the end of the drain.
LEMMA DrainKind ==
  ASSUME IInv, IInv', Flow, NEW p \in Peers, DrainPending(p) PROVE Kind(p)
<1> DEFINE q == Other(p)
           n == Head(link[p].pending)
<1>1. /\ q \in Peers /\ q # p /\ PeerFlow(p) /\ pc \in [Peers -> Places]
      /\ core \in [Peers -> GoodCore] /\ link \in [Peers -> GoodLink]
      /\ stream' = stream /\ inq' = inq /\ InPump(p)
  BY Ready DEF IInv, CoreInv, LinkInv, PlaceInv, DrainPending, InPump
<1>2. ASSUME link[p].pending # <<>>, link' = [link EXCEPT ![p].pending = Tail(@)]
      PROVE  /\ link'[p].attached = link[p].attached
             /\ link'[p].pending = Tail(link[p].pending)
             /\ \A r \in Peers : r # p => link'[r] = link[r]
             /\ n \in XferId
  <2>1. link[p].pending \in Seq(XferId)
    BY <1>1, LinkFields
  <2>2. n \in XferId
    BY <1>2, <2>1
  <2>3. link' = [link EXCEPT ![p] = [link[p] EXCEPT !.pending = Tail(link[p].pending)]]
    BY <1>1, <1>2
  <2> QED BY <1>1, <2>2, <2>3, LinkFields
<1>3. CASE AnswerPending(p)
  <2>1. /\ core' = [core EXCEPT ![p] = [core[p] EXCEPT !.sc = "idle"]]
        /\ Emit(p, <<Pkt("SYNC2", n)>>) /\ pc' = pc /\ core[p].sc = "external"
        /\ link[p].pending # <<>> /\ link' = [link EXCEPT ![p].pending = Tail(@)]
    BY <1>3 DEF AnswerPending, swapped, armed
  <2>2. /\ core'[p].on = core[p].on /\ core'[p].stalled = core[p].stalled
        /\ core'[p].link_out = core[p].link_out
        /\ \A r \in Peers : r # p => core'[r] = core[r]
    BY <1>1, <2>1, ScFields
  <2>3. Aside(p) /\ TakesPending(p) /\ n \in XferId
    BY <1>1, <1>2, <2>1, <2>2 DEF Aside, TakesPending
  <2>4. Answers(p, n)
    BY <2>1, <2>2, <2>3 DEF Answers
  <2>5. Takes(p) /\ Taken(p) = n
    BY <1>3 DEF AnswerPending, DrainPending, Take, Takes, Taken
  <2> QED BY <2>4, <2>5 DEF Kind
<1>4. CASE FeedStalled(p)
  <2>1. /\ core' = [core EXCEPT ![p] = [core[p] EXCEPT !.sc = "idle", !.stalled = FALSE]]
        /\ wire' = wire /\ pc' = pc /\ core[p].stalled
        /\ link[p].pending # <<>> /\ link' = [link EXCEPT ![p].pending = Tail(@)]
    BY <1>4 DEF FeedStalled, pushed
  <2>2. /\ core'[p].on = core[p].on /\ core'[p].stalled = FALSE
        /\ core'[p].link_out = core[p].link_out
        /\ \A r \in Peers : r # p => core'[r] = core[r]
    BY <1>1, <2>1, CoreFields
  <2>3. Aside(p) /\ TakesPending(p)
    BY <1>1, <1>2, <2>1, <2>2 DEF Aside, TakesPending
  <2>4. Feeds(p)
    BY <2>1, <2>2, <2>3 DEF Feeds
  <2>5. Takes(p)
    BY <1>4 DEF FeedStalled, DrainPending, Take, Takes, Taken
  <2> QED BY <2>4, <2>5 DEF Kind
<1>5. CASE StopDraining(p)
  <2>1. Quiet
    BY <1>1, <1>5 DEF Quiet, InPump, StopDraining
  <2>2. Kept
    BY <1>5 DEF StopDraining, DrainPending, Kept, Still
  <2> QED BY <2>1, <2>2 DEF Kind
<1> QED BY <1>3, <1>4, <1>5 DEF DrainPending

\* A queue is a cut of itself.
LEMMA WholeCut ==
  ASSUME Typed, NEW p \in Peers, InFlight(p)' = InFlight(p)
  PROVE  \E k \in 0..Size(p) : InFlight(p)' = SubSeq(InFlight(p), 1, k)
<1> DEFINE s == InFlight(p)
<1>1. s \in Seq(Packet) /\ Size(p) = Len(s)
  BY DEF Typed, Size
<1>2. Len(s) \in 0..Size(p) /\ SubSeq(s, 1, Len(s)) = s
  <2> HIDE DEF s
  <2> QED BY <1>1, LenProperties
<1> QED BY <1>2

\* A worker starts to wait for its peer.
LEMMA OpenKind ==
  ASSUME IInv, IInv', Flow, NEW p \in Peers, OpenSocket(p) PROVE Kind(p)
<1>1. /\ link \in [Peers -> GoodLink] /\ stream \in [Peers -> Streams] /\ PeerFlow(p) /\ Typed
  BY Ready DEF IInv, LinkInv, StreamInv
<1>2. /\ link' = [link EXCEPT ![p] = FreshLink] /\ stream' = [stream EXCEPT ![p] = "dialing"]
      /\ core' = core /\ inq' = inq /\ wire' = wire /\ pc' = pc /\ pc[p] = "run"
      /\ stream[p] = "none"
  BY DEF OpenSocket
<1>3. link[p].attached = FALSE /\ link[p].pending = <<>>
  BY <1>1, <1>2, LinkFields DEF PeerFlow, Sock, Linked
<1>4. ~BothUp'
  BY <1>1, <1>2 DEF BothUp
<1>5. ASSUME NEW r \in Peers
      PROVE  /\ link'[r].attached = link[r].attached /\ link'[r].pending = link[r].pending
             /\ InPump(r)' = InPump(r) /\ Linked(r)' = Linked(r)
             /\ stream'[r] = "up" <=> stream[r] = "up"
             /\ stream[r] = "none" /\ InPump(r) => stream'[r] = "none"
  <2>1. link'[r].attached = link[r].attached /\ link'[r].pending = link[r].pending
    BY <1>1, <1>2, <1>3 DEF FreshLink
  <2> QED BY <1>1, <1>2, <2>1 DEF InPump, Linked
<1>6. ASSUME NEW r \in Peers
      PROVE  (~Linked(r) => inq[r] = <<>>) /\ (stream[r] # "up" => wire[r] = <<>>)
  BY DEF Flow, PeerFlow, Sock
<1>7. ASSUME NEW r \in Peers
      PROVE  \E k \in 0..Size(r) : InFlight(r)' = SubSeq(InFlight(r), 1, k)
  BY <1>1, <1>2, WholeCut DEF InFlight
<1>8. Cuts
  BY <1>2, <1>4, <1>5, <1>6, <1>7 DEF Cuts
<1>9. Kept
  BY DEF OpenSocket, Kept, Still
<1> QED BY <1>8, <1>9 DEF Kind

\* The reader thread moves a packet nearer, and drops none while both streams live: the
\* queue has room for all that can be on its way.
LEMMA DeliverKind ==
  ASSUME IInv, IInv', Flow, InCap >= 3, NEW p \in Peers, Deliver(p) PROVE Kind(p)
<1> DEFINE q == Other(p)
           a == inq[p]
           b == wire[p]
<1>1. /\ q \in Peers /\ q # p /\ Other(q) = p /\ Typed /\ PeerFlow(p) /\ PeerFlow(q)
      /\ SizesOf(q) /\ \A r \in Peers : r = p \/ r = q
  BY Ready, TwoPeers
<1>2. /\ core' = core /\ link' = link /\ stream' = stream /\ pc' = pc
      /\ stream[p] = "up" /\ wire[p] # <<>>
      /\ inq' = [inq EXCEPT ![p] = IF Len(a) < InCap THEN Append(a, Head(b)) ELSE a]
      /\ wire' = [wire EXCEPT ![p] = Tail(b)]
      /\ inq \in [Peers -> GoodQueue] /\ wire \in [Peers -> Seq(Packet)]
  BY DEF Deliver, IInv, QueueInv
<1>3. a \in Seq(Packet) /\ b \in Seq(Packet) /\ b # <<>>
  BY <1>1, <1>2 DEF Typed
<1>4. /\ InFlight(p)' = InFlight(p)
      /\ InFlight(q) = a \o b /\ InFlight(q)' = inq'[p] \o Tail(b)
  <2>1. inq'[q] = inq[q] /\ wire'[q] = wire[q] /\ wire'[p] = Tail(b)
    BY <1>1, <1>2
  <2> QED BY <1>1, <2>1, FlightTo DEF InFlight
<1>5. ASSUME Len(a) < InCap PROVE InFlight(q)' = InFlight(q)
  <2>1. inq'[p] = Append(a, Head(b))
    BY <1>1, <1>2, <1>5
  <2>2. Append(a, Head(b)) \o Tail(b) = a \o b
    <3> HIDE DEF a, b
    <3> QED BY <1>3, MoveHead
  <2> QED BY <1>4, <2>1, <2>2
<1>6. ASSUME ~(Len(a) < InCap)
      PROVE  ~BothUp /\ \E k \in 0..Size(q) : InFlight(q)' = SubSeq(InFlight(q), 1, k)
  <2>1. inq'[p] = a
    BY <1>1, <1>2, <1>6
  <2>2. Size(q) = Len(a) + Len(b) /\ Len(a) \in Nat /\ Len(b) \in Nat /\ Len(b) >= 1
    <3>1. InFlight(q) = a \o b
      BY <1>4
    <3> HIDE DEF a, b
    <3>2. Len(a \o b) = Len(a) + Len(b) /\ Len(a) \in Nat /\ Len(b) \in Nat /\ Len(b) >= 1
      BY <1>3, LenProperties, ConcatProperties
    <3> QED BY <3>1, <3>2 DEF Size
  <2>3. Size(q) <= 4 /\ (BothUp => Size(q) <= 3)
    <3>1. BothUp => BothIn
      BY DEF BothUp, BothIn, Linked
    <3> QED BY <1>1, <3>1 DEF PeerFlow, Short
  <2>4. Len(b) = 1 /\ ~BothUp
    <3> DEFINE m == Len(a)
               n == Len(b)
               z == Size(q)
    <3>1. InCap \in Nat /\ ~(m < InCap) /\ m \in Nat /\ n \in Nat /\ n >= 1 /\ z = m + n
          /\ z <= 4 /\ (BothUp => z <= 3)
      BY <1>6, <2>2, <2>3, BoundsAssumption
    <3> HIDE DEF m, n, z
    <3>2. m >= 3
      BY <3>1
    <3>3. n = 1 /\ ~BothUp
      BY <3>1, <3>2
    <3> QED BY <3>3 DEF n
  <2>5. Tail(b) = SubSeq(b, 1, 0)
    <3> HIDE DEF b
    <3>1. Tail(b) \in Seq(Packet) /\ Len(Tail(b)) = 0
      BY <1>3, <2>4, HeadTailProperties
    <3>2. SubSeq(b, 1, 0) \in Seq(Packet) /\ Len(SubSeq(b, 1, 0)) = 0
      BY <1>3, <2>4
    <3> QED BY <3>1, <3>2, EmptySeq
  <2>6. InFlight(q) = a \o b /\ InFlight(q)' = a \o SubSeq(b, 1, 0) /\ 0 \in 0..Len(b)
    <3>1. 0 \in 0..Len(b)
      BY <2>4
    <3>2. InFlight(q)' = inq'[p] \o Tail(b)
      BY <1>4
    <3> HIDE DEF a, b
    <3> QED BY <1>4, <2>1, <2>5, <3>1, <3>2
  <2>7. /\ Len(a) + 0 \in 0..Len(a \o b)
        /\ a \o SubSeq(b, 1, 0) = SubSeq(a \o b, 1, Len(a) + 0)
    <3> HIDE DEF a, b
    <3> QED BY <1>3, <2>6, CutConcat
  <2> QED BY <2>4, <2>6, <2>7 DEF Size
<1>7. ASSUME NEW r \in Peers
      PROVE  /\ \E k \in 0..Size(r) : InFlight(r)' = SubSeq(InFlight(r), 1, k)
             /\ BothUp => InFlight(r)' = InFlight(r)
  BY <1>1, <1>4, <1>5, <1>6, WholeCut
<1>8. ASSUME NEW r \in Peers
      PROVE  (~Linked(r) => inq'[r] = <<>>) /\ (stream'[r] # "up" => wire'[r] = <<>>)
  <2>1. (~Linked(r) => inq[r] = <<>>) /\ (stream[r] # "up" => wire[r] = <<>>)
    BY DEF Flow, PeerFlow, Sock
  <2> QED BY <1>2, <2>1 DEF Linked
<1>9. Cuts
  <2>1. BothUp' = BothUp
    BY <1>2 DEF BothUp
  <2> QED BY <1>2, <1>7, <1>8, <2>1 DEF Cuts, InPump, Linked
<1>10. Kept
  BY DEF Deliver, Kept, Still
<1> QED BY <1>9, <1>10 DEF Kind

\* A worker exits when its peer has left and nothing is to be read.
LEMMA ClosedKind ==
  ASSUME IInv, IInv', Flow, NEW p \in Peers, PeerClosed(p) PROVE Kind(p)
<1>1. /\ stream \in [Peers -> Streams] /\ Typed /\ stream' = [stream EXCEPT ![p] = "dead"]
      /\ core' = core /\ link' = link /\ inq' = inq /\ wire' = wire /\ pc' = pc
      /\ stream[p] = "up" /\ wire[p] = <<>>
  BY Ready DEF IInv, StreamInv, PeerClosed
<1>2. ~BothUp'
  BY <1>1 DEF BothUp
<1>3. ASSUME NEW r \in Peers
      PROVE  /\ Linked(r)' = Linked(r) /\ InPump(r)' = InPump(r)
             /\ ~Linked(r) => inq'[r] = <<>>
             /\ stream'[r] # "up" => wire'[r] = <<>>
             /\ stream[r] = "none" /\ InPump(r) => stream'[r] = "none"
  <2>1. (~Linked(r) => inq[r] = <<>>) /\ (stream[r] # "up" => wire[r] = <<>>)
    BY DEF Flow, PeerFlow, Sock
  <2> QED BY <1>1, <2>1 DEF Linked, InPump
<1>4. ASSUME NEW r \in Peers
      PROVE  \E k \in 0..Size(r) : InFlight(r)' = SubSeq(InFlight(r), 1, k)
  BY <1>1, WholeCut DEF InFlight
<1>5. Cuts
  BY <1>1, <1>2, <1>3, <1>4 DEF Cuts
<1>6. Kept
  BY DEF PeerClosed, Kept, Still
<1> QED BY <1>5, <1>6 DEF Kind

\* A socket error cuts both directions.
LEMMA FailKind ==
  ASSUME IInv, IInv', Flow, NEW p \in Peers, StreamFails(p) PROVE Kind(p)
<1> DEFINE q == Other(p)
<1>1. /\ q \in Peers /\ q # p /\ Other(q) = p /\ Typed /\ \A r \in Peers : r = p \/ r = q
      /\ stream \in [Peers -> Streams] /\ wire \in [Peers -> Seq(Packet)]
  BY Ready, TwoPeers DEF IInv, StreamInv, QueueInv
<1>2. /\ core' = core /\ link' = link /\ inq' = inq /\ pc' = pc
      /\ stream[p] = "up" /\ stream' = [stream EXCEPT ![p] = "dead"]
  BY DEF StreamFails
<1>3. PICK n \in 0..Len(wire[q]) :
        wire' = [wire EXCEPT ![p] = <<>>, ![q] = SubSeq(@, 1, n)]
  BY DEF StreamFails
<1>4. wire'[p] = <<>> /\ wire'[q] = SubSeq(wire[q], 1, n)
  <2> DEFINE d == [wire EXCEPT ![p] = <<>>]
             e == SubSeq(wire[q], 1, n)
  <2>1. d[q] = wire[q] /\ d[p] = <<>> /\ DOMAIN d = Peers
    BY <1>1
  <2> HIDE DEF q
  <2> HIDE DEF d, e
  <2>3. wire' = [d EXCEPT ![q] = e]
    BY <1>1, <1>3, <2>1 DEF d, e
  <2>4. wire'[q] = e /\ wire'[p] = d[p]
    BY <1>1, <2>1, <2>3
  <2> QED BY <2>1, <2>4 DEF e
<1>5. ~BothUp'
  BY <1>1, <1>2 DEF BothUp
<1>6. ASSUME NEW r \in Peers
      PROVE  /\ Linked(r)' = Linked(r) /\ InPump(r)' = InPump(r)
             /\ ~Linked(r) => inq'[r] = <<>>
             /\ stream'[r] # "up" => wire'[r] = <<>>
             /\ stream[r] = "none" /\ InPump(r) => stream'[r] = "none"
  <2>1. (~Linked(r) => inq[r] = <<>>) /\ (stream[r] # "up" => wire[r] = <<>>)
    BY DEF Flow, PeerFlow, Sock
  <2>2. wire[q] = <<>> => SubSeq(wire[q], 1, n) = <<>>
    BY <1>1
  <2> QED BY <1>1, <1>2, <1>4, <2>1, <2>2 DEF Linked, InPump
<1>7. ASSUME NEW r \in Peers, NEW m \in 0..Len(wire[Other(r)]),
             wire'[Other(r)] = SubSeq(wire[Other(r)], 1, m)
      PROVE  \E k \in 0..Size(r) : InFlight(r)' = SubSeq(InFlight(r), 1, k)
  <2> DEFINE a == inq[Other(r)]
             b == wire[Other(r)]
  <2>1. a \in Seq(Packet) /\ b \in Seq(Packet)
        /\ InFlight(r) = a \o b /\ InFlight(r)' = a \o SubSeq(b, 1, m)
    BY <1>1, <1>2, <1>7, TwoPeers DEF Typed, InFlight
  <2>2. /\ Len(a) + m \in 0..Len(a \o b) /\ m \in 0..Len(b)
        /\ a \o SubSeq(b, 1, m) = SubSeq(a \o b, 1, Len(a) + m)
    <3>1. m \in 0..Len(b)
      OBVIOUS
    <3> HIDE DEF a, b
    <3> QED BY <2>1, <3>1, CutConcat
  <2> QED BY <2>1, <2>2 DEF Size
<1>8. \E k \in 0..Size(p) : InFlight(p)' = SubSeq(InFlight(p), 1, k)
  BY <1>4, <1>7
<1>9. \E k \in 0..Size(q) : InFlight(q)' = SubSeq(InFlight(q), 1, k)
  <2>1. wire[p] \in Seq(Packet)
    BY <1>1
  <2>2. 0 \in 0..Len(wire[p]) /\ SubSeq(wire[p], 1, 0) = <<>>
    BY <2>1, LenProperties
  <2> QED BY <1>1, <1>4, <1>7, <2>2
<1>10. Cuts
  BY <1>1, <1>2, <1>5, <1>6, <1>8, <1>9 DEF Cuts
<1>11. Kept
  BY DEF StreamFails, Kept, Still
<1> QED BY <1>10, <1>11 DEF Kind

\* A new connection finds nothing of the one before.
LEMMA EstablishFlow ==
  ASSUME IInv, IInv', Flow, Establish
  PROVE  /\ Flow'
         /\ \A p \in Peers : /\ InFlight(p)' = <<>> /\ Sent(p)' = 0 /\ Replies(p)' = 0
                            /\ link'[p].pending = <<>> /\ core'[p].link_out = <<>>
<1>1. ASSUME NEW p \in Peers
      PROVE  /\ Port(p)' /\ Sock(p)' /\ Reply(p)' /\ Short(p)' /\ Sent(p)' = 0 /\ Owed(p)' = 0
             /\ Held(p)' = 0 /\ InFlight(p)' = <<>> /\ Replies(p)' = 0
             /\ link'[p].pending = <<>> /\ core'[p].link_out = <<>>
  <2> DEFINE q == Other(p)
  <2>1. /\ q \in Peers /\ q # p /\ Other(q) = p /\ Typed' /\ PeerFlow(p) /\ PeerFlow(q)
        /\ SizesOf(p)' /\ core[p] \in GoodCore /\ link[p] \in GoodLink
    BY <1>1, Ready DEF IInv, CoreInv, LinkInv
  <2>2. /\ stream[p] = "dialing" /\ stream[q] = "dialing" /\ stream'[p] = "up"
        /\ wire'[q] = <<>> /\ wire'[p] = <<>>
        /\ core' = core /\ link' = link /\ inq' = inq /\ pc' = pc
    BY <1>1, <2>1 DEF Establish
  <2>3. /\ inq[p] = <<>> /\ inq[q] = <<>> /\ link[p].attached = FALSE
        /\ link[p].pending = <<>> /\ link[q].pending = <<>> /\ ~InPump(p)
    BY <2>1, <2>2, LinkFields DEF PeerFlow, Sock, Linked
  <2>4. core[p].stalled = FALSE /\ core[p].on = FALSE /\ core[p].link_out = <<>>
    BY <2>1, <2>3, CoreFields DEF PeerFlow, Port
  <2>5. InFlight(p)' = <<>>
    BY <2>2, <2>3 DEF InFlight
  <2>6. Size(p)' = 0 /\ Wired(p)' = 0 /\ Replies(p)' = 0
    BY <1>1, <2>5, FlightEmpty
  <2>7. Out(p)' = 0 /\ Waiting(q)' = 0 /\ Held(p)' = 0
    BY <2>2, <2>3, <2>4 DEF Out, Waiting, Held
  <2>8. Port(p)' /\ Sock(p)'
    BY <2>1, <2>2, <2>3, <2>4 DEF PeerFlow, Port, Sock, InPump, Linked
  <2>9. Reply(p)'
    BY <2>5, ReplyEmpty DEF Reply
  <2>10. Short(p)'
    BY <2>2, <2>3, <2>6 DEF Short
  <2>11. Sent(p)' = 0 /\ Owed(p)' = 0
    BY <2>1, <2>6, <2>7 DEF SizesOf
  <2> QED BY <2>2, <2>3, <2>4, <2>5, <2>6, <2>7, <2>8, <2>9, <2>10, <2>11
<1>2. PICK p \in Peers : TRUE
  BY PeersAssumption
<1>3. Other(p) \in Peers /\ Typed'
  BY <1>2, Ready
<1>4. Balance(p)' /\ (Sent(Other(p)) <= 2)'
  <2>1. /\ Sent(p)' = 0 /\ Owed(p)' = 0 /\ Held(p)' = 0
        /\ Sent(Other(p))' = 0 /\ Owed(Other(p))' = 0 /\ Held(Other(p))' = 0
    BY <1>1, <1>2, <1>3
  <2> QED BY <2>1 DEF Balance
<1>5. Flow'
  BY <1>1, <1>2, <1>3, <1>4, Assemble
<1> QED BY <1>1, <1>5
-----------------------------------------------------------------------------
\* Two unlinked emulators have nothing on its way.
LEMMA FlowInit == Init => Flow
<1> SUFFICES ASSUME Init, NEW p \in Peers PROVE PeerFlow(p)
  BY DEF Flow
<1> DEFINE q == Other(p)
<1>1. q \in Peers /\ Other(q) = p /\ Typed
  BY TwoPeers, FlowTypes, InitStep
<1>2. /\ core[p] = FreshCore /\ core[q] = FreshCore /\ link[p] = FreshLink /\ link[q] = FreshLink
      /\ stream[p] = "none" /\ inq[p] = <<>> /\ inq[q] = <<>> /\ wire[p] = <<>> /\ wire[q] = <<>>
      /\ pc[p] = "run"
  BY <1>1 DEF Init
<1>3. InFlight(p) = <<>> /\ InFlight(q) = <<>>
  BY <1>1, <1>2 DEF InFlight
<1>4. /\ Size(p) = 0 /\ Wired(p) = 0 /\ Replies(p) = 0
      /\ Wired(q) = 0 /\ Replies(q) = 0
  BY <1>1, <1>3, FlightEmpty
<1>5. /\ Out(p) = 0 /\ Out(q) = 0 /\ Waiting(p) = 0 /\ Waiting(q) = 0
      /\ Held(p) = 0 /\ Held(q) = 0
  BY <1>2 DEF Out, Waiting, Held, FreshCore, FreshLink
<1>6. Sent(p) = 0 /\ Owed(p) = 0 /\ Sent(q) = 0 /\ Owed(q) = 0
  BY <1>1, <1>4, <1>5 DEF Sent, Owed
<1>7. Port(p) /\ Sock(p)
  BY <1>2 DEF Port, Sock, FreshCore, FreshLink, InPump, Linked
<1>8. Reply(p)
  BY <1>3, ReplyEmpty DEF Reply
<1>9. Short(p)
  <2>1. ~BothUp
    BY <1>2 DEF BothUp
  <2> QED BY <1>4, <2>1 DEF Short
<1>10. Balance(p)
  BY <1>5, <1>6 DEF Balance
<1> QED BY <1>7, <1>8, <1>9, <1>10 DEF PeerFlow

\* A frontend that neither aborts a transfer nor replaces a machine under the link, and
\* queues with room for what can be on its way.
Steady == Faults \subseteq {"close", "fail"}
Roomy == InCap >= 3 /\ PendingCap >= 2

\* Every step is a new connection or of one of those kinds.
LEMMA StepKind ==
  ASSUME IInv, IInv', Flow, Steady, Roomy, [Next]_vars
  PROVE  Establish \/ \E p \in Peers : Kind(p)
<1>1. CASE UNCHANGED vars
  <2>1. PICK p \in Peers : TRUE
    BY PeersAssumption
  <2>2. Quiet /\ Kept
    BY <1>1 DEF vars, Quiet, InPump, Kept, Still
  <2> QED BY <2>1, <2>2 DEF Kind
<1>2. ASSUME NEW p \in Peers, Game(p) PROVE Kind(p)
  BY <1>2, GameKind DEF Steady
<1>3. ASSUME NEW p \in Peers, Slice(p) \/ Pump(p) PROVE Kind(p)
  BY <1>3, SliceKind, HeadKind, PollKind, DrainKind DEF Pump, Roomy
<1>4. ASSUME NEW p \in Peers, OpenSocket(p) \/ Socket(p) \/ StreamFails(p) PROVE Kind(p)
  BY <1>4, OpenKind, DeliverKind, ClosedKind, FailKind DEF Socket, Roomy
<1>5. ASSUME NEW p \in Peers, UserDisconnect(p) PROVE Kind(p)
  BY <1>5, DisconnectDrops DEF UserDisconnect, Kind, Kept, Still
<1>6. ASSUME NEW p \in Peers, Replace(p) PROVE FALSE
  BY <1>6 DEF Replace, ResetMachine, LoadState, QuickSave, QuickLoad, Replacing, Steady
<1> QED BY <1>1, <1>2, <1>3, <1>4, <1>5, <1>6 DEF Next

\* Every step keeps the flow.
LEMMA FlowStep == ASSUME IInv, IInv', Flow, Steady, Roomy, [Next]_vars PROVE Flow'
<1>1. ASSUME NEW p \in Peers, Kind(p) PROVE Flow'
  BY <1>1, QuietFlow, StallFlow, PostFlow, CutFlow, DropFlow, BufferFlow, AnswerFlow, FeedFlow,
     ReleaseFlow, IgnoreFlow DEF Kind, Roomy
<1> QED BY <1>1, StepKind, EstablishFlow

\* Whatever the order of the two UI threads and the socket threads: every byte shipped
\* or answered and not yet taken stands for a master that is held, one for one while
\* both streams are up (link.rs, serial.rs).
THEOREM Flows == ASSUME Steady, Roomy PROVE Spec => [](IInv /\ Flow)
<1>1. Init => IInv /\ Flow
  BY InitStep, FlowInit
<1>2. IInv /\ IInv' /\ Flow /\ [Next]_vars => Flow'
  BY FlowStep
<1> QED BY <1>1, <1>2, Inductive, PTL DEF Spec

\* The queues between two peers hold at most two bytes of a direction, whatever their
\* caps above that: the drops of a full queue (socket.rs, link.rs) are out of reach
\* while nobody aborts a transfer or replaces a machine.
THEOREM AtMostTwo == ASSUME Steady, Roomy PROVE Spec => []AtMostTwoAhead
<1>1. IInv /\ Flow => AtMostTwoAhead
  <2> SUFFICES ASSUME IInv, Flow, NEW p \in Peers
               PROVE  Cardinality(SyncsTo(p, "SYNC1")) + Len(link[Other(p)].pending)
                        + Len(core[p].link_out) <= 2
    BY DEF AtMostTwoAhead
  <2>1. Typed /\ PeerFlow(p)
    BY FlowTypes DEF Flow
  <2>2. Cardinality(SyncsTo(p, "SYNC1")) = Wired(p)
    <3>1. DOMAIN InFlight(p) = 1..Len(InFlight(p))
      BY <2>1 DEF Typed
    <3> QED BY <3>1 DEF SyncsTo, Wired, CountOf, CountTo
  <2>3. SizesOf(p) /\ Waiting(Other(p)) \in Nat
    BY <2>1, Sizes, TwoPeers DEF SizesOf
  <2>4. Wired(p) + Waiting(Other(p)) + Out(p) <= 2
    BY <2>1, <2>3 DEF PeerFlow, Balance, SizesOf
  <2> QED BY <2>2, <2>4 DEF Waiting, Out
<1> QED BY <1>1, Flows, PTL

\* A held master is owed a completion: while both streams are up its byte, the reply to
\* it or a byte of its peer's is somewhere between the two games.
THEOREM HeldIsOwed == ASSUME Steady, Roomy PROVE Spec => []StalledMasterIsOwed
<1>1. IInv /\ Flow => StalledMasterIsOwed
  <2> SUFFICES ASSUME IInv, Flow, NEW p \in Peers, core[p].stalled, BothUp,
                      core[p].link_out = <<>>, SyncsTo(p, "SYNC1") = {},
                      link[Other(p)].pending = <<>>, SyncsTo(Other(p), "SYNC1") = {},
                      SyncsTo(Other(p), "SYNC2") = {}, link[p].pending = <<>>,
                      core[Other(p)].link_out = <<>>
               PROVE  FALSE
    BY DEF StalledMasterIsOwed, BothUp
  <2> DEFINE q == Other(p)
  <2>1. /\ Typed /\ PeerFlow(p) /\ PeerFlow(q) /\ q \in Peers /\ Other(q) = p
        /\ SizesOf(p) /\ SizesOf(q)
    BY FlowTypes, TwoPeers, Sizes DEF Flow
  <2>2. ASSUME NEW r \in Peers, NEW c, SyncsTo(r, c) = {} PROVE CountOf(InFlight(r), c) = 0
    <3>1. DOMAIN InFlight(r) = 1..Len(InFlight(r))
      BY <2>1 DEF Typed
    <3> QED BY <2>2, <3>1, FS_EmptySet DEF SyncsTo, CountOf, CountTo
  <2>3. Wired(p) = 0 /\ Wired(q) = 0 /\ Replies(q) = 0
    BY <2>1, <2>2 DEF Wired, Replies
  <2>4. Out(p) = 0 /\ Out(q) = 0 /\ Waiting(p) = 0 /\ Waiting(q) = 0 /\ Held(p) = 1
    BY DEF Out, Waiting, Held
  <2>5. Owed(p) = Replies(p) /\ Owed(q) = 0 /\ Replies(p) \in Nat /\ Held(q) \in Nat
    BY <2>1, <2>3, <2>4 DEF SizesOf
  <2>6. Owed(p) + Owed(q) = Held(p) + Held(q)
    BY <2>1 DEF PeerFlow, Balance
  <2>7. Replies(p) <= 1 /\ (Replies(p) >= 1 => core[q].stalled)
    BY <2>1, OneReply DEF PeerFlow, Reply, Replies, Typed
  <2>8. Replies(p) >= 1 => Held(q) = 1
    BY <2>7 DEF Held
  <2> QED BY <2>4, <2>5, <2>6, <2>7, <2>8
<1> QED BY <1>1, Flows, PTL
-----------------------------------------------------------------------------
\* The bytes buffered, and the bytes on their way, count on from a number.
Lined(s, n) == \A i \in 1..Len(s) : s[i] = n + i
Numbered(s, n) ==
  \A i \in 1..Len(s) : s[i].cmd = "SYNC1" => s[i].id = n + CountTo(s, "SYNC1", i)

\* The first byte buffered is the next one.
LEMMA LineTail ==
  ASSUME NEW s \in Seq(XferId), s # <<>>, NEW n \in Nat, Lined(s, n)
  PROVE  Head(s) = n + 1 /\ Lined(Tail(s), n + 1)
<1>1. /\ Len(Tail(s)) \in Nat /\ Len(s) = Len(Tail(s)) + 1 /\ Head(s) = s[1]
      /\ \A j \in 1..Len(Tail(s)) : Tail(s)[j] = s[j + 1]
  BY LenProperties, HeadTailProperties
<1>2. 1 \in 1..Len(s)
  BY <1>1
<1>3. Head(s) = n + 1
  BY <1>1, <1>2 DEF Lined
<1>4. ASSUME NEW j \in 1..Len(Tail(s)) PROVE Tail(s)[j] = (n + 1) + j
  <2>1. j + 1 \in 1..Len(s) /\ Tail(s)[j] = s[j + 1]
    BY <1>1
  <2>2. s[j + 1] = n + (j + 1)
    BY <2>1 DEF Lined
  <2>3. n + (j + 1) = (n + 1) + j
    BY <1>1
  <2> QED BY <2>1, <2>2, <2>3
<1> QED BY <1>3, <1>4 DEF Lined

\* A byte more.
LEMMA LineAppend ==
  ASSUME NEW s \in Seq(XferId), NEW x \in XferId, NEW n \in Nat, Lined(s, n),
         x = n + Len(s) + 1
  PROVE  Lined(Append(s, x), n)
<1> DEFINE t == Append(s, x)
<1>1. /\ Len(s) \in Nat /\ Len(t) = Len(s) + 1 /\ t[Len(s) + 1] = x
      /\ \A j \in 1..Len(s) : t[j] = s[j]
  BY AppendProperties, LenProperties
<1> HIDE DEF t
<1> SUFFICES ASSUME NEW i \in 1..Len(t) PROVE t[i] = n + i
  BY DEF Lined, t
<1>2. CASE i = Len(s) + 1
  <2>1. x = n + i
    BY <1>1, <1>2
  <2> QED BY <1>1, <1>2, <2>1
<1>3. CASE i # Len(s) + 1
  <2>1. i \in 1..Len(s)
    BY <1>1, <1>3
  <2> QED BY <1>1, <2>1 DEF Lined
<1> QED BY <1>2, <1>3

\* The bytes on their way, when the head is taken, a packet is sent, or they are cut.
LEMMA NumTail ==
  ASSUME NEW s \in Seq(Packet), s # <<>>, NEW n \in Nat, Numbered(s, n)
  PROVE  /\ Head(s).cmd = "SYNC1" => Head(s).id = n + 1 /\ Numbered(Tail(s), n + 1)
         /\ Head(s).cmd # "SYNC1" => Numbered(Tail(s), n)
<1> DEFINE t == Tail(s)
           k == IF Head(s).cmd = "SYNC1" THEN 1 ELSE 0
<1>1. /\ Len(t) \in Nat /\ Len(s) = Len(t) + 1 /\ Head(s) = s[1]
      /\ \A j \in 1..Len(t) : t[j] = s[j + 1]
  BY LenProperties, HeadTailProperties
<1>2. ASSUME Head(s).cmd = "SYNC1" PROVE Head(s).id = n + 1
  <2>1. 1 \in 1..Len(s) /\ s[1].cmd = "SYNC1"
    BY <1>1, <1>2
  <2>2. CountTo(s, "SYNC1", 0 + 1) = CountTo(s, "SYNC1", 0) + 1
    BY <2>1, CountNext
  <2>3. CountTo(s, "SYNC1", 1) = 1
    BY <2>2, CountNone
  <2> QED BY <1>1, <2>1, <2>3 DEF Numbered
<1>3. Numbered(t, n + k)
  <2> SUFFICES ASSUME NEW j \in 1..Len(t), t[j].cmd = "SYNC1"
               PROVE  t[j].id = (n + k) + CountTo(t, "SYNC1", j)
    BY DEF Numbered
  <2>1. j + 1 \in 1..Len(s) /\ s[j + 1].cmd = "SYNC1" /\ j \in 0..Len(t) /\ j \in Nat
        /\ t[j] = s[j + 1]
    BY <1>1
  <2>2. s[j + 1].id = n + CountTo(s, "SYNC1", j + 1)
    BY <2>1 DEF Numbered
  <2>3. CountTo(s, "SYNC1", j + 1) = CountTo(t, "SYNC1", j) + k
    BY <2>1, CountShift
  <2>4. CountTo(t, "SYNC1", j) \in Nat
    BY <2>1, CountType
  <2>5. k \in Nat
    OBVIOUS
  <2> HIDE DEF t, k
  <2>6. n + (CountTo(t, "SYNC1", j) + k) = (n + k) + CountTo(t, "SYNC1", j)
    BY <2>4, <2>5
  <2> QED BY <2>1, <2>2, <2>3, <2>6
<1>4. Head(s).cmd = "SYNC1" => Numbered(t, n + 1)
  BY <1>3
<1>5. Head(s).cmd # "SYNC1" => Numbered(t, n)
  <2>1. n + 0 = n
    OBVIOUS
  <2> HIDE DEF t
  <2> QED BY <1>3, <2>1
<1> QED BY <1>2, <1>4, <1>5

\* A packet sent carries the next number, if it carries one.
LEMMA NumAppend ==
  ASSUME NEW s \in Seq(Packet), NEW x \in Packet, NEW n \in Nat, Numbered(s, n),
         x.cmd = "SYNC1" => x.id = n + CountOf(s, "SYNC1") + 1
  PROVE  Numbered(Append(s, x), n)
<1> DEFINE t == Append(s, x)
<1>1. /\ Len(s) \in Nat /\ Len(t) = Len(s) + 1 /\ t[Len(s) + 1] = x
      /\ \A j \in 1..Len(s) : t[j] = s[j]
  BY AppendProperties, LenProperties
<1> HIDE DEF t
<1> SUFFICES ASSUME NEW i \in 1..Len(t), t[i].cmd = "SYNC1"
             PROVE  t[i].id = n + CountTo(t, "SYNC1", i)
  BY DEF Numbered, t
<1>2. CASE i = Len(s) + 1
  <2>1. t[i] = x /\ x.cmd = "SYNC1"
    BY <1>1, <1>2
  <2>2. CountTo(t, "SYNC1", Len(s) + 1) = CountTo(t, "SYNC1", Len(s)) + 1
    BY <1>1, <1>2, <2>1, CountNext
  <2>3. CountTo(t, "SYNC1", Len(s)) = CountTo(s, "SYNC1", Len(s))
    BY <1>1, CountSame
  <2>4. CountTo(s, "SYNC1", Len(s)) \in Nat
    BY <1>1, CountType
  <2>5. x.id = n + CountTo(s, "SYNC1", Len(s)) + 1
    BY <2>1 DEF CountOf
  <2>6. n + CountTo(s, "SYNC1", Len(s)) + 1 = n + (CountTo(s, "SYNC1", Len(s)) + 1)
    BY <2>4
  <2> QED BY <1>2, <2>1, <2>2, <2>3, <2>5, <2>6
<1>3. CASE i # Len(s) + 1
  <2>1. i \in 1..Len(s) /\ i \in Nat /\ \A j \in 1..i : t[j] = s[j]
    BY <1>1, <1>3
  <2>2. CountTo(t, "SYNC1", i) = CountTo(s, "SYNC1", i)
    BY <2>1, CountSame
  <2> QED BY <1>1, <2>1, <2>2 DEF Numbered
<1> QED BY <1>2, <1>3

\* A cut keeps the numbers of what is left.
LEMMA NumCut ==
  ASSUME NEW s \in Seq(Packet), NEW k \in 0..Len(s), NEW n, Numbered(s, n)
  PROVE  Numbered(SubSeq(s, 1, k), n)
<1> DEFINE t == SubSeq(s, 1, k)
<1>1. k \in Nat /\ Len(s) \in Nat /\ k <= Len(s) /\ Len(t) = k /\ \A j \in 1..k : t[j] = s[j]
  BY LenProperties
<1> HIDE DEF t
<1> SUFFICES ASSUME NEW i \in 1..Len(t), t[i].cmd = "SYNC1"
             PROVE  t[i].id = n + CountTo(t, "SYNC1", i)
  BY DEF Numbered, t
<1>2. i \in 1..Len(s) /\ i \in Nat /\ \A j \in 1..i : t[j] = s[j]
  BY <1>1
<1>3. CountTo(t, "SYNC1", i) = CountTo(s, "SYNC1", i)
  BY <1>2, CountSame
<1> QED BY <1>1, <1>2, <1>3 DEF Numbered

\* Nothing buffered or on its way is in order.
LEMMA NumEmpty == ASSUME NEW n PROVE Numbered(<<>>, n) /\ Lined(<<>>, n)
BY DEF Numbered, Lined

\* What the numbers of the bytes say, with one session: those buffered and on their way
\* follow the last one taken, a reply answers the last one shipped.
Order(p) ==
  /\ Lined(link[Other(p)].pending, took[Other(p)])
  /\ Numbered(InFlight(p), took[Other(p)] + Waiting(Other(p)))
  /\ Replies(p) >= 1 => took[p] = xfer[Other(p)]
  /\ took[Other(p)] + Sent(p) <= xfer[p]
  /\ BothUp => took[Other(p)] + Sent(p) = xfer[p]
  /\ core[p].link_out # <<>> => core[p].link_out[1] = xfer[p]
Fresh == sessions = 0 => \A p \in Peers : ~Linked(p) /\ xfer[p] = 0 /\ took[p] = 0
Orders == Fresh /\ \A p \in Peers : Order(p)

\* The numbers are numbers.
LEMMA Numbers ==
  ASSUME IInv, NEW p \in Peers
  PROVE  xfer[p] \in Nat /\ took[p] \in Nat
BY BoundsAssumption DEF IInv, CountInv, XferId

\* The same after a step.
LEMMA NumbersNext ==
  ASSUME IInv', NEW p \in Peers
  PROVE  xfer'[p] \in Nat /\ took'[p] \in Nat
BY BoundsAssumption DEF IInv, CountInv, XferId

\* The direction of r, when nothing of it is taken or shipped.
LEMMA OrderKept ==
  ASSUME IInv, Typed, Typed', NEW r \in Peers, Order(r),
         link'[Other(r)].pending = link[Other(r)].pending \/ link'[Other(r)].pending = <<>>,
         core'[r].link_out = core[r].link_out \/ core'[r].link_out = <<>>,
         took' = took, xfer' = xfer,
         Numbered(InFlight(r)', took[Other(r)] + Waiting(Other(r))'),
         Sent(r)' <= Sent(r), BothUp' => BothUp /\ Sent(r)' = Sent(r),
         Replies(r)' <= Replies(r)
  PROVE  Order(r)'
<1> DEFINE o == Other(r)
<1>1. o \in Peers /\ SizesOf(r) /\ SizesOf(r)'
  BY TwoPeers, Sizes, SizesNext
<1>2. xfer[r] \in Nat /\ took[o] \in Nat
  BY <1>1, Numbers
<1>3. Lined(link'[o].pending, took[o])
  BY NumEmpty DEF Order
<1>4. Replies(r)' >= 1 => took[r] = xfer[o]
  <2>1. Replies(r)' >= 1 => Replies(r) >= 1
    BY <1>1 DEF SizesOf
  <2> QED BY <2>1 DEF Order
<1>5. took[o] + Sent(r)' <= xfer[r]
  <2>1. took[o] + Sent(r) <= xfer[r]
    BY DEF Order
  <2> DEFINE t == took[o]
             u == Sent(r)
             v == Sent(r)'
             x == xfer[r]
  <2>2. t \in Nat /\ u \in Nat /\ v \in Nat /\ x \in Nat /\ v <= u /\ t + u <= x
    BY <1>1, <1>2, <2>1 DEF SizesOf
  <2> HIDE DEF t, u, v, x
  <2>3. t + v <= x
    BY <2>2
  <2> QED BY <2>3 DEF t, v, x
<1>6. BothUp' => took[o] + Sent(r)' = xfer[r]
  BY DEF Order
<1>7. core'[r].link_out # <<>> => core'[r].link_out[1] = xfer[r]
  BY DEF Order
<1> QED BY <1>3, <1>4, <1>5, <1>6, <1>7 DEF Order
-----------------------------------------------------------------------------
\* What a step of the order starts from.
LEMMA Sorted ==
  ASSUME IInv, IInv', Flow, Orders, NEW p \in Peers
  PROVE  /\ Other(p) \in Peers /\ Other(p) # p /\ Other(Other(p)) = p
         /\ Typed /\ Typed' /\ Order(p) /\ Order(Other(p)) /\ PeerFlow(p) /\ PeerFlow(Other(p))
         /\ SizesOf(p) /\ SizesOf(Other(p)) /\ SizesOf(p)' /\ SizesOf(Other(p))'
         /\ xfer[p] \in Nat /\ took[p] \in Nat /\ xfer'[p] \in Nat /\ took'[p] \in Nat
         /\ xfer[Other(p)] \in Nat /\ took[Other(p)] \in Nat
         /\ \A r \in Peers : r = p \/ r = Other(p)
BY Ready, Numbers, NumbersNext, TwoPeers DEF Orders

\* A quiet step keeps the order.
LEMMA QuietOrder ==
  ASSUME IInv, IInv', Flow, Orders, Quiet, Still, sessions' = sessions
  PROVE  Orders'
<1>1. /\ BothUp' = BothUp
      /\ \A r \in Peers : /\ InFlight(r)' = InFlight(r) /\ Sent(r)' = Sent(r)
                          /\ Replies(r)' = Replies(r) /\ Waiting(r)' = Waiting(r)
  BY QuietFlow
<1>2. ASSUME NEW r \in Peers PROVE Order(r)'
  <2>1. Other(r) \in Peers /\ Order(r) /\ core'[r].link_out = core[r].link_out /\ link' = link
    BY Sorted DEF Quiet
  <2> QED BY <1>1, <2>1 DEF Order, Still
<1>3. Fresh'
  BY DEF Orders, Fresh, Quiet, Still, Linked
<1> QED BY <1>2, <1>3 DEF Orders

\* The byte of a transfer that ends is the next one.
LEMMA StallOrder ==
  ASSUME IInv, IInv', Flow, Orders, NEW p \in Peers, Stalls(p),
         xfer' = [xfer EXCEPT ![p] = @ + 1], took' = took, sessions' = sessions
  PROVE  Orders'
<1> DEFINE q == Other(p)
<1>1. /\ q \in Peers /\ q # p /\ Other(q) = p /\ Typed /\ Order(p) /\ Order(q)
      /\ PeerFlow(p) /\ PeerFlow(q) /\ SizesOf(p) /\ SizesOf(q)
      /\ xfer[p] \in Nat /\ took[q] \in Nat /\ \A r \in Peers : r = p \/ r = q
  BY Sorted
<1>2. /\ BothUp' = BothUp /\ link' = link
      /\ InFlight(p)' = InFlight(p) /\ InFlight(q)' = InFlight(q)
      /\ Sent(p)' = Sent(p) + 1 /\ Sent(q)' = Sent(q)
      /\ Replies(p)' = Replies(p) /\ Replies(q)' = Replies(q)
      /\ core'[p].link_out[1] = xfer'[p] /\ core'[q] = core[q]
  BY StallFlow
<1>3. xfer'[p] = xfer[p] + 1 /\ xfer'[q] = xfer[q]
  BY <1>1 DEF IInv, CountInv
<1>4. Waiting(p)' = Waiting(p) /\ Waiting(q)' = Waiting(q)
  BY <1>2 DEF Waiting
<1>5. Replies(q) = 0
  <2>1. Replies(q) >= 1 => core[p].stalled
    BY <1>1, OneReply DEF PeerFlow, Reply, Replies, Typed
  <2>2. Replies(q) \in Nat /\ ~core[p].stalled
    BY <1>1 DEF SizesOf, Stalls
  <2> QED BY <2>1, <2>2
<1>6. Order(p)'
  <2>1. took[q] + Sent(p)' <= xfer'[p] /\ (BothUp => took[q] + Sent(p)' = xfer'[p])
    <3>1. took[q] + Sent(p) <= xfer[p] /\ (BothUp => took[q] + Sent(p) = xfer[p])
      BY <1>1 DEF Order
    <3>2. Sent(p) \in Nat
      BY <1>1 DEF SizesOf
    <3> QED BY <1>1, <1>2, <1>3, <3>1, <3>2
  <2> QED BY <1>1, <1>2, <1>3, <1>4, <2>1 DEF Order
<1>7. Order(q)'
  <2>1. ~(Replies(q)' >= 1)
    BY <1>2, <1>5
  <2> QED BY <1>1, <1>2, <1>3, <1>4, <2>1 DEF Order
<1>8. Fresh'
  <2>1. Linked(p)
    BY <1>1 DEF Stalls, PeerFlow, Port, Sock
  <2> QED BY <2>1 DEF Orders, Fresh
<1> QED BY <1>1, <1>6, <1>7, <1>8 DEF Orders

\* The byte shipped follows those on their way.
LEMMA PostOrder ==
  ASSUME IInv, IInv', Flow, Orders, NEW p \in Peers, NEW x, Posts(p, x),
         x.cmd = "SYNC1" => x.id = core[p].link_out[1], Still, sessions' = sessions
  PROVE  Orders'
<1> DEFINE q == Other(p)
<1>1. /\ q \in Peers /\ q # p /\ Other(q) = p /\ Typed /\ Typed' /\ Order(p) /\ Order(q)
      /\ SizesOf(p) /\ SizesOf(q)
      /\ xfer[p] \in Nat /\ took[q] \in Nat /\ \A r \in Peers : r = p \/ r = q
  BY Sorted
<1>2. /\ BothUp' = BothUp
      /\ InFlight(p)' = IF BothUp THEN Append(InFlight(p), x) ELSE InFlight(p)
      /\ InFlight(q)' = InFlight(q)
      /\ Sent(q)' = Sent(q) /\ Sent(p)' <= Sent(p) /\ (BothUp => Sent(p)' = Sent(p))
      /\ Replies(p)' = Replies(p) /\ Replies(q)' = Replies(q)
  BY PostFlow
<1>3. /\ link'[p].pending = link[p].pending /\ link'[q].pending = link[q].pending
      /\ core'[p].link_out = <<>> /\ core'[q].link_out = core[q].link_out
      /\ x \in Packet /\ stream' = stream
  BY <1>1 DEF Posts
<1>4. Waiting(p)' = Waiting(p) /\ Waiting(q)' = Waiting(q)
  BY <1>3 DEF Waiting
<1>5. Numbered(InFlight(p)', took[q] + Waiting(q))
  <2>1. Numbered(InFlight(p), took[q] + Waiting(q))
    BY <1>1 DEF Order
  <2>2. CASE ~BothUp
    BY <1>2, <2>1, <2>2
  <2>3. CASE BothUp
    <3>1. ASSUME x.cmd = "SYNC1" PROVE x.id = took[q] + Waiting(q) + Wired(p) + 1
      <4>1. Out(p) = 1 /\ core[p].link_out # <<>>
        <5>1. Len(core[p].link_out) = 1
          BY <3>1 DEF Posts
        <5> QED BY <5>1 DEF Out
      <4>2. x.id = xfer[p] /\ took[q] + Sent(p) = xfer[p]
        BY <1>1, <2>3, <3>1, <4>1 DEF Order
      <4>3. took[q] + Sent(p) = took[q] + Waiting(q) + Wired(p) + 1
        <5> DEFINE t == took[q]
        <5>1. /\ t \in Nat /\ Wired(p) \in Nat /\ Waiting(q) \in Nat
              /\ Sent(p) = 1 + Wired(p) + Waiting(q)
          BY <1>1, <4>1 DEF SizesOf
        <5> HIDE DEF t
        <5>2. t + Sent(p) = t + Waiting(q) + Wired(p) + 1
          BY <5>1
        <5> QED BY <5>2 DEF t
      <4> QED BY <4>2, <4>3
    <3>2. took[q] + Waiting(q) \in Nat /\ InFlight(p) \in Seq(Packet)
      <4>1. Waiting(q) \in Nat /\ InFlight(p) \in Seq(Packet)
        BY <1>1 DEF SizesOf, Typed
      <4> QED BY <1>1, <4>1
    <3>3. Numbered(Append(InFlight(p), x), took[q] + Waiting(q))
      BY <1>3, <2>1, <3>1, <3>2, NumAppend DEF Wired
    <3> QED BY <1>2, <2>3, <3>3
  <2> QED BY <2>2, <2>3
<1>6. Order(p)'
  <2>1. Replies(p)' <= Replies(p)
    BY <1>1, <1>2 DEF SizesOf
  <2> QED BY <1>1, <1>2, <1>3, <1>4, <1>5, <2>1, OrderKept DEF Still
<1>7. Order(q)'
  <2>1. Replies(q)' <= Replies(q) /\ Sent(q)' <= Sent(q)
    <3>1. Replies(q) \in Nat /\ Sent(q) \in Nat
      BY <1>1 DEF SizesOf
    <3> QED BY <1>2, <3>1
  <2>2. Numbered(InFlight(q)', took[p] + Waiting(p)')
    BY <1>1, <1>2, <1>4 DEF Order
  <2> QED BY <1>1, <1>2, <1>3, <2>1, <2>2, OrderKept DEF Still
<1>8. Fresh'
  BY <1>3 DEF Orders, Fresh, Still, Linked
<1> QED BY <1>1, <1>6, <1>7, <1>8 DEF Orders

\* A cut keeps the order of what is left.
LEMMA CutOrder ==
  ASSUME IInv, IInv', Flow, Orders, Cuts, Still, sessions' = sessions
  PROVE  Orders'
<1>1. ASSUME NEW r \in Peers PROVE Order(r)'
  <2> DEFINE o == Other(r)
  <2>1. o \in Peers /\ Typed /\ Typed' /\ Order(r)
    BY Sorted
  <2>2. /\ Sent(r)' <= Sent(r) /\ (BothUp' => Sent(r)' = Sent(r)) /\ Replies(r)' <= Replies(r)
    BY CutFlow
  <2>3. /\ link'[o].pending = link[o].pending /\ core' = core
        /\ BothUp' => BothUp
    BY <2>1 DEF Cuts
  <2>4. PICK k \in 0..Size(r) : InFlight(r)' = SubSeq(InFlight(r), 1, k)
    BY DEF Cuts
  <2>5. Waiting(o)' = Waiting(o)
    BY <2>3 DEF Waiting
  <2>6. Numbered(InFlight(r)', took[o] + Waiting(o)')
    <3>1. InFlight(r) \in Seq(Packet) /\ k \in 0..Len(InFlight(r))
          /\ Numbered(InFlight(r), took[o] + Waiting(o))
      BY <2>1 DEF Typed, Size, Order
    <3>2. Numbered(SubSeq(InFlight(r), 1, k), took[o] + Waiting(o))
      BY <3>1, NumCut
    <3> QED BY <2>4, <2>5, <3>2
  <2> QED BY <2>1, <2>2, <2>3, <2>6, OrderKept DEF Still
<1>2. Fresh'
  BY DEF Orders, Fresh, Still, Cuts
<1> QED BY <1>1, <1>2 DEF Orders

\* So does a disconnect.
LEMMA DropOrder ==
  ASSUME IInv, IInv', Flow, Orders, NEW p \in Peers, Drops(p), Still, sessions' = sessions
  PROVE  Orders'
<1> DEFINE q == Other(p)
           d == Pkt("DISCONNECT", 0)
<1>1. /\ q \in Peers /\ q # p /\ Other(q) = p /\ Typed /\ Typed' /\ Order(p) /\ Order(q)
      /\ SizesOf(p) /\ SizesOf(q) /\ SizesOf(q)'
      /\ took[q] \in Nat /\ \A r \in Peers : r = p \/ r = q
  BY Sorted
<1>2. /\ ~BothUp' /\ InFlight(q)' = <<>>
      /\ Sent(p)' <= Sent(p) /\ Sent(q)' <= Sent(q)
      /\ Replies(p)' <= Replies(p) /\ Replies(q)' = 0
      /\ link'[p].pending = <<>> /\ link'[q] = link[q]
      /\ core'[p].link_out = <<>> /\ core'[q] = core[q]
  BY DropFlow
<1>3. PICK k \in 0..Size(p) :
        \/ InFlight(p)' = SubSeq(InFlight(p), 1, k)
        \/ BothUp /\ InFlight(p)' = Append(InFlight(p), d)
  BY DropFlow
<1>4. Waiting(q)' = Waiting(q)
  BY <1>2 DEF Waiting
<1>5. Numbered(InFlight(p)', took[q] + Waiting(q))
  <2>1. /\ InFlight(p) \in Seq(Packet) /\ k \in 0..Len(InFlight(p))
        /\ Numbered(InFlight(p), took[q] + Waiting(q))
    BY <1>1 DEF Typed, Size, Order
  <2>2. took[q] + Waiting(q) \in Nat /\ d \in Packet /\ d.cmd # "SYNC1"
    BY <1>1, PacketType DEF SizesOf, Pkt
  <2>3. Numbered(SubSeq(InFlight(p), 1, k), took[q] + Waiting(q))
    BY <2>1, NumCut
  <2>4. Numbered(Append(InFlight(p), d), took[q] + Waiting(q))
    BY <2>1, <2>2, NumAppend
  <2> QED BY <1>3, <2>3, <2>4
<1>6. Order(p)'
  BY <1>1, <1>2, <1>4, <1>5, OrderKept DEF Still
<1>7. Order(q)'
  <2>1. Replies(q)' <= Replies(q)
    BY <1>1, <1>2 DEF SizesOf
  <2> QED BY <1>1, <1>2, <2>1, NumEmpty, OrderKept DEF Still
<1>8. Fresh'
  <2>1. Linked(p)' = FALSE /\ Linked(q)' = Linked(q)
    BY <1>1 DEF Drops, Linked
  <2> QED BY <1>1, <2>1 DEF Orders, Fresh, Still
<1> QED BY <1>1, <1>6, <1>7, <1>8 DEF Orders
-----------------------------------------------------------------------------
\* The byte buffered follows those buffered before it.
LEMMA BufferOrder ==
  ASSUME IInv, IInv', Flow, Orders, PendingCap >= 2, NEW p \in Peers, Buffers(p),
         Still, sessions' = sessions
  PROVE  Orders'
<1> DEFINE q == Other(p)
           x == Head(inq[p])
           b == link[p].pending
<1>1. /\ q \in Peers /\ q # p /\ Other(q) = p /\ Typed /\ Typed' /\ Order(p) /\ Order(q)
      /\ SizesOf(p) /\ SizesOf(q)
      /\ took[p] \in Nat /\ \A r \in Peers : r = p \/ r = q
  BY Sorted
<1>2. /\ link'[p].pending = Append(b, x.id) /\ link'[q].pending = link[q].pending
      /\ InFlight(q) # <<>> /\ Head(InFlight(q)) = x
      /\ InFlight(q)' = Tail(InFlight(q)) /\ InFlight(p)' = InFlight(p)
      /\ Waiting(p)' = Waiting(p) + 1 /\ Waiting(q)' = Waiting(q)
      /\ Sent(p)' = Sent(p) /\ Sent(q)' = Sent(q) /\ BothUp' = BothUp
      /\ Replies(p)' = Replies(p) /\ Replies(q)' = Replies(q)
  BY BufferFlow
<1>3. core' = core /\ stream' = stream /\ x.cmd = "SYNC1"
  BY DEF Buffers
<1>4. Order(p)'
  <2>1. Replies(p)' <= Replies(p) /\ Sent(p)' <= Sent(p)
    <3>1. Replies(p) \in Nat /\ Sent(p) \in Nat
      BY <1>1 DEF SizesOf
    <3> QED BY <1>2, <3>1
  <2>2. Numbered(InFlight(p)', took[q] + Waiting(q)')
    BY <1>1, <1>2 DEF Order
  <2> QED BY <1>1, <1>2, <1>3, <2>1, <2>2, OrderKept DEF Still
<1>5. Order(q)'
  <2>1. took[p] + Waiting(p) \in Nat
    <3>1. Waiting(p) \in Nat
      BY <1>1 DEF SizesOf
    <3> QED BY <1>1, <3>1
  <2>2. /\ InFlight(q) \in Seq(Packet) /\ Numbered(InFlight(q), took[p] + Waiting(p))
        /\ Lined(b, took[p]) /\ b \in Seq(XferId)
    BY <1>1 DEF Typed, Order
  <2>3. x.id = took[p] + Waiting(p) + 1 /\ Numbered(InFlight(q)', took[p] + Waiting(p) + 1)
    BY <1>2, <1>3, <2>1, <2>2, NumTail
  <2>4. Lined(Append(b, x.id), took[p])
    <3>1. x.id \in XferId
      BY QueueHead DEF Buffers, IInv, QueueInv
    <3>2. x.id = took[p] + Len(b) + 1
      BY <2>3 DEF Waiting
    <3> QED BY <1>1, <2>2, <3>1, <3>2, LineAppend
  <2>5. took[p] + Waiting(p)' = took[p] + Waiting(p) + 1
    <3> DEFINE t == took[p]
               u == Waiting(p)
               v == Waiting(p)'
    <3>1. u \in Nat /\ t \in Nat
      BY <1>1 DEF SizesOf
    <3>2. v = u + 1
      BY <1>2
    <3> HIDE DEF t, u, v
    <3>3. t + v = t + u + 1
      BY <3>1, <3>2
    <3> QED BY <3>3 DEF t, u, v
  <2> HIDE DEF x, b
  <2> QED BY <1>1, <1>2, <1>3, <2>3, <2>4, <2>5 DEF Order, Still
<1>6. Fresh'
  BY <1>3 DEF Orders, Fresh, Still, Linked
<1> QED BY <1>1, <1>4, <1>5, <1>6 DEF Orders

\* The byte taken is the next one.
LEMMA TakenNext ==
  ASSUME IInv, IInv', Flow, Orders, NEW p \in Peers, Aside(p), wire'[p] = wire[p],
         TakesPacket(p) \/ TakesPending(p)
  PROVE  /\ Taken(p) = took[p] + 1 /\ Taken(p) \in XferId
         /\ Lined(link'[p].pending, Taken(p))
         /\ Numbered(InFlight(Other(p))', Taken(p) + Waiting(p)')
         /\ Linked(p) /\ core[p].on = TRUE
<1> DEFINE q == Other(p)
           n == Taken(p)
           s == InFlight(q)
<1>1. /\ q \in Peers /\ q # p /\ Other(q) = p /\ Typed /\ Order(q) /\ PeerFlow(p)
      /\ took[p] \in Nat
  BY Sorted
<1>2. /\ s \in Seq(Packet) /\ Numbered(s, took[p] + Waiting(p))
      /\ Lined(link[p].pending, took[p]) /\ link[p].pending \in Seq(XferId)
  BY <1>1 DEF Typed, Order
<1>3. CASE TakesPacket(p)
  <2>1. /\ inq[p] # <<>> /\ Head(inq[p]).cmd = "SYNC1" /\ link[p].pending = <<>>
        /\ link'[p].pending = <<>> /\ n = Head(inq[p]).id
    BY <1>3 DEF TakesPacket, Taken
  <2>2. s # <<>> /\ Head(s) = Head(inq[p]) /\ s' = Tail(s)
    BY <1>1, <1>3, TakeHead DEF TakesPacket
  <2>3. Waiting(p) = 0 /\ Waiting(p)' = 0
    BY <2>1 DEF Waiting
  <2>4. took[p] + Waiting(p) = took[p]
    BY <1>1, <2>3
  <2>5. n \in XferId
    BY <2>1, QueueHead DEF IInv, QueueInv
  <2>6. n = took[p] + 1 /\ Numbered(Tail(s), took[p] + 1)
    <3> HIDE DEF s, n
    <3> QED BY <1>1, <1>2, <2>1, <2>2, <2>4, NumTail
  <2>7. n + Waiting(p)' = took[p] + 1
    BY <1>1, <2>3, <2>6
  <2>8. Linked(p)
    BY <1>1, <2>1 DEF PeerFlow, Sock
  <2> QED BY <1>1, <2>1, <2>2, <2>5, <2>6, <2>7, <2>8, NumEmpty, CoreFields
          DEF Aside, PeerFlow, Sock, Port, Linked, IInv, CoreInv
<1>4. CASE TakesPending(p)
  <2>1. /\ link[p].pending # <<>> /\ link'[p].pending = Tail(link[p].pending)
        /\ n = Head(link[p].pending)
    BY <1>4 DEF TakesPending, Taken
  <2>2. s' = s
    BY <1>1, <1>4 DEF InFlight, TakesPending
  <2>3. n = took[p] + 1 /\ Lined(Tail(link[p].pending), took[p] + 1) /\ n \in XferId
    <3>1. Head(link[p].pending) \in XferId
      BY <1>2, <2>1
    <3> QED BY <1>1, <1>2, <2>1, <3>1, LineTail
  <2>4. Waiting(p)' = Waiting(p) - 1 /\ Waiting(p) \in Nat
    BY <1>2, <2>1, HeadTailProperties, LenProperties DEF Waiting
  <2>5. n + Waiting(p)' = took[p] + Waiting(p)
    BY <1>1, <2>3, <2>4
  <2>6. link[p].attached = TRUE /\ Linked(p)
    <3>1. link[p].attached
      BY <1>1, <2>1 DEF PeerFlow, Sock
    <3> QED BY <1>1, <3>1 DEF Typed, PeerFlow, Sock
  <2>7. core[p].on = TRUE
    BY <1>1, <2>6 DEF PeerFlow, Port
  <2> QED BY <1>2, <2>1, <2>2, <2>3, <2>5, <2>6, <2>7
<1> QED BY <1>3, <1>4

\* A byte taken: the order of what is left, in both directions.
LEMMA TakeOrder ==
  ASSUME IInv, IInv', Flow, Orders, NEW p \in Peers, Aside(p), wire'[p] = wire[p],
         TakesPacket(p) \/ TakesPending(p), took' = [took EXCEPT ![p] = Taken(p)],
         xfer' = xfer, sessions' = sessions, BothUp' = BothUp,
         Sent(p)' = Sent(p), Sent(Other(p)) >= 1, Sent(Other(p))' = Sent(Other(p)) - 1,
         Replies(Other(p))' = Replies(Other(p)),
         Replies(p)' >= 1 => \/ Replies(p) >= 1
                             \/ BothUp /\ Sent(Other(p)) = 1,
         Numbered(InFlight(p)', took[Other(p)] + Waiting(Other(p)))
  PROVE  Orders' /\ took[p] < xfer[Other(p)]
<1> DEFINE q == Other(p)
           n == Taken(p)
<1>1. /\ q \in Peers /\ q # p /\ Other(q) = p /\ Typed /\ Typed' /\ Order(p) /\ Order(q)
      /\ SizesOf(q) /\ took[p] \in Nat /\ xfer[q] \in Nat /\ \A r \in Peers : r = p \/ r = q
  BY Sorted
<1>2. /\ n = took[p] + 1 /\ Lined(link'[p].pending, n)
      /\ Numbered(InFlight(q)', n + Waiting(p)') /\ Linked(p)
  BY TakenNext
<1>3. took'[p] = n /\ took'[q] = took[q]
  BY <1>1 DEF IInv, CountInv
<1>4. link'[q] = link[q] /\ core'[q] = core[q] /\ Waiting(q)' = Waiting(q)
      /\ core'[p].link_out = core[p].link_out
  BY <1>1 DEF Aside, Waiting
<1>5. /\ took[p] + Sent(q) <= xfer[q] /\ (BothUp => took[p] + Sent(q) = xfer[q])
      /\ Sent(q) \in Nat /\ Sent(q) >= 1 /\ Sent(q)' = Sent(q) - 1
  BY <1>1 DEF Order, SizesOf
<1>6. /\ took[p] < xfer[q] /\ n + Sent(q)' <= xfer[q]
      /\ BothUp => n + Sent(q)' = xfer[q]
      /\ BothUp /\ Sent(q) = 1 => n = xfer[q]
  <2> DEFINE t == took[p]
             u == Sent(q)
             v == Sent(q)'
             x == xfer[q]
  <2>1. /\ t \in Nat /\ u \in Nat /\ x \in Nat /\ u >= 1 /\ v = u - 1 /\ t + u <= x
        /\ (BothUp => t + u = x) /\ n = t + 1
    BY <1>1, <1>2, <1>5
  <2> HIDE DEF t, u, v, x, n
  <2>2. /\ t < x /\ n + v <= x /\ (BothUp => n + v = x) /\ (BothUp /\ u = 1 => n = x)
    BY <2>1
  <2> QED BY <2>2 DEF t, u, v, x
<1>7. Order(q)'
  <2>1. Replies(q)' >= 1 => took'[q] = xfer'[p]
    BY <1>1, <1>3 DEF Order
  <2>2. core'[q].link_out # <<>> => core'[q].link_out[1] = xfer'[q]
    BY <1>1, <1>4 DEF Order
  <2> HIDE DEF n
  <2> QED BY <1>1, <1>2, <1>3, <1>6, <2>1, <2>2 DEF Order
<1>8. Order(p)'
  <2>1. Replies(p)' >= 1 => took'[p] = xfer'[q]
    <3>1. ~(Replies(p) >= 1)
      <4>1. Replies(p) >= 1 => took[p] = xfer[q]
        BY <1>1 DEF Order
      <4> QED BY <1>1, <1>6, <4>1
    <3> QED BY <1>3, <1>6, <3>1
  <2> QED BY <1>1, <1>3, <1>4, <2>1 DEF Order
<1>9. Fresh'
  BY <1>2 DEF Orders, Fresh
<1> QED BY <1>1, <1>6, <1>7, <1>8, <1>9 DEF Orders

\* An armed slave takes the next byte, and its reply answers the last one shipped.
LEMMA AnswerOrder ==
  ASSUME IInv, IInv', Flow, Orders, NEW p \in Peers, Answers(p, Taken(p)),
         took' = [took EXCEPT ![p] = Taken(p)], xfer' = xfer, sessions' = sessions
  PROVE  Orders' /\ took[p] < xfer[Other(p)]
<1> DEFINE q == Other(p)
           n == Taken(p)
           x == Pkt("SYNC2", n)
<1>1. /\ q \in Peers /\ Typed /\ Order(p) /\ SizesOf(p) /\ SizesOf(q) /\ took[q] \in Nat
  BY Sorted
<1>2. /\ BothUp' = BothUp /\ wire'[p] = wire[p]
      /\ InFlight(p)' = IF BothUp THEN Append(InFlight(p), x) ELSE InFlight(p)
      /\ Sent(p)' = Sent(p) /\ Sent(q) >= 1 /\ Sent(q)' = Sent(q) - 1
      /\ Replies(p)' = Replies(p) + (IF BothUp THEN 1 ELSE 0)
      /\ Replies(q)' = Replies(q)
      /\ BothUp => Sent(q) = 1
  BY AnswerFlow
<1>3. Numbered(InFlight(p)', took[q] + Waiting(q))
  <2>1. InFlight(p) \in Seq(Packet) /\ Numbered(InFlight(p), took[q] + Waiting(q))
    BY <1>1 DEF Typed, Order
  <2>2. took[q] + Waiting(q) \in Nat
    <3>1. Waiting(q) \in Nat
      BY <1>1 DEF SizesOf
    <3> QED BY <1>1, <3>1
  <2>3. x \in Packet /\ x.cmd # "SYNC1"
    BY PacketType DEF Answers, Pkt
  <2>4. Numbered(Append(InFlight(p), x), took[q] + Waiting(q))
    BY <2>1, <2>2, <2>3, NumAppend
  <2> QED BY <1>2, <2>1, <2>4
<1>4. Replies(p)' >= 1 => Replies(p) >= 1 \/ (BothUp /\ Sent(q) = 1)
  <2>1. Replies(p) \in Nat
    BY <1>1 DEF SizesOf
  <2> QED BY <1>2, <2>1
<1> QED BY <1>2, <1>3, <1>4, TakeOrder DEF Answers

\* A held master takes the next byte.
LEMMA FeedOrder ==
  ASSUME IInv, IInv', Flow, Orders, NEW p \in Peers, Feeds(p),
         took' = [took EXCEPT ![p] = Taken(p)], xfer' = xfer, sessions' = sessions
  PROVE  Orders' /\ took[p] < xfer[Other(p)]
<1> DEFINE q == Other(p)
<1>1. /\ BothUp' = BothUp /\ InFlight(p)' = InFlight(p)
      /\ Sent(p)' = Sent(p) /\ Sent(q) >= 1 /\ Sent(q)' = Sent(q) - 1
      /\ Replies(p)' = Replies(p) /\ Replies(q)' = Replies(q)
  BY FeedFlow
<1>2. Numbered(InFlight(p)', took[q] + Waiting(q))
  BY <1>1, Sorted DEF Order
<1> QED BY <1>1, <1>2, TakeOrder DEF Feeds

\* A packet that carries no byte of the peer's master.
LEMMA PassOrder ==
  ASSUME IInv, IInv', Flow, Orders, NEW p \in Peers, Released(p) \/ Ignores(p),
         Still, sessions' = sessions
  PROVE  Orders'
<1> DEFINE q == Other(p)
           s == InFlight(q)
<1>1. /\ q \in Peers /\ q # p /\ Other(q) = p /\ Typed /\ Typed' /\ Order(p) /\ Order(q)
      /\ SizesOf(p) /\ SizesOf(q) /\ took[p] \in Nat /\ \A r \in Peers : r = p \/ r = q
  BY Sorted
<1>2. /\ BothUp' = BothUp /\ InFlight(p)' = InFlight(p)
      /\ s # <<>> /\ Head(s) = Head(inq[p]) /\ s' = Tail(s)
      /\ Sent(p)' = Sent(p) /\ Sent(q)' = Sent(q)
  BY ReleaseFlow, IgnoreFlow
<1>3. Replies(p)' = Replies(p) /\ (Replies(q)' = Replies(q) \/ Replies(q)' = Replies(q) - 1)
  BY ReleaseFlow, IgnoreFlow
<1>4. /\ link' = link /\ core'[p].link_out = core[p].link_out
      /\ core'[q].link_out = core[q].link_out /\ stream' = stream
      /\ Head(inq[p]).cmd # "SYNC1"
  BY <1>1 DEF Released, Ignores, Aside
<1>5. Waiting(p)' = Waiting(p) /\ Waiting(q)' = Waiting(q)
  BY <1>4 DEF Waiting
<1>6. /\ Replies(p)' <= Replies(p) /\ Sent(p)' <= Sent(p)
      /\ Replies(q)' <= Replies(q) /\ Sent(q)' <= Sent(q)
  <2>1. Replies(p) \in Nat /\ Sent(p) \in Nat /\ Replies(q) \in Nat /\ Sent(q) \in Nat
    BY <1>1 DEF SizesOf
  <2>2. Sent(p)' = Sent(p) /\ Sent(q)' = Sent(q)
    BY <1>2
  <2> QED BY <1>3, <2>1, <2>2
<1>7. Order(p)'
  <2>1. Numbered(InFlight(p)', took[q] + Waiting(q)')
    BY <1>1, <1>2, <1>5 DEF Order
  <2> QED BY <1>1, <1>2, <1>4, <1>6, <2>1, OrderKept DEF Still
<1>8. Order(q)'
  <2>1. Numbered(s', took[p] + Waiting(p)')
    <3>1. took[p] + Waiting(p) \in Nat
      <4>1. Waiting(p) \in Nat
        BY <1>1 DEF SizesOf
      <4> QED BY <1>1, <4>1
    <3>2. s \in Seq(Packet) /\ Numbered(s, took[p] + Waiting(p)) /\ Head(s).cmd # "SYNC1"
      BY <1>1, <1>2, <1>4 DEF Typed, Order
    <3> HIDE DEF s
    <3>3. Numbered(Tail(s), took[p] + Waiting(p))
      BY <1>2, <3>1, <3>2, NumTail
    <3> QED BY <1>2, <1>5, <3>3
  <2> QED BY <1>1, <1>2, <1>4, <1>6, <2>1, OrderKept DEF Still
<1>9. Fresh'
  BY <1>4 DEF Orders, Fresh, Still, Linked
<1> QED BY <1>1, <1>7, <1>8, <1>9 DEF Orders

\* The one session finds both games at their first byte.
LEMMA EstablishOrder ==
  ASSUME IInv, IInv', Flow, Orders, MaxSessions <= 1, Establish
  PROVE  Orders'
<1>1. PICK a \in Peers : stream[a] = "dialing"
  BY PeersAssumption DEF Establish
<1>2. sessions = 0 /\ sessions' = 1
  <2>1. sessions \in Nat /\ sessions < MaxSessions /\ MaxSessions \in Nat
    BY <1>1, BoundsAssumption DEF IInv, BoundInv
  <2>2. sessions' = sessions + 1
    BY DEF Establish
  <2> QED BY <2>1, <2>2
<1>3. ASSUME NEW r \in Peers PROVE Order(r)'
  <2> DEFINE o == Other(r)
  <2>1. o \in Peers
    BY TwoPeers
  <2>2. xfer'[r] = 0 /\ took'[r] = 0 /\ xfer'[o] = 0 /\ took'[o] = 0
    BY <1>2, <2>1 DEF Orders, Fresh, Establish
  <2>3. /\ InFlight(r)' = <<>> /\ Sent(r)' = 0 /\ Replies(r)' = 0
        /\ link'[o].pending = <<>> /\ core'[r].link_out = <<>>
    BY <2>1, EstablishFlow
  <2> QED BY <2>2, <2>3, NumEmpty DEF Order
<1>4. Fresh'
  BY <1>2 DEF Fresh
<1> QED BY <1>3, <1>4 DEF Orders
-----------------------------------------------------------------------------
\* Two unlinked emulators have shipped nothing and taken nothing.
LEMMA OrderInit == Init => Orders
<1> SUFFICES ASSUME Init PROVE Orders
  OBVIOUS
<1>1. Flow /\ Typed
  BY FlowInit, FlowTypes, InitStep
<1>2. ASSUME NEW p \in Peers PROVE Order(p) /\ ~Linked(p) /\ xfer[p] = 0 /\ took[p] = 0
  <2> DEFINE q == Other(p)
  <2>1. q \in Peers /\ Other(q) = p
    BY TwoPeers
  <2>2. /\ xfer[p] = 0 /\ took[p] = 0 /\ xfer[q] = 0 /\ took[q] = 0
        /\ core[p].link_out = <<>> /\ link[q].pending = <<>> /\ stream[p] = "none"
        /\ link[p].pending = <<>> /\ inq[q] = <<>> /\ wire[q] = <<>>
    BY <2>1 DEF Init, FreshCore, FreshLink
  <2>3. InFlight(p) = <<>> /\ Out(p) = 0 /\ Waiting(q) = 0
    BY <2>2 DEF InFlight, Out, Waiting
  <2>4. Wired(p) = 0 /\ Replies(p) = 0
    BY <2>3, FlightEmpty
  <2>5. Sent(p) = 0
    BY <2>3, <2>4 DEF Sent
  <2> QED BY <2>2, <2>3, <2>4, <2>5, NumEmpty DEF Order, Linked
<1> QED BY <1>2 DEF Orders, Fresh

\* Every step keeps the order of the bytes, while there is one session.
LEMMA OrderStep ==
  ASSUME IInv, IInv', Flow, Orders, Steady, Roomy, MaxSessions <= 1, [Next]_vars
  PROVE  Orders'
<1>1. ASSUME NEW p \in Peers, Kind(p) PROVE Orders'
  <2>1. ASSUME Kept, NEW x, Posts(p, x), x.cmd = "SYNC1" => x.id = core[p].link_out[1]
        PROVE  Orders'
    BY <2>1, PostOrder DEF Kept
  <2> QED BY <1>1, <2>1, QuietOrder, StallOrder, CutOrder, DropOrder, BufferOrder,
             AnswerOrder, FeedOrder, PassOrder DEF Kind, Kept, Ships, Takes, Roomy
<1> QED BY <1>1, StepKind, EstablishOrder

\* The mapping: what a step is to the exchange of bytes.
Held0 == [r \in Peers |-> core[r].stalled]
Plugged0 == [r \in Peers |-> core[r].on]

\* A step that changes no port and ships and takes nothing is a stutter.
LEMMA MapSame ==
  ASSUME \A r \in Peers : core'[r].stalled = core[r].stalled /\ core'[r].on = core[r].on,
         Still
  PROVE  UNCHANGED Exchange!xvars
<1>1. Held0' = Held0 /\ Plugged0' = Plugged0
  BY DEF Held0, Plugged0
<1> QED BY <1>1 DEF Still, Exchange!xvars, Held0, Plugged0

\* The mapped variables, when one peer's port changes.
LEMMA MapOne ==
  ASSUME NEW p \in Peers, IInv', \A r \in Peers : r # p => core'[r] = core[r]
  PROVE  /\ core'[p].stalled => Held0' = [Held0 EXCEPT ![p] = TRUE]
         /\ ~core'[p].stalled => Held0' = [Held0 EXCEPT ![p] = FALSE]
         /\ core'[p].on => Plugged0' = [Plugged0 EXCEPT ![p] = TRUE]
         /\ ~core'[p].on => Plugged0' = [Plugged0 EXCEPT ![p] = FALSE]
         /\ core'[p].stalled = core[p].stalled => Held0' = Held0
         /\ core'[p].on = core[p].on => Plugged0' = Plugged0
<1>1. core'[p].stalled \in BOOLEAN /\ core'[p].on \in BOOLEAN
  BY CoreFields DEF IInv, CoreInv
<1>2. Held0' = [r \in Peers |-> core'[r].stalled] /\ Plugged0' = [r \in Peers |-> core'[r].on]
  BY DEF Held0, Plugged0
<1>3. ASSUME NEW b, core'[p].stalled = b PROVE Held0' = [Held0 EXCEPT ![p] = b]
  BY <1>2, <1>3 DEF Held0
<1>4. ASSUME NEW b, core'[p].on = b PROVE Plugged0' = [Plugged0 EXCEPT ![p] = b]
  BY <1>2, <1>4 DEF Plugged0
<1>5. core'[p].stalled = core[p].stalled => Held0' = Held0
  BY <1>2 DEF Held0
<1>6. core'[p].on = core[p].on => Plugged0' = Plugged0
  BY <1>2 DEF Plugged0
<1> QED BY <1>1, <1>3, <1>4, <1>5, <1>6

\* Both modules call the other peer the same.
LEMMA SamePeer == \A p \in Peers : Exchange!Peer(p) = Other(p)
BY DEF Exchange!Peer, Other

\* Every step is one of the exchange, or a stutter.
LEMMA MapStep ==
  ASSUME IInv, IInv', Flow, Orders, Steady, Roomy, [Next]_vars
  PROVE  [Exchange!ExNext]_(Exchange!xvars)
<1>1. CASE Establish
  <2>1. UNCHANGED Exchange!xvars
    BY <1>1, MapSame DEF Establish, Still
  <2> QED BY <2>1
<1>2. ASSUME NEW p \in Peers, Kind(p) PROVE [Exchange!ExNext]_(Exchange!xvars)
  <2> DEFINE q == Other(p)
  <2>1. /\ q \in Peers /\ q # p /\ Other(q) = p /\ Typed /\ Typed' /\ Order(q) /\ PeerFlow(p)
        /\ SizesOf(q) /\ SizesOf(q)' /\ \A r \in Peers : r = p \/ r = q
    BY Sorted
  <2>2. CASE Quiet /\ Kept
    BY <2>2, MapSame DEF Quiet, Kept
  <2>3. CASE Stalls(p) /\ Ships(p)
    <3>1. Held0' = [Held0 EXCEPT ![p] = TRUE] /\ Plugged0' = Plugged0
      BY <2>3, MapOne, CoreFields DEF Stalls, IInv, CoreInv
    <3>2. Plugged0[p] /\ ~Held0[p]
      BY <2>3 DEF Stalls, Held0, Plugged0
    <3>3. Exchange!Ship(p)
      BY <2>3, <3>1, <3>2 DEF Exchange!Ship, Ships, Held0, Plugged0
    <3> QED BY <3>3 DEF Exchange!ExNext
  <2>4. ASSUME Kept, NEW x, Posts(p, x) PROVE [Exchange!ExNext]_(Exchange!xvars)
    <3>1. Plugged0' = [Plugged0 EXCEPT ![p] = TRUE] /\ Held0' = Held0
      BY <2>4, MapOne DEF Posts
    <3>2. Exchange!Plug(p)
      BY <2>4, <3>1 DEF Exchange!Plug, Kept, Still, Held0, Plugged0
    <3> QED BY <3>2 DEF Exchange!ExNext
  <2>5. CASE Cuts /\ Kept
    BY <2>5, MapSame DEF Cuts, Kept
  <2>6. CASE Drops(p) /\ Kept
    <3>1. Plugged0' = [Plugged0 EXCEPT ![p] = FALSE] /\ Held0' = [Held0 EXCEPT ![p] = FALSE]
      BY <2>6, MapOne DEF Drops, detached
    <3>2. Exchange!Unplug(p)
      BY <2>6, <3>1 DEF Exchange!Unplug, Kept, Still, Held0, Plugged0
    <3> QED BY <3>2 DEF Exchange!ExNext
  <2>7. CASE Buffers(p) /\ Kept
    BY <2>7, MapSame DEF Buffers, Kept
  <2>8. CASE (Answers(p, Taken(p)) \/ Feeds(p)) /\ Takes(p)
    <3>1. took[p] < xfer[q]
      BY <2>8, AnswerOrder, FeedOrder DEF Takes
    <3>2. Aside(p) /\ wire'[p] = wire[p] /\ (TakesPacket(p) \/ TakesPending(p))
      BY <2>8, AnswerFlow DEF Answers, Feeds
    <3>3. Taken(p) = took[p] + 1 /\ core[p].on = TRUE
      BY <3>2, TakenNext
    <3>4. ~core'[p].stalled
      BY <2>1, <2>8 DEF Answers, Feeds, PeerFlow, Port
    <3>5. Plugged0' = Plugged0 /\ Held0' = [Held0 EXCEPT ![p] = FALSE]
      BY <3>2, <3>4, MapOne DEF Aside
    <3>6. took' = [took EXCEPT ![p] = took[p] + 1] /\ xfer' = xfer
      BY <2>8, <3>3 DEF Takes
    <3>7. Plugged0[p]
      BY <3>3 DEF Plugged0
    <3>8. Exchange!TakeByte(p)
      BY <3>1, <3>5, <3>6, <3>7, SamePeer DEF Exchange!TakeByte, Held0, Plugged0
    <3> QED BY <3>8 DEF Exchange!ExNext
  <2>9. CASE Released(p) /\ Kept
    <3>1. Replies(q)' = Replies(q) - 1
      BY <2>9, ReleaseFlow
    <3>2. Replies(q) >= 1
      BY <2>1, <3>1 DEF SizesOf
    <3>3. took[q] = xfer[p]
      BY <2>1, <3>2 DEF Order
    <3>4. Plugged0[p] /\ Held0[p]
      BY <2>1, <2>9 DEF Released, PeerFlow, Port, Held0, Plugged0
    <3>5. Plugged0' = Plugged0 /\ Held0' = [Held0 EXCEPT ![p] = FALSE]
      BY <2>9, MapOne DEF Released, Aside
    <3>6. Exchange!Answer(p)
      BY <2>9, <3>3, <3>4, <3>5, SamePeer DEF Exchange!Answer, Kept, Still, Held0, Plugged0
    <3> QED BY <3>6 DEF Exchange!ExNext
  <2>10. CASE Ignores(p) /\ Kept
    <3>1. \A r \in Peers : core'[r].stalled = core[r].stalled /\ core'[r].on = core[r].on
      BY <2>1, <2>10 DEF Ignores, Aside
    <3> QED BY <2>10, <3>1, MapSame DEF Kept
  <2> QED BY <1>2, <2>2, <2>3, <2>4, <2>5, <2>6, <2>7, <2>8, <2>9, <2>10 DEF Kind
<1> QED BY <1>1, <1>2, StepKind

\* The initial states.
LEMMA MapInit == Init => Exchange!ExInit
<1> SUFFICES ASSUME Init PROVE Exchange!ExInit
  OBVIOUS
<1>1. /\ xfer = [p \in Peers |-> 0] /\ took = [p \in Peers |-> 0]
      /\ \A p \in Peers : core[p].stalled = FALSE /\ core[p].on = FALSE
  BY DEF Init, FreshCore
<1>2. Held0 = [p \in Peers |-> FALSE] /\ Plugged0 = [p \in Peers |-> FALSE]
  BY <1>1 DEF Held0, Plugged0
<1> QED BY <1>1, <1>2 DEF Exchange!ExInit, Held0, Plugged0

\* Within a session the two UI threads, their pumps, the packets and the socket threads
\* are a lockstep exchange: every byte shipped is taken at most once, in order, none is
\* skipped, and a held master is let go by a reply only once its own byte was taken.
THEOREM Refines == ASSUME Steady, Roomy, MaxSessions <= 1 PROVE Spec => ExchangeRefinement
<1>1. Init => IInv /\ Flow /\ Orders /\ Exchange!ExInit
  BY InitStep, FlowInit, OrderInit, MapInit
<1>2. IInv /\ IInv' /\ Flow /\ Orders /\ [Next]_vars => Orders'
  BY OrderStep
<1>3. IInv /\ IInv' /\ Flow /\ Orders /\ [Next]_vars => [Exchange!ExNext]_(Exchange!xvars)
  BY MapStep
<1> QED BY <1>1, <1>2, <1>3, Inductive, Flows, PTL DEF Spec, ExchangeRefinement, Exchange!ExSpec
=============================================================================

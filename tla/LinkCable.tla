----------------------------- MODULE LinkCable -----------------------------
(***************************************************************************)
(* Two emulators joined by the Link cable: crates/slopgb/src/link.rs (Link,*)
(* the packet routing and the pump), the run loop of app_pacing.rs that    *)
(* drives it, and the link hooks of crates/slopgb-core/src/serial.rs.      *)
(*                                                                         *)
(* A byte is abstracted to the number of the master transfer that shifted  *)
(* it out: SYNC1 carries the number of the sender's transfer, SYNC2 the    *)
(* number of the transfer it answers (the code's packets carry only the    *)
(* byte, so a receiver cannot compare them; the model's receiver does not).*)
(*                                                                         *)
(* The UI thread of a peer is sequential: it runs a slice of emulation     *)
(* (game actions), then Link::pump, then pump_blocking while its master    *)
(* stays stalled.  The socket threads move packets between them.           *)
(***************************************************************************)
EXTENDS Naturals, FiniteSets, Sequences, SequencesExt

CONSTANTS Peers,        \* the two emulators
          MaxTransfers, \* bound on master transfers one peer completes while linked
          MaxSessions,  \* bound on TCP sessions
          PendingCap,   \* IN_QUEUE_CAP as a bound on pending_master
          InCap,        \* IN_QUEUE_CAP as a bound on the inbound channel
          OutCap,       \* LINK_QUEUE_CAP
          MaxReplaced,  \* bound on replacements of a machine, Quick Saves included
          Faults        \* what the environment may do, a subset of Fault

Fault == {"abort", "close", "fail", "reset", "load", "quick"}

ASSUME PeersAssumption == \E a, b \in Peers : a # b /\ Peers = {a, b}
ASSUME BoundsAssumption ==
  /\ MaxTransfers \in Nat /\ MaxSessions \in Nat /\ MaxReplaced \in Nat
  /\ PendingCap \in Nat \ {0} /\ InCap \in Nat \ {0} /\ OutCap \in Nat \ {0}
ASSUME FaultsAssumption == Faults \subseteq Fault

VARIABLES core,    \* per peer: the serial port as the link sees it
          xfer,    \* per peer: number of master transfers completed while linked
          ended,   \* per peer: the byte that completed its latest transfer (history)
          took,    \* per peer: the last byte of its peer its port took (history)
          link,    \* per peer: struct Link
          stream,  \* per peer: the LinkSocket and its worker
          inq,     \* per peer: packets the reader thread has queued (in_rx)
          wire,    \* per peer: packets sent to it and not yet read
          pc,      \* per peer: where its UI thread is
          quick,   \* per peer: the core of the last Quick Save, if any
          sessions, \* sessions opened so far
          replaced \* replacements of a machine so far

vars == <<core, xfer, ended, took, link, stream, inq, wire, pc, quick, sessions,
          replaced>>

Other(p) == CHOOSE q \in Peers : q # p

XferId == 0..MaxTransfers
Packet == [cmd : {"VERSION", "SYNC1", "SYNC2", "DISCONNECT"}, id : XferId]
Pkt(c, n) == [cmd |-> c, id |-> n]

\* link_connected, SC as the link sees it, link_master_waiting, the two queues.
Core == [on : BOOLEAN, sc : {"idle", "internal", "external"}, stalled : BOOLEAN,
         link_in : Seq(XferId), link_out : Seq(XferId)]
FreshCore == [on |-> FALSE, sc |-> "idle", stalled |-> FALSE,
              link_in |-> <<>>, link_out |-> <<>>]
FreshLink == [attached |-> FALSE, pending |-> <<>>]
NoEnd == [id |-> 0, by |-> "none", of |-> 0]

is_connected(p) == stream[p] = "up"
worker_died(p) == stream[p] = "dead"

Init ==
  /\ core = [p \in Peers |-> FreshCore]
  /\ xfer = [p \in Peers |-> 0]
  /\ ended = [p \in Peers |-> NoEnd]
  /\ took = [p \in Peers |-> 0]
  /\ link = [p \in Peers |-> FreshLink]
  /\ stream = [p \in Peers |-> "none"]
  /\ inq = [p \in Peers |-> <<>>]
  /\ wire = [p \in Peers |-> <<>>]
  /\ pc = [p \in Peers |-> "run"]
  /\ quick = [p \in Peers |-> <<>>]
  /\ sessions = 0
  /\ replaced = 0
-----------------------------------------------------------------------------
\* Mutants, here and below: a definition with the slip its comment names.
\* detached without the stall's completion.
MutDetachedKeepsStall(c) ==
  [c EXCEPT !.on = FALSE, !.link_in = <<>>, !.link_out = <<>>]

\* Serial::set_link_connected(false): a stalled master reads the open cable.
detached(c) == [on |-> FALSE, sc |-> IF c.stalled THEN "idle" ELSE c.sc,
                stalled |-> FALSE, link_in |-> <<>>, link_out |-> <<>>]

\* Serial::push_link_in.
pushed(c, n) ==
  IF c.stalled
    THEN [c EXCEPT !.sc = "idle", !.stalled = FALSE]
    ELSE [c EXCEPT !.link_in = IF Len(@) < OutCap THEN Append(@, n) ELSE @]

\* Serial::link_slave_transfer: an armed slave swaps its byte for the master's.
armed(c) == c.sc = "external"
swapped(c) == [c EXCEPT !.sc = "idle"]

End(p, id, by, of) == ended' = [ended EXCEPT ![p] = [id |-> id, by |-> by, of |-> of]]
EndOpen(p) == ended' = [ended EXCEPT ![p] = NoEnd]
Take(p, n) == took' = [took EXCEPT ![p] = n]

\* Link::emit: queue a packet for the writer thread, if the connection is up.
Emit(p, pkts) ==
  wire' = [wire EXCEPT ![Other(p)] =
             IF \A r \in Peers : stream[r] = "up" THEN @ \o pkts ELSE @]
-----------------------------------------------------------------------------
(* The game, one instruction at a time. *)

\* An SC write: restart, arm or stop.  It ends a stall; ending a transfer that
\* is still running is an abort, which the last access of the instruction whose
\* first one completed the transfer may do before the run loop sees the stall.
WriteSC(p, v) ==
  /\ pc[p] \in {"run", "step"}
  /\ core[p].sc = "internal" => "abort" \in Faults
  /\ core' = [core EXCEPT ![p].sc = v, ![p].stalled = FALSE]
  /\ pc' = [pc EXCEPT ![p] = "run"]
  /\ UNCHANGED <<xfer, ended, took, link, stream, inq, wire, quick, sessions, replaced>>

\* MasterDone without lockstep: the transfer completes at once.
MutNoLockstep(p) ==
  /\ pc[p] = "run"
  /\ core[p].sc = "internal"
  /\ xfer[p] < MaxTransfers
  /\ xfer' = [xfer EXCEPT ![p] = IF core[p].on THEN @ + 1 ELSE @]
  /\ core' = [core EXCEPT ![p].sc = "idle",
                ![p].link_out = IF core[p].on THEN Append(@, xfer'[p]) ELSE @]
  /\ UNCHANGED <<ended, took, link, stream, inq, wire, pc, quick, sessions, replaced>>

\* The eighth shift of a master transfer (Serial::master_edge).
MasterDone(p) ==
  /\ pc[p] = "run"
  /\ core[p].sc = "internal" /\ ~core[p].stalled
  /\ xfer[p] < MaxTransfers
  /\ LET c == core[p]
         sent == IF c.on /\ Len(c.link_out) < OutCap
                   THEN Append(c.link_out, xfer'[p]) ELSE c.link_out
     IN /\ xfer' = [xfer EXCEPT ![p] = IF c.on THEN @ + 1 ELSE @]
        /\ \/ /\ c.on /\ c.link_in = <<>>
              /\ core' = [core EXCEPT ![p].link_out = sent, ![p].stalled = TRUE]
              /\ pc' = [pc EXCEPT ![p] = "step"]
              /\ UNCHANGED <<ended, took>>
           \/ /\ c.on /\ c.link_in # <<>>
              /\ core' = [core EXCEPT ![p].link_out = sent, ![p].sc = "idle",
                                      ![p].link_in = Tail(@)]
              /\ End(p, xfer'[p], "buffer", Head(c.link_in))
              /\ Take(p, Head(c.link_in))
              /\ UNCHANGED pc
           \/ /\ ~c.on
              /\ core' = [core EXCEPT ![p].sc = "idle"]
              /\ EndOpen(p)
              /\ UNCHANGED <<took, pc>>
  /\ UNCHANGED <<link, stream, inq, wire, quick, sessions, replaced>>

\* The run loop breaks out of the slice (run_slice) after an instruction that
\* leaves the master stalled: the one that completed the transfer, or the one
\* instruction a later slice executes while the stall lasts.
OtherInstruction(p) ==
  /\ pc[p] = "step" \/ (pc[p] = "run" /\ core[p].stalled)
  /\ pc' = [pc EXCEPT ![p] = "pump"]
  /\ UNCHANGED <<core, xfer, ended, took, link, stream, inq, wire, quick, sessions, replaced>>

\* The slice used up its cycles without a stall.
SliceOver(p) ==
  /\ pc[p] = "run"
  /\ ~core[p].stalled
  /\ pc' = [pc EXCEPT ![p] = "pump"]
  /\ UNCHANGED <<core, xfer, ended, took, link, stream, inq, wire, quick, sessions, replaced>>
-----------------------------------------------------------------------------
(* Link::disconnect and what the rest of the pump does after it. *)

\* The socket is dropped: its worker is joined, and the packets it had not sent
\* yet may be lost with it, the DISCONNECT that was queued last included.
Disconnect(p) ==
  LET q == Other(p)
      queued == IF link[p].attached /\ is_connected(p)
                  THEN Append(wire[q], Pkt("DISCONNECT", 0)) ELSE wire[q]
  IN /\ core' = [core EXCEPT ![p] = detached(@)]
     /\ IF core[p].stalled THEN EndOpen(p) ELSE UNCHANGED ended
     /\ link' = [link EXCEPT ![p] = FreshLink]
     /\ stream' = [stream EXCEPT ![p] = "none"]
     /\ inq' = [inq EXCEPT ![p] = <<>>]
     /\ \E n \in 0..Len(queued) :
          wire' = [wire EXCEPT ![q] = IF stream[q] = "up" THEN SubSeq(queued, 1, n)
                                                          ELSE <<>>,
                               ![p] = <<>>]

must_reap(p) == (link[p].attached /\ ~is_connected(p)) \/ worker_died(p)

\* The first half of Link::pump: reap a dead link ...
ReapDeadLink(p) ==
  /\ must_reap(p)
  /\ Disconnect(p)
  /\ pc' = [pc EXCEPT ![p] = "run"]
  /\ UNCHANGED took

NothingToPump(p) ==
  /\ ~must_reap(p)
  /\ ~is_connected(p)
  /\ pc' = [pc EXCEPT ![p] = "run"]
  /\ UNCHANGED <<core, ended, took, link, stream, inq, wire>>

ShipOut(p) ==
  /\ Emit(p, (IF link[p].attached THEN <<>> ELSE <<Pkt("VERSION", 0)>>)
             \o [i \in DOMAIN core[p].link_out |-> Pkt("SYNC1", core[p].link_out[i])])
  /\ pc' = [pc EXCEPT ![p] = "poll"]
  /\ UNCHANGED <<ended, took, stream, inq>>

\* ... or attach on the first pump of a connection, and ship the core's bytes.
AttachAndShip(p) ==
  /\ is_connected(p)
  /\ link' = [link EXCEPT ![p].attached = TRUE]
  /\ core' = [core EXCEPT ![p].link_out = <<>>,
                          ![p].on = IF link[p].attached THEN @ ELSE TRUE]
  /\ ShipOut(p)

PumpHead(p) ==
  /\ pc[p] = "pump"
  /\ ReapDeadLink(p) \/ NothingToPump(p) \/ AttachAndShip(p)
  /\ UNCHANGED <<xfer, quick, sessions, replaced>>

\* ApplySync1 that lets a byte the port cannot take into the core's queue.
MutSync1IntoCore(p, n) ==
  /\ UNCHANGED <<ended, stream, link>>
  /\ IF armed(core[p])
       THEN /\ core' = [core EXCEPT ![p] = swapped(@)]
            /\ Take(p, n)
            /\ Emit(p, <<Pkt("SYNC2", n)>>)
       ELSE /\ core' = [core EXCEPT ![p] = pushed(@, n)]
            /\ UNCHANGED <<took, wire>>

\* Link::apply_packet on the head of the inbound queue.
ApplySync1(p, n) ==
  /\ UNCHANGED <<ended, stream>>
  /\ IF link[p].pending = <<>> /\ armed(core[p])
       THEN /\ core' = [core EXCEPT ![p] = swapped(@)]
            /\ Take(p, n)
            /\ Emit(p, <<Pkt("SYNC2", n)>>)
            /\ UNCHANGED link
       ELSE /\ link' = [link EXCEPT ![p].pending =
                          IF Len(@) < PendingCap THEN Append(@, n) ELSE @]
            /\ UNCHANGED <<core, took, wire>>

ApplySync2(p, n) ==
  /\ UNCHANGED <<took, link, stream, wire>>
  /\ IF core[p].stalled
       THEN core' = [core EXCEPT ![p] = pushed(@, n)] /\ End(p, xfer[p], "reply", n)
       ELSE UNCHANGED <<core, ended>>

ApplyPacket(p) ==
  LET pkt == Head(inq[p])
  IN \/ /\ pkt.cmd = "SYNC1"
        /\ ApplySync1(p, pkt.id)
        /\ inq' = [inq EXCEPT ![p] = Tail(@)]
     \/ /\ pkt.cmd = "SYNC2"
        /\ ApplySync2(p, pkt.id)
        /\ inq' = [inq EXCEPT ![p] = Tail(@)]
     \/ /\ pkt.cmd = "DISCONNECT"
        /\ Disconnect(p)
        /\ UNCHANGED took
     \/ /\ pkt.cmd = "VERSION"
        /\ inq' = [inq EXCEPT ![p] = Tail(@)]
        /\ UNCHANGED <<core, ended, took, link, stream, wire>>

\* The poll loop of Link::pump: one packet, or the queue is empty.
PumpPoll(p) ==
  /\ pc[p] = "poll"
  /\ \/ /\ inq[p] # <<>>
        /\ ApplyPacket(p)
        /\ UNCHANGED pc
     \/ /\ inq[p] = <<>>
        /\ pc' = [pc EXCEPT ![p] = "drain"]
        /\ UNCHANGED <<core, ended, took, link, stream, inq, wire>>
  /\ UNCHANGED <<xfer, quick, sessions, replaced>>

(* drain_pending, one buffered byte at a time, after the packets. *)

AnswerPending(p) ==
  LET n == Head(link[p].pending)
  IN /\ link[p].pending # <<>> /\ armed(core[p])
     /\ link' = [link EXCEPT ![p].pending = Tail(@)]
     /\ core' = [core EXCEPT ![p] = swapped(@)]
     /\ Take(p, n)
     /\ Emit(p, <<Pkt("SYNC2", n)>>)
     /\ UNCHANGED <<ended, pc>>

FeedStalled(p) ==
  LET n == Head(link[p].pending)
  IN /\ link[p].pending # <<>> /\ ~armed(core[p]) /\ core[p].stalled
     /\ link' = [link EXCEPT ![p].pending = Tail(@)]
     /\ core' = [core EXCEPT ![p] = pushed(@, n)]
     /\ End(p, xfer[p], "peer master", n)
     /\ Take(p, n)
     /\ UNCHANGED <<wire, pc>>

\* The run loop calls pump_blocking once when the pump leaves the master stalled.
AfterDrain(p) ==
  IF pc[p] = "drain" /\ core[p].stalled /\ is_connected(p) THEN "block" ELSE "run"

\* StopDraining that has already popped the byte it cannot dispatch.
MutStopDropsByte(p) ==
  /\ link[p].pending = <<>> \/ (~armed(core[p]) /\ ~core[p].stalled)
  /\ pc' = [pc EXCEPT ![p] = AfterDrain(p)]
  /\ link' = [link EXCEPT ![p].pending = IF @ = <<>> THEN @ ELSE Tail(@)]
  /\ UNCHANGED <<core, ended, took, wire>>

StopDraining(p) ==
  /\ link[p].pending = <<>> \/ (~armed(core[p]) /\ ~core[p].stalled)
  /\ pc' = [pc EXCEPT ![p] = AfterDrain(p)]
  /\ UNCHANGED <<core, ended, took, link, wire>>

DrainPending(p) ==
  /\ pc[p] \in {"drain", "last"}
  /\ AnswerPending(p) \/ FeedStalled(p) \/ StopDraining(p)
  /\ UNCHANGED <<xfer, stream, inq, quick, sessions, replaced>>

\* Link::pump_blocking: wait for one packet, or time out, and drain again.
PumpBlocking(p) ==
  /\ pc[p] = "block"
  /\ \/ inq[p] # <<>> /\ ApplyPacket(p)
     \/ UNCHANGED <<core, ended, took, link, stream, inq, wire>>
  /\ pc' = [pc EXCEPT ![p] = "last"]
  /\ UNCHANGED <<xfer, quick, sessions, replaced>>
-----------------------------------------------------------------------------
(* The sockets and their threads. *)

\* The user picks Listen or Connect, which the menu offers while there is no
\* socket: the worker waits for its peer.
OpenSocket(p) ==
  /\ pc[p] = "run"
  /\ stream[p] = "none"
  /\ sessions < MaxSessions
  /\ stream' = [stream EXCEPT ![p] = "dialing"]
  /\ link' = [link EXCEPT ![p] = FreshLink]
  /\ UNCHANGED <<core, xfer, ended, took, inq, wire, pc, quick, sessions, replaced>>

\* The connection is established and run_stream starts on both sides; what one
\* UI thread has not pumped yet looks the same to it as a late start.
Establish ==
  /\ \A p \in Peers : stream[p] = "dialing"
  /\ stream' = [p \in Peers |-> "up"]
  /\ wire' = [p \in Peers |-> <<>>]
  /\ sessions' = sessions + 1
  /\ UNCHANGED <<core, xfer, ended, took, link, inq, pc, quick, replaced>>

\* Deliver that ignores the bound of the inbound queue.
MutDeliverNoCap(p) ==
  /\ stream[p] = "up"
  /\ wire[p] # <<>>
  /\ inq' = [inq EXCEPT ![p] = Append(@, Head(wire[p]))]
  /\ wire' = [wire EXCEPT ![p] = Tail(@)]
  /\ UNCHANGED <<core, xfer, ended, took, link, stream, pc, quick, sessions, replaced>>

\* The reader thread decodes a frame; a full queue drops it (try_send).
Deliver(p) ==
  /\ stream[p] = "up"
  /\ wire[p] # <<>>
  /\ inq' = [inq EXCEPT ![p] = IF Len(@) < InCap THEN Append(@, Head(wire[p])) ELSE @]
  /\ wire' = [wire EXCEPT ![p] = Tail(@)]
  /\ UNCHANGED <<core, xfer, ended, took, link, stream, pc, quick, sessions, replaced>>

\* The worker exits: the peer closed and everything it sent has been read.
PeerClosed(p) ==
  /\ stream[p] = "up"
  /\ stream[Other(p)] # "up"
  /\ wire[p] = <<>>
  /\ stream' = [stream EXCEPT ![p] = "dead"]
  /\ UNCHANGED <<core, xfer, ended, took, link, inq, wire, pc, quick, sessions, replaced>>

\* A socket error: the worker exits and what was under way in either direction
\* may be lost.
StreamFails(p) ==
  /\ "fail" \in Faults
  /\ stream[p] = "up"
  /\ stream' = [stream EXCEPT ![p] = "dead"]
  /\ \E n \in 0..Len(wire[Other(p)]) :
       wire' = [wire EXCEPT ![p] = <<>>, ![Other(p)] = SubSeq(@, 1, n)]
  /\ UNCHANGED <<core, xfer, ended, took, link, inq, pc, quick, sessions, replaced>>

\* The user picks Disconnect (or Cancel listen) between two frames.
UserDisconnect(p) ==
  /\ "close" \in Faults
  /\ pc[p] = "run"
  /\ stream[p] # "none"
  /\ Disconnect(p)
  /\ UNCHANGED <<xfer, took, pc, quick, sessions, replaced>>
-----------------------------------------------------------------------------
(* The frontend replaces the machine under the link. *)

Replacing(p, fault) ==
  /\ fault \in Faults
  /\ pc[p] = "run"
  /\ replaced < MaxReplaced
  /\ replaced' = replaced + 1
  /\ UNCHANGED <<xfer, ended, took, link, stream, inq, wire, pc, sessions>>

\* Session::reset, set_model or a new ROM: a fresh GameBoy.
ResetMachine(p) ==
  /\ Replacing(p, "reset")
  /\ core' = [core EXCEPT ![p] = FreshCore]
  /\ UNCHANGED quick

\* GameBoy::load_state: SC comes from the file, the link fields are kept.
LoadState(p) ==
  /\ Replacing(p, "load")
  /\ \E v \in {"idle", "internal", "external"} : core' = [core EXCEPT ![p].sc = v]
  /\ UNCHANGED quick

\* Quick Save and Quick Load clone the whole machine, link fields included.
QuickSave(p) ==
  /\ Replacing(p, "quick")
  /\ quick' = [quick EXCEPT ![p] = <<core[p]>>]
  /\ UNCHANGED core

QuickLoad(p) ==
  /\ Replacing(p, "quick")
  /\ quick[p] # <<>>
  /\ core' = [core EXCEPT ![p] = Head(quick[p])]
  /\ UNCHANGED quick
-----------------------------------------------------------------------------
Game(p) ==
  \/ \E v \in {"idle", "internal", "external"} : WriteSC(p, v)
  \/ MasterDone(p)

Slice(p) == OtherInstruction(p) \/ SliceOver(p)
Pump(p) == PumpHead(p) \/ PumpPoll(p) \/ DrainPending(p) \/ PumpBlocking(p)
Socket(p) == Deliver(p) \/ PeerClosed(p)
Replace(p) == ResetMachine(p) \/ LoadState(p) \/ QuickSave(p) \/ QuickLoad(p)

Next ==
  \/ Establish
  \/ \E p \in Peers : \/ OpenSocket(p) \/ Game(p) \/ Slice(p) \/ Pump(p) \/ Socket(p)
                      \/ StreamFails(p) \/ UserDisconnect(p) \/ Replace(p)

Spec == Init /\ [][Next]_vars

\* The paced loop keeps running slices and pumps, and the socket threads run;
\* what the game, the user and the environment do is not fair.
FairSpec ==
  /\ Spec
  /\ \A p \in Peers : WF_vars(Slice(p) \/ Pump(p)) /\ WF_vars(Socket(p))
-----------------------------------------------------------------------------
\* Every variable stays in its type and every queue within its cap.
TypeOK ==
  /\ core \in [Peers -> Core]
  /\ \A p \in Peers : quick[p] \in Seq(Core) /\ Len(quick[p]) <= 1
  /\ xfer \in [Peers -> XferId]
  /\ \A p \in Peers :
       /\ Len(core[p].link_in) <= OutCap /\ Len(core[p].link_out) <= OutCap
       /\ link[p].attached \in BOOLEAN
       /\ link[p].pending \in Seq(XferId) /\ Len(link[p].pending) <= PendingCap
       /\ inq[p] \in Seq(Packet) /\ Len(inq[p]) <= InCap
       /\ wire[p] \in Seq(Packet)
  /\ stream \in [Peers -> {"none", "dialing", "up", "dead"}]
  /\ took \in [Peers -> XferId]
  /\ pc \in [Peers -> {"run", "step", "pump", "poll", "drain", "block", "last"}]
  /\ sessions \in 0..MaxSessions
  /\ replaced \in 0..MaxReplaced

\* A peer's byte never waits in the core's own incoming queue, where a later
\* master transfer would shift it in (link.rs, pending_master), whatever the game
\* aborts and the user replaces.
CoreQueueStaysEmpty == \A p \in Peers : core[p].link_in = <<>>

\* Once attached, the core has been told so (link.rs, attached).
AttachedCoreIsOn ==
  \A p \in Peers : link[p].attached => core[p].on

\* What is on its way from p to its peer, and bytes p has not shipped yet.
InFlight(p) == inq[Other(p)] \o wire[Other(p)]
SyncsTo(p, c) == {i \in DOMAIN InFlight(p) : InFlight(p)[i].cmd = c}

\* A stalled master is owed a completion: its byte has not been answered yet, an
\* answer or a byte of the peer's own is on its way, or the link is going down
\* (which completes it with the open cable).  No byte is ever lost between the
\* two UI threads, whatever the order of their pumps and of the role changes.
StalledMasterIsOwed ==
  \A p \in Peers : core[p].stalled =>
    LET q == Other(p) IN
    \/ core[p].link_out # <<>>
    \/ SyncsTo(p, "SYNC1") # {} \/ link[q].pending # <<>>
    \/ SyncsTo(q, "SYNC1") # {} \/ SyncsTo(q, "SYNC2") # {} \/ link[p].pending # <<>>
    \/ core[q].link_out # <<>>
    \/ \E r \in Peers : stream[r] # "up"
    \/ SyncsTo(q, "DISCONNECT") # {}

\* A peer runs at most two bytes ahead of the other's port, so the caps of the
\* inbound and pending queues (1024), where bytes are dropped, are out of reach.
AtMostTwoAhead ==
  \A p \in Peers :
    Cardinality(SyncsTo(p, "SYNC1")) + Len(link[Other(p)].pending)
      + Len(core[p].link_out) <= 2

\* Two linked peers cannot wait for each other for ever: a stalled master and an
\* armed slave, or two stalled masters, resolve, and a stall whose connection is
\* gone ends.
NoStandoff ==
  \A p \in Peers : LET q == Other(p) IN
    []<>~(core[p].stalled /\ (armed(core[q]) \/ core[q].stalled \/ stream[p] # "up"
                                \/ stream[q] # "up"))

\* Without aborted transfers the link is a lockstep exchange of bytes.
Exchange == INSTANCE LinkExchange WITH
  sent <- xfer, took <- took,
  held <- [p \in Peers |-> core[p].stalled],
  plugged <- [p \in Peers |-> core[p].on]

ExchangeRefinement == Exchange!ExSpec
=============================================================================

----------------------------- MODULE LinkSocket ------------------------------
(***************************************************************************)
(* The threads of one link endpoint, crates/slopgb/src/link.rs and         *)
(* net_worker.rs: the UI thread that pumps, connects and drops; the socket *)
(* thread of each LinkSocket, which dials or accepts and then reads; and   *)
(* the writer thread that the socket thread starts and joins.              *)
(*                                                                         *)
(* A step ends at every access to what the threads share: the flags stop,  *)
(* connected and finished, the two channels, the TCP stream.  Dialling and *)
(* accepting differ in nothing the flags tell apart.  LinkCable is the     *)
(* protocol these threads carry; here a packet is data or a DISCONNECT.    *)
(***************************************************************************)
EXTENDS Integers, Sequences

CONSTANTS MaxSockets,  \* LinkSockets of a run, made in order
          InCap,       \* IN_QUEUE_CAP
          OutBound     \* packets the model lets wait to be written

ASSUME SocketAssumption ==
  /\ MaxSockets \in Nat \ {0} /\ InCap \in Nat \ {0} /\ OutBound \in Nat \ {0}

Sockets == 1..MaxSockets

VARIABLES link, \* struct Link: its socket (0 for none), attached; the core's peer
          ui,   \* the UI thread: where it is, the socket it drops, and what it loaded
          th,   \* per socket: its thread, the writer thread and the three flags
          chan, \* per socket: the packets in both channels, and whether the UI end is gone
          peer  \* per socket: the other end of the TCP stream is open

vars == <<link, ui, th, chan, peer>>

SocketPc == {"unborn", "establish", "attempt", "setup", "writer", "loop", "read", "stop",
             "clear", "join", "finish", "ended"}
WriterPc == {"none", "check", "recv", "write", "stop", "ended"}
UiPc == {"frame", "pump", "edge", "attached", "apply", "notify", "close", "stop", "join",
         "detach"}
Packet == {"data", "DISCONNECT"}

TypeOK ==
  /\ link \in [socket : Sockets \union {0}, attached : BOOLEAN, core : BOOLEAN]
  /\ ui \in [pc : UiPc, s : Sockets \union {0}, next : Sockets \union {0},
             died : BOOLEAN, reap : BOOLEAN]
  /\ th \in [Sockets -> [pc : SocketPc, writer : WriterPc, stop : BOOLEAN,
                         connected : BOOLEAN, finished : BOOLEAN]]
  /\ chan \in [Sockets -> [out : 0..OutBound, inward : Seq(Packet), closed : BOOLEAN]]
  /\ \A s \in Sockets : Len(chan[s].inward) <= InCap
  /\ peer \in [Sockets -> BOOLEAN]

Idle == [pc |-> "frame", s |-> 0, next |-> 0, died |-> FALSE, reap |-> FALSE]
Init ==
  /\ link = [socket |-> 0, attached |-> FALSE, core |-> FALSE]
  /\ ui = Idle
  /\ th = [s \in Sockets |-> [pc |-> "unborn", writer |-> "none", stop |-> FALSE,
                              connected |-> FALSE, finished |-> FALSE]]
  /\ chan = [s \in Sockets |-> [out |-> 0, inward |-> <<>>, closed |-> FALSE]]
  /\ peer = [s \in Sockets |-> FALSE]

\* Thread s goes on at pc after setting the flags f.
goes(s, pc, f) == th' = [th EXCEPT ![s] = [f EXCEPT !.pc = pc]]
-----------------------------------------------------------------------------
(* The socket thread. *)

\* dial, accept_one: until a peer is there, the socket is dropped, or accept fails.
MutEstablishIgnoresStop(s) == /\ th[s].pc = "establish" /\ goes(s, "attempt", th[s])
                              /\ UNCHANGED <<link, ui, chan, peer>>
Establish(s) == /\ th[s].pc = "establish"
                /\ goes(s, IF th[s].stop THEN "finish" ELSE "attempt", th[s])
                /\ UNCHANGED <<link, ui, chan, peer>>
Attempt(s) ==
  /\ th[s].pc = "attempt"
  /\ \/ goes(s, "establish", th[s]) /\ UNCHANGED peer
     \/ goes(s, "finish", th[s]) /\ UNCHANGED peer
     \/ goes(s, "setup", th[s]) /\ peer' = [peer EXCEPT ![s] = TRUE]
  /\ UNCHANGED <<link, ui, chan>>

\* The timeouts and the second handle of the stream; any of them may fail.
Setup(s) ==
  /\ th[s].pc = "setup"
  /\ \/ goes(s, "finish", th[s])
     \/ goes(s, "writer", [th[s] EXCEPT !.connected = TRUE])
  /\ UNCHANGED <<link, ui, chan, peer>>

\* thread::spawn panics where the system has no thread left, with connected already set.
StartWriter(s) ==
  /\ th[s].pc = "writer"
  /\ \/ goes(s, "loop", [th[s] EXCEPT !.writer = "check"])
     \/ goes(s, "finish", th[s])
  /\ UNCHANGED <<link, ui, chan, peer>>

CheckStop(s) ==
  /\ th[s].pc = "loop"
  /\ goes(s, IF th[s].stop THEN "stop" ELSE "read", th[s])
  /\ UNCHANGED <<link, ui, chan, peer>>

\* try_send: a packet with no room for it, or no receiver, is dropped.
try_send(s, p) ==
  chan' = [chan EXCEPT ![s].inward =
    IF chan[s].closed \/ Len(@) = InCap THEN @ ELSE Append(@, p)]

\* A frame, the read timeout, the peer's close or
\* an error of the stream.
Read(s) ==
  /\ th[s].pc = "read"
  /\ \/ /\ peer[s]
        /\ \E p \in Packet : try_send(s, p)
        /\ goes(s, "loop", th[s])
     \/ peer[s] /\ goes(s, "loop", th[s]) /\ UNCHANGED chan
     \/ goes(s, "stop", th[s]) /\ UNCHANGED chan
  /\ UNCHANGED <<link, ui, peer>>

RaiseStop(s) == /\ th[s].pc = "stop" /\ goes(s, "clear", [th[s] EXCEPT !.stop = TRUE])
                /\ UNCHANGED <<link, ui, chan, peer>>
ClearConnected(s) == /\ th[s].pc = "clear"
                     /\ goes(s, "join", [th[s] EXCEPT !.connected = FALSE])
                     /\ UNCHANGED <<link, ui, chan, peer>>
MutJoinNothing(s) == /\ th[s].pc = "join" /\ goes(s, "finish", th[s])
                     /\ UNCHANGED <<link, ui, chan, peer>>
JoinWriter(s) == /\ th[s].pc = "join" /\ th[s].writer = "ended"
                 /\ goes(s, "finish", th[s])
                 /\ UNCHANGED <<link, ui, chan, peer>>
\* FinishGuard, which a panic runs too.
Finish(s) == /\ th[s].pc = "finish" /\ goes(s, "ended", [th[s] EXCEPT !.finished = TRUE])
             /\ UNCHANGED <<link, ui, chan, peer>>
-----------------------------------------------------------------------------
(* The writer thread. *)

writes(s, pc) == th' = [th EXCEPT ![s].writer = pc]
WriterCheck(s) == /\ th[s].writer = "check"
                  /\ writes(s, IF th[s].stop THEN "ended" ELSE "recv")
                  /\ UNCHANGED <<link, ui, chan, peer>>
\* recv_timeout: a closed channel still hands out what it holds.
WriterRecv(s) ==
  /\ th[s].writer = "recv"
  /\ \/ /\ chan[s].out > 0
        /\ chan' = [chan EXCEPT ![s].out = @ - 1] /\ writes(s, "write")
     \/ /\ chan[s].out = 0
        /\ writes(s, IF chan[s].closed THEN "ended" ELSE "check") /\ UNCHANGED chan
  /\ UNCHANGED <<link, ui, peer>>
WriterWrite(s) == /\ th[s].writer = "write"
                  /\ \E pc \in {"check", "stop"} : writes(s, pc)
                  /\ UNCHANGED <<link, ui, chan, peer>>
WriterStop(s) == /\ th[s].writer = "stop"
                 /\ th' = [th EXCEPT ![s].stop = TRUE, ![s].writer = "ended"]
                 /\ UNCHANGED <<link, ui, chan, peer>>

PeerCloses(s) == /\ peer[s] /\ peer' = [peer EXCEPT ![s] = FALSE]
                 /\ UNCHANGED <<link, ui, th, chan>>
-----------------------------------------------------------------------------
(* The UI thread. *)

Made == {s \in Sockets : th[s].pc # "unborn"}
emitted(s) == chan' = [chan EXCEPT ![s].out = IF @ < OutBound THEN @ + 1 ELSE @]
at(pc) == ui' = [ui EXCEPT !.pc = pc]

MutResetKeepsAttached(s) == [link EXCEPT !.socket = s]
reset_to(s) == [link EXCEPT !.socket = s, !.attached = FALSE]

\* listen_on, connect: the new socket and its thread first, then the old one is dropped.
Connect(s) ==
  /\ ui.pc = "frame"
  /\ s \in Sockets \ Made /\ \A r \in Sockets \ Made : s <= r
  /\ goes(s, "establish", th[s])
  /\ IF link.socket = 0
     THEN link' = reset_to(s) /\ UNCHANGED ui
     ELSE /\ ui' = [Idle EXCEPT !.pc = "close", !.s = link.socket, !.next = s]
          /\ UNCHANGED link
  /\ UNCHANGED <<chan, peer>>

\* disconnect: with a socket, from the menu or from pump (reap), or on a DISCONNECT.
MenuDisconnect == /\ ui.pc = "frame" /\ link.socket # 0
                  /\ ui' = [Idle EXCEPT !.pc = "notify", !.s = link.socket]
                  /\ UNCHANGED <<link, th, chan, peer>>
Notify == /\ ui.pc = "notify"
          /\ IF link.attached THEN emitted(ui.s) ELSE UNCHANGED chan
          /\ at("close")
          /\ UNCHANGED <<link, th, peer>>

\* The drop of a LinkSocket, field by field: the channels, then ReapedWorker's Drop.
DropChannels == /\ ui.pc = "close" /\ at("stop")
                /\ chan' = [chan EXCEPT ![ui.s].closed = TRUE, ![ui.s].inward = <<>>]
                /\ UNCHANGED <<link, th, peer>>
DropStop == /\ ui.pc = "stop" /\ at("join")
            /\ th' = [th EXCEPT ![ui.s].stop = TRUE]
            /\ UNCHANGED <<link, chan, peer>>
DropJoin == /\ ui.pc = "join" /\ th[ui.s].pc = "ended"
            /\ link' = reset_to(ui.next)
            /\ ui' = IF ui.next = 0 THEN [ui EXCEPT !.pc = "detach"] ELSE Idle
            /\ UNCHANGED <<th, chan, peer>>
Detach == /\ ui.pc = "detach"
          /\ link' = [link EXCEPT !.core = FALSE] /\ ui' = Idle
          /\ UNCHANGED <<th, chan, peer>>

\* pump: is_finished, is_connected for the worker, is_connected for the edge, and again
\* before anything is sent; each is a load of its own.
PumpFinished == /\ ui.pc = "frame" /\ link.socket # 0
                /\ ui' = [Idle EXCEPT !.s = link.socket,
                       !.pc = IF th[link.socket].finished THEN "pump" ELSE "edge"]
                /\ UNCHANGED <<link, th, chan, peer>>
MutDiedIsAttached == /\ ui.pc = "pump"
                     /\ ui' = [ui EXCEPT !.died = link.attached /\ ~th[ui.s].connected,
                                         !.pc = "edge"]
                     /\ UNCHANGED <<link, th, chan, peer>>
PumpDied == /\ ui.pc = "pump"
            /\ ui' = [ui EXCEPT !.died = ~th[ui.s].connected, !.pc = "edge"]
            /\ UNCHANGED <<link, th, chan, peer>>
PumpEdge == /\ ui.pc = "edge"
            /\ ui' = IF (link.attached /\ ~th[ui.s].connected) \/ ui.died
                     THEN [ui EXCEPT !.pc = "notify", !.reap = TRUE]
                     ELSE [ui EXCEPT !.pc = "attached"]
            /\ UNCHANGED <<link, th, chan, peer>>
\* ship: the core had a byte to send.
PumpAttach(ship) ==
  /\ ui.pc = "attached"
  /\ IF ~th[ui.s].connected THEN ui' = Idle /\ UNCHANGED <<link, chan>>
     ELSE /\ at("apply") /\ link' = [link EXCEPT !.attached = TRUE, !.core = TRUE]
          /\ IF ship \/ ~link.attached THEN emitted(ui.s) ELSE UNCHANGED chan
  /\ UNCHANGED <<th, peer>>
\* A DISCONNECT drops the socket, after which nothing is left to poll; any other packet may
\* be answered.
PumpApply(reply) ==
  /\ ui.pc = "apply"
  /\ LET inward == chan[ui.s].inward
     IN  CASE inward = <<>> -> ui' = Idle /\ UNCHANGED chan
           [] inward # <<>> /\ Head(inward) = "DISCONNECT" ->
                /\ at("notify") /\ chan' = [chan EXCEPT ![ui.s].inward = Tail(@)]
           [] OTHER ->
                /\ chan' = [chan EXCEPT ![ui.s].inward = Tail(@),
                     ![ui.s].out = IF reply /\ @ < OutBound THEN @ + 1 ELSE @]
                /\ UNCHANGED ui
  /\ UNCHANGED <<link, th, peer>>
-----------------------------------------------------------------------------
SocketThread(s) ==
  \/ Establish(s) \/ Attempt(s) \/ Setup(s) \/ StartWriter(s) \/ CheckStop(s) \/ Read(s)
  \/ RaiseStop(s) \/ ClearConnected(s) \/ JoinWriter(s) \/ Finish(s)
WriterThread(s) == WriterCheck(s) \/ WriterRecv(s) \/ WriterWrite(s) \/ WriterStop(s)
Pump == \/ PumpFinished \/ PumpDied \/ PumpEdge
        \/ \E b \in BOOLEAN : PumpAttach(b) \/ PumpApply(b)
        \/ Notify \/ DropChannels \/ DropStop \/ DropJoin \/ Detach
Menu == MenuDisconnect \/ \E s \in Sockets : Connect(s)

Next == \/ \E s \in Sockets : SocketThread(s) \/ WriterThread(s) \/ PeerCloses(s)
        \/ Pump \/ Menu

\* Every thread is scheduled and its blocking calls time out; the UI pumps every frame.
\* A peer owes nothing.
Fairness == /\ WF_vars(Pump)
            /\ \A s \in Sockets : WF_vars(SocketThread(s)) /\ WF_vars(WriterThread(s))
Spec == Init /\ [][Next]_vars /\ Fairness
-----------------------------------------------------------------------------
(* What the threads promise. *)

Gone(s) == s \in Made /\ s # link.socket /\ s # ui.s /\ s # ui.next
\* A socket that has been replaced or disconnected left no thread behind: whatever either
\* was doing when the drop came, the joins waited for both (net_worker.rs:59, link.rs:372).
NoThreadOutlivesItsSocket ==
  \A s \in Sockets : Gone(s) => th[s].pc = "ended" /\ th[s].writer \in {"none", "ended"}

\* pump never takes a socket down that is still being made or at work, whichever loads of
\* the flags it mixed: only one whose thread has left its loop (link.rs:518-525).
ReapsOnlyTheDead ==
  ui.reap => th[ui.s].pc \in {"join", "finish", "ended"}

\* A drop ends, so that neither Disconnect nor a new link hangs the UI (net_worker.rs:59).
DropEnds == ui.pc = "join" ~> ui.pc # "join"

\* A socket whose thread ended by itself, connected before or never, is dropped by a later
\* pump (link.rs:512-525).  A thread that panicked between setting connected and starting
\* the writer is exempt: pump's two tests ask for connected to have fallen, which that thread
\* never clears.
DeadIsReaped ==
  \A s \in Sockets :
    (link.socket = s /\ th[s].finished /\ ~th[s].connected) ~> (link.socket # s)
=============================================================================
